-------------------------- MODULE ReportPipelineProofs --------------------------
(***************************************************************************)
(* Theorems about ReportPipeline, for any funds, number of documents and   *)
(* commands.  What is proved of the look-through and of the rows holds     *)
(* beside any number of qdii sync-reports; that a status is backed by rows *)
(* and issues is proved of a worker that is alone.                         *)
(***************************************************************************)
EXTENDS ReportPipeline, TLAPS

Places == {"idle", "sync", "discover", "download",
           "open", "reopen", "parse", "reparse", "calculate"}

\* The part of TypeOK about the processes.
ProcessTypes ==
    /\ pc \in [Processes -> Places]
    /\ todo \in [Processes -> SUBSET Funds]
    /\ turn \in [Processes -> SUBSET Funds]
    /\ found \in [Processes -> AnyVersion]
    /\ loaded \in [Processes -> [Funds -> Columns]]

\* Zero is a version, and a report without a row has one of the Columns.
LEMMA Blank ==
  /\ NoVersion \in AnyVersion /\ NoRow \in Columns
  /\ NothingLoaded \in [Funds -> Columns] /\ NotCalculated \in [Funds -> AnyVersion]
<1>1. NoVersion \in AnyVersion  BY ConstantsAssumption DEF NoVersion, AnyVersion
<1>2. NoRow \in Columns  BY <1>1 DEF NoRow, Columns, StatusValues
<1> QED  BY <1>1, <1>2 DEF NothingLoaded, NotCalculated

\* What a session loads of a report.
LEMMA ReportTyped ==
  ASSUME TypeOK, NEW f \in Funds
  PROVE  Report(f) \in Columns
BY DEF TypeOK, Report, Columns

\* A column keeps its values whatever the session had loaded.
LEMMA ColumnTyped ==
  ASSUME NEW S, NEW old \in S, NEW new \in S, NEW was
  PROVE  Column(old, was, new) \in S
BY DEF Column

\* Nobody has begun anything.
LEMMA InitTypes == Init => TypeOK
BY Blank, ConstantsAssumption
DEF Init, TypeOK, StatusValues, Columns, AnyVersion, NoVersion

\* The three ways a process goes on keep its types.
LEMMA BeginTurnTypes ==
  ASSUME ProcessTypes, NEW p \in Processes, NEW f \in Funds, NEW label \in Places,
         BeginTurn(p, f, label),
         found' \in [Processes -> AnyVersion],
         loaded' \in [Processes -> [Funds -> Columns]]
  PROVE  ProcessTypes'
BY DEF ProcessTypes, BeginTurn

LEMMA EndTurnTypes ==
  ASSUME ProcessTypes, NEW p \in Processes, NEW f \in Funds, NEW label \in Places,
         EndTurn(p, f, label)
  PROVE  ProcessTypes'
<1>1. loaded[p] \in [Funds -> Columns]  BY DEF ProcessTypes
<1>2. [loaded[p] EXCEPT ![f] = NoRow] \in [Funds -> Columns]  BY <1>1, Blank
<1>3. loaded' = [loaded EXCEPT ![p] = [loaded[p] EXCEPT ![f] = NoRow]]
  BY DEF EndTurn, ProcessTypes
<1>4. loaded' \in [Processes -> [Funds -> Columns]]  BY <1>2, <1>3 DEF ProcessTypes
<1> QED  BY <1>4, Blank DEF ProcessTypes, EndTurn

LEMMA CloseTypes ==
  ASSUME ProcessTypes, NEW p \in Processes, Close(p)
  PROVE  ProcessTypes'
BY Blank DEF ProcessTypes, Close, Places

\* What the helpers of a commit do to their column.
LEMMA CommitTypes ==
  ASSUME TypeOK, NEW p \in Processes, NEW f \in Funds
  PROVE  /\ \A s \in StatusValues : SetStatus(p, f, s) => status' \in [Funds -> StatusValues]
         /\ SetDisclosed(p, f) => disclosed' \in [Funds -> AnyVersion]
         /\ SetDocument(p, f) => document' \in [Funds -> AnyVersion]
         /\ \A opened, resolved \in SUBSET (SyncIssues \cup ParseIssues) :
               Issues(f, opened, resolved) =>
                   issues' \in [Funds -> SUBSET (SyncIssues \cup ParseIssues)]
<1>1. found[p] \in AnyVersion /\ status[f] \in StatusValues
      /\ disclosed[f] \in AnyVersion /\ document[f] \in AnyVersion
  BY DEF TypeOK
<1>2. ASSUME NEW s \in StatusValues, SetStatus(p, f, s)
      PROVE  status' \in [Funds -> StatusValues]
  BY <1>1, <1>2, ColumnTyped DEF SetStatus, TypeOK
<1>3. SetDisclosed(p, f) => disclosed' \in [Funds -> AnyVersion]
  BY <1>1, ColumnTyped DEF SetDisclosed, TypeOK
<1>4. SetDocument(p, f) => document' \in [Funds -> AnyVersion]
  BY <1>1, ColumnTyped DEF SetDocument, TypeOK
<1>5. ASSUME NEW opened \in SUBSET (SyncIssues \cup ParseIssues),
             NEW resolved \in SUBSET (SyncIssues \cup ParseIssues),
             Issues(f, opened, resolved)
      PROVE  issues' \in [Funds -> SUBSET (SyncIssues \cup ParseIssues)]
  BY <1>5 DEF Issues, TypeOK
<1> QED  BY <1>2, <1>3, <1>4, <1>5

\* Every step of sync_reports keeps the types.
LEMMA SyncTypes ==
  ASSUME TypeOK, NEW p \in Processes, NEW f \in Funds,
         \/ Load(p, f) \/ NotDiscovered(p, f) \/ DiscoverFails(p, f)
         \/ Discover(p, f) \/ Download(p, f) \/ DownloadFails(p, f)
  PROVE  TypeOK'
<1>0. ProcessTypes  BY DEF TypeOK, ProcessTypes, Places
<1>1. SUFFICES /\ ProcessTypes'
               /\ published' = published /\ rows' = rows /\ lookthrough' = lookthrough
               /\ status' \in [Funds -> StatusValues]
               /\ disclosed' \in [Funds -> AnyVersion]
               /\ document' \in [Funds -> AnyVersion]
               /\ issues' \in [Funds -> SUBSET (SyncIssues \cup ParseIssues)]
  BY DEF TypeOK, ProcessTypes, Places
<1>2. {"sync", "discover", "download"} \subseteq Places  BY DEF Places
<1>3. {"unresolved", "failed_with_reason", "downloaded", "parsed"} \subseteq StatusValues
  BY DEF StatusValues
<1>4. /\ {"REPORT_NOT_DISCOVERED"} \subseteq SyncIssues \cup ParseIssues
      /\ {"REPORT_SYNC_FAILED"} \subseteq SyncIssues \cup ParseIssues
      /\ SyncIssues \subseteq SyncIssues \cup ParseIssues
  BY DEF SyncIssues
<1>5. CASE Load(p, f)
  <2>1. loaded' \in [Processes -> [Funds -> Columns]]
    <3>1. [loaded[p] EXCEPT ![f] = Report(f)] \in [Funds -> Columns]
      BY ReportTyped, <1>0 DEF ProcessTypes
    <3>2. loaded' = [loaded EXCEPT ![p] = [loaded[p] EXCEPT ![f] = Report(f)]]
      BY <1>5 DEF Load
    <3> QED  BY <3>1, <3>2, <1>0 DEF ProcessTypes
  <2>2. found' \in [Processes -> AnyVersion]  BY <1>5, <1>0 DEF Load, ProcessTypes
  <2>3. ProcessTypes'  BY <1>5, <1>0, <1>2, <2>1, <2>2, BeginTurnTypes DEF Load
  <2> QED  BY <1>5, <2>3 DEF Load, TypeOK, rowVars
<1>6. CASE NotDiscovered(p, f)
  BY <1>6, <1>0, <1>2, <1>3, <1>4, EndTurnTypes, CommitTypes DEF NotDiscovered, TypeOK
<1>7. CASE DiscoverFails(p, f)
  BY <1>7, <1>0, <1>2, <1>3, <1>4, EndTurnTypes, CommitTypes DEF DiscoverFails, TypeOK
<1>8. CASE Discover(p, f)
  <2>1. ProcessTypes'
    BY <1>8, <1>0, <1>2 DEF Discover, ProcessTypes, TypeOK
  <2> QED  BY <1>8, <2>1 DEF Discover, TypeOK, rowVars
<1>9. CASE Download(p, f)
  <2>1. DownloadedStatus(loaded[p][f], found[p]) \in StatusValues
    BY <1>3 DEF DownloadedStatus
  <2> QED
    BY <1>9, <2>1, <1>0, <1>2, <1>4, EndTurnTypes, CommitTypes DEF Download, TypeOK
<1>10. CASE DownloadFails(p, f)
  BY <1>10, <1>0, <1>2, <1>3, <1>4, EndTurnTypes, CommitTypes DEF DownloadFails, TypeOK
<1> QED  BY <1>5, <1>6, <1>7, <1>8, <1>9, <1>10

\* Every step of parse_reports for one fund keeps the types.
LEMMA ParseTypes ==
  ASSUME TypeOK, NEW p \in Processes, NEW f \in Funds,
         Open(p, f) \/ SourceMissing(p, f) \/ Parse(p, f) \/ ParseFails(p, f)
  PROVE  TypeOK'
<1>0. ProcessTypes  BY DEF TypeOK, ProcessTypes, Places
<1>1. SUFFICES /\ ProcessTypes'
               /\ published' = published
               /\ status' \in [Funds -> StatusValues]
               /\ disclosed' \in [Funds -> AnyVersion]
               /\ document' \in [Funds -> AnyVersion]
               /\ rows' \in [Funds -> AnyVersion]
               /\ lookthrough' \in [Funds -> [Funds -> AnyVersion]]
               /\ issues' \in [Funds -> SUBSET (SyncIssues \cup ParseIssues)]
  BY DEF TypeOK, ProcessTypes, Places
<1>2. {"open", "reopen", "parse", "reparse"} \subseteq Places /\ Loop(p) \in Places
  BY DEF Places, Loop
<1>3. {"unresolved", "failed_with_reason", "parsed"} \subseteq StatusValues
  BY DEF StatusValues
<1>4. /\ {"REPORT_SOURCE_MISSING"} \subseteq SyncIssues \cup ParseIssues
      /\ {"REPORT_PARSE_FAILED"} \subseteq SyncIssues \cup ParseIssues
      /\ SUBSET {"PARSER_QUALITY"} \subseteq SUBSET (SyncIssues \cup ParseIssues)
      /\ ParseIssues \subseteq SyncIssues \cup ParseIssues
  BY DEF ParseIssues
<1>5. CASE Open(p, f)
  <2> DEFINE report == IF pc[p] = "open" THEN loaded[p][f] ELSE Report(f)
  <2>1. loaded' \in [Processes -> [Funds -> Columns]]
    <3>1. [loaded[p] EXCEPT ![f] = report] \in [Funds -> Columns]
      BY ReportTyped, <1>0 DEF ProcessTypes
    <3>2. loaded' = [loaded EXCEPT ![p] = [loaded[p] EXCEPT ![f] = report]]
      BY <1>5 DEF Open
    <3> QED  BY <3>1, <3>2, <1>0 DEF ProcessTypes
  <2>2. loaded'[p][f].document \in AnyVersion  BY <2>1 DEF Columns
  <2>3. found' \in [Processes -> AnyVersion]  BY <1>5, <1>0, <2>2 DEF Open, ProcessTypes
  <2>4. ProcessTypes'  BY <1>5, <1>0, <1>2, <2>1, <2>3, BeginTurnTypes DEF Open
  <2> QED  BY <1>5, <2>4 DEF Open, TypeOK, rowVars
<1>6. CASE SourceMissing(p, f)
  BY <1>6, <1>0, <1>2, <1>3, <1>4, EndTurnTypes, CommitTypes DEF SourceMissing, TypeOK
<1>7. CASE Parse(p, f)
  <2>1. /\ rows' \in [Funds -> AnyVersion]
        /\ lookthrough' \in [Funds -> [Funds -> AnyVersion]]
    BY <1>7, Blank DEF Parse, ReplaceRows, TypeOK
  <2> QED
    BY <1>7, <2>1, <1>0, <1>2, <1>3, <1>4, EndTurnTypes, CommitTypes DEF Parse, TypeOK
<1>8. CASE ParseFails(p, f)
  <2>1. status' \in [Funds -> StatusValues]  BY <1>8, <1>3 DEF ParseFails, TypeOK
  <2> QED
    BY <1>8, <2>1, <1>0, <1>2, <1>4, EndTurnTypes, CommitTypes DEF ParseFails, TypeOK
<1> QED  BY <1>5, <1>6, <1>7, <1>8

\* So does a process that starts, goes over to the look-through, or ends.
LEMMA LoopTypes ==
  ASSUME TypeOK, NEW p \in Processes,
         \/ \E codes \in SUBSET Funds : StartSync(p, codes) \/ StartParse(p, codes)
         \/ EndSync(p) \/ EndParse(p) \/ Calculate(p) \/ Die(p)
  PROVE  TypeOK'
<1>0. ProcessTypes  BY DEF TypeOK, ProcessTypes, Places
<1>1. {"sync", "open", "calculate"} \subseteq Places  BY DEF Places
<1>2. CASE \E codes \in SUBSET Funds : StartSync(p, codes)
  <2>1. ProcessTypes'  BY <1>2, <1>0, <1>1 DEF StartSync, ProcessTypes
  <2> QED  BY <1>2, <2>1 DEF StartSync, TypeOK, rowVars, ProcessTypes, Places
<1>3. CASE \E codes \in SUBSET Funds : StartParse(p, codes)
  <2>1. PICK codes \in SUBSET Funds : StartParse(p, codes)  BY <1>3
  <2>2. [f \in Funds |-> IF f \in codes THEN Report(f) ELSE NoRow] \in [Funds -> Columns]
    BY ReportTyped, Blank
  <2>3. {f \in codes : status[f] # "none"} \in SUBSET Funds  OBVIOUS
  <2>4. ProcessTypes'  BY <2>1, <2>2, <2>3, <1>0, <1>1 DEF StartParse, ProcessTypes
  <2> QED  BY <2>1, <2>4 DEF StartParse, TypeOK, rowVars, ProcessTypes, Places
<1>4. CASE EndSync(p)
  <2>1. ProcessTypes'  BY <1>4, <1>0, CloseTypes DEF EndSync
  <2> QED  BY <1>4, <2>1 DEF EndSync, TypeOK, rowVars, ProcessTypes, Places
<1>5. CASE EndParse(p)
  <2>1. ProcessTypes'  BY <1>5, <1>0, <1>1 DEF EndParse, ProcessTypes
  <2> QED  BY <1>5, <2>1 DEF EndParse, TypeOK, rowVars, ProcessTypes, Places
<1>6. CASE Calculate(p)
  <2>1. ProcessTypes'  BY <1>6, <1>0, CloseTypes DEF Calculate
  <2>2. ParsedRows \in [Funds -> AnyVersion]  BY Blank DEF ParsedRows, TypeOK
  <2>3. lookthrough' \in [Funds -> [Funds -> AnyVersion]]
    BY <1>6, <2>2 DEF Calculate, TypeOK
  <2> QED  BY <1>6, <2>1, <2>3 DEF Calculate, TypeOK, ProcessTypes, Places
<1>7. CASE Die(p)
  <2>1. ProcessTypes'  BY <1>7, <1>0, CloseTypes DEF Die
  <2> QED  BY <1>7, <2>1 DEF Die, TypeOK, rowVars, ProcessTypes, Places
<1> QED  BY <1>2, <1>3, <1>4, <1>5, <1>6, <1>7

\* A provider publishes no more than Versions documents.
LEMMA PublishTypes ==
  ASSUME TypeOK, NEW f \in Funds, Publish(f)
  PROVE  TypeOK'
<1>1. published[f] + 1 \in AnyVersion
  BY ConstantsAssumption DEF Publish, TypeOK, AnyVersion
<1>2. published' \in [Funds -> AnyVersion]  BY <1>1 DEF Publish, TypeOK
<1> QED  BY <1>2 DEF Publish, TypeOK, rowVars

LEMMA StepTypes == TypeOK /\ [Next]_vars => TypeOK'
<1> SUFFICES ASSUME TypeOK, [Next]_vars  PROVE TypeOK'
  OBVIOUS
<1>1. Worker \in Processes  BY DEF Processes
<1>2. CASE Next
  BY <1>1, <1>2, SyncTypes, ParseTypes, LoopTypes, PublishTypes DEF Next
<1>3. CASE UNCHANGED vars  BY <1>3 DEF vars, rowVars, TypeOK
<1> QED  BY <1>2, <1>3

\* Every variable keeps its type, beside any number of commands.
THEOREM TypeCorrect == Spec => []TypeOK
BY InitTypes, StepTypes, PTL DEF Spec

-----------------------------------------------------------------------------
(* The look-through.                                                        *)

\* A status that a commit sets to "parsed" was so before, unless the rows are new:
\* a column that is not set anew keeps what it has.
LEMMA StatusAfter ==
  ASSUME TypeOK, NEW p \in Processes, NEW f \in Funds,
         NEW s \in StatusValues, SetStatus(p, f, s),
         s = "parsed" => loaded[p][f].status = "parsed",
         NEW g \in Funds, status'[g] = "parsed"
  PROVE  status[g] = "parsed"
BY DEF TypeOK, SetStatus, Column

\* Steps of the commands, and of the worker's sync, make no report parsed.
LEMMA SyncParsesNothing ==
  ASSUME TypeOK, NEW p \in Processes, NEW f \in Funds,
         \/ Load(p, f) \/ NotDiscovered(p, f) \/ DiscoverFails(p, f)
         \/ Discover(p, f) \/ Download(p, f) \/ DownloadFails(p, f)
         \/ Open(p, f) \/ SourceMissing(p, f) \/ ParseFails(p, f),
         NEW g \in Funds, status'[g] = "parsed"
  PROVE  status[g] = "parsed"
<1>1. {"unresolved", "failed_with_reason", "downloaded", "parsed"} \subseteq StatusValues
  BY DEF StatusValues
<1>2. CASE Load(p, f) \/ Discover(p, f) \/ Open(p, f)
  BY <1>2 DEF Load, Discover, Open, rowVars
<1>3. CASE NotDiscovered(p, f) \/ DiscoverFails(p, f) \/ DownloadFails(p, f)
  BY <1>1, <1>3, StatusAfter DEF NotDiscovered, DiscoverFails, DownloadFails
<1>4. CASE Download(p, f)
  <2> DEFINE s == DownloadedStatus(loaded[p][f], found[p])
  <2>1. s \in StatusValues /\ (s = "parsed" => loaded[p][f].status = "parsed")
    BY <1>1 DEF DownloadedStatus
  <2>2. SetStatus(p, f, s)  BY <1>4 DEF Download
  <2> HIDE DEF s
  <2> QED  BY <2>1, <2>2, StatusAfter
<1>5. CASE SourceMissing(p, f)
  <2> DEFINE was == loaded[p][f].status
             s == IF was \in {"unresolved", "failed_with_reason"} THEN was ELSE "unresolved"
  <2>1. s \in StatusValues /\ s # "parsed"  BY <1>1
  <2>2. SetStatus(p, f, s)  BY <1>5 DEF SourceMissing
  <2> HIDE DEF s
  <2> QED  BY <2>1, <2>2, StatusAfter
<1>6. CASE ParseFails(p, f)  BY <1>6 DEF ParseFails, TypeOK
<1> QED  BY <1>2, <1>3, <1>4, <1>5, <1>6

\* What a report's look-through was computed from cannot become another's while
\* no report becomes parsed and no rows change.
LEMMA GenerationKept ==
  ASSUME TypeOK, OneGeneration, UNCHANGED <<rows, lookthrough>>,
         \A g \in Funds : status'[g] = "parsed" => status[g] = "parsed"
  PROVE  OneGeneration'
BY DEF OneGeneration

\* _replace_report_rows deletes the look-through of the report with its rows.
LEMMA ParseGeneration ==
  ASSUME TypeOK, OneGeneration, NEW p \in Processes, NEW f \in Funds, Parse(p, f)
  PROVE  OneGeneration'
<1>1. /\ lookthrough'[f] = NotCalculated
      /\ \A g \in Funds \ {f} : lookthrough'[g] = lookthrough[g] /\ rows'[g] = rows[g]
  BY DEF Parse, ReplaceRows, TypeOK
<1>2. \A g \in Funds \ {f} : status'[g] = status[g]
  BY DEF Parse, SetStatus, TypeOK
<1> QED  BY <1>1, <1>2 DEF OneGeneration

\* calculate_and_store_lookthrough writes all of them in one commit.
LEMMA CalculateGeneration ==
  ASSUME TypeOK, NEW p \in Processes, Calculate(p)
  PROVE  OneGeneration'
<1>1. /\ status' = status /\ rows' = rows
      /\ \A f \in Funds : status[f] = "parsed" => lookthrough'[f] = ParsedRows
  BY DEF Calculate, NeedsCalculation
<1>2. \A f \in Funds : status[f] = "parsed" => ParsedRows[f] = rows[f]  BY DEF ParsedRows
<1> QED  BY <1>1, <1>2 DEF OneGeneration

LEMMA StepGeneration ==
  TypeOK /\ OneGeneration /\ [Next]_vars => OneGeneration'
<1> SUFFICES ASSUME TypeOK, OneGeneration, [Next]_vars  PROVE OneGeneration'
  OBVIOUS
<1>1. Worker \in Processes  BY DEF Processes
<1>2. ASSUME NEW p \in Processes, NEW codes \in SUBSET Funds,
             StartSync(p, codes) \/ StartParse(p, codes)
      PROVE  OneGeneration'
  BY <1>2, GenerationKept DEF StartSync, StartParse, rowVars
<1>3. ASSUME NEW p \in Processes, NEW f \in Funds,
             \/ Load(p, f) \/ NotDiscovered(p, f) \/ DiscoverFails(p, f)
             \/ Discover(p, f) \/ Download(p, f) \/ DownloadFails(p, f)
             \/ Open(p, f) \/ SourceMissing(p, f) \/ ParseFails(p, f)
      PROVE  OneGeneration'
  <2>1. \A g \in Funds : status'[g] = "parsed" => status[g] = "parsed"
    BY <1>3, SyncParsesNothing
  <2>2. UNCHANGED <<rows, lookthrough>>
    BY <1>3 DEF Load, NotDiscovered, DiscoverFails, Discover, Download, DownloadFails,
                Open, SourceMissing, ParseFails, rowVars
  <2> QED  BY <2>1, <2>2, GenerationKept
<1>4. ASSUME NEW p \in Processes, NEW f \in Funds, Parse(p, f)
      PROVE  OneGeneration'
  BY <1>4, ParseGeneration
<1>5. ASSUME NEW p \in Processes, EndSync(p) \/ EndParse(p) \/ Die(p)
      PROVE  OneGeneration'
  BY <1>5, GenerationKept DEF EndSync, EndParse, Die, rowVars
<1>6. ASSUME NEW p \in Processes, Calculate(p)
      PROVE  OneGeneration'
  BY <1>6, CalculateGeneration
<1>7. ASSUME NEW f \in Funds, Publish(f)
      PROVE  OneGeneration'
  BY <1>7, GenerationKept DEF Publish, rowVars
<1>8. CASE UNCHANGED vars
  BY <1>8, GenerationKept DEF vars, rowVars
<1>9. CASE Next
  BY <1>1, <1>2, <1>3, <1>4, <1>5, <1>6, <1>7, <1>9 DEF Next
<1> QED  BY <1>8, <1>9

LEMMA InitGeneration == Init => OneGeneration
BY DEF Init, OneGeneration

\* Look-through results shown side by side come from one calculation, and a
\* report's own result from the rows it has (_replace_report_rows,
\* calculate_and_store_lookthrough), whatever commands run beside the worker.
THEOREM SideBySide == Spec => []OneGeneration
BY InitTypes, StepTypes, InitGeneration, StepGeneration, PTL DEF Spec

\* When all reports are parsed and calculated (preparation_status), the one
\* calculation they come from is of the rows there are.
LEMMA AllOfOne == TypeOK /\ OneGeneration => ReadyMeansFresh
<1> SUFFICES ASSUME TypeOK, OneGeneration,
                    \A f \in Funds : status[f] = "parsed" /\ lookthrough[f] # NotCalculated,
                    NEW f \in Funds
             PROVE  lookthrough[f] = rows
  BY DEF ReadyMeansFresh
<1>1. \A g \in Funds : lookthrough[f][g] = rows[g]  BY DEF OneGeneration
<1>2. lookthrough[f] \in [Funds -> AnyVersion] /\ rows \in [Funds -> AnyVersion]
  BY DEF TypeOK
<1> QED  BY <1>1, <1>2

\* "Ready" is never said of look-throughs computed from older rows.
THEOREM ReadyIsFresh == Spec => []ReadyMeansFresh
BY InitTypes, StepTypes, InitGeneration, StepGeneration, AllOfOne, PTL DEF Spec

-----------------------------------------------------------------------------
(* Rows.                                                                    *)

\* One step: rows are only ever replaced by those of a document that was read.
LEMMA StepKeepsRows ==
  TypeOK /\ [Next]_vars => [\A f \in Funds : rows[f] # NoVersion => rows'[f] # NoVersion]_vars
<1> SUFFICES ASSUME TypeOK, [Next]_vars, NEW f \in Funds, rows[f] # NoVersion
             PROVE  rows'[f] # NoVersion
  OBVIOUS
<1>1. ASSUME NEW p \in Processes, NEW g \in Funds, Parse(p, g)
      PROVE  rows'[f] # NoVersion
  BY <1>1 DEF Parse, ReplaceRows, TypeOK
<1>2. CASE rows' = rows  BY <1>2
<1>3. ~ (\E p \in Processes, g \in Funds : Parse(p, g)) => rows' = rows
  BY DEF Next, vars, rowVars, StartSync, StartParse, Load, NotDiscovered, DiscoverFails,
         Discover, Download, DownloadFails, Open, SourceMissing, ParseFails, EndSync,
         EndParse, Calculate, Die, Publish
<1> QED  BY <1>1, <1>2, <1>3

\* Whatever fails, the last rows that could be parsed stay: the rollback of
\* parse_reports undoes the deletion, beside any commands.
THEOREM RowsKept == Spec => RowsAreNotLost
BY InitTypes, StepTypes, StepKeepsRows, PTL DEF Spec, RowsAreNotLost

-----------------------------------------------------------------------------
(* The worker alone.                                                        *)

Alone == Commands = {}

Working == {"discover", "download", "parse", "reparse"}

\* The inductive invariant.  As nobody else writes, what the worker's session has
\* loaded of a report it has still to look at is what is stored, and the document
\* it parses is the one the report names.
SessionIsCurrent ==
    /\ todo[Worker] \cap turn[Worker] = {}
    /\ pc[Worker] \notin Working => turn[Worker] = {}
    /\ \A f \in turn[Worker] : loaded[Worker][f] = Report(f)
    /\ pc[Worker] \in {"open", "parse"} =>
          \A f \in todo[Worker] : loaded[Worker][f] = Report(f)
    /\ pc[Worker] = "download" => found[Worker] # NoVersion
    /\ pc[Worker] \in {"parse", "reparse"} =>
          \A f \in turn[Worker] : found[Worker] = document[f]

AloneInv == TypeOK /\ SessionIsCurrent /\ StatusIsBacked

LEMMA InitAlone == Init => SessionIsCurrent /\ StatusIsBacked
BY DEF Init, SessionIsCurrent, StatusIsBacked, ParsedIsCurrent, FailureHasIssue, Processes, Working

\* A fund's turn ends with a commit that changes no other report.
LEMMA SessionAfterTurn ==
  ASSUME AloneInv, NEW f \in Funds, NEW label \in {"sync", "open", "reopen"},
         EndTurn(Worker, f, label), label = "open" => pc[Worker] = "parse",
         \A g \in Funds \ {f} : Report(g)' = Report(g)
  PROVE  SessionIsCurrent'
<1>0. Worker \in Processes  BY DEF Processes
<1>1. /\ pc'[Worker] = label /\ turn'[Worker] = {} /\ todo'[Worker] = todo[Worker]
      /\ \A g \in Funds \ {f} : loaded'[Worker][g] = loaded[Worker][g]
  BY <1>0 DEF AloneInv, TypeOK, EndTurn
<1>2. f \notin todo[Worker]  BY DEF AloneInv, SessionIsCurrent, EndTurn
<1>3. todo[Worker] \subseteq Funds  BY <1>0 DEF AloneInv, TypeOK
<1>4. label = "open" => \A g \in todo'[Worker] : loaded'[Worker][g] = Report(g)'
  BY <1>1, <1>2, <1>3 DEF AloneInv, SessionIsCurrent
<1> QED  BY <1>1, <1>4 DEF SessionIsCurrent, Working

\* The column that SetStatus writes, for a report the session has as it is.
LEMMA FreshStatus ==
  ASSUME AloneInv, NEW f \in turn[Worker], NEW s, SetStatus(Worker, f, s)
  PROVE  status' = [status EXCEPT ![f] = s]
<1>1. Worker \in Processes /\ f \in Funds  BY DEF AloneInv, TypeOK, Processes
<1>2. loaded[Worker][f] = Report(f)  BY DEF AloneInv, SessionIsCurrent
<1>3. loaded[Worker][f].status = status[f]  BY <1>2 DEF Report
<1> QED  BY <1>1, <1>3 DEF SetStatus, Column

\* A commit leaves f with the status s, rows of the document it names if that is
\* "parsed", and the issues that go with it.
LEMMA BackedAfterTurn ==
  ASSUME AloneInv, NEW f \in Funds, NEW s, status' = [status EXCEPT ![f] = s],
         \A g \in Funds \ {f} : /\ rows'[g] = rows[g] /\ document'[g] = document[g]
                                /\ issues'[g] = issues[g],
         s = "parsed" =>
            /\ rows'[f] # NoVersion /\ rows'[f] = document'[f]
            /\ issues'[f] \cap {"REPORT_SOURCE_MISSING", "REPORT_PARSE_FAILED"} = {},
         s = "failed_with_reason" =>
            issues'[f] \cap {"REPORT_SYNC_FAILED", "REPORT_PARSE_FAILED"} # {},
         s = "unresolved" =>
            issues'[f] \cap {"REPORT_NOT_DISCOVERED", "REPORT_SOURCE_MISSING"} # {}
  PROVE  StatusIsBacked'
<1>1. \A g \in Funds : status'[g] = IF g = f THEN s ELSE status[g]
  BY DEF AloneInv, TypeOK
<1>2. ParsedIsCurrent'  BY <1>1 DEF AloneInv, StatusIsBacked, ParsedIsCurrent
<1>3. FailureHasIssue'  BY <1>1 DEF AloneInv, StatusIsBacked, FailureHasIssue
<1> QED  BY <1>2, <1>3 DEF StatusIsBacked

\* One fund's turn in sync_reports.
LEMMA SyncAlone ==
  ASSUME AloneInv, NEW f \in Funds,
         \/ Load(Worker, f) \/ NotDiscovered(Worker, f) \/ DiscoverFails(Worker, f)
         \/ Discover(Worker, f) \/ Download(Worker, f) \/ DownloadFails(Worker, f)
  PROVE  SessionIsCurrent' /\ StatusIsBacked'
<1>0. Worker \in Processes  BY DEF Processes
<1>1. CASE Load(Worker, f)
  <2>1. /\ pc'[Worker] = "discover" /\ turn'[Worker] = {f}
        /\ todo'[Worker] = todo[Worker] \ {f} /\ loaded'[Worker][f] = Report(f)
    BY <1>0, <1>1 DEF Load, BeginTurn, AloneInv, TypeOK
  <2>2. Report(f)' = Report(f)  BY <1>1 DEF Load, rowVars, Report
  <2>3. SessionIsCurrent'  BY <2>1, <2>2 DEF SessionIsCurrent, Working
  <2>4. StatusIsBacked'
    BY <1>1 DEF Load, rowVars, AloneInv, StatusIsBacked, ParsedIsCurrent, FailureHasIssue
  <2> QED  BY <2>3, <2>4
<1>2. CASE NotDiscovered(Worker, f)
  <2>1. f \in turn[Worker] /\ EndTurn(Worker, f, "sync")
    BY <1>2 DEF NotDiscovered, EndTurn
  <2>2. status' = [status EXCEPT ![f] = "unresolved"]
    BY <1>2, <2>1, FreshStatus DEF NotDiscovered
  <2>3. issues' = [issues EXCEPT ![f] = @ \cup {"REPORT_NOT_DISCOVERED"}]
    BY <1>2 DEF NotDiscovered, Issues
  <2>4. UNCHANGED <<disclosed, document, rows>>  BY <1>2 DEF NotDiscovered
  <2>5. \A g \in Funds \ {f} : Report(g)' = Report(g)
    BY <2>2, <2>4 DEF Report, AloneInv, TypeOK
  <2>6. SessionIsCurrent'  BY <2>1, <2>5, SessionAfterTurn
  <2>7. /\ "REPORT_NOT_DISCOVERED" \in issues'[f]
        /\ \A g \in Funds \ {f} : issues'[g] = issues[g]
    BY <2>3 DEF AloneInv, TypeOK
  <2>8. StatusIsBacked'  BY <2>2, <2>4, <2>7, BackedAfterTurn
  <2> QED  BY <2>6, <2>8
<1>3. CASE DiscoverFails(Worker, f) \/ DownloadFails(Worker, f)
  <2>1. f \in turn[Worker] /\ EndTurn(Worker, f, "sync")
    BY <1>3 DEF DiscoverFails, DownloadFails, EndTurn
  <2>2. status' = [status EXCEPT ![f] = "failed_with_reason"]
    BY <1>3, <2>1, FreshStatus DEF DiscoverFails, DownloadFails
  <2>3. issues' = [issues EXCEPT ![f] = @ \cup {"REPORT_SYNC_FAILED"}]
    BY <1>3 DEF DiscoverFails, DownloadFails, Issues
  <2>4. /\ UNCHANGED <<document, rows>>
        /\ \A g \in Funds \ {f} : disclosed'[g] = disclosed[g]
    BY <1>3 DEF DiscoverFails, DownloadFails, SetDisclosed, AloneInv, TypeOK
  <2>5. \A g \in Funds \ {f} : Report(g)' = Report(g)
    BY <2>2, <2>4 DEF Report, AloneInv, TypeOK
  <2>6. SessionIsCurrent'  BY <2>1, <2>5, SessionAfterTurn
  <2>7. /\ "REPORT_SYNC_FAILED" \in issues'[f]
        /\ \A g \in Funds \ {f} : issues'[g] = issues[g]
    BY <2>3 DEF AloneInv, TypeOK
  <2>8. StatusIsBacked'  BY <2>2, <2>4, <2>7, BackedAfterTurn
  <2> QED  BY <2>6, <2>8
<1>4. CASE Discover(Worker, f)
  <2>1. /\ pc'[Worker] = "download" /\ found'[Worker] # NoVersion
        /\ UNCHANGED <<todo, turn, loaded, rowVars>>
    BY <1>0, <1>4 DEF Discover, AloneInv, TypeOK
  <2>2. \A g \in Funds : Report(g)' = Report(g)  BY <2>1 DEF Report, rowVars
  <2>3. turn[Worker] \subseteq Funds  BY <1>0 DEF AloneInv, TypeOK
  <2>4. SessionIsCurrent'  BY <2>1, <2>2, <2>3 DEF AloneInv, SessionIsCurrent, Working
  <2>5. StatusIsBacked'
    BY <2>1 DEF rowVars, AloneInv, StatusIsBacked, ParsedIsCurrent, FailureHasIssue
  <2> QED  BY <2>4, <2>5
<1>5. CASE Download(Worker, f)
  <2> DEFINE s == DownloadedStatus(loaded[Worker][f], found[Worker])
  <2>1. f \in turn[Worker] /\ EndTurn(Worker, f, "sync")
    BY <1>5 DEF Download, EndTurn
  <2>2. status' = [status EXCEPT ![f] = s]
    BY <1>5, <2>1, FreshStatus DEF Download
  <2>3. issues' = [issues EXCEPT ![f] = @ \ SyncIssues]
    BY <1>5 DEF Download, Issues
  <2>4. /\ rows' = rows
        /\ \A g \in Funds \ {f} : document'[g] = document[g] /\ disclosed'[g] = disclosed[g]
    BY <1>5 DEF Download, SetDisclosed, SetDocument, AloneInv, TypeOK
  <2>5. \A g \in Funds \ {f} : Report(g)' = Report(g)
    BY <2>2, <2>4 DEF Report, AloneInv, TypeOK
  <2>6. SessionIsCurrent'  BY <2>1, <2>5, SessionAfterTurn
  <2>7. loaded[Worker][f] = Report(f)  BY <2>1 DEF AloneInv, SessionIsCurrent
  <2>8. document'[f] = found[Worker]
    BY <1>5, <2>7 DEF Download, SetDocument, Column, Report, AloneInv, TypeOK
  <2>9. s \in {"parsed", "downloaded"}
        /\ (s = "parsed" => status[f] = "parsed" /\ document[f] = found[Worker])
    BY <2>7 DEF DownloadedStatus, Report
  <2>10. /\ \A g \in Funds \ {f} : issues'[g] = issues[g]
         /\ issues'[f] \subseteq issues[f]
    BY <2>3 DEF AloneInv, TypeOK
  <2>11. status[f] = "parsed" =>
           /\ rows[f] # NoVersion /\ rows[f] = document[f]
           /\ issues[f] \cap {"REPORT_SOURCE_MISSING", "REPORT_PARSE_FAILED"} = {}
    BY DEF AloneInv, StatusIsBacked, ParsedIsCurrent, FailureHasIssue
  <2> HIDE DEF s
  <2>12. StatusIsBacked'  BY <2>2, <2>4, <2>8, <2>9, <2>10, <2>11, BackedAfterTurn
  <2> QED  BY <2>6, <2>12
<1> QED  BY <1>1, <1>2, <1>3, <1>4, <1>5

\* One fund's turn in parse_reports.
LEMMA ParseAlone ==
  ASSUME AloneInv, NEW f \in Funds,
         \/ Open(Worker, f) \/ SourceMissing(Worker, f)
         \/ Parse(Worker, f) \/ ParseFails(Worker, f)
  PROVE  SessionIsCurrent' /\ StatusIsBacked'
<1>0. Worker \in Processes  BY DEF Processes
<1>1. CASE Open(Worker, f)
  <2>1. /\ pc'[Worker] = IF pc[Worker] = "open" THEN "parse" ELSE "reparse"
        /\ turn'[Worker] = {f} /\ f \in todo[Worker]
        /\ todo'[Worker] = todo[Worker] \ {f}
        /\ \A g \in Funds \ {f} : loaded'[Worker][g] = loaded[Worker][g]
        /\ found'[Worker] = loaded'[Worker][f].document
        /\ loaded'[Worker][f] = IF pc[Worker] = "open" THEN loaded[Worker][f] ELSE Report(f)
    BY <1>0, <1>1 DEF Open, BeginTurn, AloneInv, TypeOK
  <2>2. \A g \in Funds : Report(g)' = Report(g)  BY <1>1 DEF Open, rowVars, Report
  <2>3. loaded'[Worker][f] = Report(f)  BY <2>1 DEF AloneInv, SessionIsCurrent
  <2>4. found'[Worker] = document'[f]  BY <1>1, <2>1, <2>3 DEF Report, Open, rowVars
  <2>5. todo[Worker] \subseteq Funds  BY <1>0 DEF AloneInv, TypeOK
  <2>6. SessionIsCurrent'
    BY <2>1, <2>2, <2>3, <2>4, <2>5 DEF AloneInv, SessionIsCurrent, Working
  <2>7. StatusIsBacked'
    BY <1>1 DEF Open, rowVars, AloneInv, StatusIsBacked, ParsedIsCurrent, FailureHasIssue
  <2> QED  BY <2>6, <2>7
<1>2. CASE SourceMissing(Worker, f)
  <2> DEFINE was == loaded[Worker][f].status
             s == IF was \in {"unresolved", "failed_with_reason"} THEN was ELSE "unresolved"
  <2>1. /\ f \in turn[Worker] /\ EndTurn(Worker, f, Loop(Worker))
        /\ Loop(Worker) \in {"sync", "open", "reopen"}
        /\ Loop(Worker) = "open" => pc[Worker] = "parse"
    BY <1>2 DEF SourceMissing, EndTurn, Loop
  <2>2. SetStatus(Worker, f, s)  BY <1>2 DEF SourceMissing
  <2>3. status' = [status EXCEPT ![f] = s]  BY <2>1, <2>2, FreshStatus
  <2>4. issues' = [issues EXCEPT ![f] = @ \cup {"REPORT_SOURCE_MISSING"}]
    BY <1>2 DEF SourceMissing, Issues
  <2>5. UNCHANGED <<disclosed, document, rows>>  BY <1>2 DEF SourceMissing
  <2>6. \A g \in Funds \ {f} : Report(g)' = Report(g)
    BY <2>3, <2>5 DEF Report, AloneInv, TypeOK
  <2>7. SessionIsCurrent'  BY <2>1, <2>6, SessionAfterTurn
  <2>8. loaded[Worker][f] = Report(f)  BY <2>1 DEF AloneInv, SessionIsCurrent
  <2>9. /\ s \in {"unresolved", "failed_with_reason"}
        /\ s = "failed_with_reason" => status[f] = "failed_with_reason"
    BY <2>8 DEF Report
  <2>10. /\ \A g \in Funds \ {f} : issues'[g] = issues[g]
         /\ issues'[f] = issues[f] \cup {"REPORT_SOURCE_MISSING"}
    BY <2>4 DEF AloneInv, TypeOK
  <2>11. status[f] = "failed_with_reason" =>
           issues[f] \cap {"REPORT_SYNC_FAILED", "REPORT_PARSE_FAILED"} # {}
    BY DEF AloneInv, StatusIsBacked, FailureHasIssue
  <2> HIDE DEF s
  <2>12. StatusIsBacked'  BY <2>3, <2>5, <2>9, <2>10, <2>11, BackedAfterTurn
  <2> QED  BY <2>7, <2>12
<1>3. CASE Parse(Worker, f)
  <2>1. /\ f \in turn[Worker] /\ EndTurn(Worker, f, Loop(Worker))
        /\ Loop(Worker) \in {"sync", "open", "reopen"}
        /\ Loop(Worker) = "open" => pc[Worker] = "parse"
    BY <1>3 DEF Parse, EndTurn, Loop
  <2>2. status' = [status EXCEPT ![f] = "parsed"]
    BY <1>3, <2>1, FreshStatus DEF Parse
  <2>3. PICK quality \in SUBSET {"PARSER_QUALITY"} :
           issues' = [issues EXCEPT ![f] = (@ \ ParseIssues) \cup quality]
    BY <1>3 DEF Parse, Issues
  <2>4. UNCHANGED <<disclosed, document>>  BY <1>3 DEF Parse
  <2>5. \A g \in Funds \ {f} : Report(g)' = Report(g)
    BY <2>2, <2>4 DEF Report, AloneInv, TypeOK
  <2>6. SessionIsCurrent'  BY <2>1, <2>5, SessionAfterTurn
  <2>7. /\ rows'[f] = found[Worker] /\ found[Worker] # NoVersion
        /\ \A g \in Funds \ {f} : rows'[g] = rows[g]
    BY <1>3 DEF Parse, ReplaceRows, AloneInv, TypeOK
  <2>8. found[Worker] = document[f]
    BY <1>3, <2>1 DEF Parse, Parsing, AloneInv, SessionIsCurrent
  <2>9. /\ \A g \in Funds \ {f} : issues'[g] = issues[g]
        /\ issues'[f] = (issues[f] \ ParseIssues) \cup quality
    BY <2>3 DEF AloneInv, TypeOK
  <2>10. issues'[f] \cap {"REPORT_SOURCE_MISSING", "REPORT_PARSE_FAILED"} = {}
    BY <2>9 DEF ParseIssues
  <2>11. StatusIsBacked'  BY <2>2, <2>4, <2>7, <2>8, <2>9, <2>10, BackedAfterTurn
  <2> QED  BY <2>6, <2>11
<1>4. CASE ParseFails(Worker, f)
  <2>1. f \in turn[Worker] /\ EndTurn(Worker, f, "reopen")
    BY <1>4 DEF ParseFails, EndTurn
  <2>2. status' = [status EXCEPT ![f] = "failed_with_reason"]
    BY <1>4 DEF ParseFails
  <2>3. issues' = [issues EXCEPT ![f] = @ \cup {"REPORT_PARSE_FAILED"}]
    BY <1>4 DEF ParseFails, Issues
  <2>4. UNCHANGED <<disclosed, document, rows>>  BY <1>4 DEF ParseFails
  <2>5. \A g \in Funds \ {f} : Report(g)' = Report(g)
    BY <2>2, <2>4 DEF Report, AloneInv, TypeOK
  <2>6. SessionIsCurrent'  BY <2>1, <2>5, SessionAfterTurn
  <2>7. /\ "REPORT_PARSE_FAILED" \in issues'[f]
        /\ \A g \in Funds \ {f} : issues'[g] = issues[g]
    BY <2>3 DEF AloneInv, TypeOK
  <2>8. StatusIsBacked'  BY <2>2, <2>4, <2>7, BackedAfterTurn
  <2> QED  BY <2>6, <2>8
<1> QED  BY <1>1, <1>2, <1>3, <1>4

\* The other steps change neither a status nor rows nor an issue.
LEMMA LoopAlone ==
  ASSUME AloneInv,
         \/ \E codes \in SUBSET Funds : StartSync(Worker, codes) \/ StartParse(Worker, codes)
         \/ EndSync(Worker) \/ EndParse(Worker) \/ Calculate(Worker) \/ Die(Worker)
         \/ \E f \in Funds : Publish(f)
  PROVE  SessionIsCurrent' /\ StatusIsBacked'
<1>0. Worker \in Processes  BY DEF Processes
<1>1. UNCHANGED <<status, disclosed, document, rows, issues>>
  BY DEF StartSync, StartParse, EndSync, EndParse, Calculate, Die, Publish, rowVars
<1>2. StatusIsBacked'
  BY <1>1 DEF AloneInv, StatusIsBacked, ParsedIsCurrent, FailureHasIssue
<1>3. \A f \in Funds : Report(f)' = Report(f)  BY <1>1 DEF Report
<1>4. /\ turn[Worker] \subseteq Funds /\ todo[Worker] \subseteq Funds
      /\ pc \in [Processes -> Places] /\ DOMAIN turn = Processes
      /\ DOMAIN todo = Processes /\ DOMAIN loaded = Processes
  BY <1>0 DEF AloneInv, TypeOK, Places
<1>5. CASE \E codes \in SUBSET Funds : StartSync(Worker, codes)
  <2>1. pc'[Worker] = "sync" /\ turn' = turn /\ turn[Worker] = {}
    BY <1>0, <1>4, <1>5 DEF StartSync, AloneInv, SessionIsCurrent, Working
  <2> QED  BY <1>2, <2>1 DEF SessionIsCurrent, Working
<1>6. CASE \E codes \in SUBSET Funds : StartParse(Worker, codes)
  <2>1. PICK codes \in SUBSET Funds : StartParse(Worker, codes)  BY <1>6
  <2>2. pc'[Worker] = "open" /\ turn' = turn /\ turn[Worker] = {}
    BY <1>0, <1>4, <2>1 DEF StartParse, AloneInv, SessionIsCurrent, Working
  <2>3. /\ todo'[Worker] \subseteq codes
        /\ \A f \in codes : loaded'[Worker][f] = Report(f)
    BY <1>0, <1>4, <2>1 DEF StartParse
  <2> QED  BY <1>2, <1>3, <2>2, <2>3 DEF SessionIsCurrent, Working
<1>7. CASE EndSync(Worker) \/ Calculate(Worker) \/ Die(Worker)
  <2>1. pc'[Worker] = "idle" /\ turn'[Worker] = {}
    BY <1>0, <1>4, <1>7 DEF EndSync, Calculate, Die, Close
  <2> QED  BY <1>2, <2>1 DEF SessionIsCurrent, Working
<1>8. CASE EndParse(Worker)
  <2>1. pc'[Worker] = "calculate" /\ turn' = turn /\ turn[Worker] = {}
    BY <1>0, <1>4, <1>8 DEF EndParse, AloneInv, SessionIsCurrent, Working
  <2> QED  BY <1>2, <2>1 DEF SessionIsCurrent, Working
<1>9. CASE \E f \in Funds : Publish(f)
  <2>1. UNCHANGED <<pc, todo, turn, found, loaded>>  BY <1>9 DEF Publish
  <2> QED  BY <1>1, <1>2, <1>3, <1>4, <2>1 DEF AloneInv, SessionIsCurrent
<1> QED  BY <1>5, <1>6, <1>7, <1>8, <1>9

LEMMA StepAlone == Alone /\ AloneInv /\ [Next]_vars => AloneInv'
<1> SUFFICES ASSUME Alone, AloneInv, [Next]_vars  PROVE AloneInv'
  OBVIOUS
<1>1. TypeOK'  BY StepTypes DEF AloneInv
<1>2. Processes = {Worker}  BY DEF Alone, Processes
<1>3. CASE Next
  <2>1. SessionIsCurrent' /\ StatusIsBacked'
    BY <1>2, <1>3, SyncAlone, ParseAlone, LoopAlone DEF Next
  <2> QED  BY <1>1, <2>1 DEF AloneInv
<1>4. CASE UNCHANGED vars
  BY <1>1, <1>4 DEF vars, rowVars, AloneInv, SessionIsCurrent, StatusIsBacked,
                    ParsedIsCurrent, FailureHasIssue, Report
<1> QED  BY <1>3, <1>4

\* Beside no command, a parsed report's rows are of the document it names, and
\* what went wrong with a report has an open issue (sync_reports, parse_reports);
\* the assumption is needed, as the finding ParsedIsCurrent of the run with a
\* command shows.
THEOREM BackedWhenAlone == Alone => (Spec => []StatusIsBacked)
<1> SUFFICES ASSUME Alone  PROVE Spec => []StatusIsBacked
  OBVIOUS
<1>1. Init => AloneInv  BY InitTypes, InitAlone DEF AloneInv
<1>2. AloneInv => StatusIsBacked  BY DEF AloneInv
<1>3. AloneInv /\ [Next]_vars => AloneInv'  BY StepAlone
<1> QED  BY <1>1, <1>2, <1>3, PTL DEF Spec

=============================================================================
