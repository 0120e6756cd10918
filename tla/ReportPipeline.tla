---------------------------- MODULE ReportPipeline ----------------------------
(***************************************************************************)
(* The quarterly reports of one period: sync_reports discovers, downloads  *)
(* and archives a document per fund, parse_reports replaces the rows taken *)
(* from it, and calculate_and_store_lookthrough derives the look-through   *)
(* exposure of every parsed report from the rows of all of them.           *)
(*                                                                         *)
(* One action is one commit, or the part of a fund's transaction that ends *)
(* in a call of the provider or in reading the archived document.  A       *)
(* process may die between any two.  The worker's operations hold the slot *)
(* of the queue and so run one at a time; qdii sync-reports runs beside    *)
(* them.  A session keeps what it loaded (expire_on_commit=False), and a   *)
(* commit updates only the columns whose value differs from what was       *)
(* loaded.                                                                 *)
(***************************************************************************)
EXTENDS Naturals, FiniteSets

CONSTANTS
    Funds,      \* the selected funds
    Versions,   \* the documents a provider publishes for a fund, in order: 1..n
    Worker,     \* the process that runs operations, one at a time
    Commands    \* the processes of qdii sync-reports

ASSUME ConstantsAssumption == Versions \in Nat \ {0} /\ Worker \notin Commands

VARIABLES
    published,   \* the version the provider has, 0 while there is none
    status,      \* parse_status, "none" while there is no row
    disclosed,   \* the version document_url and public_available_at are of
    document,    \* the archived version that sha256 and local path name
    rows,        \* the version the allocation and holding rows are from
    lookthrough, \* per report: the rows its look-through was computed from
    issues,      \* codes of the open issues of the report
    pc,          \* per process: where it is,
    todo,        \*   the funds it has still to process,
    turn,        \*   the fund whose turn it is, as a set,
    found,       \*   the version it works on,
    loaded       \*   what its session has loaded of each report

rowVars == <<status, disclosed, document, rows, lookthrough, issues>>
vars == <<published, rowVars, pc, todo, turn, found, loaded>>

Processes == Commands \cup {Worker}
NoVersion == 0
AnyVersion == 0..Versions
NotCalculated == [f \in Funds |-> NoVersion]
StatusValues == {"none", "unresolved", "downloaded", "parsed", "failed_with_reason"}
SyncIssues == {"REPORT_NOT_DISCOVERED", "REPORT_SYNC_FAILED"}
ParseIssues == {"REPORT_SOURCE_MISSING", "REPORT_PARSE_FAILED", "PARSER_QUALITY"}
Columns == [status : StatusValues, disclosed : AnyVersion, document : AnyVersion]
NoRow == [status |-> "none", disclosed |-> NoVersion, document |-> NoVersion]
NothingLoaded == [f \in Funds |-> NoRow]

TypeOK ==
    /\ published \in [Funds -> AnyVersion]
    /\ status \in [Funds -> StatusValues]
    /\ disclosed \in [Funds -> AnyVersion]
    /\ document \in [Funds -> AnyVersion]
    /\ rows \in [Funds -> AnyVersion]
    /\ lookthrough \in [Funds -> [Funds -> AnyVersion]]
    /\ issues \in [Funds -> SUBSET (SyncIssues \cup ParseIssues)]
    /\ pc \in [Processes -> {"idle", "sync", "discover", "download",
                             "open", "reopen", "parse", "reparse", "calculate"}]
    /\ todo \in [Processes -> SUBSET Funds]
    /\ turn \in [Processes -> SUBSET Funds]
    /\ found \in [Processes -> AnyVersion]
    /\ loaded \in [Processes -> [Funds -> Columns]]

Init ==
    /\ published = [f \in Funds |-> NoVersion]
    /\ status = [f \in Funds |-> "none"]
    /\ disclosed = [f \in Funds |-> NoVersion]
    /\ document = [f \in Funds |-> NoVersion]
    /\ rows = [f \in Funds |-> NoVersion]
    /\ lookthrough = [f \in Funds |-> NotCalculated]
    /\ issues = [f \in Funds |-> {}]
    /\ pc = [p \in Processes |-> "idle"]
    /\ todo = [p \in Processes |-> {}]
    /\ turn = [p \in Processes |-> {}]
    /\ found = [p \in Processes |-> NoVersion]
    /\ loaded = [p \in Processes |-> NothingLoaded]

-----------------------------------------------------------------------------

Report(f) == [status |-> status[f], disclosed |-> disclosed[f], document |-> document[f]]

\* What a commit leaves in a column: old stays when the session sets no other
\* value than the one it loaded.
Column(old, was, new) == IF new = was THEN old ELSE new

SetStatus(p, f, s) ==
    status' = [status EXCEPT ![f] = Column(@, loaded[p][f].status, s)]
SetDisclosed(p, f) ==
    disclosed' = [disclosed EXCEPT ![f] = Column(@, loaded[p][f].disclosed, found[p])]
SetDocument(p, f) ==
    document' = [document EXCEPT ![f] = Column(@, loaded[p][f].document, found[p])]
Issues(f, opened, resolved) == issues' = [issues EXCEPT ![f] = (@ \ resolved) \cup opened]

\* Fund f's turn begins: label names the step that follows.
BeginTurn(p, f, label) ==
    /\ f \in todo[p]
    /\ pc' = [pc EXCEPT ![p] = label]
    /\ todo' = [todo EXCEPT ![p] = @ \ {f}]
    /\ turn' = [turn EXCEPT ![p] = {f}]

\* The commit that ends fund f's turn, after which its report is not looked at
\* again; label names the loop.
EndTurn(p, f, label) ==
    /\ f \in turn[p]
    /\ pc' = [pc EXCEPT ![p] = label]
    /\ turn' = [turn EXCEPT ![p] = {}]
    /\ found' = [found EXCEPT ![p] = NoVersion]
    /\ loaded' = [loaded EXCEPT ![p][f] = NoRow]
    /\ UNCHANGED todo

\* The process ends and its session is closed.
Close(p) ==
    /\ pc' = [pc EXCEPT ![p] = "idle"]
    /\ todo' = [todo EXCEPT ![p] = {}]
    /\ turn' = [turn EXCEPT ![p] = {}]
    /\ found' = [found EXCEPT ![p] = NoVersion]
    /\ loaded' = [loaded EXCEPT ![p] = NothingLoaded]

-----------------------------------------------------------------------------
(* sync_reports.                                                            *)

StartSync(p, codes) ==
    /\ pc[p] = "idle"
    /\ pc' = [pc EXCEPT ![p] = "sync"]
    /\ todo' = [todo EXCEPT ![p] = codes]
    /\ UNCHANGED <<published, rowVars, turn, found, loaded>>

\* _get_or_create_report.  Whoever inserts the row of a fund makes a second one
\* wait and then fail on the unique period, outside the try block (Die).
Load(p, f) ==
    /\ pc[p] = "sync"
    /\ BeginTurn(p, f, "discover")
    /\ status[f] = "none" =>
          ~\E q \in Processes \ {p} : f \in turn[q] /\ loaded[q][f] = NoRow
    /\ loaded' = [loaded EXCEPT ![p][f] = Report(f)]
    /\ UNCHANGED <<published, rowVars, found>>

\* The provider has no matching document (a WARNING, whatever the report was).
NotDiscovered(p, f) ==
    /\ pc[p] = "discover"
    /\ EndTurn(p, f, "sync")
    /\ SetStatus(p, f, "unresolved")
    /\ Issues(f, {"REPORT_NOT_DISCOVERED"}, {})
    /\ UNCHANGED <<published, disclosed, document, rows, lookthrough>>

\* provider.discover raises.
DiscoverFails(p, f) ==
    /\ pc[p] = "discover"
    /\ EndTurn(p, f, "sync")
    /\ SetStatus(p, f, "failed_with_reason")
    /\ Issues(f, {"REPORT_SYNC_FAILED"}, {})
    /\ UNCHANGED <<published, disclosed, document, rows, lookthrough>>

\* provider.discover finds the latest published document.
Discover(p, f) ==
    /\ pc[p] = "discover" /\ f \in turn[p]
    /\ published[f] # NoVersion
    /\ pc' = [pc EXCEPT ![p] = "download"]
    /\ found' = [found EXCEPT ![p] = published[f]]
    /\ UNCHANGED <<published, rowVars, todo, turn, loaded>>

\* Faulty variant: a parsed report stays parsed whatever was downloaded.
DownloadedStatus_Keeps(was, version) ==
    IF was.status = "parsed" THEN "parsed" ELSE "downloaded"

\* Only the same bytes leave a parsed report parsed.
DownloadedStatus(was, version) ==
    IF was.document = version /\ was.status = "parsed" THEN "parsed" ELSE "downloaded"

\* The document is archived and the report named after it.
Download(p, f) ==
    /\ pc[p] = "download"
    /\ EndTurn(p, f, "sync")
    /\ SetDisclosed(p, f)
    /\ SetDocument(p, f)
    /\ SetStatus(p, f, DownloadedStatus(loaded[p][f], found[p]))
    /\ Issues(f, {}, SyncIssues)
    /\ UNCHANGED <<published, rows, lookthrough>>

\* provider.download or archive_bytes raises: the candidate's fields were set
\* before it and are committed with the failure.
DownloadFails(p, f) ==
    /\ pc[p] = "download"
    /\ EndTurn(p, f, "sync")
    /\ SetDisclosed(p, f)
    /\ SetStatus(p, f, "failed_with_reason")
    /\ Issues(f, {"REPORT_SYNC_FAILED"}, {})
    /\ UNCHANGED <<published, document, rows, lookthrough>>

EndSync(p) ==
    /\ pc[p] = "sync" /\ todo[p] = {}
    /\ Close(p)
    /\ UNCHANGED <<published, rowVars>>

-----------------------------------------------------------------------------
(* parse_reports and the look-through.                                      *)

\* The existing reports of the period are loaded at once.
StartParse(p, codes) ==
    /\ pc[p] = "idle"
    /\ pc' = [pc EXCEPT ![p] = "open"]
    /\ todo' = [todo EXCEPT ![p] = {f \in codes : status[f] # "none"}]
    /\ loaded' = [loaded EXCEPT ![p] = 
          [f \in Funds |-> IF f \in codes THEN Report(f) ELSE NoRow]]
    /\ UNCHANGED <<published, rowVars, turn, found>>

\* A fund's turn: its document is read.  The rollback of a failed fund expires
\* what was loaded, so that later reports are loaded anew ("reopen").
Open(p, f) ==
    /\ pc[p] \in {"open", "reopen"}
    /\ BeginTurn(p, f, IF pc[p] = "open" THEN "parse" ELSE "reparse")
    /\ loaded' = [loaded EXCEPT ![p][f] = IF pc[p] = "open" THEN @ ELSE Report(f)]
    /\ found' = [found EXCEPT ![p] = loaded'[p][f].document]
    /\ UNCHANGED <<published, rowVars>>

Parsing(p) == pc[p] \in {"parse", "reparse"}
Loop(p) == IF pc[p] = "parse" THEN "open" ELSE "reopen"

\* A report without a local document.
SourceMissing(p, f) ==
    /\ Parsing(p) /\ found[p] = NoVersion
    /\ EndTurn(p, f, Loop(p))
    /\ LET was == loaded[p][f].status
       IN SetStatus(p, f, IF was \in {"unresolved", "failed_with_reason"}
                          THEN was ELSE "unresolved")
    /\ Issues(f, {"REPORT_SOURCE_MISSING"}, {})
    /\ UNCHANGED <<published, disclosed, document, rows, lookthrough>>

\* Faulty variant: the rows of the last look-through survive a new parse.
ReplaceRows_KeepsLookthrough(f, version) ==
    /\ rows' = [rows EXCEPT ![f] = version]
    /\ UNCHANGED lookthrough

\* _replace_report_rows deletes every row of the report, derived ones included.
ReplaceRows(f, version) ==
    /\ rows' = [rows EXCEPT ![f] = version]
    /\ lookthrough' = [lookthrough EXCEPT ![f] = NotCalculated]

Parse(p, f) ==
    /\ Parsing(p) /\ found[p] # NoVersion
    /\ EndTurn(p, f, Loop(p))
    /\ ReplaceRows(f, found[p])
    /\ SetStatus(p, f, "parsed")
    /\ \E quality \in SUBSET {"PARSER_QUALITY"} : Issues(f, quality, ParseIssues)
    /\ UNCHANGED <<published, disclosed, document>>

\* Faulty variant: no rollback, the deletion of the old rows is committed.
ParseFails_LosesRows(p, f) ==
    /\ Parsing(p) /\ found[p] # NoVersion
    /\ EndTurn(p, f, "reopen")
    /\ rows' = [rows EXCEPT ![f] = NoVersion]
    /\ status' = [status EXCEPT ![f] = "failed_with_reason"]
    /\ Issues(f, {"REPORT_PARSE_FAILED"}, {})
    /\ UNCHANGED <<published, disclosed, document, lookthrough>>

\* Reading, identity validation, parsing or storing raises: rolled back, the
\* rows stay, and the report, loaded anew, is marked failed.
ParseFails(p, f) ==
    /\ Parsing(p) /\ found[p] # NoVersion
    /\ EndTurn(p, f, "reopen")
    /\ status' = [status EXCEPT ![f] = "failed_with_reason"]
    /\ Issues(f, {"REPORT_PARSE_FAILED"}, {})
    /\ UNCHANGED <<published, disclosed, document, rows, lookthrough>>

EndParse(p) ==
    /\ pc[p] \in {"open", "reopen"} /\ todo[p] = {}
    /\ pc' = [pc EXCEPT ![p] = "calculate"]
    /\ UNCHANGED <<published, rowVars, todo, turn, found, loaded>>

\* The rows look-through sees: those of the reports that are parsed.
ParsedRows == [f \in Funds |-> IF status[f] = "parsed" THEN rows[f] ELSE NoVersion]

\* Faulty variant: leaves out the reports that already have a result.
NeedsCalculation_Missing(f) == status[f] = "parsed" /\ lookthrough[f] = NotCalculated

NeedsCalculation(f) == status[f] = "parsed"

\* calculate_and_store_lookthrough: every parsed report, in one commit.
Calculate(p) ==
    /\ pc[p] = "calculate"
    /\ lookthrough' = [f \in Funds |->
          IF NeedsCalculation(f) THEN ParsedRows ELSE lookthrough[f]]
    /\ Close(p)
    /\ UNCHANGED <<published, status, disclosed, document, rows, issues>>

-----------------------------------------------------------------------------

\* The process dies, or a step outside the try blocks raises.
Die(p) ==
    /\ pc[p] # "idle"
    /\ Close(p)
    /\ UNCHANGED <<published, rowVars>>

\* A first or corrected document appears.
Publish(f) ==
    /\ published[f] < Versions
    /\ published' = [published EXCEPT ![f] = @ + 1]
    /\ UNCHANGED <<rowVars, pc, todo, turn, found, loaded>>

Next ==
    \/ \E codes \in (SUBSET Funds) \ {{}} :
          \/ \E p \in Processes : StartSync(p, codes)
          \/ StartParse(Worker, codes)
    \/ \E p \in Processes, f \in Funds :
          \/ Load(p, f)
          \/ NotDiscovered(p, f)
          \/ DiscoverFails(p, f)
          \/ Discover(p, f)
          \/ Download(p, f)
          \/ DownloadFails(p, f)
          \/ Open(p, f)
          \/ SourceMissing(p, f)
          \/ Parse(p, f)
          \/ ParseFails(p, f)
    \/ \E p \in Processes :
          \/ EndSync(p)
          \/ EndParse(p)
          \/ Calculate(p)
          \/ Die(p)
    \/ \E f \in Funds : Publish(f)

Spec == Init /\ [][Next]_vars

-----------------------------------------------------------------------------
(* Properties.                                                              *)

\* A report is "parsed" only while its rows come from the document it names.
ParsedIsCurrent ==
    \A f \in Funds : status[f] = "parsed" => rows[f] # NoVersion /\ rows[f] = document[f]

\* What went wrong with a report has an open issue, and a parsed report has no
\* open issue that says it could not be parsed.
FailureHasIssue ==
    \A f \in Funds :
        /\ status[f] = "failed_with_reason" =>
              issues[f] \cap {"REPORT_SYNC_FAILED", "REPORT_PARSE_FAILED"} # {}
        /\ status[f] = "unresolved" =>
              issues[f] \cap {"REPORT_NOT_DISCOVERED", "REPORT_SOURCE_MISSING"} # {}
        /\ status[f] = "parsed" =>
              issues[f] \cap {"REPORT_SOURCE_MISSING", "REPORT_PARSE_FAILED"} = {}

\* The parse_status shown for a report is backed by its rows and its issues,
\* whatever failed or died on the way.
StatusIsBacked == ParsedIsCurrent /\ FailureHasIssue

\* Look-through results shown side by side come from one calculation: parsed
\* reports that have one agree on the rows of every fund, and on their own.
OneGeneration ==
    \A f, g \in Funds :
        status[f] = "parsed" /\ lookthrough[f] # NotCalculated =>
            /\ lookthrough[f][f] = rows[f]
            /\ status[g] = "parsed" /\ lookthrough[g] # NotCalculated =>
                  lookthrough[f] = lookthrough[g]

\* preparation_status: when every report is parsed and has a look-through, each
\* was computed from the rows all funds have now.
ReadyMeansFresh ==
    (\A f \in Funds : status[f] = "parsed" /\ lookthrough[f] # NotCalculated)
        => \A f \in Funds : lookthrough[f] = rows

\* Rows once parsed are replaced, never lost: whatever fails, the last rows that
\* could be parsed stay.
RowsAreNotLost ==
    [][\A f \in Funds : rows[f] # NoVersion => rows'[f] # NoVersion]_vars

\* "The publication time of the report is kept, so that later analyses can tell
\* EX_POST from LIVE_AVAILABLE": it is that of the document the rows are from.
DisclosureMatchesRows ==
    \A f \in Funds : status[f] = "parsed" => disclosed[f] = rows[f]
=============================================================================
