---------------------------- MODULE IngestionRuns ----------------------------
(***************************************************************************)
(* The skeleton that the NAV, exchange-price and fee pipelines share: a row *)
(* of ingestion_run, one commit per fund share, an open data-quality issue  *)
(* where a share failed, resolved when it succeeds again.  A pipeline runs  *)
(* in the worker or in a process of the command line, which does not take   *)
(* the slot of the operation queue, so two may run at a time.               *)
(*                                                                          *)
(* What the transaction of one share reads and what it commits are two      *)
(* actions.  The sessions do not flush before a query (autoflush=False) and *)
(* PostgreSQL reads committed rows, so what was read may be out of date at  *)
(* the commit.                                                              *)
(***************************************************************************)
EXTENDS Naturals, FiniteSets

CONSTANTS
    Writers,    \* processes that may run the pipeline: the worker, the CLI
    NumShares,  \* shares of the universe, processed in order of their codes
    MaxRuns,    \* bound: runs of the pipeline
    MaxCrashes  \* bound: processes that die

ASSUME ConstantsAssumption ==
    NumShares \in Nat /\ MaxRuns \in Nat /\ MaxCrashes \in Nat

Shares == 1..NumShares
RunIds == 1..MaxRuns
IssueIds == 1..(MaxRuns * NumShares)  \* a run records at most one per share
NoRun == 0

VARIABLES
    pipeline,   \* the one a behaviour is about; never changes
    stored,     \* shares whose observation of the day has a row (UNIQUE)
    runStatus,  \* ingestion_run.status; "absent" while nothing is committed
    lastRun,    \* ids handed out
    issues,     \* rows of data_quality_issue: their number,
    issueOf,    \*   their share
    open,       \*   and the ids with status OPEN
    pc,         \* per process: where it is,
    run,        \*   its run,
    todo,       \*   the shares left,
    failed,     \*   the shares that failed,
    sawOpen,    \*   the open issues it loaded for its share
    sawRow,     \*   and whether the share had its row then
    died,       \* history: runs whose process died,
    overlapped, \*   two runs were open at a time,
    lastOutcome,\*   the outcome of the last commit for a share
    done        \*   and the outcome per run and share

dbVars == <<stored, runStatus, issues, issueOf, open>>
localVars == <<run, todo, failed, sawOpen, sawRow>>
histVars == <<lastOutcome, done>>
envVars == <<pipeline, died, overlapped>>
vars == <<pipeline, dbVars, lastRun, pc, localVars, died, overlapped, histVars>>

Outcomes == {"ok", "failed"}

Pipelines == {"nav", "fees"}  \* "nav" is also that of exchange prices

\* The fee pipeline rolls back a share that failed and commits the row of its
\* run at once; the other goes on with the session it has.
RollsBack == pipeline = "fees"

TypeOK ==
    /\ pipeline \in Pipelines
    /\ stored \in SUBSET Shares
    /\ runStatus \in [RunIds -> {"absent", "running", "succeeded", "partial"}]
    /\ lastRun \in 0..MaxRuns
    /\ issues \in 0..(MaxRuns * NumShares)
    /\ issueOf \in [IssueIds -> Shares \cup {0}]
    /\ open \in SUBSET (1..issues)
    /\ pc \in [Writers -> {"idle", "fetch", "store", "report"}]
    /\ run \in [Writers -> RunIds \cup {NoRun}]
    /\ todo \in [Writers -> SUBSET Shares]
    /\ failed \in [Writers -> SUBSET Shares]
    /\ sawOpen \in [Writers -> SUBSET IssueIds]
    /\ sawRow \in [Writers -> BOOLEAN]
    /\ died \in SUBSET RunIds
    /\ overlapped \in BOOLEAN
    /\ lastOutcome \in [Shares -> Outcomes \cup {"none"}]
    /\ done \in [RunIds -> [Shares -> Outcomes \cup {"none"}]]

Init ==
    /\ pipeline \in Pipelines /\ died = {} /\ overlapped = FALSE
    /\ stored = {} /\ lastRun = 0 /\ issues = 0 /\ open = {}
    /\ runStatus = [r \in RunIds |-> "absent"]
    /\ issueOf = [i \in IssueIds |-> 0]
    /\ pc = [w \in Writers |-> "idle"]
    /\ run = [w \in Writers |-> NoRun]
    /\ todo = [w \in Writers |-> {}]
    /\ failed = [w \in Writers |-> {}]
    /\ sawOpen = [w \in Writers |-> {}]
    /\ sawRow = [w \in Writers |-> FALSE]
    /\ lastOutcome = [s \in Shares |-> "none"]
    /\ done = [r \in RunIds |-> [s \in Shares |-> "none"]]

-----------------------------------------------------------------------------

\* The process leaves the pipeline; what it did not commit is gone.
Leave(w) ==
    /\ pc' = [pc EXCEPT ![w] = "idle"]
    /\ run' = [run EXCEPT ![w] = NoRun]
    /\ todo' = [todo EXCEPT ![w] = {}]
    /\ failed' = [failed EXCEPT ![w] = {}]
    /\ sawOpen' = [sawOpen EXCEPT ![w] = {}]
    /\ sawRow' = [sawRow EXCEPT ![w] = FALSE]

\* start_run.
StartRun(w) ==
    /\ pc[w] = "idle"
    /\ overlapped' = (overlapped \/ \E v \in Writers : pc[v] # "idle")
    /\ lastRun < MaxRuns
    /\ lastRun' = lastRun + 1
    /\ runStatus' = [runStatus EXCEPT ![lastRun + 1] = IF RollsBack THEN "running" ELSE @]
    /\ pc' = [pc EXCEPT ![w] = "fetch"]
    /\ run' = [run EXCEPT ![w] = lastRun + 1]
    /\ todo' = [todo EXCEPT ![w] = Shares]
    /\ UNCHANGED <<stored, issues, issueOf, open, failed, sawOpen, sawRow, died, pipeline, histVars>>

Share(w) == CHOOSE s \in todo[w] : \A t \in todo[w] : s <= t

OpenIssues(s) == {i \in open : issueOf[i] = s}

\* Load what the share's transaction needs: its open issues, and its row if the
\* provider answered.
Fetch(w, outcome) ==
    /\ pc[w] = "fetch" /\ todo[w] # {}
    /\ sawOpen' = [sawOpen EXCEPT ![w] = OpenIssues(Share(w))]
    /\ IF outcome = "ok"
       THEN /\ pc' = [pc EXCEPT ![w] = "store"]
            /\ sawRow' = [sawRow EXCEPT ![w] = Share(w) \in stored]
       ELSE pc' = [pc EXCEPT ![w] = "report"] /\ UNCHANGED sawRow
    /\ UNCHANGED <<dbVars, lastRun, run, todo, failed, envVars, histVars>>

\* Faulty variant: the failures are those of the last share.
CommitShare_ForgetsFailure(w, outcome) ==
    /\ runStatus' = [runStatus EXCEPT ![run[w]] = "running"]
    /\ todo' = [todo EXCEPT ![w] = @ \ {Share(w)}]
    /\ failed' = [failed EXCEPT ![w] = IF outcome = "ok" THEN {} ELSE {Share(w)}]
    /\ sawOpen' = [sawOpen EXCEPT ![w] = {}]
    /\ sawRow' = [sawRow EXCEPT ![w] = FALSE]
    /\ pc' = [pc EXCEPT ![w] = "fetch"]
    /\ lastOutcome' = [lastOutcome EXCEPT ![Share(w)] = outcome]
    /\ done' = [done EXCEPT ![run[w]][Share(w)] = outcome]
    /\ UNCHANGED run

\* session.commit() for one share: its rows, and the run's row with it.
CommitShare(w, outcome) ==
    /\ runStatus' = [runStatus EXCEPT ![run[w]] = "running"]
    /\ todo' = [todo EXCEPT ![w] = @ \ {Share(w)}]
    /\ failed' = [failed EXCEPT ![w] = IF outcome = "ok" THEN @ ELSE @ \cup {Share(w)}]
    /\ sawOpen' = [sawOpen EXCEPT ![w] = {}]
    /\ sawRow' = [sawRow EXCEPT ![w] = FALSE]
    /\ pc' = [pc EXCEPT ![w] = "fetch"]
    /\ lastOutcome' = [lastOutcome EXCEPT ![Share(w)] = outcome]
    /\ done' = [done EXCEPT ![run[w]][Share(w)] = outcome]
    /\ UNCHANGED run

\* The share's row was inserted by another process since it was looked for.
Conflict(w) == ~sawRow[w] /\ Share(w) \in stored

\* Faulty variant: success does not close the issue of the last failure.
ResolveIssues_Never(w) == open' = open

\* resolve_issues: by primary key, the issues it loaded.
ResolveIssues(w) == open' = open \ sawOpen[w]

Store(w) ==
    /\ pc[w] = "store"
    /\ ~Conflict(w)
    /\ stored' = stored \cup {Share(w)}
    /\ ResolveIssues(w)
    /\ CommitShare(w, "ok")
    /\ UNCHANGED <<issues, issueOf, lastRun, envVars>>

\* Faulty variant: the fee pipeline without its rollback.
StoreRefused_Raises(w) ==
    /\ pc[w] = "store"
    /\ Conflict(w)
    /\ Leave(w)
    /\ UNCHANGED <<dbVars, lastRun, envVars, histVars>>

\* The unique constraint refuses the row.  With a rollback the failure is
\* recorded like any other; without one the session is unusable, the first
\* query of record_issue raises and the run is never finished.
StoreRefused(w) ==
    /\ pc[w] = "store"
    /\ Conflict(w)
    /\ IF RollsBack
       THEN /\ pc' = [pc EXCEPT ![w] = "report"]
            /\ sawOpen' = [sawOpen EXCEPT ![w] = OpenIssues(Share(w))]
            /\ UNCHANGED <<run, todo, failed, sawRow>>
       ELSE Leave(w)
    /\ UNCHANGED <<dbVars, lastRun, envVars, histVars>>

\* record_issue: a new row unless an open one was loaded, whose evidence is
\* updated (and not its status).
RecordIssue(w) ==
    IF sawOpen[w] # {}
    THEN UNCHANGED <<issues, issueOf, open>>
    ELSE /\ issues' = issues + 1
         /\ issueOf' = [issueOf EXCEPT ![issues + 1] = Share(w)]
         /\ open' = open \cup {issues + 1}

Report(w) ==
    /\ pc[w] = "report"
    /\ RecordIssue(w)
    /\ CommitShare(w, "failed")
    /\ UNCHANGED <<stored, lastRun, envVars>>

FinalStatus(w) == IF failed[w] = {} THEN "succeeded" ELSE "partial"

\* finish_run and the last commit.
FinishRun(w) ==
    /\ pc[w] = "fetch" /\ todo[w] = {}
    /\ runStatus' = [runStatus EXCEPT ![run[w]] = FinalStatus(w)]
    /\ Leave(w)
    /\ UNCHANGED <<stored, issues, issueOf, open, lastRun, envVars, histVars>>

\* The process dies; nothing ever closes its run.
Die(w) ==
    /\ pc[w] # "idle" /\ Cardinality(died) < MaxCrashes
    /\ died' = died \cup {run[w]}
    /\ Leave(w)
    /\ UNCHANGED <<pipeline, overlapped, dbVars, lastRun, histVars>>

Step(w) ==
    \/ \E outcome \in Outcomes : Fetch(w, outcome)
    \/ Store(w) \/ StoreRefused(w) \/ Report(w) \/ FinishRun(w)

Next == \E w \in Writers : StartRun(w) \/ Step(w) \/ Die(w)

Spec == Init /\ [][Next]_vars

\* A process that has started goes on: provider calls return or time out.
FairSpec == Spec /\ \A w \in Writers : WF_vars(Step(w))

-----------------------------------------------------------------------------
(* Properties.                                                              *)

\* The open issues tell the truth, as long as no two runs of the pipeline overlap:
\* a share has one exactly if the last commit for it recorded a failure, also when
\* processes die between two shares; and retries, restarts and failures of several
\* runs in a row add no second ("create one open issue per code/context").
IssuesAreHonest ==
    overlapped \/ \A s \in Shares :
        /\ OpenIssues(s) # {} <=> lastOutcome[s] = "failed"
        /\ Cardinality(OpenIssues(s)) <= 1

\* A finished run has processed every share; it says "succeeded" only if each
\* of them was stored, and "partial" only if one failed.
StatusIsHonest ==
    \A r \in RunIds :
        /\ runStatus[r] = "succeeded" => \A s \in Shares : done[r][s] = "ok"
        /\ runStatus[r] = "partial" =>
              /\ \A s \in Shares : done[r][s] # "none"
              /\ \E s \in Shares : done[r][s] = "failed"

\* One share that fails does not stop the others: a run ends with a final
\* status unless its process dies; beside another run, unless it may be refused
\* a row and has no rollback.
RunsFinish ==
    \A r \in RunIds :
        (\E w \in Writers : run[w] = r)
            ~> \/ runStatus[r] \in {"succeeded", "partial"}
               \/ r \in died
               \/ overlapped /\ ~RollsBack
=============================================================================
