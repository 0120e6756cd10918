--------------------------- MODULE OperationQueue ---------------------------
(***************************************************************************)
(* The durable queue of user-triggered data operations: the API handlers   *)
(* that enqueue an operation, reuse a finished one or archive a fund, the  *)
(* table data_operation with its unique active slot, and the one worker    *)
(* process that recovers, claims and executes operations stage by stage.   *)
(*                                                                         *)
(* One action is one database transaction (or one statement, where a       *)
(* handler runs several before it commits), so every interleaving that     *)
(* READ COMMITTED allows between the handlers and the worker is a          *)
(* behaviour.  A crash may fall between any two steps of the worker.       *)
(***************************************************************************)
EXTENDS Naturals, Sequences, FiniteSets

CONSTANTS
    Clients,      \* concurrent API requests
    Funds,        \* representative codes of imported funds
    Plans,        \* the funds among them with a recurring plan
    Requests,     \* the requests users submit in this instance
    MaxOps,       \* bound: rows of data_operation
    MaxCrashes,   \* bound: crashes of the worker
    MaxDay        \* bound: Shanghai calendar days

OperationKinds == {"prepare", "sync-daily", "sync-sales-limits",
                   "sync-reports", "parse-reports"}

Lookbacks == 1..100

\* The body of POST /operations/<kind>: fund codes (none means all), the window
\* and whether a finished operation of the day may answer it.
AllRequests == [kind : OperationKinds, codes : SUBSET Funds,
                lookback : Lookbacks, force : BOOLEAN]

ASSUME ConstantsAssumption ==
    /\ Plans \subseteq Funds
    /\ Requests \subseteq AllRequests
    /\ MaxOps \in Nat /\ MaxCrashes \in Nat /\ MaxDay \in Nat \ {0}

Ids == 1..MaxOps
Days == 1..MaxDay
NoSlot == 0        \* active_slot IS NULL
NoStage == "none"  \* current_stage IS NULL

STAGE_TOTALS == [k \in OperationKinds |-> IF k = "prepare" THEN 3 ELSE 1]

Stages == [k \in OperationKinds |->
             IF k = "prepare" THEN <<"sync-daily", "sync-reports", "parse-reports">>
                              ELSE <<k>>]

StageNames == OperationKinds \ {"prepare"}
Results == {"succeeded", "partial", "failed"}
Active == {"queued", "running"}
Statuses == Active \cup Results

VARIABLES
    last,       \* number of rows; ids are handed out in increasing order
    status,     \* per row: "absent" before the row is inserted
    slot,       \* active_slot, under a UNIQUE constraint
    params,     \* per row: the request it was inserted for
    stage,      \* current_stage
    completed,  \* stage_completed
    finished,   \* Shanghai day of finished_at, 0 while NULL
    selected,   \* funds with is_user_selected
    due,        \* funds for which recurring_plans_pending would say yes
    day,        \* today in Shanghai
    wpc,        \* the worker process: where it is,
    wop,        \*   the operation it executes,
    windex,     \*   the index of its stage,
    wresults,   \*   the results of the stages so far
    crashes,
    pc, req,    \* per API request: where its handler is, and its local data
    begun,      \* history: stages ever begun for a row
    dueSince,   \* history: funds due ever since the request arrived
    outcomes    \* history: results of the stages recorded for a row

rowVars == <<last, status, slot, params, stage, completed, finished>>
workerVars == <<wpc, wop, windex, wresults, crashes>>
envVars == <<selected, due, day>>
clientVars == <<pc, req, dueSince>>
histVars == <<begun, outcomes>>
vars == <<rowVars, workerVars, envVars, clientVars, histVars>>

Params == [kind : OperationKinds, codes : SUBSET Funds, lookback : Lookbacks]

NoParams == [kind |-> "parse-reports", codes |-> {}, lookback |-> 1]
NoRequest == [kind |-> "parse-reports", codes |-> {}, lookback |-> 1,
              force |-> FALSE]

ClientPcs == {"idle", "inputs", "pending", "lookup", "insert", "conflict",
              "archive", "archive-commit"}
WorkerPcs == {"down", "boot", "poll", "begin", "work", "record", "complete", "fail"}
Executing == {"begin", "work", "record", "complete", "fail"}

TypeOK ==
    /\ last \in 0..MaxOps
    /\ status \in [Ids -> Statuses \cup {"absent"}]
    /\ slot \in [Ids -> {NoSlot, 1}]
    /\ params \in [Ids -> Params]
    /\ stage \in [Ids -> StageNames \cup {NoStage}]
    /\ completed \in [Ids -> 0..3]
    /\ finished \in [Ids -> 0..MaxDay]
    /\ selected \in SUBSET Funds
    /\ due \in SUBSET Funds
    /\ day \in Days
    /\ wpc \in WorkerPcs
    /\ wop \in 0..MaxOps
    /\ windex \in 1..4
    /\ wresults \in SUBSET Results
    /\ crashes \in 0..MaxCrashes
    /\ pc \in [Clients -> ClientPcs]
    /\ req \in [Clients -> AllRequests]
    /\ begun \in [Ids -> Nat]
    /\ dueSince \in [Clients -> SUBSET Funds]
    /\ outcomes \in [Ids -> SUBSET Results]

Init ==
    /\ last = 0
    /\ status = [i \in Ids |-> "absent"]
    /\ slot = [i \in Ids |-> NoSlot]
    /\ params = [i \in Ids |-> NoParams]
    /\ stage = [i \in Ids |-> NoStage]
    /\ completed = [i \in Ids |-> 0]
    /\ finished = [i \in Ids |-> 0]
    /\ selected = Funds
    /\ due = {}
    /\ day = 1
    /\ wpc = "boot" /\ wop = 0 /\ windex = 1 /\ wresults = {} /\ crashes = 0
    /\ pc = [c \in Clients |-> "idle"]
    /\ req = [c \in Clients |-> NoRequest]
    /\ begun = [i \in Ids |-> 0]
    /\ dueSince = [c \in Clients |-> {}]
    /\ outcomes = [i \in Ids |-> {}]

-----------------------------------------------------------------------------
(* The API.  A handler that has answered is "idle" again and forgets its    *)
(* local data.                                                              *)

SlotTaken == \E i \in Ids : slot[i] = 1

Answer(c) ==
    /\ pc' = [pc EXCEPT ![c] = "idle"]
    /\ req' = [req EXCEPT ![c] = NoRequest]
    /\ dueSince' = [dueSince EXCEPT ![c] = {}]

Goto(c, label) == pc' = [pc EXCEPT ![c] = label] /\ UNCHANGED <<req, dueSince>>

\* Requests under way that may still insert a row.
Inserting == {c \in Clients : pc[c] \in {"inputs", "pending", "lookup", "insert"}}

\* POST /operations/<kind>; the guard on ids is the bound MaxOps, not the code.
SubmitOperation(c) ==
    /\ pc[c] = "idle"
    /\ last + Cardinality(Inserting) < MaxOps
    /\ pc' = [pc EXCEPT ![c] = "inputs"]
    /\ \E r \in Requests : req' = [req EXCEPT ![c] = r]
    /\ dueSince' = [dueSince EXCEPT ![c] = due]
    /\ UNCHANGED <<rowVars, workerVars, envVars, histVars>>

\* selected_fund_codes and raw_data_dir: no imported fund (409), an unknown code
\* (404) and unusable storage (503) end the request; no code means every fund.
ReadInputs(c) ==
    /\ pc[c] = "inputs"
    /\ \/ Answer(c)   \* raw_data_dir raises StoragePreflightError
       \/ /\ \/ selected = {}
             \/ ~(req[c].codes \subseteq selected)
          /\ Answer(c)
       \/ /\ selected # {}
          /\ req[c].codes \subseteq selected
          /\ req' = [req EXCEPT ![c].codes = IF @ = {} THEN selected ELSE @]
          /\ pc' = [pc EXCEPT ![c] =
                      IF req[c].kind = "sync-daily" /\ ~req[c].force
                      THEN "pending" ELSE "insert"]
          /\ UNCHANGED dueSince
    /\ UNCHANGED <<rowVars, workerVars, envVars, histVars>>

\* Faulty variant: reuses a finished operation without looking for due plans.
CheckPending_Skipped(c) ==
    /\ pc[c] = "pending"
    /\ Goto(c, "lookup")
    /\ UNCHANGED <<rowVars, workerVars, envVars, histVars>>

\* recurring_plans_pending: with recurring work due nothing is reused.
CheckPending(c) ==
    /\ pc[c] = "pending"
    /\ Goto(c, IF req[c].codes \cap due # {} THEN "insert" ELSE "lookup")
    /\ UNCHANGED <<rowVars, workerVars, envVars, histVars>>

\* A finished operation that answers request r: same day, same funds, and at
\* least the window asked for.
Reusable(i, r) ==
    /\ params[i].kind = "sync-daily"
    /\ status[i] = "succeeded"
    /\ finished[i] = day
    /\ params[i].codes = r.codes
    /\ params[i].lookback >= r.lookback

ReuseCompleted(c) ==
    /\ pc[c] = "lookup"
    /\ \E i \in Ids : Reusable(i, req[c])
    /\ Answer(c)
    /\ UNCHANGED <<rowVars, workerVars, envVars, histVars>>

NothingToReuse(c) ==
    /\ pc[c] = "lookup"
    /\ \A i \in Ids : ~Reusable(i, req[c])
    /\ Goto(c, "insert")
    /\ UNCHANGED <<rowVars, workerVars, envVars, histVars>>

\* enqueue_operation: the INSERT commits only if no row holds the slot.
InsertOperation(c) ==
    /\ pc[c] = "insert"
    /\ ~SlotTaken
    /\ LET i == last + 1
       IN  /\ i \in Ids
           /\ last' = i
           /\ status' = [status EXCEPT ![i] = "queued"]
           /\ slot' = [slot EXCEPT ![i] = 1]
           /\ params' = [params EXCEPT ![i] =
                [kind |-> req[c].kind, codes |-> req[c].codes, lookback |-> req[c].lookback]]
    /\ Answer(c)
    /\ UNCHANGED <<stage, completed, finished, workerVars, envVars, histVars>>

\* enqueue_operation: the unique constraint refused the row; roll back ...
InsertRefused(c) ==
    /\ pc[c] = "insert"
    /\ SlotTaken
    /\ Goto(c, "conflict")
    /\ UNCHANGED <<rowVars, workerVars, envVars, histVars>>

\* Faulty variant: waits for the holder of the slot to show up.
ExplainConflict_Waits(c) ==
    /\ pc[c] = "conflict"
    /\ SlotTaken
    /\ Answer(c)
    /\ UNCHANGED <<rowVars, workerVars, envVars, histVars>>

\* ... and look the holder up: 409 if it is still there; if it has finished in
\* between, the IntegrityError is raised again (500).  Nothing is written.
ExplainConflict(c) ==
    /\ pc[c] = "conflict"
    /\ Answer(c)
    /\ UNCHANGED <<rowVars, workerVars, envVars, histVars>>

\* POST /funds/{id}/archive reads the slot ...
RequestArchive(c) ==
    /\ pc[c] = "idle"
    /\ \E f \in Funds : req' = [req EXCEPT ![c].codes = {f}]
    /\ pc' = [pc EXCEPT ![c] = "archive"]
    /\ UNCHANGED <<dueSince, rowVars, workerVars, envVars, histVars>>

CheckArchive(c) ==
    /\ pc[c] = "archive"
    /\ IF SlotTaken THEN Answer(c) ELSE Goto(c, "archive-commit")
    /\ UNCHANGED <<rowVars, workerVars, envVars, histVars>>

\* ... and deselects the fund in a later statement.
CommitArchive(c) ==
    /\ pc[c] = "archive-commit"
    /\ selected' = selected \ req[c].codes
    /\ Answer(c)
    /\ UNCHANGED <<rowVars, workerVars, due, day, histVars>>

ClientStep(c) ==
    \/ ReadInputs(c) \/ CheckPending(c) \/ ReuseCompleted(c) \/ NothingToReuse(c)
    \/ InsertOperation(c) \/ InsertRefused(c) \/ ExplainConflict(c)
    \/ CheckArchive(c) \/ CommitArchive(c)

-----------------------------------------------------------------------------
(* The worker process.                                                      *)

\* Faulty variants: recovery does nothing; it queues interrupted rows again; it
\* forgets to select the running rows only.
Recover_Nothing ==
    /\ wpc = "boot"
    /\ wpc' = "poll"
    /\ UNCHANGED <<rowVars, wop, windex, wresults, crashes, envVars, clientVars, histVars>>

Recover_Requeues ==
    /\ wpc = "boot"
    /\ status' = [i \in Ids |-> IF status[i] = "running" THEN "queued" ELSE status[i]]
    /\ wpc' = "poll"
    /\ UNCHANGED <<last, slot, params, stage, completed, finished, wop, windex, wresults,
                   crashes, envVars, clientVars, histVars>>

Recover_EveryRow ==
    /\ wpc = "boot"
    /\ status' = [i \in Ids |-> IF i <= last THEN "failed" ELSE status[i]]
    /\ slot' = [i \in Ids |-> NoSlot]
    /\ finished' = [i \in Ids |-> IF i <= last THEN day ELSE finished[i]]
    /\ wpc' = "poll"
    /\ UNCHANGED <<last, params, stage, completed, wop, windex, wresults, crashes,
                   envVars, clientVars, histVars>>

\* recover_interrupted_operations, once per process start: every running row
\* fails and frees the slot; current_stage and stage_completed stay.
Recover ==
    /\ wpc = "boot"
    /\ status' = [i \in Ids |-> IF status[i] = "running" THEN "failed" ELSE status[i]]
    /\ slot' = [i \in Ids |-> IF status[i] = "running" THEN NoSlot ELSE slot[i]]
    /\ finished' = [i \in Ids |-> IF status[i] = "running" THEN day ELSE finished[i]]
    /\ wpc' = "poll"
    /\ UNCHANGED <<last, params, stage, completed, wop, windex, wresults, crashes,
                   envVars, clientVars, histVars>>

\* claim_next_operation: the oldest queued row.
Claim ==
    /\ wpc = "poll"
    /\ \E i \in Ids :
          /\ status[i] = "queued"
          /\ \A j \in Ids : status[j] = "queued" => i <= j
          /\ status' = [status EXCEPT ![i] = "running"]
          /\ stage' = [stage EXCEPT ![i] = Stages[params[i].kind][1]]
          /\ wop' = i
    /\ wpc' = "begin" /\ windex' = 1 /\ wresults' = {}
    /\ UNCHANGED <<last, slot, params, completed, finished, crashes,
                   envVars, clientVars, histVars>>

\* The loop of execute_operation: name the stage, run it, record its result.
BeginStage ==
    /\ wpc = "begin"
    /\ stage' = [stage EXCEPT ![wop] = Stages[params[wop].kind][windex]]
    /\ begun' = [begun EXCEPT ![wop] = @ + 1]
    /\ wpc' = "work"
    /\ UNCHANGED <<last, status, slot, params, completed, finished, wop, windex,
                   wresults, crashes, envVars, clientVars, outcomes>>

\* What a stage leaves behind: a daily stage creates and settles recurring
\* orders of its funds, as far as it gets.
StageEffect ==
    /\ IF stage[wop] = "sync-daily"
       THEN \E kept \in SUBSET (due \cap params[wop].codes) :
               due' = (due \ params[wop].codes) \cup kept
       ELSE UNCHANGED due
    /\ dueSince' = [c \in Clients |-> dueSince[c] \cap due']

RunStage(result) ==
    /\ wpc = "work"
    /\ StageEffect
    /\ wresults' = wresults \cup {result}
    /\ wpc' = "record"
    /\ UNCHANGED <<rowVars, wop, windex, crashes, selected, day, pc, req, histVars>>

\* Faulty variants: counts stages one too far; stops after the first stage.
RecordStage_OffByOne ==
    /\ wpc = "record"
    /\ completed' = [completed EXCEPT ![wop] = windex + 1]
    /\ outcomes' = [outcomes EXCEPT ![wop] = wresults]
    /\ windex' = windex + 1
    /\ wpc' = IF windex = Len(Stages[params[wop].kind]) THEN "complete" ELSE "begin"
    /\ UNCHANGED <<last, status, slot, params, stage, finished, wop, wresults, crashes,
                   envVars, clientVars, begun>>

RecordStage_StopsEarly ==
    /\ wpc = "record"
    /\ completed' = [completed EXCEPT ![wop] = windex]
    /\ outcomes' = [outcomes EXCEPT ![wop] = wresults]
    /\ windex' = windex + 1
    /\ wpc' = "complete"
    /\ UNCHANGED <<last, status, slot, params, stage, finished, wop, wresults, crashes,
                   envVars, clientVars, begun>>

RecordStage ==
    /\ wpc = "record"
    /\ completed' = [completed EXCEPT ![wop] = windex]
    /\ outcomes' = [outcomes EXCEPT ![wop] = wresults]
    /\ windex' = windex + 1
    /\ wpc' = IF windex = Len(Stages[params[wop].kind]) THEN "complete" ELSE "begin"
    /\ UNCHANGED <<last, status, slot, params, stage, finished, wop, wresults, crashes,
                   envVars, clientVars, begun>>

\* A stage, or a commit of the loop, raises: roll back what is not committed.
StageRaises ==
    /\ wpc \in {"begin", "work", "record"}
    /\ IF wpc = "work" THEN StageEffect ELSE UNCHANGED <<due, dueSince>>
    /\ wpc' = "fail"
    /\ UNCHANGED <<rowVars, wop, windex, wresults, crashes, selected, day,
                   pc, req, histVars>>

\* Faulty variant: the finished row keeps the slot.
FinishRow_KeepsSlot(i, r) ==
    /\ status' = [status EXCEPT ![i] = r]
    /\ stage' = [stage EXCEPT ![i] = NoStage]
    /\ finished' = [finished EXCEPT ![i] = day]
    /\ UNCHANGED slot

\* Leave the row finished with result r, its slot free and no current stage.
FinishRow(i, r) ==
    /\ status' = [status EXCEPT ![i] = r]
    /\ slot' = [slot EXCEPT ![i] = NoSlot]
    /\ stage' = [stage EXCEPT ![i] = NoStage]
    /\ finished' = [finished EXCEPT ![i] = day]

\* Faulty variant: one stage that succeeded is enough.
CombinedStatus_AnyStage(results) ==
    CASE "succeeded" \in results -> "succeeded"
      [] results = {"failed"} -> "failed"
      [] OTHER -> "partial"

CombinedStatus(results) ==
    CASE results = {"succeeded"} -> "succeeded"
      [] results = {"failed"} -> "failed"
      [] OTHER -> "partial"

\* execute_operation returns; its local variables are gone.
BackToPoll ==
    /\ wpc' = "poll" /\ wop' = 0 /\ windex' = 1 /\ wresults' = {}

FailOperation ==
    /\ wpc = "fail"
    /\ FinishRow(wop, "failed")
    /\ BackToPoll
    /\ UNCHANGED <<last, params, completed, crashes, envVars, clientVars, histVars>>

CompleteOperation ==
    /\ wpc = "complete"
    /\ FinishRow(wop, CombinedStatus(wresults))
    /\ BackToPoll
    /\ UNCHANGED <<last, params, completed, crashes, envVars, clientVars, histVars>>

\* The process dies at any point: killed, or an exception outside the try block
\* (the last commit, the commit of the error handler, recovery itself).  A stage
\* under way has committed some of its effects.
Crash ==
    /\ wpc # "down" /\ crashes < MaxCrashes
    /\ IF wpc = "work" THEN StageEffect ELSE UNCHANGED <<due, dueSince>>
    /\ wpc' = "down" /\ wop' = 0 /\ windex' = 1 /\ wresults' = {}
    /\ crashes' = crashes + 1
    /\ UNCHANGED <<rowVars, selected, day, pc, req, histVars>>

\* Faulty variant: a container that is not restarted.
Restart_Never == FALSE

\* Compose restarts the container ("restart: unless-stopped").
Restart ==
    /\ wpc = "down"
    /\ wpc' = "boot"
    /\ UNCHANGED <<rowVars, wop, windex, wresults, crashes, envVars, clientVars, histVars>>

WorkerStep ==
    \/ Recover \/ Claim \/ BeginStage
    \/ \E result \in Results : RunStage(result)
    \/ RecordStage \/ StageRaises \/ FailOperation \/ CompleteOperation

-----------------------------------------------------------------------------
(* What goes on around the queue.                                           *)

\* Importing an archived fund again selects it.
SelectFund(f) ==
    /\ f \notin selected
    /\ selected' = selected \cup {f}
    /\ UNCHANGED <<rowVars, workerVars, due, day, clientVars, histVars>>

\* An import adds a plan, a weekday begins or a net asset value arrives: an order
\* of fund f is missing or can settle.
PlanComesDue(f) ==
    /\ f \notin due
    /\ due' = due \cup {f}
    /\ UNCHANGED <<rowVars, workerVars, selected, day, clientVars, histVars>>

NextDay ==
    /\ day < MaxDay
    /\ day' = day + 1
    /\ UNCHANGED <<rowVars, workerVars, selected, due, clientVars, histVars>>

Next ==
    \/ \E c \in Clients : SubmitOperation(c) \/ RequestArchive(c) \/ ClientStep(c)
    \/ WorkerStep \/ Crash \/ Restart
    \/ \E f \in Funds : SelectFund(f)
    \/ \E f \in Plans : PlanComesDue(f)
    \/ NextDay

Spec == Init /\ [][Next]_vars

\* Handlers and the worker loop run on, and Compose restarts a dead worker.
\* Nobody has to submit, archive, import, crash or wait for a new day.
Fairness ==
    /\ \A c \in Clients : WF_vars(ClientStep(c))
    /\ WF_vars(WorkerStep)
    /\ WF_vars(Restart)

FairSpec == Spec /\ Fairness

-----------------------------------------------------------------------------
(* Properties.                                                              *)

\* A row holds the slot exactly while it is queued or running, and at most one
\* row does: the CHECK active_slot_matches_status and the UNIQUE slot, kept by
\* every writer of the table.
SlotMatchesStatus ==
    /\ \A i \in Ids : slot[i] = 1 <=> status[i] \in Active
    /\ \A i, j \in Ids : slot[i] = 1 /\ slot[j] = 1 => i = j

\* GET /operations/preparation-status reports the newest row as the active
\* operation if it is active: no older row may be the one that holds the slot.
ActiveIsNewest ==
    \A i \in Ids : status[i] \in Active => i = last

\* A running row is never orphaned: the worker executes it, or the worker is
\* down or about to recover it.  And the worker executes only a running row.
RunningIsOwned ==
    /\ \A i \in Ids : status[i] = "running" =>
          \/ wpc \in {"down", "boot"}
          \/ wpc \in Executing /\ wop = i
    /\ wpc \in Executing => wop \in Ids /\ status[wop] = "running"

\* No stage of an operation ever runs twice, whatever crashes and restarts:
\* at most one stage has begun beyond those recorded, and none after the end.
StagesRunAtMostOnce ==
    \A i \in Ids :
        /\ begun[i] \in {completed[i], completed[i] + 1}
        /\ completed[i] <= STAGE_TOTALS[params[i].kind]
        /\ begun[i] <= STAGE_TOTALS[params[i].kind]

\* "succeeded" and "partial" are only said of an operation all of whose stages
\* ran, and "succeeded" only if each of them succeeded.
OutcomeIsHonest ==
    \A i \in Ids :
        /\ status[i] \in {"succeeded", "partial"} =>
               completed[i] = STAGE_TOTALS[params[i].kind] /\ outcomes[i] # {}
        /\ status[i] = "succeeded" => outcomes[i] = {"succeeded"}
        /\ status[i] = "partial" => outcomes[i] \notin {{"succeeded"}, {"failed"}}

\* Answering with a finished operation never hides recurring work that was due
\* when the request arrived and still is (the ReuseCompleted branch).
ReuseHidesNothingDue ==
    [][\A c \in Clients :
         pc[c] = "lookup" /\ pc'[c] = "idle" => req[c].codes \cap dueSince[c] = {}]_vars

\* A finished row is never written again.
FinishedIsFinal ==
    [][\A i \in Ids : status[i] \in Results =>
          UNCHANGED <<status[i], slot[i], params[i], stage[i], completed[i], finished[i]>>]_vars

\* Every accepted operation finishes, and the slot is free again and again.
AcceptedFinishes ==
    \A i \in Ids : status[i] \in Active ~> status[i] \in Results

\* Every request is answered.
RequestsAnswered ==
    \A c \in Clients : pc[c] # "idle" ~> pc[c] = "idle"

-----------------------------------------------------------------------------
(* Why they hold.  An inductive invariant: rows fill up in order of id, and  *)
(* what the worker holds in memory agrees with the row it executes.          *)

RowsInOrder == \A i \in Ids : status[i] = "absent" <=> i > last

FreshRows ==
    \A i \in Ids : status[i] \in {"absent", "queued"} =>
        completed[i] = 0 /\ begun[i] = 0 /\ outcomes[i] = {}

WorkerAgrees ==
    wpc \in Executing =>
        LET total == STAGE_TOTALS[params[wop].kind]
        IN  /\ wpc # "complete" => windex <= total
            /\ wpc = "complete" => windex = total + 1 /\ wresults # {}
            /\ wpc = "record" => wresults # {}
            /\ completed[wop] = windex - 1
            /\ begun[wop] \in {windex - 1, windex}
            /\ wpc \in {"work", "record"} => begun[wop] = windex
            /\ wpc \in {"begin", "complete"} => begun[wop] = windex - 1
            /\ wpc \notin {"record", "fail"} => outcomes[wop] = wresults

IInv == /\ TypeOK
        /\ SlotMatchesStatus /\ ActiveIsNewest /\ RunningIsOwned
        /\ StagesRunAtMostOnce /\ OutcomeIsHonest
        /\ RowsInOrder /\ FreshRows /\ WorkerAgrees

-----------------------------------------------------------------------------
(* What a user of the queue is promised: see SerialOperations.              *)

Phase == [i \in Ids |-> IF status[i] \in Results THEN "finished" ELSE status[i]]
Outcome == [i \in Ids |-> IF status[i] \in Results THEN status[i] ELSE "none"]
Needed == [i \in Ids |-> IF status[i] = "absent" THEN 0 ELSE STAGE_TOTALS[params[i].kind]]

Promise == INSTANCE SerialOperations WITH
    Jobs <- Ids, Total <- 3,
    phase <- Phase, outcome <- Outcome, needed <- Needed, progress <- completed

\* The queue keeps the promise, and with fairness it keeps all of it: what is
\* accepted is started, and what is started ends.
PromiseKept == Promise!Spec
PromiseKeptFairly == Promise!FairSpec
=============================================================================
