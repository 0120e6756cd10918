------------------------ MODULE OperationQueueProofs ------------------------
(***************************************************************************)
(* Theorems about OperationQueue, for any clients, funds, requests and     *)
(* bounds.  IInv of that module is inductive; the safety properties are    *)
(* conjuncts of it.                                                        *)
(***************************************************************************)
EXTENDS OperationQueue, TLAPS

\* Every operation has one to three stages, as many as STAGE_TOTALS says.
LEMMA StageTable ==
    ASSUME NEW k \in OperationKinds
    PROVE  /\ STAGE_TOTALS[k] \in 1..3
           /\ Len(Stages[k]) = STAGE_TOTALS[k]
           /\ \A n \in 1..STAGE_TOTALS[k] : Stages[k][n] \in StageNames
<1>1. CASE k = "prepare"
  BY <1>1 DEF STAGE_TOTALS, Stages, OperationKinds, StageNames
<1>2. CASE k # "prepare"
  BY <1>2 DEF STAGE_TOTALS, Stages, OperationKinds, StageNames
<1>3. QED BY <1>1, <1>2

\* The invariant holds of an empty table and a worker that has just started.
LEMMA InitIInv == Init => IInv
<1> SUFFICES ASSUME Init PROVE IInv
  OBVIOUS
<1>1. NoParams \in Params /\ NoRequest \in AllRequests
  BY DEF NoParams, NoRequest, Params, AllRequests, OperationKinds, Lookbacks
<1>2. TypeOK
  BY <1>1, ConstantsAssumption
  DEF Init, TypeOK, Statuses, Ids, Days, ClientPcs, WorkerPcs, NoSlot, NoStage
<1>3. NoParams.kind \in OperationKinds
  BY DEF NoParams, OperationKinds
<1>4. STAGE_TOTALS[NoParams.kind] \in 1..3
  BY <1>3, StageTable
<1>5. StagesRunAtMostOnce
  BY <1>4 DEF Init, StagesRunAtMostOnce
<1>6. QED
  BY <1>2, <1>5, ConstantsAssumption
  DEF Init, IInv, SlotMatchesStatus, ActiveIsNewest, RunningIsOwned, OutcomeIsHonest,
      RowsInOrder, FreshRows, WorkerAgrees, Ids, Active, NoSlot, Executing

\* What the invariant says depends only on the type and these variables, so a
\* step that leaves them alone keeps it.
LEMMA FrameIInv ==
    ASSUME IInv, TypeOK', UNCHANGED <<rowVars, histVars, wpc, wop, windex, wresults>>
    PROVE  IInv'
BY DEF IInv, rowVars, histVars, SlotMatchesStatus, ActiveIsNewest, RunningIsOwned,
       StagesRunAtMostOnce, OutcomeIsHonest, RowsInOrder, FreshRows, WorkerAgrees

\* Handlers other than the INSERT only touch their own data and the selection.
LEMMA ClientIInv ==
    ASSUME IInv, NEW c \in Clients,
           SubmitOperation(c) \/ RequestArchive(c) \/ (ClientStep(c) /\ ~InsertOperation(c))
    PROVE  IInv'
<1>1. /\ UNCHANGED <<rowVars, histVars, workerVars, due, day>>
      /\ selected' \in SUBSET Funds
      /\ pc' \in [Clients -> ClientPcs]
      /\ req' \in [Clients -> AllRequests]
      /\ dueSince' \in [Clients -> SUBSET Funds]
  <2> USE DEF IInv, TypeOK, ClientPcs, envVars, Answer, Goto
  <2>0. NoRequest \in AllRequests
    BY DEF NoRequest, AllRequests, OperationKinds, Lookbacks
  <2>1. CASE SubmitOperation(c)
    BY <2>1, ConstantsAssumption DEF SubmitOperation
  <2>2. CASE RequestArchive(c)
    <3>1. PICK f \in Funds : req' = [req EXCEPT ![c].codes = {f}]
      BY <2>2 DEF RequestArchive
    <3>2. [req[c] EXCEPT !.codes = {f}] \in AllRequests
      BY DEF AllRequests
    <3>3. req' \in [Clients -> AllRequests]
      BY <3>1, <3>2
    <3>4. QED BY <2>2, <3>3 DEF RequestArchive
  <2>3. CASE ReadInputs(c)
    <3>1. [req[c] EXCEPT !.codes = IF @ = {} THEN selected ELSE @] \in AllRequests
      BY DEF AllRequests
    <3>2. QED BY <2>0, <2>3, <3>1 DEF ReadInputs
  <2>4. CASE CheckPending(c)
    BY <2>4 DEF CheckPending
  <2>5. CASE ReuseCompleted(c)
    BY <2>0, <2>5 DEF ReuseCompleted
  <2>6. CASE NothingToReuse(c)
    BY <2>6 DEF NothingToReuse
  <2>7. CASE InsertRefused(c)
    BY <2>7 DEF InsertRefused
  <2>8. CASE ExplainConflict(c)
    BY <2>0, <2>8 DEF ExplainConflict
  <2>9. CASE CheckArchive(c)
    BY <2>0, <2>9 DEF CheckArchive
  <2>10. CASE CommitArchive(c)
    BY <2>0, <2>10 DEF CommitArchive
  <2>11. QED
    BY <2>1, <2>2, <2>3, <2>4, <2>5, <2>6, <2>7, <2>8, <2>9, <2>10 DEF ClientStep
<1>2. TypeOK'
  BY <1>1 DEF IInv, TypeOK, rowVars, histVars, workerVars
<1>3. QED
  BY <1>1, <1>2, FrameIInv DEF workerVars

\* The INSERT fills the next row; it is new, so nothing else is disturbed.
LEMMA InsertIInv ==
    ASSUME IInv, NEW c \in Clients, InsertOperation(c)
    PROVE  IInv'
<1> DEFINE i == last + 1
           p == [kind |-> req[c].kind, codes |-> req[c].codes, lookback |-> req[c].lookback]
<1> USE DEF IInv, InsertOperation, Ids, NoSlot
<1>1. i \in Ids /\ status[i] = "absent" /\ last' = i
  BY DEF RowsInOrder, TypeOK
<1>2. p \in Params /\ p.kind \in OperationKinds
  BY DEF TypeOK, AllRequests, Params
<1>3. NoRequest \in AllRequests
  BY DEF NoRequest, AllRequests, OperationKinds, Lookbacks
<1>4. TypeOK'
  BY <1>1, <1>2, <1>3
  DEF TypeOK, Answer, workerVars, envVars, histVars, Statuses, Active, ClientPcs
<1>5. /\ status' = [status EXCEPT ![i] = "queued"]
      /\ slot' = [slot EXCEPT ![i] = 1]
      /\ params' = [params EXCEPT ![i] = p]
      /\ UNCHANGED <<completed, begun, outcomes, wpc, wop, windex, wresults>>
  BY DEF workerVars, histVars
<1>6. \A j \in Ids : slot[j] # 1 /\ status[j] \notin Active
  BY DEF SlotTaken, SlotMatchesStatus
<1>7. SlotMatchesStatus' /\ ActiveIsNewest'
  BY <1>1, <1>5, <1>6 DEF SlotMatchesStatus, ActiveIsNewest, TypeOK, Active
<1>8. wpc \notin Executing
  BY <1>6 DEF RunningIsOwned, Active
<1>9. RunningIsOwned' /\ WorkerAgrees'
  BY <1>5, <1>6, <1>8 DEF RunningIsOwned, WorkerAgrees, TypeOK, Active
<1>10. completed[i] = 0 /\ begun[i] = 0 /\ outcomes[i] = {}
  BY <1>1 DEF FreshRows
<1>11. STAGE_TOTALS[p.kind] \in 1..3
  BY <1>2, StageTable
<1>12. StagesRunAtMostOnce'
  BY <1>1, <1>5, <1>10, <1>11 DEF StagesRunAtMostOnce, TypeOK
<1>13. OutcomeIsHonest'
  BY <1>1, <1>5 DEF OutcomeIsHonest, TypeOK
<1>14. RowsInOrder' /\ FreshRows'
  BY <1>1, <1>5, <1>10 DEF RowsInOrder, FreshRows, TypeOK
<1>15. QED
  BY <1>4, <1>7, <1>9, <1>12, <1>13, <1>14

\* What the worker's steps need of the operation it executes.
LEMMA WorkerFacts ==
    ASSUME IInv, wpc \in Executing
    PROVE  /\ wop \in Ids /\ status[wop] = "running" /\ slot[wop] = 1
           /\ params[wop].kind \in OperationKinds
           /\ STAGE_TOTALS[params[wop].kind] \in 1..3
           /\ Len(Stages[params[wop].kind]) = STAGE_TOTALS[params[wop].kind]
           /\ windex \in 1..STAGE_TOTALS[params[wop].kind] =>
                  Stages[params[wop].kind][windex] \in StageNames
<1>1. wop \in Ids /\ status[wop] = "running" /\ slot[wop] = 1
  BY DEF IInv, RunningIsOwned, SlotMatchesStatus, Active
<1>2. params[wop].kind \in OperationKinds
  BY <1>1 DEF IInv, TypeOK, Params
<1>3. QED BY <1>1, <1>2, StageTable

\* Steps that leave the table and the history alone and keep the worker's
\* promise about what it holds in memory.
LEMMA WorkerFrameIInv ==
    ASSUME IInv, TypeOK', UNCHANGED <<rowVars, histVars>>,
           RunningIsOwned', WorkerAgrees'
    PROVE  IInv'
BY DEF IInv, rowVars, histVars, SlotMatchesStatus, ActiveIsNewest,
       StagesRunAtMostOnce, OutcomeIsHonest, RowsInOrder, FreshRows

LEMMA StageEffectType ==
    ASSUME TypeOK, StageEffect \/ UNCHANGED <<due, dueSince>>
    PROVE  due' \in SUBSET Funds /\ dueSince' \in [Clients -> SUBSET Funds]
BY DEF TypeOK, StageEffect

LEMMA RunStageIInv ==
    ASSUME IInv, NEW result \in Results, RunStage(result)
    PROVE  IInv'
<1> USE DEF RunStage
<1>1. wpc \in Executing /\ wpc = "work" /\ wpc' = "record"
  BY DEF Executing
<1>2. UNCHANGED <<rowVars, histVars, wop, windex>> /\ wresults' = wresults \cup {result}
  OBVIOUS
<1>3. TypeOK'
  BY StageEffectType DEF IInv, TypeOK, rowVars, histVars, WorkerPcs
<1>4. RunningIsOwned'
  BY <1>1, <1>2 DEF IInv, RunningIsOwned, rowVars, Executing
<1>5. WorkerAgrees'
  BY <1>1, <1>2 DEF IInv, WorkerAgrees, rowVars, histVars, Executing
<1>6. QED BY <1>2, <1>3, <1>4, <1>5, WorkerFrameIInv

LEMMA StageRaisesIInv ==
    ASSUME IInv, StageRaises
    PROVE  IInv'
<1> USE DEF StageRaises
<1>1. wpc \in Executing /\ wpc' = "fail" /\ wpc \in {"begin", "work", "record"}
  BY DEF Executing
<1>2. UNCHANGED <<rowVars, histVars, wop, windex, wresults>>
  OBVIOUS
<1>3. TypeOK'
  BY StageEffectType DEF IInv, TypeOK, rowVars, histVars, WorkerPcs
<1>4. RunningIsOwned'
  BY <1>1, <1>2 DEF IInv, RunningIsOwned, rowVars, Executing
<1>5. WorkerAgrees'
  BY <1>1, <1>2 DEF IInv, WorkerAgrees, rowVars, histVars, Executing
<1>6. QED BY <1>2, <1>3, <1>4, <1>5, WorkerFrameIInv

LEMMA CrashIInv ==
    ASSUME IInv, Crash
    PROVE  IInv'
<1> USE DEF Crash
<1>1. UNCHANGED <<rowVars, histVars>> /\ wpc' = "down"
  OBVIOUS
<1>2. TypeOK'
  BY StageEffectType, ConstantsAssumption
  DEF IInv, TypeOK, rowVars, histVars, WorkerPcs, Results
<1>3. RunningIsOwned' /\ WorkerAgrees'
  BY <1>1 DEF RunningIsOwned, WorkerAgrees, Executing
<1>4. QED BY <1>1, <1>2, <1>3, WorkerFrameIInv

LEMMA RestartIInv ==
    ASSUME IInv, Restart
    PROVE  IInv'
<1> USE DEF Restart
<1>1. UNCHANGED <<rowVars, histVars>> /\ wpc' = "boot"
  OBVIOUS
<1>2. TypeOK'
  BY DEF IInv, TypeOK, rowVars, histVars, WorkerPcs, envVars, clientVars
<1>3. RunningIsOwned' /\ WorkerAgrees'
  BY <1>1 DEF RunningIsOwned, WorkerAgrees, Executing
<1>4. QED BY <1>1, <1>2, <1>3, WorkerFrameIInv

\* A new process closes every row a dead one left running.
LEMMA RecoverIInv ==
    ASSUME IInv, Recover
    PROVE  IInv'
<1> USE DEF IInv, Recover
<1>1. UNCHANGED <<last, params, stage, completed, wop, windex, wresults, begun, outcomes>>
  BY DEF histVars
<1>2. wpc' = "poll" /\ wpc = "boot"
  OBVIOUS
<1>3. \A i \in Ids : /\ status'[i] = IF status[i] = "running" THEN "failed" ELSE status[i]
                     /\ slot'[i] = IF status[i] = "running" THEN NoSlot ELSE slot[i]
  OBVIOUS
<1>4. TypeOK'
  BY DEF TypeOK, Statuses, Results, Active, WorkerPcs, envVars, clientVars, histVars, NoSlot, Days
<1>5. SlotMatchesStatus' /\ ActiveIsNewest'
  BY <1>1, <1>3 DEF SlotMatchesStatus, ActiveIsNewest, Active, NoSlot
<1>6. RunningIsOwned' /\ WorkerAgrees'
  BY <1>2, <1>3 DEF RunningIsOwned, WorkerAgrees, Executing
<1>7. StagesRunAtMostOnce'
  BY <1>1 DEF StagesRunAtMostOnce
<1>8. OutcomeIsHonest'
  BY <1>1, <1>3 DEF OutcomeIsHonest
<1>9. RowsInOrder' /\ FreshRows'
  BY <1>1, <1>3 DEF RowsInOrder, FreshRows
<1>10. QED BY <1>4, <1>5, <1>6, <1>7, <1>8, <1>9

\* Only the newest row is queued, and nothing runs while the worker polls.
LEMMA ClaimIInv ==
    ASSUME IInv, Claim
    PROVE  IInv'
<1> USE DEF IInv
<1>1. PICK i \in Ids : /\ status[i] = "queued"
                       /\ status' = [status EXCEPT ![i] = "running"]
                       /\ stage' = [stage EXCEPT ![i] = Stages[params[i].kind][1]]
                       /\ wop' = i
  BY DEF Claim
<1>2. /\ wpc = "poll" /\ wpc' = "begin" /\ windex' = 1 /\ wresults' = {}
      /\ UNCHANGED <<last, slot, params, completed, finished, begun, outcomes>>
  BY DEF Claim, histVars
<1>3. params[i].kind \in OperationKinds
  BY DEF TypeOK, Params
<1>4. /\ STAGE_TOTALS[params[i].kind] \in 1..3
      /\ Stages[params[i].kind][1] \in StageNames
  BY <1>3, StageTable
<1>5. TypeOK'
  BY <1>1, <1>2, <1>4
  DEF Claim, TypeOK, Statuses, Results, Active, WorkerPcs, envVars, clientVars, histVars, Ids
<1>6. SlotMatchesStatus' /\ ActiveIsNewest'
  BY <1>1, <1>2 DEF SlotMatchesStatus, ActiveIsNewest, Active, TypeOK
<1>7. \A j \in Ids : status[j] # "running"
  BY <1>2 DEF RunningIsOwned, Executing
<1>8. RunningIsOwned'
  BY <1>1, <1>2, <1>7 DEF RunningIsOwned, Executing, TypeOK
<1>9. completed[i] = 0 /\ begun[i] = 0 /\ outcomes[i] = {}
  BY <1>1 DEF FreshRows
<1>10. WorkerAgrees'
  BY <1>1, <1>2, <1>4, <1>9 DEF WorkerAgrees, Executing
<1>11. StagesRunAtMostOnce' /\ OutcomeIsHonest'
  BY <1>1, <1>2 DEF StagesRunAtMostOnce, OutcomeIsHonest, TypeOK
<1>12. RowsInOrder' /\ FreshRows'
  BY <1>1, <1>2 DEF RowsInOrder, FreshRows, TypeOK
<1>13. QED BY <1>5, <1>6, <1>8, <1>10, <1>11, <1>12

LEMMA BeginStageIInv ==
    ASSUME IInv, BeginStage
    PROVE  IInv'
<1> USE DEF IInv
<1>1. /\ wpc = "begin" /\ wpc' = "work" /\ wpc \in Executing
      /\ stage' = [stage EXCEPT ![wop] = Stages[params[wop].kind][windex]]
      /\ begun' = [begun EXCEPT ![wop] = @ + 1]
      /\ UNCHANGED <<last, status, slot, params, completed, wop, windex, wresults, outcomes>>
  BY DEF BeginStage, Executing
<1>2. /\ wop \in Ids /\ status[wop] = "running"
      /\ windex \in 1..STAGE_TOTALS[params[wop].kind]
      /\ completed[wop] = windex - 1 /\ begun[wop] = windex - 1
      /\ outcomes[wop] = wresults
  BY <1>1, WorkerFacts DEF WorkerAgrees, TypeOK
<1>3. Stages[params[wop].kind][windex] \in StageNames
  BY <1>1, <1>2, WorkerFacts
<1>4. TypeOK'
  BY <1>1, <1>2, <1>3 DEF BeginStage, TypeOK, WorkerPcs, envVars, clientVars
<1>5. SlotMatchesStatus' /\ ActiveIsNewest' /\ OutcomeIsHonest' /\ RowsInOrder'
  BY <1>1 DEF SlotMatchesStatus, ActiveIsNewest, OutcomeIsHonest, RowsInOrder
<1>6. RunningIsOwned'
  BY <1>1 DEF RunningIsOwned, Executing
<1>7. begun'[wop] = windex /\ (\A j \in Ids : j # wop => begun'[j] = begun[j])
  BY <1>1, <1>2 DEF TypeOK
<1>8. STAGE_TOTALS[params[wop].kind] \in 1..3
  BY <1>1, WorkerFacts
<1>9. StagesRunAtMostOnce'
  BY <1>1, <1>2, <1>7, <1>8 DEF StagesRunAtMostOnce
<1>10. FreshRows'
  BY <1>1, <1>2, <1>7 DEF FreshRows
<1>11. WorkerAgrees'
  BY <1>1, <1>2, <1>7, <1>8 DEF WorkerAgrees, Executing
<1>12. QED BY <1>4, <1>5, <1>6, <1>9, <1>10, <1>11

LEMMA RecordStageIInv ==
    ASSUME IInv, RecordStage
    PROVE  IInv'
<1> DEFINE total == STAGE_TOTALS[params[wop].kind]
<1> USE DEF IInv
<1>1. /\ wpc = "record" /\ wpc \in Executing
      /\ completed' = [completed EXCEPT ![wop] = windex]
      /\ outcomes' = [outcomes EXCEPT ![wop] = wresults]
      /\ windex' = windex + 1
      /\ wpc' = IF windex = Len(Stages[params[wop].kind]) THEN "complete" ELSE "begin"
      /\ UNCHANGED <<last, status, slot, params, stage, wop, wresults, begun>>
  BY DEF RecordStage, Executing
<1>2. /\ wop \in Ids /\ status[wop] = "running"
      /\ total \in 1..3 /\ Len(Stages[params[wop].kind]) = total
  BY <1>1, WorkerFacts
<1>3. /\ windex \in 1..total
      /\ completed[wop] = windex - 1 /\ begun[wop] = windex
      /\ wresults # {}
  BY <1>1, <1>2 DEF WorkerAgrees, TypeOK
<1>4. TypeOK'
  <2>1. windex \in 0..3 /\ windex' \in 1..4 /\ wpc' \in WorkerPcs
    BY <1>1, <1>2, <1>3 DEF WorkerPcs
  <2>2. completed' \in [Ids -> 0..3] /\ outcomes' \in [Ids -> SUBSET Results]
    BY <1>1, <2>1 DEF TypeOK
  <2>3. QED BY <1>1, <2>1, <2>2 DEF RecordStage, TypeOK, envVars, clientVars
<1>5. SlotMatchesStatus' /\ ActiveIsNewest' /\ RowsInOrder'
  BY <1>1 DEF SlotMatchesStatus, ActiveIsNewest, RowsInOrder
<1>6. RunningIsOwned'
  BY <1>1 DEF RunningIsOwned, Executing
<1>7. /\ completed'[wop] = windex /\ outcomes'[wop] = wresults
      /\ \A j \in Ids : j # wop => completed'[j] = completed[j] /\ outcomes'[j] = outcomes[j]
  BY <1>1, <1>2 DEF TypeOK
<1>8. StagesRunAtMostOnce'
  BY <1>1, <1>2, <1>3, <1>7 DEF StagesRunAtMostOnce
<1>9. OutcomeIsHonest'
  BY <1>1, <1>2, <1>7 DEF OutcomeIsHonest
<1>10. FreshRows'
  BY <1>1, <1>2, <1>7 DEF FreshRows
<1>11. WorkerAgrees'
  BY <1>1, <1>2, <1>3, <1>7 DEF WorkerAgrees, Executing
<1>12. QED BY <1>4, <1>5, <1>6, <1>8, <1>9, <1>10, <1>11

\* Either way the operation ends: what a finished row must say, and the worker
\* goes back to polling.
LEMMA FinishIInv ==
    ASSUME IInv, wpc \in Executing, NEW r \in Results,
           FinishRow(wop, r), BackToPoll,
           UNCHANGED <<last, params, completed, crashes, envVars, clientVars, histVars>>,
           r \in {"succeeded", "partial"} =>
               wpc = "complete" /\ r = CombinedStatus(wresults)
    PROVE  IInv'
<1> USE DEF IInv
<1>1. /\ status' = [status EXCEPT ![wop] = r]
      /\ slot' = [slot EXCEPT ![wop] = NoSlot]
      /\ UNCHANGED <<last, params, completed, begun, outcomes>>
      /\ wpc' = "poll"
  BY DEF FinishRow, BackToPoll, histVars
<1>2. wop \in Ids /\ status[wop] = "running" /\ slot[wop] = 1
  BY WorkerFacts
<1>3. TypeOK'
  <2>1. status' \in [Ids -> Statuses \cup {"absent"}] /\ slot' \in [Ids -> {NoSlot, 1}]
    BY <1>1 DEF TypeOK, Statuses
  <2>2. stage' \in [Ids -> StageNames \cup {NoStage}] /\ finished' \in [Ids -> 0..MaxDay]
    <3>1. day \in 0..MaxDay
      BY ConstantsAssumption DEF TypeOK, Days
    <3>2. stage' = [stage EXCEPT ![wop] = NoStage] /\ finished' = [finished EXCEPT ![wop] = day]
      BY DEF FinishRow
    <3>3. QED BY <3>1, <3>2 DEF TypeOK
  <2>3. wpc' \in WorkerPcs /\ wop' \in 0..MaxOps /\ windex' \in 1..4 /\ wresults' \in SUBSET Results
    BY ConstantsAssumption DEF BackToPoll, WorkerPcs
  <2>4. UNCHANGED <<last, params, completed, crashes, selected, due, day, pc, req, dueSince,
                    begun, outcomes>>
    BY DEF envVars, clientVars, histVars
  <2>5. QED BY <2>1, <2>2, <2>3, <2>4 DEF TypeOK
<1>4. SlotMatchesStatus' /\ ActiveIsNewest'
  BY <1>1, <1>2 DEF SlotMatchesStatus, ActiveIsNewest, Active, NoSlot, TypeOK, Results
<1>5. \A j \in Ids : status'[j] # "running"
  BY <1>1, <1>2 DEF RunningIsOwned, TypeOK, Results, Executing
<1>6. RunningIsOwned' /\ WorkerAgrees'
  BY <1>1, <1>5 DEF RunningIsOwned, WorkerAgrees, Executing
<1>7. StagesRunAtMostOnce'
  BY <1>1 DEF StagesRunAtMostOnce
<1>8. RowsInOrder' /\ FreshRows'
  BY <1>1, <1>2 DEF RowsInOrder, FreshRows, TypeOK, Results
<1>9. OutcomeIsHonest'
  <2>1. CASE r = "failed"
    BY <1>1, <1>2, <2>1 DEF OutcomeIsHonest, TypeOK
  <2>2. CASE r \in {"succeeded", "partial"}
    <3>1. /\ outcomes[wop] = wresults /\ wresults # {}
          /\ completed[wop] = STAGE_TOTALS[params[wop].kind]
      BY <1>2, <2>2, WorkerFacts DEF WorkerAgrees
    <3>2. /\ r = "succeeded" => wresults = {"succeeded"}
          /\ r = "partial" => wresults \notin {{"succeeded"}, {"failed"}}
      BY <2>2 DEF CombinedStatus
    <3>3. QED BY <1>1, <1>2, <2>2, <3>1, <3>2 DEF OutcomeIsHonest, TypeOK
  <2>3. QED BY <2>1, <2>2 DEF Results
<1>10. QED BY <1>3, <1>4, <1>6, <1>7, <1>8, <1>9

LEMMA FailIInv ==
    ASSUME IInv, FailOperation
    PROVE  IInv'
BY FinishIInv DEF FailOperation, Executing, Results

LEMMA CompleteIInv ==
    ASSUME IInv, CompleteOperation
    PROVE  IInv'
<1>1. CombinedStatus(wresults) \in Results
  BY DEF CombinedStatus, Results
<1>2. QED BY <1>1, FinishIInv DEF CompleteOperation, Executing

\* A fund selected, a plan come due, a day gone by.
LEMMA EnvironmentIInv ==
    ASSUME IInv, (\E f \in Funds : SelectFund(f)) \/ (\E f \in Plans : PlanComesDue(f)) \/ NextDay
    PROVE  IInv'
<1>1. UNCHANGED <<rowVars, histVars, workerVars, clientVars>>
  BY DEF SelectFund, PlanComesDue, NextDay
<1>2. due' \in SUBSET Funds /\ selected' \in SUBSET Funds /\ day' \in Days
  BY ConstantsAssumption DEF IInv, TypeOK, SelectFund, PlanComesDue, NextDay, Days
<1>3. TypeOK'
  BY <1>1, <1>2 DEF IInv, TypeOK, rowVars, histVars, workerVars, clientVars
<1>4. QED BY <1>1, <1>3, FrameIInv DEF workerVars

\* Every step of the system keeps the invariant.
LEMMA NextIInv == IInv /\ [Next]_vars => IInv'
<1> SUFFICES ASSUME IInv, [Next]_vars PROVE IInv'
  OBVIOUS
<1>1. ASSUME NEW c \in Clients, SubmitOperation(c) \/ RequestArchive(c) \/ ClientStep(c)
      PROVE  IInv'
  BY <1>1, ClientIInv, InsertIInv
<1>2. CASE WorkerStep
  BY <1>2, RecoverIInv, ClaimIInv, BeginStageIInv, RunStageIInv, RecordStageIInv,
     StageRaisesIInv, FailIInv, CompleteIInv DEF WorkerStep
<1>3. CASE Crash \/ Restart
  BY <1>3, CrashIInv, RestartIInv
<1>4. CASE (\E f \in Funds : SelectFund(f)) \/ (\E f \in Plans : PlanComesDue(f)) \/ NextDay
  BY <1>4, EnvironmentIInv
<1>5. CASE UNCHANGED vars
  <2>1. UNCHANGED <<rowVars, histVars, workerVars, clientVars, selected, due, day>>
    BY <1>5 DEF vars, envVars
  <2>2. TypeOK'
    BY <2>1 DEF IInv, TypeOK, rowVars, histVars, workerVars, clientVars
  <2>3. QED BY <2>1, <2>2, FrameIInv DEF workerVars
<1>6. QED
  BY <1>1, <1>2, <1>3, <1>4, <1>5 DEF Next

THEOREM Invariant == Spec => []IInv
BY InitIInv, NextIInv, PTL DEF Spec

\* The table, the worker and the handlers only ever hold values of their types:
\* in particular the worker never runs past the last stage of its operation.
THEOREM TypeCorrect == Spec => []TypeOK
<1>1. IInv => TypeOK BY DEF IInv
<1>2. QED BY <1>1, Invariant, PTL

\* One active operation at a time, and the slot says which (operation_queue.py,
\* models.py: active_slot_matches_status).
THEOREM OneActiveOperation == Spec => [](SlotMatchesStatus /\ ActiveIsNewest)
<1>1. IInv => SlotMatchesStatus /\ ActiveIsNewest BY DEF IInv
<1>2. QED BY <1>1, Invariant, PTL

\* A crash never leaves a running row nobody will close (worker start-up), and
\* execute_operation never finds its row closed under it.
THEOREM NoOrphans == Spec => []RunningIsOwned
<1>1. IInv => RunningIsOwned BY DEF IInv
<1>2. QED BY <1>1, Invariant, PTL

\* No stage of an operation runs twice and none runs beyond the last, whatever
\* the worker's crashes and restarts: recovery fails an operation, it never
\* resumes one.
THEOREM AtMostOnce == Spec => []StagesRunAtMostOnce
<1>1. IInv => StagesRunAtMostOnce BY DEF IInv
<1>2. QED BY <1>1, Invariant, PTL

\* The status of a finished operation is backed by the stages that ran.
THEOREM HonestOutcome == Spec => []OutcomeIsHonest
<1>1. IInv => OutcomeIsHonest BY DEF IInv
<1>2. QED BY <1>1, Invariant, PTL

-----------------------------------------------------------------------------
(* What a step may never do, and the promise of SerialOperations.           *)

\* Which rows a step writes: none, a new one, or the one that was queued or
\* running.
LEMMA FinishedRowsStay ==
    ASSUME IInv, [Next]_vars, NEW i \in Ids, status[i] \in Results
    PROVE  UNCHANGED <<status[i], slot[i], params[i], stage[i], completed[i], finished[i]>>
<1> USE DEF IInv
<1>1. status[i] \notin {"absent", "queued", "running"}
  BY DEF Results
<1>2. ASSUME NEW c \in Clients, SubmitOperation(c) \/ RequestArchive(c) \/ ClientStep(c)
      PROVE  UNCHANGED <<status[i], slot[i], params[i], stage[i], completed[i], finished[i]>>
  <2>1. CASE InsertOperation(c)
    <3>1. last + 1 \in Ids /\ status[last + 1] = "absent"
      BY <2>1 DEF InsertOperation, RowsInOrder, TypeOK, Ids
    <3>2. i # last + 1
      BY <3>1, <1>1
    <3>3. QED BY <2>1, <3>2 DEF InsertOperation, TypeOK
  <2>2. CASE ~InsertOperation(c)
    BY <1>2, <2>2 DEF ClientStep, SubmitOperation, RequestArchive, ReadInputs, CheckPending,
       ReuseCompleted, NothingToReuse, InsertRefused, ExplainConflict, CheckArchive,
       CommitArchive, rowVars
  <2>3. QED BY <2>1, <2>2
<1>3. CASE WorkerStep
  <2>1. wpc \in Executing => wop # i
    BY <1>1, WorkerFacts
  <2>2. CASE Recover
    BY <2>2, <1>1 DEF Recover, TypeOK
  <2>3. CASE Claim
    BY <2>3, <1>1 DEF Claim, TypeOK
  <2>4. CASE BeginStage
    BY <2>4, <2>1 DEF BeginStage, TypeOK, Executing
  <2>5. CASE \E result \in Results : RunStage(result)
    BY <2>5 DEF RunStage, rowVars
  <2>6. CASE RecordStage
    BY <2>6, <2>1 DEF RecordStage, TypeOK, Executing
  <2>7. CASE StageRaises
    BY <2>7 DEF StageRaises, rowVars
  <2>8. CASE FailOperation
    BY <2>8, <2>1 DEF FailOperation, FinishRow, TypeOK, Executing
  <2>9. CASE CompleteOperation
    BY <2>9, <2>1 DEF CompleteOperation, FinishRow, TypeOK, Executing
  <2>10. QED
    BY <1>3, <2>2, <2>3, <2>4, <2>5, <2>6, <2>7, <2>8, <2>9 DEF WorkerStep
<1>4. CASE Crash \/ Restart
  BY <1>4 DEF Crash, Restart, rowVars
<1>5. CASE (\E f \in Funds : SelectFund(f)) \/ (\E f \in Plans : PlanComesDue(f)) \/ NextDay
  BY <1>5 DEF SelectFund, PlanComesDue, NextDay, rowVars
<1>6. CASE UNCHANGED vars
  BY <1>6 DEF vars, rowVars
<1>7. QED
  BY <1>2, <1>3, <1>4, <1>5, <1>6 DEF Next

\* A finished row is never written again: a poll of GET /operations/{id} that saw
\* the end of an operation saw its last word.
THEOREM FinishedForGood == Spec => FinishedIsFinal
<1>1. IInv /\ [Next]_vars =>
        [\A i \in Ids : status[i] \in Results =>
            UNCHANGED <<status[i], slot[i], params[i], stage[i], completed[i], finished[i]>>]_vars
  BY FinishedRowsStay
<1>2. QED BY <1>1, Invariant, PTL DEF Spec, FinishedIsFinal

\* An empty table is a promise not yet given.
LEMMA PromiseInit == Init => Promise!Init
BY DEF Init, Promise!Init, Phase, Outcome, Needed, Results

\* Steps that leave the rows alone are invisible in the promise.
LEMMA Invisible ==
    ASSUME UNCHANGED <<status, params, completed>>
    PROVE  UNCHANGED Promise!vars
BY DEF Promise!vars, Phase, Outcome, Needed

LEMMA PromiseAccept ==
    ASSUME IInv, NEW c \in Clients, InsertOperation(c)
    PROVE  Promise!Next
<1> DEFINE j == last + 1
           n == STAGE_TOTALS[req[c].kind]
<1> USE DEF IInv
<1>1. /\ j \in Ids /\ status' = [status EXCEPT ![j] = "queued"]
      /\ UNCHANGED completed
      /\ params' = [params EXCEPT ![j] =
            [kind |-> req[c].kind, codes |-> req[c].codes, lookback |-> req[c].lookback]]
  BY DEF InsertOperation
<1>2. status[j] = "absent" /\ \A k \in Ids : status[k] \notin Active
  BY <1>1 DEF InsertOperation, SlotTaken, SlotMatchesStatus, RowsInOrder, TypeOK, Ids
<1>3. \A k \in Ids : k < j => status[k] \in Results
  <2> SUFFICES ASSUME NEW k \in Ids, k < j PROVE status[k] \in Results
    OBVIOUS
  <2>1. ~(k > last)
    BY DEF TypeOK, Ids
  <2>2. status[k] # "absent" /\ status[k] \in Statuses \cup {"absent"}
    BY <2>1 DEF RowsInOrder, TypeOK
  <2>3. QED BY <1>2, <2>2 DEF Statuses
<1>4. \A k \in Ids : k >= j => status[k] = "absent"
  BY DEF RowsInOrder, TypeOK, Ids
<1>5. \A k \in Ids : Phase[k] = IF k < j THEN "finished" ELSE "absent"
  BY <1>3, <1>4 DEF Phase, Results, Ids, TypeOK
<1>6. Phase' = [Phase EXCEPT ![j] = "queued"]
  BY <1>1 DEF Phase, Results, TypeOK
<1>7. Outcome' = Outcome
  BY <1>1, <1>2 DEF Outcome, Results, TypeOK
<1>8. Needed' = [Needed EXCEPT ![j] = n]
  BY <1>1, <1>2 DEF Needed, TypeOK
<1>9. n \in 1..3
  BY StageTable DEF TypeOK, AllRequests
<1>10. Promise!Accept(j)
  BY <1>1, <1>5, <1>6, <1>7, <1>8, <1>9 DEF Promise!Accept
<1>11. QED BY <1>1, <1>10 DEF Promise!Next

LEMMA PromiseStart ==
    ASSUME IInv, Claim
    PROVE  Promise!Next
<1> USE DEF IInv
<1>1. PICK i \in Ids : status[i] = "queued" /\ status' = [status EXCEPT ![i] = "running"]
  BY DEF Claim
<1>2. UNCHANGED <<params, completed>>
  BY DEF Claim
<1>3. Phase[i] = "queued" /\ Phase' = [Phase EXCEPT ![i] = "running"]
  BY <1>1 DEF Phase, Results, TypeOK
<1>4. Outcome' = Outcome /\ Needed' = Needed
  BY <1>1, <1>2 DEF Outcome, Needed, Results, TypeOK
<1>5. Promise!Start(i)
  BY <1>2, <1>3, <1>4 DEF Promise!Start
<1>6. QED BY <1>5 DEF Promise!Next

LEMMA PromiseAdvance ==
    ASSUME IInv, RecordStage
    PROVE  Promise!Next
<1> USE DEF IInv
<1>1. /\ wop \in Ids /\ status[wop] = "running" /\ completed[wop] = windex - 1
      /\ windex \in 1..STAGE_TOTALS[params[wop].kind]
      /\ STAGE_TOTALS[params[wop].kind] \in 1..3
  BY WorkerFacts DEF RecordStage, WorkerAgrees, Executing, TypeOK
<1>2. UNCHANGED <<status, params>> /\ completed' = [completed EXCEPT ![wop] = windex]
  BY DEF RecordStage
<1>3. Phase[wop] = "running" /\ Needed[wop] = STAGE_TOTALS[params[wop].kind]
  BY <1>1 DEF Phase, Needed, Results
<1>4. UNCHANGED <<Phase, Outcome, Needed>>
  BY <1>2 DEF Phase, Outcome, Needed
<1>5. /\ completed[wop] < Needed[wop]
      /\ completed' = [completed EXCEPT ![wop] = completed[wop] + 1]
  BY <1>1, <1>2, <1>3
<1>6. Promise!Advance(wop)
  BY <1>2, <1>3, <1>4, <1>5 DEF Promise!Advance
<1>7. QED BY <1>1, <1>6 DEF Promise!Next

\* The common part of the ways an operation ends.
LEMMA PromiseFinish ==
    ASSUME IInv, NEW i \in Ids, status[i] = "running", NEW r \in Results,
           status' = [status EXCEPT ![i] = r], UNCHANGED <<params, completed>>,
           r # "failed" => completed[i] = STAGE_TOTALS[params[i].kind]
    PROVE  Promise!Next
<1> USE DEF IInv
<1>1. Phase[i] = "running" /\ Phase' = [Phase EXCEPT ![i] = "finished"]
  BY DEF Phase, Results, TypeOK
<1>2. Outcome' = [Outcome EXCEPT ![i] = r]
  BY DEF Outcome, Results, TypeOK
<1>3. Needed' = Needed /\ Needed[i] = STAGE_TOTALS[params[i].kind]
  BY DEF Needed, Results, TypeOK
<1>4. Promise!Finish(i)
  BY <1>1, <1>2, <1>3 DEF Promise!Finish, Results
<1>5. QED BY <1>4 DEF Promise!Next

\* Recovery ends the one row left running, if there is one.
LEMMA PromiseRecover ==
    ASSUME IInv, Recover
    PROVE  Promise!Next \/ UNCHANGED Promise!vars
<1> USE DEF IInv, Recover
<1>1. CASE \A i \in Ids : status[i] # "running"
  <2>1. status' = status
    BY <1>1 DEF TypeOK
  <2>2. QED BY <2>1, Invisible
<1>2. CASE \E i \in Ids : status[i] = "running"
  <2>1. PICK i \in Ids : status[i] = "running"
    BY <1>2
  <2>2. \A j \in Ids : status[j] = "running" => j = i
    BY <2>1 DEF ActiveIsNewest, Active
  <2>3. status' = [status EXCEPT ![i] = "failed"]
    BY <2>1, <2>2 DEF TypeOK
  <2>4. QED BY <2>1, <2>3, PromiseFinish DEF Results
<1>3. QED BY <1>1, <1>2

LEMMA PromiseComplete ==
    ASSUME IInv, CompleteOperation
    PROVE  Promise!Next
<1> USE DEF IInv
<1>1. CombinedStatus(wresults) \in Results
  BY DEF CombinedStatus, Results
<1>2. /\ wop \in Ids /\ status[wop] = "running"
      /\ completed[wop] = STAGE_TOTALS[params[wop].kind]
      /\ STAGE_TOTALS[params[wop].kind] \in 1..3
  BY WorkerFacts DEF CompleteOperation, WorkerAgrees, Executing, TypeOK
<1>3. status' = [status EXCEPT ![wop] = CombinedStatus(wresults)] /\ UNCHANGED <<params, completed>>
  BY DEF CompleteOperation, FinishRow
<1>4. QED BY <1>1, <1>2, <1>3, PromiseFinish

LEMMA PromiseStep == IInv /\ [Next]_vars => [Promise!Next]_(Promise!vars)
<1> SUFFICES ASSUME IInv, [Next]_vars PROVE Promise!Next \/ UNCHANGED Promise!vars
  OBVIOUS
<1>1. ASSUME NEW c \in Clients, SubmitOperation(c) \/ RequestArchive(c) \/ ClientStep(c)
      PROVE  Promise!Next \/ UNCHANGED Promise!vars
  <2>1. CASE InsertOperation(c)
    BY <2>1, PromiseAccept
  <2>2. CASE ~InsertOperation(c)
    <3>1. UNCHANGED rowVars
      BY <1>1, <2>2 DEF ClientStep, SubmitOperation, RequestArchive, ReadInputs, CheckPending,
         ReuseCompleted, NothingToReuse, InsertRefused, ExplainConflict, CheckArchive,
         CommitArchive
    <3>2. QED BY <3>1, Invisible DEF rowVars
  <2>3. QED BY <2>1, <2>2
<1>2. CASE WorkerStep
  <2>1. CASE Recover
    BY <2>1, PromiseRecover
  <2>2. CASE Claim
    BY <2>2, PromiseStart
  <2>3. CASE BeginStage
    BY <2>3, Invisible DEF BeginStage
  <2>4. CASE \E result \in Results : RunStage(result)
    BY <2>4, Invisible DEF RunStage, rowVars
  <2>5. CASE RecordStage
    BY <2>5, PromiseAdvance
  <2>6. CASE StageRaises
    BY <2>6, Invisible DEF StageRaises, rowVars
  <2>7. CASE FailOperation
    <3>1. wop \in Ids /\ status[wop] = "running"
      BY <2>7, WorkerFacts DEF FailOperation, Executing
    <3>2. status' = [status EXCEPT ![wop] = "failed"] /\ UNCHANGED <<params, completed>>
      BY <2>7 DEF FailOperation, FinishRow
    <3>3. QED BY <3>1, <3>2, PromiseFinish DEF Results
  <2>8. CASE CompleteOperation
    BY <2>8, PromiseComplete
  <2>9. QED
    BY <1>2, <2>1, <2>2, <2>3, <2>4, <2>5, <2>6, <2>7, <2>8 DEF WorkerStep
<1>3. CASE Crash \/ Restart
  BY <1>3, Invisible DEF Crash, Restart, rowVars
<1>4. CASE (\E f \in Funds : SelectFund(f)) \/ (\E f \in Plans : PlanComesDue(f)) \/ NextDay
  BY <1>4, Invisible DEF SelectFund, PlanComesDue, NextDay, rowVars
<1>5. CASE UNCHANGED vars
  BY <1>5, Invisible DEF vars, rowVars
<1>6. QED
  BY <1>1, <1>2, <1>3, <1>4, <1>5 DEF Next

\* The queue with its slot, worker, crashes and racing requests implements the
\* serial machine of SerialOperations (its safety part).
THEOREM Refinement == Spec => PromiseKept
<1>1. IInv /\ [Next]_vars => [Promise!Next]_(Promise!vars)
  BY PromiseStep
<1>2. QED BY PromiseInit, <1>1, Invariant, PTL DEF Spec, PromiseKept, Promise!Spec

-----------------------------------------------------------------------------
(* Reuse of a finished operation.                                           *)

\* What a request remembers as due is due, and a request that looks for a finished
\* operation found nothing due of its funds: plans come due after that, but it is
\* what was due all along that it must not hide.
DueIsRemembered ==
    \A c \in Clients :
        /\ dueSince[c] \subseteq due
        /\ pc[c] = "lookup" => req[c].codes \cap dueSince[c] = {}

LEMMA DueKept ==
    ASSUME TypeOK, DueIsRemembered, UNCHANGED <<due, clientVars>>
    PROVE  DueIsRemembered'
BY DEF DueIsRemembered, clientVars

\* A stage settles orders for itself and for what every request remembers.
LEMMA StageKeepsDue ==
    ASSUME TypeOK, DueIsRemembered, StageEffect \/ UNCHANGED <<due, dueSince>>,
           UNCHANGED <<pc, req>>
    PROVE  DueIsRemembered'
<1>1. CASE StageEffect
  <2>1. dueSince' = [c \in Clients |-> dueSince[c] \cap due']
    BY <1>1 DEF StageEffect
  <2> SUFFICES ASSUME NEW c \in Clients
               PROVE  /\ dueSince'[c] \subseteq due'
                      /\ pc'[c] = "lookup" => req'[c].codes \cap dueSince'[c] = {}
    BY DEF DueIsRemembered
  <2>2. dueSince'[c] = dueSince[c] \cap due'
    BY <2>1
  <2>3. pc[c] = "lookup" => req[c].codes \cap dueSince[c] = {}
    BY DEF DueIsRemembered
  <2>4. QED BY <2>2, <2>3
<1>2. CASE UNCHANGED <<due, dueSince>>
  BY <1>2 DEF DueIsRemembered
<1>3. QED BY <1>1, <1>2

LEMMA DueStart == Init => DueIsRemembered
BY DEF Init, DueIsRemembered

LEMMA DueStays ==
    ASSUME TypeOK, DueIsRemembered, [Next]_vars
    PROVE  DueIsRemembered'
<1>1. ASSUME NEW c \in Clients, SubmitOperation(c)
      PROVE  DueIsRemembered'
  BY <1>1 DEF SubmitOperation, DueIsRemembered, TypeOK, envVars
<1>2. ASSUME NEW c \in Clients, RequestArchive(c)
      PROVE  DueIsRemembered'
  <2>1. /\ pc' = [pc EXCEPT ![c] = "archive"] /\ UNCHANGED <<due, dueSince>>
        /\ \A b \in Clients \ {c} : req'[b] = req[b]
    BY <1>2 DEF RequestArchive, envVars, TypeOK
  <2>2. QED BY <2>1 DEF DueIsRemembered, TypeOK
<1>3. ASSUME NEW c \in Clients, ClientStep(c)
      PROVE  DueIsRemembered'
  <2>1. UNCHANGED due
    BY <1>3 DEF ClientStep, ReadInputs, CheckPending, ReuseCompleted, NothingToReuse,
       InsertOperation, InsertRefused, ExplainConflict, CheckArchive, CommitArchive, envVars
  <2>2. CASE Answer(c)
    BY <2>1, <2>2 DEF Answer, DueIsRemembered, TypeOK
  <2>3. CASE \E label : label # "lookup" /\ Goto(c, label)
    BY <2>1, <2>3 DEF Goto, DueIsRemembered, TypeOK
  <2>4. CASE ReadInputs(c) /\ ~Answer(c)
    <3>1. /\ \A b \in Clients \ {c} : req'[b] = req[b] /\ pc'[b] = pc[b]
          /\ pc'[c] # "lookup" /\ UNCHANGED dueSince
      BY <2>4 DEF ReadInputs, TypeOK
    <3>2. QED BY <2>1, <3>1 DEF DueIsRemembered
  <2>5. CASE CheckPending(c)
    BY <2>1, <2>5 DEF CheckPending, Goto, DueIsRemembered, TypeOK
  <2>6. QED
    BY <1>3, <2>2, <2>3, <2>4, <2>5 DEF ClientStep, ReuseCompleted, NothingToReuse,
       InsertOperation, InsertRefused, ExplainConflict, CheckArchive, CommitArchive
<1>4. CASE WorkerStep \/ Crash \/ Restart
  <2>1. CASE RecordStage \/ BeginStage \/ Claim \/ Recover \/ FailOperation
             \/ CompleteOperation \/ Restart
    BY <2>1, DueKept DEF RecordStage, BeginStage, Claim, Recover, FailOperation,
       CompleteOperation, Restart, envVars
  <2>2. CASE Crash \/ StageRaises \/ \E result \in Results : RunStage(result)
    <3>1. (StageEffect \/ UNCHANGED <<due, dueSince>>) /\ UNCHANGED <<pc, req>>
      BY <2>2 DEF Crash, StageRaises, RunStage
    <3>2. QED BY <3>1, StageKeepsDue
  <2>3. QED BY <1>4, <2>1, <2>2 DEF WorkerStep
<1>5. ASSUME NEW f \in Funds, SelectFund(f) \/ PlanComesDue(f)
      PROVE  DueIsRemembered'
  BY <1>5 DEF SelectFund, PlanComesDue, clientVars, DueIsRemembered
<1>6. CASE NextDay \/ UNCHANGED vars
  BY <1>6, DueKept DEF NextDay, vars, envVars
<1>7. Plans \subseteq Funds
  BY ConstantsAssumption
<1>8. QED
  BY <1>1, <1>2, <1>3, <1>4, <1>5, <1>6, <1>7 DEF Next

\* Only a request that looks for a finished operation answers with one.
LEMMA AnswersHideNothing ==
    ASSUME DueIsRemembered, NEW c \in Clients, pc[c] = "lookup"
    PROVE  req[c].codes \cap dueSince[c] = {}
BY DEF DueIsRemembered

\* A finished operation of the day answers a daily request only if nothing was due
\* for its funds all the time from the request to the answer, whatever the
\* worker settles, and whichever plans come due, between the handler's queries.
THEOREM NothingDueIsHidden == Spec => ReuseHidesNothingDue
<1>1. Spec => []DueIsRemembered
  <2>1. IInv => TypeOK
    BY DEF IInv
  <2>2. QED BY <2>1, DueStart, DueStays, Invariant, PTL DEF Spec
<1>2. DueIsRemembered /\ [Next]_vars =>
        [\A c \in Clients :
           pc[c] = "lookup" /\ pc'[c] = "idle" => req[c].codes \cap dueSince[c] = {}]_vars
  BY AnswersHideNothing
<1>3. QED BY <1>1, <1>2, PTL DEF Spec, ReuseHidesNothingDue
=============================================================================
