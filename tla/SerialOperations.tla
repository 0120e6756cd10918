-------------------------- MODULE SerialOperations --------------------------
(***************************************************************************)
(* What the data-operation queue promises, without slot, worker, crashes   *)
(* or requests: jobs are accepted one at a time, each is worked on in      *)
(* recorded steps, and each ends exactly once with an honest outcome.      *)
(***************************************************************************)
EXTENDS Naturals

CONSTANTS Jobs,   \* job numbers, in order of acceptance
          Total   \* most stages a job can need

VARIABLES phase,     \* "absent", "queued", "running" or "finished"
          outcome,   \* how a finished job ended
          needed,    \* stages the job consists of
          progress   \* stages known to be complete

vars == <<phase, outcome, needed, progress>>

Init ==
    /\ phase = [j \in Jobs |-> "absent"]
    /\ outcome = [j \in Jobs |-> "none"]
    /\ needed = [j \in Jobs |-> 0]
    /\ progress = [j \in Jobs |-> 0]

\* A job is accepted only when every earlier one has finished.
Accept(j) ==
    /\ \A k \in Jobs : phase[k] = IF k < j THEN "finished" ELSE "absent"
    /\ phase' = [phase EXCEPT ![j] = "queued"]
    /\ \E n \in 1..Total : needed' = [needed EXCEPT ![j] = n]
    /\ UNCHANGED <<outcome, progress>>

Start(j) ==
    /\ phase[j] = "queued"
    /\ phase' = [phase EXCEPT ![j] = "running"]
    /\ UNCHANGED <<outcome, needed, progress>>

Advance(j) ==
    /\ phase[j] = "running"
    /\ progress[j] < needed[j]
    /\ progress' = [progress EXCEPT ![j] = @ + 1]
    /\ UNCHANGED <<phase, outcome, needed>>

\* Only a job that got through all its stages may be called anything but failed.
Finish(j) ==
    /\ phase[j] = "running"
    /\ \E r \in {"succeeded", "partial", "failed"} :
          /\ r # "failed" => progress[j] = needed[j]
          /\ outcome' = [outcome EXCEPT ![j] = r]
    /\ phase' = [phase EXCEPT ![j] = "finished"]
    /\ UNCHANGED <<needed, progress>>

Next == \E j \in Jobs : Accept(j) \/ Start(j) \/ Advance(j) \/ Finish(j)

Spec == Init /\ [][Next]_vars

\* An accepted job is started and ended; nobody has to submit one.
FairSpec == Spec /\ \A j \in Jobs : WF_vars(Start(j)) /\ WF_vars(Finish(j))
=============================================================================
