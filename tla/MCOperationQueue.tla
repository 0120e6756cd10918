-------------------------- MODULE MCOperationQueue --------------------------
(* Small instances of OperationQueue for TLC. *)
EXTENDS OperationQueue, TLC

Request(kind, codes, lookback, force) ==
    [kind |-> kind, codes |-> codes, lookback |-> lookback, force |-> force]

\* The three-stage and the one-stage case, for all funds.
QueueRequests == {Request("prepare", {}, 10, FALSE), Request("sync-reports", {}, 10, FALSE)}

\* Everything that can make two daily requests differ.
DailyRequests == [kind : {"sync-daily"}, codes : {{}, Plans}, lookback : {10, 30},
                  force : BOOLEAN]

Symmetry == Permutations(Clients)
=============================================================================
