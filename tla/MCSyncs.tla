------------------------------- MODULE MCSyncs --------------------------------
(***************************************************************************)
(* Syncs of a part of what is stored, in three pipelines that share no row *)
(* here, each explored alone: reports by qdii sync-reports beside the      *)
(* worker, NAVs by window, limits by fund.  The run picks the part at the  *)
(* start and leaves the others where they begin.                           *)
(***************************************************************************)
EXTENDS ReportPipeline, NavHistory, PurchaseLimits

VARIABLE part

syncVars == <<part, vars, navVars, limitVars>>

-----------------------------------------------------------------------------
(* NAVs: of each day two records, one without a return; backfills of all    *)
(* days but the newest and of the one between.                              *)

NavRecords == {[nav |-> 2, published |-> 2], [nav |-> 3, published |-> None]}
BackfillWindows == {<<1, 2>>, <<2, 2>>}

(* Limits: two funds, whose manager publishes nothing or one notice of all  *)
(* channels; the distributor states a cap.                                  *)

TwoFunds ==
    <<[fund |-> 1, currency |-> "CNY", exchange |-> FALSE],
      [fund |-> 2, currency |-> "USD", exchange |-> FALSE]>>

Amount(value, currency) == [value |-> value, currency |-> currency]
NoTable == [codes |-> <<>>, units |-> <<>>, followsShare |-> FALSE, options |-> [b \in {} |-> <<>>]]
Notice ==
    [effective |-> 1, restores |-> FALSE, restoration |-> None, pause |-> FALSE, named |-> {},
     mentions |-> {}, table |-> NoTable, combined |-> {Amount(1, "CNY"), Amount(1, "USD")},
     direct |-> {}, distribution |-> {}, general |-> {}, directOnly |-> FALSE,
     combinedScope |-> TRUE]

ManagerPages == {<<>>, <<Notice>>}
DistributorPages == {[status |-> "limited", cap |-> "stated", amount |-> Amount(1, "CNY")]}

-----------------------------------------------------------------------------

SyncInit == part \in {"reports", "navs", "limits"} /\ Init /\ NavInit /\ LimitInit

SyncNext ==
    /\ UNCHANGED part
    /\ \/ part = "reports" /\ Next /\ UNCHANGED <<navVars, limitVars>>
       \/ part = "navs" /\ NavNext /\ UNCHANGED <<vars, limitVars>>
       \/ part = "limits" /\ LimitNext /\ UNCHANGED <<vars, navVars>>

SyncSpec == SyncInit /\ [][SyncNext]_syncVars
=============================================================================
