----------------------------- MODULE MCStoredData -----------------------------
(***************************************************************************)
(* Four components that write stored rows and share none of them here,     *)
(* each explored alone: the run picks the part at the start and leaves the *)
(* others where they begin.                                                *)
(***************************************************************************)
EXTENDS RecurringOrders, PurchaseLimits, RawArchive, Startup, TLC

VARIABLE part

storedVars == <<part, vars, limitVars, archiveVars, startupVars>>

-----------------------------------------------------------------------------
(* Recurring orders: files that state a plan, and that pause the position   *)
(* and change its plan.                                                     *)

PauseUploads == {[reported |-> 1, plan |-> 1, active |-> TRUE],
                 [reported |-> 1, plan |-> 2, active |-> FALSE]}

\* Nothing depends on which of its values a NAV has.
Symmetry == Permutations(NavValues)

(* Limits: the two currencies of one fund; a fund page that lists nothing,  *)
(* a notice for all channels in force from the second day before a table    *)
(* for direct sales, a restoration on the second day, a table in the wrong  *)
(* currency, and one that names one share.                                  *)

TwoShares ==
    <<[fund |-> 1, currency |-> "CNY", exchange |-> FALSE],
      [fund |-> 1, currency |-> "USD", exchange |-> FALSE]>>

Amount(value, currency) == [value |-> value, currency |-> currency]
Slot(value, label, own) == [value |-> value, label |-> label, own |-> own]
NoTable == [codes |-> <<>>, units |-> <<>>, followsShare |-> FALSE, options |-> [b \in {} |-> <<>>]]
TableOf(slots) == [NoTable EXCEPT !.codes = <<1, 2>>, !.options = [b \in {"PURCHASE"} |-> <<slots>>]]
PlainNotice ==
    [effective |-> 1, restores |-> FALSE, restoration |-> None, pause |-> FALSE, named |-> {},
     mentions |-> {}, table |-> NoTable, combined |-> {}, direct |-> {}, distribution |-> {},
     general |-> {}, directOnly |-> FALSE, combinedScope |-> FALSE]

ForAllChannels == [PlainNotice EXCEPT !.effective = 2, !.combinedScope = TRUE,
                                      !.combined = {Amount(1, "CNY"), Amount(1, "USD")}]
DirectTable == [PlainNotice EXCEPT !.table = TableOf(<<Slot(1, None, None), Slot(2, "CNY", "USD")>>),
                                   !.directOnly = TRUE]
WrongCurrency == [PlainNotice EXCEPT !.table = TableOf(<<Slot(1, "CNY", None), Slot(2, "CNY", None)>>)]
Restoring == [PlainNotice EXCEPT !.restores = TRUE, !.restoration = 2]
NamedOnly == [PlainNotice EXCEPT !.named = {1}, !.general = {Amount(2, "CNY")}, !.mentions = {"DCA"}]

FundPages == {<<>>, <<ForAllChannels, DirectTable>>, <<Restoring>>, <<WrongCurrency>>, <<NamedOnly>>}

DistributorPages ==
    {[status |-> "limited", cap |-> "stated", amount |-> Amount(1, "CNY")],
     [status |-> "open", cap |-> "zero", amount |-> None],
     [status |-> "other", cap |-> "absent", amount |-> None]}

(* Start-up: two releases, of the newer one two containers; between them    *)
(* lie a revision of a table's shape and rules and one of a table's rules.  *)

ImageHeads == [old |-> 9, new |-> 11, twin |-> 11]

EditsByHand ==
    {[table |-> "other_app", part |-> "shape", to |-> 99],
     [table |-> "fund_share", part |-> "shape", to |-> 0],
     [table |-> "portfolio_position", part |-> "shape", to |-> 99],
     [table |-> "data_operation", part |-> "rules", to |-> 99]}

-----------------------------------------------------------------------------

StoredInit ==
    /\ part \in {"orders", "limits", "archive", "startup"}
    /\ Init /\ LimitInit /\ ArchiveInit /\ StartupInit

StoredNext ==
    /\ UNCHANGED part
    /\ \/ part = "orders" /\ Next /\ UNCHANGED <<limitVars, archiveVars, startupVars>>
       \/ part = "limits" /\ LimitNext /\ UNCHANGED <<vars, archiveVars, startupVars>>
       \/ part = "archive" /\ ArchiveNext /\ UNCHANGED <<vars, limitVars, startupVars>>
       \/ part = "startup" /\ StartupNext /\ UNCHANGED <<vars, limitVars, archiveVars>>

StoredSpec == StoredInit /\ [][StoredNext]_storedVars
=============================================================================
