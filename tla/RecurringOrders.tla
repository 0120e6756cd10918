--------------------------- MODULE RecurringOrders ---------------------------
(***************************************************************************)
(* Recurring (DAILY) investment plans of portfolio positions.  The daily   *)
(* stage of the worker creates one order per plan and weekday and settles  *)
(* it once the net asset value (NAV) of exactly that day is stored; the    *)
(* import of a portfolio file replaces a position's snapshot, and with it  *)
(* its orders and executions, while the worker runs.                       *)
(*                                                                         *)
(* A transaction that reads rows and writes later is two actions, one for  *)
(* what it loads and one for its commit: the other actor's transactions    *)
(* fall in between.  An order and an execution are keyed by position and   *)
(* date (both tables have that UNIQUE constraint), so a settled order and  *)
(* its execution have the same key.                                        *)
(***************************************************************************)
EXTENDS Naturals, FiniteSets

CONSTANTS
    Positions,    \* positions of the user, each of a fund share of its own
    MaxDay,       \* bound: Shanghai calendar days
    Weekdays,     \* the days on which an order may be placed
    NavDays,      \* the days for which a NAV is ever published
    NavValues,    \* the values a NAV may have, before and after a revision
    Plans,        \* what an order snapshots of a plan: gross, fee and net amount
    Uploads       \* what imported files say of a position in this instance

Days == 1..MaxDay

ASSUME ConstantsAssumption ==
    /\ MaxDay \in Nat \ {0}
    /\ Weekdays \subseteq Days /\ NavDays \subseteq Days
    /\ NavValues # {} /\ 0 \notin NavValues
    /\ 0 \notin Plans
    /\ Uploads \subseteq [reported : Nat \ {0}, plan : Plans \cup {0}, active : BOOLEAN]

NoNav == 0   \* no row of daily_fund_nav
NoPlan == 0  \* recurring_frequency IS NULL; also: no execution
NoRow == 0   \* the position has no row yet
Reports == {u.reported : u \in Uploads}

Keys == Positions \X Days
NavDates == 0..MaxDay  \* day 0 stands for the time before the model begins

VARIABLES
    day,         \* today in Shanghai
    nav,         \* stored NAV per share and date
    snapshot,    \* per position: snapshot_date,
    reported,    \*   what the platform reported,
    anchorDate,  \*   anchor_nav_date
    anchorNav,   \*   and anchor_unit_nav,
    plan,        \*   the recurring plan
    active,      \*   and is_active
    orderState,  \* orders: "none" where there is no row
    orderPlan,   \*   and the plan they snapshot
    bought,      \* executions: the plan they carry out
    boughtAt,    \*   and the unit NAV they were made at
    wpc,         \* the worker's daily stage: where it is,
    wcodes,      \*   the positions of the funds it covers,
    wdate,       \*   its order date
    wplans,      \*   the plans it loaded
    wloaded,     \*   and the orders it loaded
    ipc,         \* the import: where it is,
    file,        \*   the position it writes
    iorders,     \*   and the orders
    iexecs,      \*   and executions it loaded to delete
    navSeen,     \* history: every value a NAV has had
    overlapped,  \* history: an import and a daily stage were open at one time
    wdue         \* history: what was due when the daily stage began, imports aside

positionVars == <<snapshot, reported, anchorDate, anchorNav, plan, active>>
orderVars == <<orderState, orderPlan, bought, boughtAt>>
workerVars == <<wpc, wcodes, wdate, wplans, wloaded>>
importVars == <<ipc, file, iorders, iexecs>>
vars == <<day, nav, navSeen, overlapped, wdue, positionVars, orderVars, workerVars, importVars>>

OrderStates == {"PENDING", "SETTLED"}

Files == [position : Positions, snapshot : Days, reported : Reports,
          plan : Plans \cup {NoPlan}, active : BOOLEAN,
          anchorDate : NavDates, anchorNav : NavValues]
NoFile == [position |-> "none"]

TypeOK ==
    /\ day \in Days
    /\ nav \in [Positions \X NavDates -> NavValues \cup {NoNav}]
    /\ navSeen \in [Positions \X NavDates -> SUBSET NavValues]
    /\ snapshot \in [Positions -> Days \cup {NoRow}]
    /\ reported \in [Positions -> Reports \cup {NoRow}]
    /\ anchorDate \in [Positions -> NavDates]
    /\ anchorNav \in [Positions -> NavValues \cup {NoNav}]
    /\ plan \in [Positions -> Plans \cup {NoPlan}]
    /\ active \in [Positions -> BOOLEAN]
    /\ orderState \in [Keys -> OrderStates \cup {"none"}]
    /\ orderPlan \in [Keys -> Plans \cup {NoPlan}]
    /\ bought \in [Keys -> Plans \cup {NoPlan}]
    /\ boughtAt \in [Keys -> NavValues \cup {NoNav}]
    /\ wpc \in {"idle", "create", "sync", "settle"}
    /\ wcodes \in SUBSET Positions
    /\ wdate \in Days
    /\ wplans \in [Positions -> Plans \cup {NoPlan}]
    /\ wloaded \in SUBSET Keys
    /\ ipc \in {"idle", "write"}
    /\ file \in Files \cup {NoFile}
    /\ iorders \in SUBSET Keys
    /\ iexecs \in SUBSET Keys
    /\ overlapped \in BOOLEAN
    /\ wdue \in SUBSET Keys

NoPlans == [p \in Positions |-> NoPlan]

Init ==
    /\ day = 1 /\ overlapped = FALSE /\ wdue = {}
    /\ \E v \in NavValues :
          /\ nav = [k \in Positions \X NavDates |-> IF k[2] = 0 THEN v ELSE NoNav]
          /\ navSeen = [k \in Positions \X NavDates |-> IF k[2] = 0 THEN {v} ELSE {}]
    /\ snapshot = [p \in Positions |-> NoRow]
    /\ reported = [p \in Positions |-> NoRow]
    /\ anchorDate = [p \in Positions |-> 0]
    /\ anchorNav = [p \in Positions |-> NoNav]
    /\ plan = NoPlans
    /\ active = [p \in Positions |-> FALSE]
    /\ orderState = [k \in Keys |-> "none"]
    /\ orderPlan = [k \in Keys |-> NoPlan]
    /\ bought = [k \in Keys |-> NoPlan]
    /\ boughtAt = [k \in Keys |-> NoNav]
    /\ wpc = "idle" /\ wcodes = {} /\ wdate = 1 /\ wplans = NoPlans /\ wloaded = {}
    /\ ipc = "idle" /\ file = NoFile /\ iorders = {} /\ iexecs = {}

-----------------------------------------------------------------------------
(* What both sides read of daily_fund_nav.                                  *)

\* The date of the last NAV on or before date d.
AnchorDate(p, d) ==
    CHOOSE a \in 0..d : /\ nav[<<p, a>>] # NoNav
                        /\ \A b \in (a + 1)..d : nav[<<p, b>>] = NoNav

\* Faulty variant: the last NAV known on the order's date.
OrderNav_Last(k) == nav[<<k[1], AnchorDate(k[1], k[2])>>]

\* The NAV an order of key k settles at: that of exactly its date.
OrderNav(k) == nav[k]

-----------------------------------------------------------------------------
(* The daily stage: create the day's orders, fetch NAVs, settle.            *)

\* _plan_positions: active positions with a plan, of the funds asked for.
PlanPositions(codes) == {p \in codes : active[p] /\ plan[p] # NoPlan}

\* Faulty variant: forgets to look for the orders the day already has.
Unordered_All(codes, d) == PlanPositions(codes)

\* The plan positions that have no order for day d.
Unordered(codes, d) == {p \in PlanPositions(codes) : orderState[<<p, d>>] = "none"}

\* What a daily stage of the funds has to do: order today's plans, and settle the
\* orders whose date has a NAV.
DueKeys(codes) ==
    {k \in Keys :
        /\ k[1] \in codes /\ active[k[1]]
        /\ \/ day \in Weekdays /\ k[2] = day /\ plan[k[1]] # NoPlan /\ orderState[k] = "none"
           \/ orderState[k] = "PENDING" /\ nav[k] # NoNav}

WorkerDone ==
    /\ wdue' = {}
    /\ wpc' = "idle" /\ wcodes' = {} /\ wdate' = 1 /\ wplans' = NoPlans /\ wloaded' = {}

\* create_recurring_orders loads the plans, and the orders today already has.
LoadPlans(codes) ==
    /\ wpc = "idle"
    /\ overlapped' = (overlapped \/ ipc # "idle")
    /\ wdue' = DueKeys(codes)
    /\ wpc' = "create"
    /\ wcodes' = codes
    /\ wdate' = day
    /\ wplans' = [p \in Positions |->
                    IF day \in Weekdays /\ p \in Unordered(codes, day) THEN plan[p] ELSE NoPlan]
    /\ UNCHANGED <<wloaded, day, nav, navSeen, positionVars, orderVars, importVars>>

\* ... and inserts a pending order for the others, all in one commit.
CreateOrders ==
    /\ wpc = "create"
    /\ LET new == {k \in Keys : k[2] = wdate /\ wplans[k[1]] # NoPlan}
       IN  /\ orderState' = [k \in Keys |-> IF k \in new THEN "PENDING" ELSE orderState[k]]
           /\ orderPlan' = [k \in Keys |-> IF k \in new THEN wplans[k[1]] ELSE orderPlan[k]]
    /\ wpc' = "sync" /\ wdate' = 1 /\ wplans' = NoPlans
    /\ UNCHANGED <<overlapped, wdue, bought, boughtAt, wcodes, wloaded, day, nav, navSeen,
                   positionVars, importVars>>

\* The orders settle_recurring_plans looks at ...
Pending(codes) ==
    {k \in Keys : orderState[k] = "PENDING" /\ active[k[1]] /\ k[1] \in codes}

LoadOrders ==
    /\ wpc = "sync"
    /\ wpc' = "settle"
    /\ wloaded' = Pending(wcodes)
    /\ UNCHANGED <<overlapped, wdue, wcodes, wdate, wplans, day, nav, navSeen, positionVars,
                   orderVars, importVars>>

\* Faulty variant: leaves orders of earlier days alone.
Priced_Today(keys) == {k \in keys : k[2] = day /\ OrderNav(k) # NoNav}

\* ... and those of them whose date has a NAV.
Priced(keys) == {k \in keys : OrderNav(k) # NoNav}

\* The amounts an execution is made of: those its order snapshots.
Amounts(k) == orderPlan[k]

\* settle_recurring_plans writes an execution unless the date has one, and marks
\* the order settled; one commit, and only if every order it updates still exists.
SettleOrders ==
    /\ wpc = "settle"
    /\ LET settling == Priced(wloaded)
           buying == {k \in settling : bought[k] = NoPlan}
       IN  /\ \A k \in settling : orderState[k] # "none"
           /\ orderState' = [k \in Keys |-> IF k \in settling THEN "SETTLED" ELSE orderState[k]]
           /\ bought' = [k \in Keys |-> IF k \in buying THEN Amounts(k) ELSE bought[k]]
           /\ boughtAt' = [k \in Keys |-> IF k \in buying THEN OrderNav(k) ELSE boughtAt[k]]
    /\ WorkerDone
    /\ UNCHANGED <<overlapped, orderPlan, day, nav, navSeen, positionVars, importVars>>

\* An order was deleted meanwhile (its UPDATE matches no row), something else in
\* the stage raises, or the worker dies: what is not committed is undone.
StageAborted ==
    /\ wpc # "idle"
    /\ WorkerDone
    /\ UNCHANGED <<overlapped, day, nav, navSeen, positionVars, orderVars, importVars>>

-----------------------------------------------------------------------------
(* Everyone else: NAVs are stored by the daily stage, by imports and by the *)
(* command line; positions are written by imports.                          *)

\* upsert_nav: a value for a date not later than today, new or revised.
StoreNav(p, d, v) ==
    /\ d \in NavDays /\ d <= day
    /\ nav[<<p, d>>] # v
    /\ nav' = [nav EXCEPT ![<<p, d>>] = v]
    /\ navSeen' = [navSeen EXCEPT ![<<p, d>>] = @ \cup {v}]
    /\ UNCHANGED <<overlapped, wdue, day, positionVars, orderVars, workerVars, importVars>>

\* The file or the anchor says something else than the row.
SnapshotChanged(new) ==
    LET p == new.position
    IN  /\ snapshot[p] # NoRow
        /\ \/ snapshot[p] # new.snapshot
           \/ reported[p] # new.reported
           \/ anchorDate[p] # new.anchorDate
           \/ anchorNav[p] # new.anchorNav

OrdersOf(p) == {k \in Keys : k[1] = p /\ orderState[k] # "none"}

ExecutionsOf(p) == {k \in Keys : k[1] = p /\ bought[k] # NoPlan}

\* import_portfolio_payload for one position: read the anchor and the row, and
\* load the orders and executions to delete if the snapshot changed.
LoadPosition(p, d, u) ==
    /\ ipc = "idle"
    /\ overlapped' = (overlapped \/ wpc # "idle")
    /\ d <= day
    /\ ipc' = "write"
    /\ LET anchor == AnchorDate(p, d)
           new == [position |-> p, snapshot |-> d, reported |-> u.reported, plan |-> u.plan,
                   active |-> u.active, anchorDate |-> anchor, anchorNav |-> nav[<<p, anchor>>]]
       IN  /\ file' = new
           /\ iorders' = IF SnapshotChanged(new) THEN OrdersOf(p) ELSE {}
           /\ iexecs' = IF SnapshotChanged(new) THEN ExecutionsOf(p) ELSE {}
    /\ UNCHANGED <<wdue, day, nav, navSeen, positionVars, orderVars, workerVars>>

ImportDone == ipc' = "idle" /\ file' = NoFile /\ iorders' = {} /\ iexecs' = {}

\* ... and write it: delete what was loaded, by primary key.  An execution that
\* an order outside iorders is settled with cannot be deleted: its foreign key
\* would become NULL, which settlement_state_complete refuses.
WritePosition ==
    /\ ipc = "write"
    /\ \A k \in iexecs \ iorders : orderState[k] # "SETTLED"
    /\ LET p == file.position
       IN  /\ snapshot' = [snapshot EXCEPT ![p] = file.snapshot]
           /\ reported' = [reported EXCEPT ![p] = file.reported]
           /\ anchorDate' = [anchorDate EXCEPT ![p] = file.anchorDate]
           /\ anchorNav' = [anchorNav EXCEPT ![p] = file.anchorNav]
           /\ plan' = [plan EXCEPT ![p] = file.plan]
           /\ active' = [active EXCEPT ![p] = file.active]
    /\ orderState' = [k \in Keys |-> IF k \in iorders THEN "none" ELSE orderState[k]]
    /\ orderPlan' = [k \in Keys |-> IF k \in iorders THEN NoPlan ELSE orderPlan[k]]
    /\ bought' = [k \in Keys |-> IF k \in iexecs THEN NoPlan ELSE bought[k]]
    /\ boughtAt' = [k \in Keys |-> IF k \in iexecs THEN NoNav ELSE boughtAt[k]]
    /\ wdue' = {k \in wdue : k[1] # file.position}
    /\ ImportDone
    /\ UNCHANGED <<overlapped, day, nav, navSeen, workerVars>>

\* A later position of the file, or a constraint, is refused: nothing is written.
ImportRefused ==
    /\ ipc = "write"
    /\ ImportDone
    /\ UNCHANGED <<overlapped, wdue, day, nav, navSeen, positionVars, orderVars, workerVars>>

NextDay ==
    /\ day < MaxDay
    /\ day' = day + 1
    /\ UNCHANGED <<overlapped, wdue, nav, navSeen, positionVars, orderVars, workerVars, importVars>>

Next ==
    \/ \E codes \in (SUBSET Positions) \ {{}} : LoadPlans(codes)
    \/ CreateOrders \/ LoadOrders \/ SettleOrders \/ StageAborted
    \/ \E p \in Positions, d \in Days, v \in NavValues : StoreNav(p, d, v)
    \/ \E p \in Positions, d \in Days, u \in Uploads : LoadPosition(p, d, u)
    \/ WritePosition \/ ImportRefused
    \/ NextDay

Spec == Init /\ [][Next]_vars

-----------------------------------------------------------------------------
(* recurring_plans_pending, by which the API decides whether a finished     *)
(* operation of the day may answer a daily request.                         *)

\* Faulty variant: looks at the orders of today only.
PlansPending_TodayOnly(codes) ==
    \/ day \in Weekdays /\ Unordered(codes, day) # {}
    \/ \E k \in Keys : k[1] \in codes /\ k[2] = day /\ orderState[k] = "PENDING" /\ nav[k] # NoNav

\* It does not ask whether the position of a pending order is still active.
PlansPending(codes) ==
    \/ day \in Weekdays /\ Unordered(codes, day) # {}
    \/ \E k \in Keys : k[1] \in codes /\ orderState[k] = "PENDING" /\ nav[k] # NoNav

-----------------------------------------------------------------------------
(* Properties.                                                              *)

\* An order is an immutable snapshot of its plan, settled for good: it changes
\* only once, from pending to settled, until a new snapshot of its position
\* deletes it.
OrdersAreFinal ==
    [][\A k \in Keys : orderState[k] # "none" /\ ~(ipc = "write" /\ k \in iorders /\ ipc' = "idle") =>
          /\ orderPlan'[k] = orderPlan[k]
          /\ orderState'[k] \in {orderState[k], "SETTLED"}]_vars

DoesWhatWasDue ==
    \A k \in wdue : /\ orderState'[k] # "none"
                   /\ nav[k] # NoNav => orderState'[k] = "SETTLED"

\* What was due when a daily stage began is done when the stage commits: each plan of
\* that day has its order, and each order whose date has a NAV is settled, of
\* whatever day it is.  Midnight, NAVs that arrive or are revised and imports fall
\* between the stage's transactions; only an import of the very position takes
\* its work off the stage.
DueIsDone ==
    [][SettleOrders => DoesWhatWasDue]_vars

\* A daily request is never answered by an earlier operation while a daily stage
\* would create or settle an order of its funds.
PendingMissesNothing ==
    \A codes \in SUBSET Positions : DueKeys(codes) # {} => PlansPending(codes)

\* What settle_recurring_plans may produce.  A settled order has an execution of
\* its date, made at a NAV that was stored for that very date, however imports,
\* NAV revisions and daily stages interleave.
SettledIsBacked ==
    \A k \in Keys :
        /\ orderState[k] = "SETTLED" => bought[k] # NoPlan
        /\ bought[k] # NoPlan => boughtAt[k] \in navSeen[k]

\* Principal comes from confirmed orders only: an execution belongs to a settled
\* order, is of the amounts that order snapshots, and of no date before the
\* snapshot of its position, which has counted it already.
ExecutionsMatchOrders ==
    \A k \in Keys : bought[k] # NoPlan =>
        /\ orderState[k] = "SETTLED"
        /\ bought[k] = orderPlan[k]
        /\ k[2] >= snapshot[k[1]]

\* Both; the second unless an import and a daily stage were open at one time.
SettlementIsSound == SettledIsBacked /\ (overlapped \/ ExecutionsMatchOrders)
=============================================================================
