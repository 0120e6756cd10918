------------------------- MODULE RecurringOrdersProofs -------------------------
(***************************************************************************)
(* Theorems about RecurringOrders, for any positions, plans, NAVs, files    *)
(* and days.                                                                *)
(***************************************************************************)
EXTENDS RecurringOrders, WellFoundedInduction, TLAPS

-----------------------------------------------------------------------------
(* The last NAV on or before a date.                                        *)

NavKeys == Positions \X NavDates

\* A set of naturals that is not empty has a least element.
LEMMA LeastNatural ==
  ASSUME NEW S \in SUBSET Nat, S # {}
  PROVE  \E m \in S : \A n \in S : m <= n
<1>1. IsWellFoundedOn(OpToRel(<, Nat), Nat)  BY NatLessThanWellFounded
<1>2. PICK m \in S : \A n \in S : ~ (<<n, m>> \in OpToRel(<, Nat))
  BY <1>1, WFMin
<1>3. \A n \in S : ~ (n < m)  BY <1>2 DEF OpToRel
<1> QED  BY <1>3

\* Since there is a NAV before the model begins, the anchor of every date exists.
LEMMA AnchorExists ==
  ASSUME NEW p \in Positions, NEW d \in Days, nav[<<p, 0>>] # NoNav
  PROVE  /\ AnchorDate(p, d) \in 0..d
         /\ nav[<<p, AnchorDate(p, d)>>] # NoNav
<1>1. d \in Nat  BY DEF Days
<1> DEFINE back == {n \in 0..d : nav[<<p, d - n>>] # NoNav}
<1>2. d \in back /\ back \subseteq Nat
  BY <1>1
<1>3. PICK m \in back : \A n \in back : m <= n
  BY <1>2, LeastNatural
<1>4. d - m \in 0..d /\ nav[<<p, d - m>>] # NoNav
  BY <1>1, <1>3
<1>5. ASSUME NEW b \in ((d - m) + 1)..d  PROVE nav[<<p, b>>] = NoNav
  <2>1. d - b \in 0..d /\ d - (d - b) = b /\ d - b < m
    BY <1>1, <1>3, <1>5
  <2>2. d - b \notin back
    BY <1>1, <1>3, <2>1
  <2> QED  BY <2>1, <2>2
<1>6. \E a \in 0..d : /\ nav[<<p, a>>] # NoNav
                      /\ \A b \in (a + 1)..d : nav[<<p, b>>] = NoNav
  BY <1>4, <1>5
<1> QED  BY <1>6 DEF AnchorDate

-----------------------------------------------------------------------------
(* The inductive invariant.                                                 *)

\* A NAV that was stored once stays stored, and its value is one it has had.
NavsAreSeen ==
    /\ \A p \in Positions : nav[<<p, 0>>] # NoNav
    /\ \A k \in NavKeys : nav[k] # NoNav => nav[k] \in navSeen[k]

\* Rows of positions: what has a plan has a snapshot, of no later day than today.
RowsAreReal ==
    /\ \A p \in Positions : snapshot[p] <= day
    /\ \A p \in Positions : plan[p] # NoPlan => snapshot[p] # NoRow
    /\ ipc = "write" => file \in Files /\ file.snapshot <= day

\* An order has the amounts of its plan; what is about to be created is not there.
OrdersAreReal ==
    /\ \A k \in Keys : orderState[k] # "none" => orderPlan[k] # NoPlan /\ snapshot[k[1]] # NoRow
    /\ wpc = "create" => \A p \in Positions : wplans[p] # NoPlan =>
          orderState[<<p, wdate>>] = "none" /\ snapshot[p] # NoRow

\* While no import and daily stage have been open at one time: one of them is idle,
\* orders are of no date before their snapshot, what the import loaded to delete is
\* everything its position has, and it loaded nothing only if the snapshot stays.
AloneIsSound ==
    ~overlapped =>
        /\ wpc = "idle" \/ ipc = "idle"
        /\ ExecutionsMatchOrders
        /\ \A k \in Keys : orderState[k] # "none" => snapshot[k[1]] <= k[2]
        /\ wpc = "create" => \A p \in Positions : wplans[p] # NoPlan => snapshot[p] <= wdate
        /\ ipc = "write" =>
              IF SnapshotChanged(file)
              THEN iorders = OrdersOf(file.position) /\ iexecs = ExecutionsOf(file.position)
              ELSE iorders = {} /\ iexecs = {}

OrdersInv == /\ TypeOK /\ NavsAreSeen /\ RowsAreReal /\ OrdersAreReal
             /\ SettledIsBacked /\ AloneIsSound

\* One NAV, no position, no order.
LEMMA InitOrders == Init => OrdersInv
<1> SUFFICES ASSUME Init  PROVE OrdersInv
  OBVIOUS
<1>0. MaxDay \in Nat /\ MaxDay # 0  BY ConstantsAssumption
<1>1. 1 \in Days /\ 0 \in NavDates  BY <1>0 DEF Days, NavDates
<1>2. PICK v \in NavValues :
        /\ nav = [k \in Positions \X NavDates |-> IF k[2] = 0 THEN v ELSE NoNav]
        /\ navSeen = [k \in Positions \X NavDates |-> IF k[2] = 0 THEN {v} ELSE {}]
  BY DEF Init
<1>3. v # NoNav  BY ConstantsAssumption DEF NoNav
<1>4. TypeOK
  <2>1. /\ nav \in [Positions \X NavDates -> NavValues \cup {NoNav}]
        /\ navSeen \in [Positions \X NavDates -> SUBSET NavValues]
    BY <1>2
  <2>2. plan \in [Positions -> Plans \cup {NoPlan}] /\ wplans \in [Positions -> Plans \cup {NoPlan}]
    BY DEF Init, NoPlans
  <2> QED  BY <1>1, <2>1, <2>2 DEF Init, TypeOK
<1>5. NavsAreSeen  BY <1>1, <1>2, <1>3 DEF NavsAreSeen, NavKeys
<1>6. RowsAreReal
  BY ConstantsAssumption DEF Init, RowsAreReal, NoPlans, NoPlan, NoRow
<1>7. OrdersAreReal  BY DEF Init, OrdersAreReal, NoPlans
<1>8. SettledIsBacked  BY DEF Init, SettledIsBacked
<1>9. AloneIsSound  BY DEF Init, AloneIsSound, ExecutionsMatchOrders
<1> QED  BY <1>4, <1>5, <1>6, <1>7, <1>8, <1>9 DEF OrdersInv

\* create_recurring_orders loads plans that have no order of the day yet.
LEMMA LoadPlansKeeps ==
  ASSUME OrdersInv, NEW codes \in SUBSET Positions, LoadPlans(codes)
  PROVE  OrdersInv'
<1> USE DEF OrdersInv
<1>1. /\ wpc = "idle" /\ wpc' = "create" /\ wcodes' = codes /\ wdate' = day
      /\ overlapped' = (overlapped \/ ipc # "idle")
      /\ UNCHANGED <<wloaded, day, nav, navSeen, snapshot, reported, anchorDate, anchorNav, plan,
                     active, orderState, orderPlan, bought, boughtAt, ipc, file, iorders, iexecs>>
  BY DEF LoadPlans, positionVars, orderVars, importVars
<1>2. wplans' \in [Positions -> Plans \cup {NoPlan}]
  BY DEF LoadPlans, TypeOK
<1>3. ASSUME NEW p \in Positions, wplans'[p] # NoPlan
      PROVE  orderState[<<p, day>>] = "none" /\ plan[p] # NoPlan
  BY <1>3 DEF LoadPlans, Unordered, PlanPositions
<1>4. TypeOK'
  <2>1. overlapped' \in BOOLEAN  BY <1>1 DEF TypeOK
  <2>2. wdue' \in SUBSET Keys  BY DEF LoadPlans, DueKeys
  <2> QED  BY <1>1, <1>2, <2>1, <2>2 DEF TypeOK
<1>5. NavsAreSeen' /\ RowsAreReal'  BY <1>1 DEF NavsAreSeen, NavKeys, RowsAreReal
<1>6. OrdersAreReal'  BY <1>1, <1>3 DEF OrdersAreReal, RowsAreReal
<1>7. SettledIsBacked'  BY <1>1 DEF SettledIsBacked
<1>8. AloneIsSound'
  BY <1>1 DEF AloneIsSound, ExecutionsMatchOrders, RowsAreReal
<1> QED  BY <1>4, <1>5, <1>6, <1>7, <1>8

\* It inserts them as pending.
LEMMA CreateOrdersKeeps ==
  ASSUME OrdersInv, CreateOrders
  PROVE  OrdersInv'
<1> USE DEF OrdersInv
<1> DEFINE new == {k \in Keys : k[2] = wdate /\ wplans[k[1]] # NoPlan}
<1>1. /\ wpc = "create" /\ wpc' = "sync" /\ wdate' = 1 /\ wplans' = NoPlans
      /\ orderState' = [k \in Keys |-> IF k \in new THEN "PENDING" ELSE orderState[k]]
      /\ orderPlan' = [k \in Keys |-> IF k \in new THEN wplans[k[1]] ELSE orderPlan[k]]
      /\ UNCHANGED <<overlapped, wdue, bought, boughtAt, wcodes, wloaded, day, nav, navSeen,
                     snapshot, reported, anchorDate, anchorNav, plan, active,
                     ipc, file, iorders, iexecs>>
  BY DEF CreateOrders, positionVars, importVars
<1>2. \A k \in new : /\ k \in Keys /\ k[1] \in Positions /\ k[2] = wdate
                     /\ orderState[k] = "none" /\ snapshot[k[1]] # NoRow
                     /\ wplans[k[1]] # NoPlan
  BY <1>1 DEF OrdersAreReal, Keys
<1>3. TypeOK'
  <2>1. wdate' \in Days /\ wplans' \in [Positions -> Plans \cup {NoPlan}]
    BY <1>1, ConstantsAssumption DEF Days, NoPlans
  <2>2. orderState' \in [Keys -> OrderStates \cup {"none"}]
    BY <1>1 DEF TypeOK, OrderStates
  <2>3. orderPlan' \in [Keys -> Plans \cup {NoPlan}]
    BY <1>1, <1>2 DEF TypeOK
  <2> QED  BY <1>1, <2>1, <2>2, <2>3 DEF TypeOK
<1>4. NavsAreSeen' /\ RowsAreReal'  BY <1>1 DEF NavsAreSeen, NavKeys, RowsAreReal
<1>5. OrdersAreReal'  BY <1>1, <1>2 DEF OrdersAreReal
<1>6. SettledIsBacked'  BY <1>1 DEF SettledIsBacked
<1>7. AloneIsSound'
  <2> SUFFICES ASSUME ~overlapped  PROVE AloneIsSound'
    BY <1>1 DEF AloneIsSound
  <2>1. ipc = "idle" /\ ipc' = "idle"  BY <1>1 DEF AloneIsSound
  <2>2. \A k \in new : bought[k] = NoPlan /\ snapshot[k[1]] <= k[2]
    BY <1>1, <1>2 DEF AloneIsSound, ExecutionsMatchOrders
  <2>3. ExecutionsMatchOrders'
    BY <1>1, <2>2 DEF AloneIsSound, ExecutionsMatchOrders
  <2>4. \A k \in Keys : orderState'[k] # "none" => snapshot'[k[1]] <= k[2]
    BY <1>1, <2>2 DEF AloneIsSound
  <2> QED  BY <1>1, <2>1, <2>3, <2>4 DEF AloneIsSound
<1> QED  BY <1>3, <1>4, <1>5, <1>6, <1>7

\* The stage ends, or loads orders: no row changes.
LEMMA StageKeeps ==
  ASSUME OrdersInv, LoadOrders \/ StageAborted
  PROVE  OrdersInv'
<1> USE DEF OrdersInv
<1>1. /\ wpc # "idle" /\ wpc' \in {"idle", "settle"}
      /\ UNCHANGED <<overlapped, day, nav, navSeen, snapshot, reported, anchorDate, anchorNav, plan,
                     active, orderState, orderPlan, bought, boughtAt, ipc, file, iorders, iexecs>>
  BY DEF LoadOrders, StageAborted, WorkerDone, positionVars, orderVars, importVars
<1>2. TypeOK'
  <2>1. /\ wcodes' \in SUBSET Positions /\ wloaded' \in SUBSET Keys
        /\ wdate' \in Days /\ wplans' \in [Positions -> Plans \cup {NoPlan}]
        /\ wdue' \in SUBSET Keys
    <3>1. CASE LoadOrders  BY <3>1 DEF LoadOrders, Pending, TypeOK
    <3>2. CASE StageAborted
      BY <3>2, ConstantsAssumption DEF StageAborted, WorkerDone, NoPlans, Days
    <3> QED  BY <3>1, <3>2
  <2> QED  BY <1>1, <2>1 DEF TypeOK
<1>3. NavsAreSeen' /\ RowsAreReal'  BY <1>1 DEF NavsAreSeen, NavKeys, RowsAreReal
<1>4. OrdersAreReal'  BY <1>1 DEF OrdersAreReal
<1>5. SettledIsBacked'  BY <1>1 DEF SettledIsBacked
<1>6. AloneIsSound'
  BY <1>1 DEF AloneIsSound, ExecutionsMatchOrders, SnapshotChanged, OrdersOf, ExecutionsOf
<1> QED  BY <1>2, <1>3, <1>4, <1>5, <1>6

\* settle_recurring_plans: executions at the NAV of the order's own date.
LEMMA SettleOrdersKeeps ==
  ASSUME OrdersInv, SettleOrders
  PROVE  OrdersInv'
<1> USE DEF OrdersInv
<1> DEFINE settling == Priced(wloaded)
           buying == {k \in settling : bought[k] = NoPlan}
<1>1. /\ wpc = "settle"
      /\ \A k \in settling : orderState[k] # "none"
      /\ orderState' = [k \in Keys |-> IF k \in settling THEN "SETTLED" ELSE orderState[k]]
      /\ bought' = [k \in Keys |-> IF k \in buying THEN Amounts(k) ELSE bought[k]]
      /\ boughtAt' = [k \in Keys |-> IF k \in buying THEN OrderNav(k) ELSE boughtAt[k]]
      /\ WorkerDone
      /\ UNCHANGED <<overlapped, orderPlan, day, nav, navSeen, snapshot, reported, anchorDate,
                     anchorNav, plan, active, ipc, file, iorders, iexecs>>
  BY DEF SettleOrders, positionVars, importVars
<1>end. wpc' = "idle"  BY <1>1 DEF WorkerDone
<1>2. \A k \in settling : /\ k \in Keys /\ k \in NavKeys
                          /\ nav[k] # NoNav /\ nav[k] \in navSeen[k]
                          /\ orderState[k] # "none" /\ orderPlan[k] # NoPlan
  <2>1. Keys \subseteq NavKeys /\ wloaded \subseteq Keys
    BY ConstantsAssumption DEF Keys, NavKeys, Days, NavDates, TypeOK
  <2> QED  BY <1>1, <2>1 DEF Priced, OrderNav, NavsAreSeen, OrdersAreReal
<1>3. TypeOK'
  <2>1. orderState' \in [Keys -> OrderStates \cup {"none"}]  BY <1>1 DEF TypeOK, OrderStates
  <2>2. bought' \in [Keys -> Plans \cup {NoPlan}]  BY <1>1 DEF TypeOK, Amounts
  <2>3. boughtAt' \in [Keys -> NavValues \cup {NoNav}]
    BY <1>1, <1>2 DEF TypeOK, OrderNav, NavKeys
  <2>4. /\ wcodes' \in SUBSET Positions /\ wloaded' \in SUBSET Keys
        /\ wdate' \in Days /\ wplans' \in [Positions -> Plans \cup {NoPlan}]
        /\ wdue' \in SUBSET Keys
    BY <1>1, ConstantsAssumption DEF WorkerDone, NoPlans, Days
  <2> QED  BY <1>1, <1>end, <2>1, <2>2, <2>3, <2>4 DEF TypeOK
<1>4. NavsAreSeen' /\ RowsAreReal'  BY <1>1 DEF NavsAreSeen, NavKeys, RowsAreReal
<1>5. OrdersAreReal'
  <2>1. \A k \in Keys : orderState'[k] # "none" => orderState[k] # "none"  BY <1>1, <1>2
  <2> QED  BY <1>1, <1>end, <2>1 DEF OrdersAreReal
<1>6. SettledIsBacked'
  <2> SUFFICES ASSUME NEW k \in Keys
               PROVE  /\ orderState'[k] = "SETTLED" => bought'[k] # NoPlan
                      /\ bought'[k] # NoPlan => boughtAt'[k] \in navSeen'[k]
    BY DEF SettledIsBacked
  <2>1. CASE k \in buying  BY <1>1, <1>2, <2>1 DEF Amounts, OrderNav
  <2>2. CASE k \notin buying
    <3>1. bought'[k] = bought[k] /\ boughtAt'[k] = boughtAt[k]  BY <1>1, <2>2
    <3>2. orderState'[k] = "SETTLED" => orderState[k] = "SETTLED" \/ bought[k] # NoPlan
      BY <1>1, <2>2
    <3> QED  BY <1>1, <3>1, <3>2 DEF SettledIsBacked
  <2> QED  BY <2>1, <2>2
<1>7. AloneIsSound'
  <2> SUFFICES ASSUME ~overlapped  PROVE AloneIsSound'
    BY <1>1 DEF AloneIsSound
  <2>1. ipc = "idle" /\ ipc' = "idle"  BY <1>1 DEF AloneIsSound
  <2>2. \A k \in Keys : orderState'[k] # "none" => snapshot'[k[1]] <= k[2]
    BY <1>1, <1>2 DEF AloneIsSound
  <2>3. ASSUME NEW k \in Keys, bought'[k] # NoPlan
        PROVE  orderState'[k] = "SETTLED" /\ bought'[k] = orderPlan'[k] /\ k[2] >= snapshot'[k[1]]
    <3>1. CASE k \in buying
      <4>1. orderState'[k] = "SETTLED" /\ bought'[k] = orderPlan'[k]
        BY <1>1, <3>1 DEF Amounts
      <4>2. snapshot'[k[1]] <= k[2]  BY <2>2, <4>1
      <4> QED  BY <4>1, <4>2
    <3>2. CASE k \notin buying
      <4>1. bought'[k] = bought[k]  BY <1>1, <3>2
      <4>2. orderState[k] = "SETTLED" /\ bought[k] = orderPlan[k] /\ k[2] >= snapshot[k[1]]
        BY <2>3, <4>1 DEF AloneIsSound, ExecutionsMatchOrders
      <4>3. orderState'[k] = "SETTLED"  BY <1>1, <4>2
      <4> QED  BY <1>1, <4>1, <4>2, <4>3
    <3> QED  BY <3>1, <3>2
  <2>4. ExecutionsMatchOrders'  BY <2>3 DEF ExecutionsMatchOrders
  <2> QED  BY <1>1, <1>end, <2>1, <2>2, <2>4 DEF AloneIsSound
<1> QED  BY <1>3, <1>4, <1>5, <1>6, <1>7

\* upsert_nav: a date keeps a NAV once it has one.
LEMMA StoreNavKeeps ==
  ASSUME OrdersInv, NEW p \in Positions, NEW d \in Days, NEW v \in NavValues, StoreNav(p, d, v)
  PROVE  OrdersInv'
<1> USE DEF OrdersInv
<1>1. /\ nav' = [nav EXCEPT ![<<p, d>>] = v]
      /\ navSeen' = [navSeen EXCEPT ![<<p, d>>] = @ \cup {v}]
      /\ UNCHANGED <<overlapped, wdue, day, snapshot, reported, anchorDate, anchorNav, plan, active,
                     orderState, orderPlan, bought, boughtAt, wpc, wcodes, wdate, wplans, wloaded,
                     ipc, file, iorders, iexecs>>
  BY DEF StoreNav, positionVars, orderVars, workerVars, importVars
<1>2. <<p, d>> \in NavKeys /\ v # NoNav /\ d # 0
  BY ConstantsAssumption DEF NavKeys, NavDates, Days, NoNav
<1>3. /\ \A k \in NavKeys : nav'[k] = IF k = <<p, d>> THEN v ELSE nav[k]
      /\ \A k \in NavKeys : navSeen'[k] = IF k = <<p, d>> THEN navSeen[k] \cup {v} ELSE navSeen[k]
  BY <1>1, <1>2 DEF TypeOK, NavKeys
<1>4. TypeOK'
  <2>1. nav' \in [NavKeys -> NavValues \cup {NoNav}]  BY <1>1, <1>2 DEF TypeOK, NavKeys
  <2>2. navSeen' \in [NavKeys -> SUBSET NavValues]  BY <1>1, <1>2 DEF TypeOK, NavKeys
  <2> QED  BY <1>1, <2>1, <2>2 DEF TypeOK, NavKeys
<1>5. NavsAreSeen'
  <2>1. \A q \in Positions : <<q, 0>> \in NavKeys /\ <<q, 0>> # <<p, d>>
    BY <1>2, ConstantsAssumption DEF NavKeys, NavDates
  <2> QED  BY <1>3, <2>1 DEF NavsAreSeen
<1>6. RowsAreReal'  BY <1>1 DEF RowsAreReal
<1>7. OrdersAreReal'  BY <1>1 DEF OrdersAreReal
<1>8. SettledIsBacked'
  <2>1. Keys \subseteq NavKeys  BY ConstantsAssumption DEF Keys, NavKeys, Days, NavDates
  <2> QED  BY <1>1, <1>3, <2>1 DEF SettledIsBacked
<1>9. AloneIsSound'
  BY <1>1 DEF AloneIsSound, ExecutionsMatchOrders, SnapshotChanged, OrdersOf, ExecutionsOf
<1> QED  BY <1>4, <1>5, <1>6, <1>7, <1>8, <1>9

\* import_portfolio_payload reads the anchor and the row, and what it will delete.
LEMMA LoadPositionKeeps ==
  ASSUME OrdersInv, NEW p \in Positions, NEW d \in Days, NEW u \in Uploads, LoadPosition(p, d, u)
  PROVE  OrdersInv'
<1> USE DEF OrdersInv
<1> DEFINE anchor == AnchorDate(p, d)
           new == [position |-> p, snapshot |-> d, reported |-> u.reported, plan |-> u.plan,
                   active |-> u.active, anchorDate |-> anchor, anchorNav |-> nav[<<p, anchor>>]]
<1>1. /\ ipc = "idle" /\ ipc' = "write" /\ d <= day
      /\ overlapped' = (overlapped \/ wpc # "idle")
      /\ UNCHANGED <<wdue, day, nav, navSeen, snapshot, reported, anchorDate, anchorNav, plan, active,
                     orderState, orderPlan, bought, boughtAt, wpc, wcodes, wdate, wplans, wloaded>>
  BY DEF LoadPosition, positionVars, orderVars, workerVars
<1>2. /\ file' = new
      /\ iorders' = IF SnapshotChanged(new) THEN OrdersOf(p) ELSE {}
      /\ iexecs' = IF SnapshotChanged(new) THEN ExecutionsOf(p) ELSE {}
  BY DEF LoadPosition
<1>3. new \in Files /\ new.snapshot = d /\ new.position = p
  <2>1. anchor \in 0..d /\ nav[<<p, anchor>>] # NoNav  BY AnchorExists DEF NavsAreSeen
  <2>2. anchor \in NavDates  BY <2>1, ConstantsAssumption DEF Days, NavDates
  <2>3. nav[<<p, anchor>>] \in NavValues
    <3>1. nav[<<p, anchor>>] \in NavValues \cup {NoNav}  BY <2>2 DEF TypeOK
    <3> QED  BY <2>1, <3>1
  <2>4. u.reported \in Reports /\ u.plan \in Plans \cup {NoPlan} /\ u.active \in BOOLEAN
    BY ConstantsAssumption DEF Reports, NoPlan
  <2> HIDE DEF anchor
  <2> QED  BY <2>2, <2>3, <2>4 DEF Files
<1> HIDE DEF new
<1>4. TypeOK'
  <2>1. OrdersOf(p) \subseteq Keys /\ ExecutionsOf(p) \subseteq Keys
    BY DEF OrdersOf, ExecutionsOf
  <2>2. overlapped' \in BOOLEAN  BY <1>1 DEF TypeOK
  <2> QED  BY <1>1, <1>2, <1>3, <2>1, <2>2 DEF TypeOK
<1>5. NavsAreSeen' /\ RowsAreReal'
  BY <1>1, <1>2, <1>3 DEF NavsAreSeen, NavKeys, RowsAreReal
<1>6. OrdersAreReal'  BY <1>1 DEF OrdersAreReal
<1>7. SettledIsBacked'  BY <1>1 DEF SettledIsBacked
<1>8. AloneIsSound'
  <2> SUFFICES ASSUME ~overlapped'  PROVE AloneIsSound'
    BY DEF AloneIsSound
  <2>1. ~overlapped /\ wpc = "idle" /\ wpc' = "idle"  BY <1>1
  <2>2. ExecutionsMatchOrders' /\ \A k \in Keys : orderState'[k] # "none" => snapshot'[k[1]] <= k[2]
    BY <1>1, <2>1 DEF AloneIsSound, ExecutionsMatchOrders
  <2>3. IF SnapshotChanged(file)'
        THEN iorders' = OrdersOf(file.position)' /\ iexecs' = ExecutionsOf(file.position)'
        ELSE iorders' = {} /\ iexecs' = {}
    <3>1. SnapshotChanged(file)' <=> SnapshotChanged(new)
      BY <1>1, <1>2 DEF SnapshotChanged
    <3>2. OrdersOf(file.position)' = OrdersOf(p) /\ ExecutionsOf(file.position)' = ExecutionsOf(p)
      BY <1>1, <1>2, <1>3 DEF OrdersOf, ExecutionsOf
    <3> QED  BY <1>2, <3>1, <3>2
  <2> QED  BY <2>1, <2>2, <2>3 DEF AloneIsSound
<1> QED  BY <1>4, <1>5, <1>6, <1>7, <1>8

\* What is not written changes nothing.
LEMMA ImportRefusedKeeps ==
  ASSUME OrdersInv, ImportRefused
  PROVE  OrdersInv'
<1> USE DEF OrdersInv
<1>1. /\ ipc' = "idle" /\ file' = NoFile /\ iorders' = {} /\ iexecs' = {}
      /\ UNCHANGED <<overlapped, wdue, day, nav, navSeen, snapshot, reported, anchorDate, anchorNav, plan,
                     active, orderState, orderPlan, bought, boughtAt, wpc, wcodes, wdate, wplans,
                     wloaded>>
  BY DEF ImportRefused, ImportDone, positionVars, orderVars, workerVars
<1>2. TypeOK'  BY <1>1 DEF TypeOK
<1>3. NavsAreSeen' /\ RowsAreReal'  BY <1>1 DEF NavsAreSeen, NavKeys, RowsAreReal
<1>4. OrdersAreReal'  BY <1>1 DEF OrdersAreReal
<1>5. SettledIsBacked'  BY <1>1 DEF SettledIsBacked
<1>6. AloneIsSound'  BY <1>1 DEF AloneIsSound, ExecutionsMatchOrders
<1> QED  BY <1>2, <1>3, <1>4, <1>5, <1>6

\* A later day makes no snapshot a future one.
LEMMA NextDayKeeps ==
  ASSUME OrdersInv, NextDay
  PROVE  OrdersInv'
<1> USE DEF OrdersInv
<1>1. /\ day < MaxDay /\ day' = day + 1
      /\ UNCHANGED <<overlapped, wdue, nav, navSeen, snapshot, reported, anchorDate, anchorNav, plan,
                     active, orderState, orderPlan, bought, boughtAt, wpc, wcodes, wdate, wplans,
                     wloaded, ipc, file, iorders, iexecs>>
  BY DEF NextDay, positionVars, orderVars, workerVars, importVars
<1>2. day \in Days /\ day' \in Days
  BY <1>1, ConstantsAssumption DEF TypeOK, Days
<1>3. TypeOK'  BY <1>1, <1>2 DEF TypeOK
<1>4. NavsAreSeen'  BY <1>1 DEF NavsAreSeen, NavKeys
<1>5. RowsAreReal'
  <2>1. \A n \in Days \cup {NoRow} : n <= day => n <= day'  BY <1>1, <1>2 DEF Days, NoRow
  <2>2. \A p \in Positions : snapshot[p] \in Days \cup {NoRow}  BY DEF TypeOK
  <2>3. file \in Files => file.snapshot \in Days \cup {NoRow}  BY DEF Files
  <2> QED  BY <1>1, <2>1, <2>2, <2>3 DEF RowsAreReal
<1>6. OrdersAreReal'  BY <1>1 DEF OrdersAreReal
<1>7. SettledIsBacked'  BY <1>1 DEF SettledIsBacked
<1>8. AloneIsSound'
  BY <1>1 DEF AloneIsSound, ExecutionsMatchOrders, SnapshotChanged, OrdersOf, ExecutionsOf
<1> QED  BY <1>3, <1>4, <1>5, <1>6, <1>7, <1>8

\* ... and writes: an execution is deleted with the order that is settled by it, and
\* the orders that stay belong to a snapshot that stays.
LEMMA WritePositionKeeps ==
  ASSUME OrdersInv, WritePosition
  PROVE  OrdersInv'
<1> USE DEF OrdersInv
<1> DEFINE p == file.position
<1>1. /\ ipc = "write" /\ ipc' = "idle" /\ file' = NoFile /\ iorders' = {} /\ iexecs' = {}
      /\ \A k \in iexecs \ iorders : orderState[k] # "SETTLED"
      /\ snapshot' = [snapshot EXCEPT ![p] = file.snapshot]
      /\ reported' = [reported EXCEPT ![p] = file.reported]
      /\ anchorDate' = [anchorDate EXCEPT ![p] = file.anchorDate]
      /\ anchorNav' = [anchorNav EXCEPT ![p] = file.anchorNav]
      /\ plan' = [plan EXCEPT ![p] = file.plan]
      /\ active' = [active EXCEPT ![p] = file.active]
      /\ orderState' = [k \in Keys |-> IF k \in iorders THEN "none" ELSE orderState[k]]
      /\ orderPlan' = [k \in Keys |-> IF k \in iorders THEN NoPlan ELSE orderPlan[k]]
      /\ bought' = [k \in Keys |-> IF k \in iexecs THEN NoPlan ELSE bought[k]]
      /\ boughtAt' = [k \in Keys |-> IF k \in iexecs THEN NoNav ELSE boughtAt[k]]
      /\ UNCHANGED <<overlapped, day, nav, navSeen, wpc, wcodes, wdate, wplans, wloaded>>
  BY DEF WritePosition, ImportDone, workerVars
<1>2. /\ p \in Positions /\ file.snapshot \in Days /\ file.snapshot <= day
      /\ file.reported \in Reports /\ file.plan \in Plans \cup {NoPlan}
      /\ file.active \in BOOLEAN /\ file.anchorDate \in NavDates /\ file.anchorNav \in NavValues
  BY <1>1 DEF RowsAreReal, Files
<1>3. file.snapshot # NoRow  BY <1>2 DEF Days, NoRow
<1> HIDE DEF p
<1>4. \A q \in Positions : /\ snapshot'[q] = IF q = p THEN file.snapshot ELSE snapshot[q]
                           /\ q # p => plan'[q] = plan[q]
  BY <1>1, <1>2 DEF TypeOK
<1>5. TypeOK'
  <2>1. /\ snapshot' \in [Positions -> Days \cup {NoRow}]
        /\ reported' \in [Positions -> Reports \cup {NoRow}]
        /\ anchorDate' \in [Positions -> NavDates]
        /\ anchorNav' \in [Positions -> NavValues \cup {NoNav}]
        /\ plan' \in [Positions -> Plans \cup {NoPlan}]
    BY <1>1, <1>2 DEF TypeOK
  <2>2. active' \in [Positions -> BOOLEAN]
    <3> DEFINE paused == file.active
    <3>1. paused \in BOOLEAN /\ active' = [active EXCEPT ![p] = paused]  BY <1>1, <1>2
    <3> HIDE DEF paused
    <3> QED  BY <3>1 DEF TypeOK
  <2>3. /\ orderState' \in [Keys -> OrderStates \cup {"none"}]
        /\ orderPlan' \in [Keys -> Plans \cup {NoPlan}]
        /\ bought' \in [Keys -> Plans \cup {NoPlan}]
        /\ boughtAt' \in [Keys -> NavValues \cup {NoNav}]
    BY <1>1 DEF TypeOK
  <2>4. wdue' \in SUBSET Keys  BY DEF WritePosition, TypeOK
  <2> QED  BY <1>1, <2>1, <2>2, <2>3, <2>4 DEF TypeOK
<1>6. NavsAreSeen' /\ RowsAreReal'
  BY <1>1, <1>2, <1>3, <1>4 DEF NavsAreSeen, NavKeys, RowsAreReal
<1>7. OrdersAreReal'
  <2>1. ASSUME NEW k \in Keys, orderState'[k] # "none"
        PROVE  orderPlan'[k] # NoPlan /\ snapshot'[k[1]] # NoRow
    <3>1. k[1] \in Positions /\ k \notin iorders  BY <1>1, <2>1 DEF Keys
    <3>2. orderPlan[k] # NoPlan /\ snapshot[k[1]] # NoRow
      BY <1>1, <2>1, <3>1 DEF OrdersAreReal
    <3> QED  BY <1>1, <1>3, <1>4, <3>1, <3>2
  <2>2. ASSUME wpc = "create", NEW q \in Positions, wplans[q] # NoPlan
        PROVE  orderState'[<<q, wdate>>] = "none" /\ snapshot'[q] # NoRow
    <3>1. <<q, wdate>> \in Keys  BY DEF Keys, TypeOK
    <3> QED  BY <1>1, <1>3, <1>4, <2>2, <3>1 DEF OrdersAreReal
  <2> QED  BY <1>1, <2>1, <2>2 DEF OrdersAreReal
<1>8. SettledIsBacked'
  <2> SUFFICES ASSUME NEW k \in Keys
               PROVE  /\ orderState'[k] = "SETTLED" => bought'[k] # NoPlan
                      /\ bought'[k] # NoPlan => boughtAt'[k] \in navSeen'[k]
    BY DEF SettledIsBacked
  <2>1. orderState'[k] = "SETTLED" => bought'[k] # NoPlan
    BY <1>1 DEF SettledIsBacked
  <2>2. bought'[k] # NoPlan => boughtAt'[k] \in navSeen'[k]
    BY <1>1 DEF SettledIsBacked
  <2> QED  BY <2>1, <2>2
<1>9. AloneIsSound'
  <2> SUFFICES ASSUME ~overlapped  PROVE AloneIsSound'
    BY <1>1 DEF AloneIsSound
  <2>1. /\ wpc = "idle" /\ wpc' = "idle"
        /\ IF SnapshotChanged(file) THEN iorders = OrdersOf(p) /\ iexecs = ExecutionsOf(p)
                                    ELSE iorders = {} /\ iexecs = {}
        /\ \A k \in Keys : orderState[k] # "none" => snapshot[k[1]] <= k[2]
    BY <1>1 DEF AloneIsSound, p
  <2>2. \A k \in Keys : bought[k] # NoPlan =>
          orderState[k] = "SETTLED" /\ bought[k] = orderPlan[k] /\ k[2] >= snapshot[k[1]]
    BY DEF AloneIsSound, ExecutionsMatchOrders
  <2>3. ASSUME NEW k \in Keys, orderState[k] # "none", k \notin iorders
        PROVE  snapshot'[k[1]] = snapshot[k[1]]
    <3>1. k[1] \in Positions /\ snapshot[k[1]] # NoRow  BY <2>3 DEF Keys, OrdersAreReal
    <3>2. CASE k[1] = p
      <4>1. ~SnapshotChanged(file)  BY <2>1, <2>3, <3>2 DEF OrdersOf
      <4> QED  BY <1>4, <3>1, <3>2, <4>1 DEF SnapshotChanged, p
    <3> QED  BY <1>4, <3>1, <3>2
  <2>4. \A k \in Keys : orderState'[k] # "none" => snapshot'[k[1]] <= k[2]
    BY <1>1, <2>1, <2>3
  <2>5. ASSUME NEW k \in Keys, bought'[k] # NoPlan
        PROVE  orderState'[k] = "SETTLED" /\ bought'[k] = orderPlan'[k] /\ k[2] >= snapshot'[k[1]]
    <3>1. /\ k \notin iexecs /\ bought'[k] = bought[k]
          /\ orderState[k] = "SETTLED" /\ bought[k] = orderPlan[k] /\ k[2] >= snapshot[k[1]]
      BY <1>1, <2>2, <2>5
    <3>2. k \notin iorders  BY <2>1, <2>5, <3>1 DEF OrdersOf, ExecutionsOf
    <3> QED  BY <1>1, <2>3, <3>1, <3>2
  <2>6. ExecutionsMatchOrders'  BY <2>5 DEF ExecutionsMatchOrders
  <2> QED  BY <1>1, <2>1, <2>4, <2>6 DEF AloneIsSound
<1> QED  BY <1>5, <1>6, <1>7, <1>8, <1>9

\* Every step keeps the invariant.
LEMMA StepOrders == OrdersInv /\ [Next]_vars => OrdersInv'
<1> SUFFICES ASSUME OrdersInv, [Next]_vars  PROVE OrdersInv'
  OBVIOUS
<1>1. CASE UNCHANGED vars
  <2>1. UNCHANGED <<day, nav, navSeen, overlapped, wdue, snapshot, reported, anchorDate, anchorNav, plan,
                    active, orderState, orderPlan, bought, boughtAt, wpc, wcodes, wdate, wplans,
                    wloaded, ipc, file, iorders, iexecs>>
    BY <1>1 DEF vars, positionVars, orderVars, workerVars, importVars
  <2>2. TypeOK'  BY <2>1 DEF OrdersInv, TypeOK
  <2>3. NavsAreSeen' /\ RowsAreReal' /\ OrdersAreReal' /\ SettledIsBacked'
    BY <2>1 DEF OrdersInv, NavsAreSeen, NavKeys, RowsAreReal, OrdersAreReal, SettledIsBacked
  <2>4. AloneIsSound'
    BY <2>1 DEF OrdersInv, AloneIsSound, ExecutionsMatchOrders, SnapshotChanged, OrdersOf, ExecutionsOf
  <2> QED  BY <2>2, <2>3, <2>4 DEF OrdersInv
<1>2. CASE \E codes \in (SUBSET Positions) \ {{}} : LoadPlans(codes)  BY <1>2, LoadPlansKeeps
<1>3. CASE CreateOrders  BY <1>3, CreateOrdersKeeps
<1>4. CASE LoadOrders \/ StageAborted  BY <1>4, StageKeeps
<1>5. CASE SettleOrders  BY <1>5, SettleOrdersKeeps
<1>6. CASE \E p \in Positions, d \in Days, v \in NavValues : StoreNav(p, d, v)
  BY <1>6, StoreNavKeeps
<1>7. CASE \E p \in Positions, d \in Days, u \in Uploads : LoadPosition(p, d, u)
  BY <1>7, LoadPositionKeeps
<1>8. CASE WritePosition  BY <1>8, WritePositionKeeps
<1>9. CASE ImportRefused  BY <1>9, ImportRefusedKeeps
<1>10. CASE NextDay  BY <1>10, NextDayKeeps
<1> QED  BY <1>1, <1>2, <1>3, <1>4, <1>5, <1>6, <1>7, <1>8, <1>9, <1>10 DEF Next

LEMMA OrdersStay == Spec => []OrdersInv
<1> QED  BY InitOrders, StepOrders, PTL DEF Spec

-----------------------------------------------------------------------------
(* Theorems.                                                                *)

\* Every variable stays in its type; in particular there is always an anchor NAV for
\* the file an import reads.
THEOREM TypeCorrect == Spec => []TypeOK
<1>1. OrdersInv => TypeOK  BY DEF OrdersInv
<1> QED  BY <1>1, OrdersStay, PTL

\* settle_recurring_plans: a settled order has an execution, at a NAV that was stored
\* for exactly its date, however stages, imports and revisions of NAVs interleave; and
\* unless an import and a daily stage were open at one time, executions are those of
\* settled orders, of the amounts these snapshot, none before the position's snapshot.
THEOREM SettlementSound == Spec => []SettlementIsSound
<1>1. OrdersInv => SettlementIsSound
  BY DEF OrdersInv, SettlementIsSound, AloneIsSound
<1> QED  BY <1>1, OrdersStay, PTL

\* recurring_plans_pending: an operation finished earlier never answers a daily request
\* while a daily stage would create or settle an order of its funds.
THEOREM NothingIsMissed == Spec => []PendingMissesNothing
<1>1. OrdersInv => PendingMissesNothing
  <2> SUFFICES ASSUME OrdersInv, NEW codes \in SUBSET Positions, NEW k \in DueKeys(codes)
               PROVE  PlansPending(codes)
    BY DEF PendingMissesNothing
  <2>1. /\ k \in Keys /\ k[1] \in codes /\ active[k[1]]
        /\ \/ day \in Weekdays /\ k[2] = day /\ plan[k[1]] # NoPlan /\ orderState[k] = "none"
           \/ orderState[k] = "PENDING" /\ nav[k] # NoNav
    BY DEF DueKeys
  <2>2. CASE day \in Weekdays /\ k[2] = day /\ plan[k[1]] # NoPlan /\ orderState[k] = "none"
    <3>1. k = <<k[1], day>>  BY <2>1, <2>2 DEF Keys
    <3>2. k[1] \in Unordered(codes, day)  BY <2>1, <2>2, <3>1 DEF Unordered, PlanPositions
    <3> QED  BY <2>2, <3>2 DEF PlansPending
  <2> QED  BY <2>1, <2>2 DEF PlansPending
<1> QED  BY <1>1, OrdersStay, PTL

\* The orders of a position are created once a day, settled once and then stand still,
\* until an import that saw a new snapshot deletes them.
THEOREM OrdersStandStill == Spec => OrdersAreFinal
<1>1. ASSUME OrdersInv, [Next]_vars, NEW k \in Keys, orderState[k] # "none",
             ~(ipc = "write" /\ k \in iorders /\ ipc' = "idle")
      PROVE  orderPlan'[k] = orderPlan[k] /\ orderState'[k] \in {orderState[k], "SETTLED"}
  <2>1. CASE UNCHANGED orderVars  BY <2>1 DEF orderVars
  <2>2. CASE CreateOrders
    <3>1. ~(k[2] = wdate /\ wplans[k[1]] # NoPlan)
      BY <1>1, <2>2 DEF OrdersInv, OrdersAreReal, CreateOrders, Keys
    <3> QED  BY <2>2, <3>1 DEF CreateOrders
  <2>3. CASE SettleOrders  BY <2>3 DEF SettleOrders
  <2>4. CASE WritePosition  BY <1>1, <2>4 DEF WritePosition, ImportDone
  <2>5. UNCHANGED orderVars \/ CreateOrders \/ SettleOrders \/ WritePosition
    <3>1. \A codes : LoadPlans(codes) => UNCHANGED orderVars  BY DEF LoadPlans
    <3>2. LoadOrders \/ StageAborted => UNCHANGED orderVars  BY DEF LoadOrders, StageAborted
    <3>3. \A p, d, v : StoreNav(p, d, v) => UNCHANGED orderVars  BY DEF StoreNav
    <3>4. \A p, d, u : LoadPosition(p, d, u) => UNCHANGED orderVars  BY DEF LoadPosition
    <3>5. ImportRefused \/ NextDay => UNCHANGED orderVars  BY DEF ImportRefused, NextDay
    <3>6. UNCHANGED vars => UNCHANGED orderVars  BY DEF vars
    <3> QED  BY <1>1, <3>1, <3>2, <3>3, <3>4, <3>5, <3>6 DEF Next
  <2> QED  BY <2>1, <2>2, <2>3, <2>4, <2>5
<1>2. OrdersInv /\ [Next]_vars =>
        [\A k \in Keys : orderState[k] # "none" /\ ~(ipc = "write" /\ k \in iorders /\ ipc' = "idle") =>
            /\ orderPlan'[k] = orderPlan[k]
            /\ orderState'[k] \in {orderState[k], "SETTLED"}]_vars
  BY <1>1
<1> QED  BY <1>2, OrdersStay, PTL DEF Spec, OrdersAreFinal

\* What the stage's transactions hand on of the work that was due: what it will
\* create or has yet to load is there, and it has loaded what it has to settle.
DueIsAhead ==
    /\ ipc = "write" => \A k \in iorders : k[1] = file.position
    /\ \A k \in wdue :
          /\ wpc # "idle" /\ active[k[1]] /\ k[1] \in wcodes
          /\ orderState[k] = "PENDING" \/ wpc = "create"
          /\ wpc = "create" =>
                \/ k[2] = wdate /\ wplans[k[1]] # NoPlan
                \/ orderState[k] = "PENDING" /\ nav[k] # NoNav
          /\ wpc = "settle" => k \in wloaded

\* The stage: it begins with what is due, orders it, loads it, and has done it.
LEMMA StageCarriesDue ==
  ASSUME OrdersInv, DueIsAhead,
         (\E codes \in SUBSET Positions : LoadPlans(codes))
            \/ CreateOrders \/ LoadOrders \/ SettleOrders \/ StageAborted
  PROVE  DueIsAhead'
<1> USE DEF OrdersInv
<1>0. \A k \in Keys : k = <<k[1], k[2]>> /\ k[1] \in Positions  BY DEF Keys
<1>1. UNCHANGED <<ipc, file, iorders>>
  BY DEF LoadPlans, CreateOrders, LoadOrders, SettleOrders, StageAborted, importVars
<1>2. CASE \E codes \in SUBSET Positions : LoadPlans(codes)
  <2>1. PICK codes \in SUBSET Positions : LoadPlans(codes)  BY <1>2
  <2>2. /\ wpc' = "create" /\ wcodes' = codes /\ wdate' = day /\ wdue' = DueKeys(codes)
        /\ UNCHANGED <<active, orderState, nav>>
    BY <2>1 DEF LoadPlans, positionVars, orderVars
  <2>3. ASSUME NEW k \in DueKeys(codes)
        PROVE  /\ active[k[1]] /\ k[1] \in codes
               /\ \/ k[2] = day /\ wplans'[k[1]] # NoPlan
                  \/ orderState[k] = "PENDING" /\ nav[k] # NoNav
    <3>1. /\ k \in Keys /\ k[1] \in codes /\ active[k[1]]
          /\ \/ day \in Weekdays /\ k[2] = day /\ plan[k[1]] # NoPlan /\ orderState[k] = "none"
             \/ orderState[k] = "PENDING" /\ nav[k] # NoNav
      BY DEF DueKeys
    <3>2. CASE day \in Weekdays /\ k[2] = day /\ plan[k[1]] # NoPlan /\ orderState[k] = "none"
      <4>1. k = <<k[1], day>> /\ k[1] \in Positions  BY <1>0, <3>1, <3>2
      <4>2. k[1] \in Unordered(codes, day)
        BY <3>1, <3>2, <4>1 DEF Unordered, PlanPositions
      <4>3. wplans'[k[1]] = plan[k[1]]  BY <2>1, <3>2, <4>1, <4>2 DEF LoadPlans
      <4> QED  BY <3>1, <3>2, <4>3
    <3> QED  BY <3>1, <3>2
  <2> QED  BY <1>1, <2>2, <2>3 DEF DueIsAhead
<1>3. CASE CreateOrders
  <2>1. /\ wpc = "create" /\ wpc' = "sync"
        /\ \A k \in Keys : k[2] = wdate /\ wplans[k[1]] # NoPlan => orderState'[k] = "PENDING"
        /\ \A k \in Keys : orderState[k] = "PENDING" => orderState'[k] = "PENDING"
        /\ UNCHANGED <<wdue, wcodes, active>>
    BY <1>3 DEF CreateOrders, positionVars
  <2>2. wdue \subseteq Keys  BY DEF TypeOK
  <2> QED  BY <1>1, <2>1, <2>2 DEF DueIsAhead
<1>4. CASE LoadOrders
  <2>1. /\ wpc = "sync" /\ wpc' = "settle" /\ wloaded' = Pending(wcodes)
        /\ UNCHANGED <<wdue, wcodes, active, orderState>>
    BY <1>4 DEF LoadOrders, positionVars, orderVars
  <2>2. wdue \subseteq Keys  BY DEF TypeOK
  <2>3. \A k \in wdue : k \in Pending(wcodes)  BY <2>1, <2>2 DEF DueIsAhead, Pending
  <2> QED  BY <1>1, <2>1, <2>3 DEF DueIsAhead
<1>5. CASE SettleOrders \/ StageAborted
  BY <1>1, <1>5 DEF SettleOrders, StageAborted, WorkerDone, DueIsAhead
<1> QED  BY <1>2, <1>3, <1>4, <1>5

\* The others: an import deletes orders of its own position, whose work it takes off
\* the stage; a NAV may be revised but does not go.
LEMMA OthersLeaveDue ==
  ASSUME OrdersInv, DueIsAhead,
         \/ \E p \in Positions, d \in Days, v \in NavValues : StoreNav(p, d, v)
         \/ \E p \in Positions, d \in Days, u \in Uploads : LoadPosition(p, d, u)
         \/ WritePosition \/ ImportRefused \/ NextDay
  PROVE  DueIsAhead'
<1> USE DEF OrdersInv
<1>0. wdue \subseteq Keys /\ \A k \in Keys : k[1] \in Positions  BY DEF TypeOK, Keys
<1>1. UNCHANGED <<wpc, wcodes, wdate, wplans, wloaded>>
  <2>1. \A p, d, v : StoreNav(p, d, v) => UNCHANGED workerVars  BY DEF StoreNav
  <2>2. \A p, d, u : LoadPosition(p, d, u) => UNCHANGED workerVars  BY DEF LoadPosition
  <2>3. WritePosition \/ ImportRefused \/ NextDay => UNCHANGED workerVars
    BY DEF WritePosition, ImportRefused, NextDay
  <2>4. UNCHANGED workerVars  BY <2>1, <2>2, <2>3
  <2> QED  BY <2>4 DEF workerVars
<1>2. CASE \E p \in Positions, d \in Days, v \in NavValues : StoreNav(p, d, v)
  <2>1. PICK p \in Positions, d \in Days, v \in NavValues : StoreNav(p, d, v)  BY <1>2
  <2>2. UNCHANGED <<wdue, active, orderState, ipc, file, iorders>>
    BY <2>1 DEF StoreNav, positionVars, orderVars, importVars
  <2>3. v # NoNav /\ Keys \subseteq NavKeys
    BY ConstantsAssumption DEF NoNav, Keys, NavKeys, NavDates, Days
  <2>4. \A k \in Keys : nav[k] # NoNav => nav'[k] # NoNav
    BY <2>1, <2>3 DEF StoreNav, TypeOK, NavKeys
  <2> QED  BY <1>0, <1>1, <2>2, <2>4 DEF DueIsAhead
<1>3. CASE \E p \in Positions, d \in Days, u \in Uploads : LoadPosition(p, d, u)
  <2>1. PICK p \in Positions, d \in Days, u \in Uploads : LoadPosition(p, d, u)  BY <1>3
  <2>2. /\ UNCHANGED <<wdue, active, orderState, nav>>
        /\ file'.position = p /\ \A k \in iorders' : k[1] = p
    BY <2>1 DEF LoadPosition, positionVars, orderVars, OrdersOf
  <2> QED  BY <1>1, <2>2 DEF DueIsAhead
<1>4. CASE WritePosition
  <2>1. /\ ipc = "write" /\ ipc' = "idle" /\ nav' = nav
        /\ wdue' = {k \in wdue : k[1] # file.position}
        /\ active' = [active EXCEPT ![file.position] = file.active]
        /\ orderState' = [k \in Keys |-> IF k \in iorders THEN "none" ELSE orderState[k]]
    BY <1>4 DEF WritePosition, ImportDone
  <2>2. ASSUME NEW k \in wdue'
        PROVE  k \in wdue /\ active'[k[1]] = active[k[1]] /\ orderState'[k] = orderState[k]
    <3>1. k \in wdue /\ k \in Keys /\ k[1] \in Positions /\ k[1] # file.position
      BY <1>0, <2>1
    <3>2. k \notin iorders  BY <2>1, <3>1 DEF DueIsAhead
    <3> QED  BY <2>1, <3>1, <3>2 DEF TypeOK
  <2> QED  BY <1>1, <2>1, <2>2 DEF DueIsAhead
<1>5. CASE ImportRefused \/ NextDay
  <2>1. /\ UNCHANGED <<wdue, active, orderState, nav>>
        /\ ipc' = "idle" \/ UNCHANGED <<ipc, file, iorders>>
    BY <1>5 DEF ImportRefused, ImportDone, NextDay, positionVars, orderVars, importVars
  <2> QED  BY <1>1, <2>1 DEF DueIsAhead
<1> QED  BY <1>2, <1>3, <1>4, <1>5

LEMMA DueStaysAhead == Spec => []DueIsAhead
<1>1. Init => DueIsAhead  BY DEF Init, DueIsAhead
<1>2. ASSUME OrdersInv, DueIsAhead, [Next]_vars  PROVE DueIsAhead'
  <2>1. CASE UNCHANGED vars
    BY <1>2, <2>1 DEF vars, positionVars, orderVars, workerVars, importVars, DueIsAhead
  <2>2. CASE (\E codes \in SUBSET Positions : LoadPlans(codes))
               \/ CreateOrders \/ LoadOrders \/ SettleOrders \/ StageAborted
    BY <1>2, <2>2, StageCarriesDue
  <2>3. CASE \/ \E p \in Positions, d \in Days, v \in NavValues : StoreNav(p, d, v)
             \/ \E p \in Positions, d \in Days, u \in Uploads : LoadPosition(p, d, u)
             \/ WritePosition \/ ImportRefused \/ NextDay
    BY <1>2, <2>3, OthersLeaveDue
  <2>4. Next => \/ (\E codes \in SUBSET Positions : LoadPlans(codes))
                      \/ CreateOrders \/ LoadOrders \/ SettleOrders \/ StageAborted
                \/ \E p \in Positions, d \in Days, v \in NavValues : StoreNav(p, d, v)
                \/ \E p \in Positions, d \in Days, u \in Uploads : LoadPosition(p, d, u)
                \/ WritePosition \/ ImportRefused \/ NextDay
    BY DEF Next
  <2> QED  BY <1>2, <2>1, <2>2, <2>3, <2>4
<1>3. OrdersInv /\ DueIsAhead /\ [Next]_vars => DueIsAhead'  BY <1>2
<1> QED  BY <1>1, <1>3, OrdersStay, PTL DEF Spec

\* What was due when a daily stage began is done when the stage commits, whatever
\* midnights, NAVs and imports of other positions fell between its transactions.
THEOREM StageDoesWhatWasDue == Spec => DueIsDone
<1>1. ASSUME OrdersInv, DueIsAhead, SettleOrders, NEW k \in wdue
      PROVE  /\ orderState'[k] # "none"
             /\ nav[k] # NoNav => orderState'[k] = "SETTLED"
  <2>1. /\ k \in Keys /\ k \in wloaded /\ orderState[k] = "PENDING"
        /\ orderState' = [q \in Keys |-> IF q \in Priced(wloaded) THEN "SETTLED" ELSE orderState[q]]
    BY <1>1 DEF OrdersInv, TypeOK, DueIsAhead, SettleOrders
  <2>2. nav[k] # NoNav => k \in Priced(wloaded)  BY <2>1 DEF Priced, OrderNav
  <2> QED  BY <2>1, <2>2
<1>2. OrdersInv /\ DueIsAhead /\ [Next]_vars => [SettleOrders => DoesWhatWasDue]_vars
  BY <1>1 DEF DoesWhatWasDue
<1> QED  BY <1>2, OrdersStay, DueStaysAhead, PTL DEF Spec, DueIsDone
================================================================================
