----------------------- MODULE PositionManager_proofs -----------------------
(***************************************************************************)
(* Theorems about the position manager, for any number of tickets, any     *)
(* lots, distances, locks and trails, refused requests and crashes.        *)
(***************************************************************************)
EXTENDS PositionManager, TLAPS

-----------------------------------------------------------------------------
(* What compute_managed_sl makes of a row and a stop                       *)

LEMMA MaxIsOne ==
  ASSUME NEW a \in Int, NEW b \in Int, NEW c \in Int
  PROVE  /\ Max({a, b}) \in {a, b}
         /\ Max({a, b, c}) \in {a, b, c}
<1>1. \E x \in {a, b} : \A y \in {a, b} : x >= y
  OBVIOUS
<1>2. \E x \in {a, b, c} : \A y \in {a, b, c} : x >= y
  OBVIOUS
<1> QED
  BY <1>1, <1>2 DEF Max

LEMMA MinIsOne ==
  ASSUME NEW a \in Int, NEW b \in Int
  PROVE  Min({a, b}) \in {a, b} /\ Min({a, b}) <= a /\ Min({a, b}) <= b
<1>1. \E x \in {a, b} : \A y \in {a, b} : x <= y
  OBVIOUS
<1> QED
  BY <1>1 DEF Min

LEMMA HalfIsLess ==
  ASSUME NEW n \in Nat
  PROVE  PartialVolume(n) \in 0 .. n
BY DEF PartialVolume

Managed == [row : Row, stop : Int]

\* Every rule keeps the type, the memory of the partial and of the refused stop.
Kept(m, n) == n \in Managed /\ n.row.partial = m.row.partial

LEMMA PeakedKept ==
  ASSUME NEW m \in Managed, NEW cur \in Stops
  PROVE  Kept(m, Peaked(m, cur))
<1>1. Max({m.row.peak, cur}) \in Stops
  <2>1. m.row.peak \in Int /\ cur \in Int /\ m.row.peak \in Stops
    BY ConfigAssumption DEF Managed, Row, Stops
  <2> QED
    BY <2>1, MaxIsOne
<1> QED
  BY <1>1 DEF Peaked, Kept, Managed, Row

LEMMA BreakEvenKept ==
  ASSUME NEW m \in Managed, NEW cur \in Stops, NEW lock \in Locks
  PROVE  Kept(m, BreakEven(m, cur, lock))
<1>1. lock \in Int
  BY ConfigAssumption
<1> QED
  BY <1>1 DEF BreakEven, Kept, Managed, Row

LEMMA ProgressedKept ==
  ASSUME NEW m \in Managed, NEW cur \in Stops, NEW d \in Trails
  PROVE  Kept(m, Progressed(m, cur, d))
<1>1. Max({m.stop, 0, m.row.peak - d}) \in Int
  <2> DEFINE x == m.stop
             y == m.row.peak - d
             entry == 0
  <2>1. x \in Int /\ y \in Int /\ entry \in Int
    BY ConfigAssumption DEF Managed, Row, Stops
  <2> HIDE DEF x, y, entry
  <2>2. Max({x, entry, y}) \in {x, entry, y}
    BY <2>1, MaxIsOne, Zenon
  <2>3. Max({x, entry, y}) \in Int
    BY <2>1, <2>2
  <2> QED
    BY <2>3 DEF x, y, entry
<1> QED
  BY <1>1 DEF Progressed, Kept, Managed, Row

LEMMA TrailedKept ==
  ASSUME NEW m \in Managed, NEW cur \in Stops, NEW d \in Trails
  PROVE  Kept(m, Trailed(m, cur, d))
<1> DEFINE atEntry == cur > 0 /\ m.row.peak - d < 0
           level == IF atEntry THEN 0 ELSE m.row.peak - d
<1>1. Max({m.stop, level}) \in Int
  <2>1. m.stop \in Int /\ level \in Int
    BY ConfigAssumption DEF Managed, Row, Stops
  <2> QED
    BY <2>1, MaxIsOne
<1> DEFINE to == Max({m.stop, level})
           even == m.row.be \/ atEntry
<1>2. even \in BOOLEAN
  OBVIOUS
<1>3. Trailed(m, cur, d)
        = IF m.row.trailing \/ m.row.partial \/ cur >= ArmAt
          THEN [m EXCEPT !.stop = to, !.row.be = even, !.row.trailing = TRUE]
          ELSE m
  BY DEF Trailed
<1>4. to \in Int
  BY <1>1
<1> HIDE DEF to, even
<1>5. [m EXCEPT !.stop = to, !.row.be = even, !.row.trailing = TRUE] \in Managed
  BY <1>2, <1>4 DEF Managed, Row
<1>6. [m EXCEPT !.stop = to, !.row.be = even, !.row.trailing = TRUE].row.partial
        = m.row.partial
  BY <1>2, <1>4 DEF Managed, Row
<1> QED
  BY <1>3, <1>5, <1>6 DEF Kept

LEMMA AgedKept ==
  ASSUME NEW m \in Managed, NEW level \in -Risk .. TimeLock
  PROVE  Kept(m, Aged(m, level))
<1>1. Max({m.stop, level}) \in Int
  <2>1. m.stop \in Int /\ level \in Int
    BY ConfigAssumption DEF Managed
  <2> QED
    BY <2>1, MaxIsOne
<1> QED
  BY <1>1 DEF Aged, Kept, Managed, Row

\* Whatever lock and distances a pass goes by, the row stays a row and remembers
\* its partial close.
LEMMA ComputedKept ==
  ASSUME TypeOK, NEW t \in Tickets, NEW m \in Computed(t)
  PROVE  m.row \in Row /\ m.stop \in Int /\ m.row.partial = mgmt[t].partial
<1> DEFINE start == [row |-> mgmt[t], stop |-> view[t].stop]
           cur == Quote(t)
<1>1. start \in Managed
  BY ConfigAssumption DEF TypeOK, Managed, Stops
<1>2. cur \in Stops
  <2>1. price[t] \in Price
    BY DEF TypeOK
  <2> QED
    BY <2>1, ConfigAssumption DEF Quote, Price, Stops
<1>3. PICK lock \in Locks, d70 \in Trails, d \in Trails, level \in -Risk .. TimeLock :
        m = Aged(Trailed(Progressed(BreakEven(Peaked(start, cur), cur, lock), cur, d70),
                         cur, d), level)
  BY DEF Computed, ComputeManagedSl
<1>4. start.row.partial = mgmt[t].partial
  OBVIOUS
<1> HIDE DEF start, cur
<1> DEFINE m1 == Peaked(start, cur)
           m2 == BreakEven(m1, cur, lock)
           m3 == Progressed(m2, cur, d70)
           m4 == Trailed(m3, cur, d)
<1>5. Kept(start, m1)
  BY <1>1, <1>2, PeakedKept
<1> HIDE DEF m1
<1>6. Kept(m1, m2)
  BY <1>2, <1>5, BreakEvenKept DEF Kept
<1> HIDE DEF m2
<1>7. Kept(m2, m3)
  BY <1>2, <1>6, ProgressedKept DEF Kept
<1> HIDE DEF m3
<1>8. Kept(m3, m4)
  BY <1>2, <1>7, TrailedKept DEF Kept
<1> HIDE DEF m4
<1>9. Kept(m4, Aged(m4, level))
  BY <1>8, AgedKept DEF Kept
<1>10. m = Aged(m4, level)
  BY <1>3 DEF m1, m2, m3, m4
<1> QED
  BY <1>4, <1>5, <1>6, <1>7, <1>8, <1>9, <1>10 DEF Kept, Managed

\* A stop that is sent is better than the one of the list and not beyond the price.
LEMMA MovesBetween ==
  ASSUME TypeOK, NEW t \in Tickets, NEW m \in Computed(t), Moves(m, t)
  PROVE  /\ Clamped(m.stop, t) \in Stops
         /\ Clamped(m.stop, t) > view[t].stop
<1> DEFINE x == Clamped(m.stop, t)
<1>1. m.stop \in Int
  BY ComputedKept
<1> DEFINE y == price[t] - MinDist
<1>2. y \in Int /\ y <= Top + Spread
  <2>1. price[t] \in Price
    BY DEF TypeOK
  <2> QED
    BY <2>1, ConfigAssumption DEF Price
<1> HIDE DEF y
<1>3. x \in Int /\ x <= Top + Spread
  <2>1. x = Min({m.stop, y})
    BY DEF Clamped, y
  <2>2. x \in {m.stop, y} /\ x <= y
    BY <1>1, <1>2, <2>1, MinIsOne
  <2> HIDE DEF x
  <2> QED
    BY <1>1, <1>2, <2>2, ConfigAssumption
<1>4. x > view[t].stop
  BY DEF Moves
<1>5. view[t].stop \in Stops
  BY DEF TypeOK
<1> HIDE DEF x
<1> QED
  BY <1>3, <1>4, <1>5, ConfigAssumption DEF Stops, x

-----------------------------------------------------------------------------
(* Types. Half of the list's volume is taken off the broker's, so that TypeOK *)
(* needs: a ticket the partial phase has not come to has the lots of the   *)
(* list, or none.                                                          *)

ListedLots ==
  pc = "partial" =>
    \A t \in todo : t # runner /\ lots[t] > 0 => lots[t] = view[t].lots

\* The rows after a step of the manage phase; no other variable's type is at stake
\* but the stop's and the lots'.
LEMMA ManageTyped ==
  ASSUME TypeOK, NEW t \in Tickets,
         \/ ManageKeeps(t) \/ ManageMoves(t) \/ ManageFails(t)
         \/ TimeStops(t) \/ SignalReverses(t)
  PROVE  TypeOK'
<1> USE DEF market, book, phase, pass, history
<1>1. mgmt' \in [Tickets -> Row]
  <2>1. CASE ManageKeeps(t)
    BY <2>1, ComputedKept DEF ManageKeeps, TypeOK
  <2>2. CASE ManageMoves(t)
    <3>1. PICK m \in Computed(t) :
            mgmt' = [mgmt EXCEPT ![t] = [m.row EXCEPT !.failed = None]]
      BY <2>2 DEF ManageMoves
    <3>2. [m.row EXCEPT !.failed = None] \in Row
      BY ComputedKept DEF Row
    <3> QED
      BY <3>1, <3>2 DEF TypeOK
  <2>3. CASE ManageFails(t)
    <3>1. PICK m \in Computed(t) :
            /\ Moves(m, t)
            /\ mgmt' = [mgmt EXCEPT ![t] = [m.row EXCEPT !.failed = Clamped(m.stop, t)]]
      BY <2>3 DEF ManageFails
    <3>2. [m.row EXCEPT !.failed = Clamped(m.stop, t)] \in Row
      BY <3>1, ComputedKept, MovesBetween DEF Row
    <3> QED
      BY <3>1, <3>2 DEF TypeOK
  <2>4. CASE TimeStops(t)
    BY <2>4 DEF TimeStops, TypeOK
  <2>5. CASE SignalReverses(t)
    BY <2>5, ComputedKept DEF SignalReverses, TypeOK
  <2> QED
    BY <2>1, <2>2, <2>3, <2>4, <2>5
<1>2. stop' \in [Tickets -> Stops]
  <2>1. CASE ManageMoves(t)
    <3>1. PICK m \in Computed(t) :
            Moves(m, t) /\ stop' = [stop EXCEPT ![t] = Clamped(m.stop, t)]
      BY <2>1 DEF ManageMoves
    <3> QED
      BY <3>1, MovesBetween DEF TypeOK
  <2>2. CASE ~ManageMoves(t)
    BY <2>2 DEF ManageKeeps, ManageFails, TimeStops, SignalReverses, TypeOK
  <2> QED
    BY <2>1, <2>2
<1>3. /\ lots' \in [Tickets -> Nat] /\ todo' \subseteq Tickets /\ fails' \in 0 .. MaxFails
  BY ConfigAssumption DEF ManageKeeps, ManageMoves, ManageFails, TimeStops, SignalReverses, TypeOK
<1>4. UNCHANGED <<market, doc, pc, view, phase, history, crashes>>
  BY DEF ManageKeeps, ManageMoves, ManageFails, TimeStops, SignalReverses, ManageStep
<1> QED
  BY <1>1, <1>2, <1>3, <1>4 DEF TypeOK

LEMMA FetchesTyped ==
  ASSUME TypeOK, Fetches
  PROVE  /\ view' \in [Tickets -> [stop : Stops, lots : Nat]] /\ todo' \subseteq Tickets
         /\ fails' \in 0 .. MaxFails
         /\ \A t \in Tickets : view'[t].stop = stop[t] /\ view'[t].lots = lots[t]
BY ConfigAssumption DEF Fetches, Listed, Open, TypeOK

LEMMA NewTyped ==
  /\ NoList \in [Tickets -> [stop : Stops, lots : Nat]]
  /\ NewRow \in Row
BY ConfigAssumption DEF NoList, NewRow, Row, Stops

\* When tp1 is reached the clamped lock is at entry or better and not beyond the
\* price.
LEMMA LockIsFree ==
  ASSUME TypeOK, NEW t \in Tickets, Quote(t) >= Target
  PROVE  PostPartialStop(t) \in 0 .. Top
<1>1. price[t] \in Int /\ price[t] <= Top /\ price[t] - MinDist >= 0
  BY ConfigAssumption DEF TypeOK, Price, Quote
<1> DEFINE least == price[t] - MinDist
           x == Min({RunnerLock, least})
<1>2. least \in Nat /\ least <= Top /\ RunnerLock \in Nat
  BY <1>1, ConfigAssumption
<1>3. x = PostPartialStop(t)
  BY DEF PostPartialStop, Clamped
<1> HIDE DEF least
<1>4. RunnerLock \in Int /\ least \in Int
  BY <1>2
<1>5. x \in {RunnerLock, least} /\ x <= least
  BY <1>4, MinIsOne, Zenon
<1> HIDE DEF x
<1> QED
  BY <1>2, <1>3, <1>5, ConfigAssumption

\* A step of the partial phase keeps the types.
LEMMA PartialTyped ==
  ASSUME TypeOK, ListedLots, NEW t \in Tickets,
         PartialSkips(t) \/ PartialFails(t) \/ PartialCloses(t) \/ PartialLocks(t)
  PROVE  TypeOK'
<1> USE DEF market, book, phase, pass, history
<1>1. CASE PartialSkips(t)
  BY <1>1 DEF PartialSkips, TypeOK
<1>2. CASE PartialFails(t)
  <2>1. fails' \in 0 .. MaxFails
    BY <1>2, ConfigAssumption DEF PartialFails, TypeOK
  <2> QED
    BY <1>2, <2>1 DEF PartialFails, TypeOK
<1>3. CASE PartialCloses(t)
  <2> DEFINE size == view[t].lots
             whole == fullOnly \/ PartialVolume(size) = 0
  <2>1. t # runner /\ lots[t] = size /\ size \in Nat
    BY <1>3, ConfigAssumption DEF PartialCloses, ListedLots, TypeOK
  <2>2. size - PartialVolume(size) \in Nat
    BY <2>1, HalfIsLess
  <2>3. lots' = [lots EXCEPT ![t] = IF whole THEN 0 ELSE lots[t] - PartialVolume(size)]
    BY <1>3 DEF PartialCloses
  <2>4. lots' \in [Tickets -> Nat]
    BY <2>1, <2>2, <2>3 DEF TypeOK
  <2>5. fullOnly' \in BOOLEAN /\ splits' \in BOOLEAN /\ wasted' \in BOOLEAN
    BY <1>3 DEF PartialCloses, TypeOK
  <2>6. taken' \in [Tickets -> Nat]
    BY <1>3 DEF PartialCloses, TypeOK
  <2>7. runner' = t /\ UNCHANGED <<market, stop, doc, pc, todo, view, mgmt, fails, crashes>>
    BY <1>3 DEF PartialCloses
  <2>8. runnerStop' \in 0 .. Top
    BY <1>3, LockIsFree DEF PartialCloses
  <2> QED
    BY <2>4, <2>5, <2>6, <2>7, <2>8 DEF TypeOK
<1>4. CASE PartialLocks(t)
  <2>1. stop' \in [Tickets -> Stops] /\ fails' \in 0 .. MaxFails
    BY <1>4, ConfigAssumption DEF PartialLocks, Stops, TypeOK
  <2>2. mgmt' \in [Tickets -> Row]
    <3>1. mgmt[t] \in Row
      BY DEF TypeOK
    <3>2. [mgmt[t] EXCEPT !.partial = TRUE, !.be = TRUE] \in Row
      BY <3>1 DEF Row
    <3>3. mgmt' = [mgmt EXCEPT ![t] = [mgmt[t] EXCEPT !.partial = TRUE, !.be = TRUE]]
      BY <1>4 DEF PartialLocks, TypeOK
    <3> QED
      BY <3>2, <3>3 DEF TypeOK
  <2>3. runnerStop' \in 0 .. Top
    BY <1>4, ConfigAssumption DEF PartialLocks
  <2> QED
    BY <1>4, <2>1, <2>2, <2>3 DEF PartialLocks, TypeOK
<1> QED
  BY <1>1, <1>2, <1>3, <1>4

\* Every step keeps the types.
LEMMA StepTyped ==
  ASSUME TypeOK, ListedLots, [Next]_vars
  PROVE  TypeOK'
<1> USE DEF market, book, phase, pass, history
<1>1. CASE LoopBegins
  <2>1. fullOnly' \in BOOLEAN
    BY <1>1 DEF LoopBegins
  <2> QED
    BY <1>1, <2>1, FetchesTyped DEF LoopBegins, TypeOK
<1>2. CASE GuardBegins
  BY <1>2, FetchesTyped DEF GuardBegins, TypeOK
<1>3. CASE PartialEnds
  <2>1. /\ view' \in [Tickets -> [stop : Stops, lots : Nat]] /\ todo' \subseteq Tickets
        /\ fails' \in 0 .. MaxFails
    <3>1. CASE splits
      BY <1>3, <3>1, FetchesTyped DEF PartialEnds
    <3>2. CASE ~splits
      BY <1>3, <3>2 DEF PartialEnds, TypeOK
    <3> QED
      BY <3>1, <3>2
  <2> QED
    BY <1>3, <2>1 DEF PartialEnds, TypeOK
<1>4. CASE ManageEnds
  BY <1>4, NewTyped DEF ManageEnds, TypeOK
<1>5. CASE \E t \in Tickets : PartialSkips(t) \/ PartialFails(t) \/ PartialCloses(t)
                              \/ PartialLocks(t)
  BY <1>5, PartialTyped
<1>6. CASE \E t \in Tickets : ManageKeeps(t) \/ ManageMoves(t) \/ ManageFails(t)
                              \/ TimeStops(t) \/ SignalReverses(t)
  BY <1>6, ManageTyped
<1>7. CASE Crash
  <2>1. fullOnly' \in BOOLEAN /\ splits' \in BOOLEAN /\ crashes' \in 0 .. MaxCrashes
    <3>1. fullOnly' = FALSE /\ splits' = FALSE
      BY <1>7 DEF Crash
    <3>2. crashes' \in 0 .. MaxCrashes
      BY <1>7, ConfigAssumption DEF Crash, TypeOK
    <3> QED
      BY <3>1, <3>2
  <2>2. UNCHANGED <<market, book, doc, history, fails>> /\ mgmt' = doc
    BY <1>7 DEF Crash
  <2>3. /\ pc' = "idle" /\ todo' = {} /\ runner' = None /\ view' = NoList
        /\ runnerStop' \in 0 .. Top
    BY <1>7, ConfigAssumption DEF Crash
  <2> QED
    BY <2>1, <2>2, <2>3, NewTyped DEF TypeOK
<1>8. CASE \E t \in Tickets : PriceMoves(t) \/ GrowsOld(t)
  <2>1. CASE \E t \in Tickets : PriceMoves(t)
    <3>1. price' \in [Tickets -> Price] /\ lots' \in [Tickets -> Nat]
      BY <2>1 DEF PriceMoves, TypeOK
    <3> QED
      BY <2>1, <3>1 DEF PriceMoves, TypeOK
  <2>2. CASE \E t \in Tickets : GrowsOld(t)
    <3>1. young' \in [Tickets -> BOOLEAN]
      BY <2>2 DEF GrowsOld, TypeOK
    <3> QED
      BY <2>2, <3>1 DEF GrowsOld, TypeOK
  <2> QED
    BY <1>8, <2>1, <2>2
<1>9. CASE UNCHANGED vars
  BY <1>9 DEF vars, TypeOK
<1> QED
  BY <1>1, <1>2, <1>3, <1>4, <1>5, <1>6, <1>7, <1>8, <1>9 DEF Next, PassStep

\* Every step keeps the lots of the list those of the broker.
LEMMA StepListed ==
  ASSUME TypeOK, ListedLots, [Next]_vars
  PROVE  ListedLots'
<1> USE DEF market, book, phase, pass, history, ListedLots
<1>1. CASE LoopBegins
  BY <1>1, FetchesTyped DEF LoopBegins
<1>2. CASE GuardBegins \/ PartialEnds \/ ManageEnds \/ Crash
  BY <1>2 DEF GuardBegins, PartialEnds, ManageEnds, Crash
<1>3. ASSUME NEW t \in Tickets, PartialSkips(t) \/ PartialFails(t)
      PROVE  ListedLots'
  BY <1>3 DEF PartialSkips, PartialFails
<1>4. ASSUME NEW t \in Tickets, PartialCloses(t)
      PROVE  ListedLots'
  BY <1>4, ConfigAssumption DEF PartialCloses, TypeOK
<1>5. ASSUME NEW t \in Tickets, PartialLocks(t)
      PROVE  ListedLots'
  BY <1>5 DEF PartialLocks
<1>6. ASSUME NEW t \in Tickets, ManageStep(t)
      PROVE  ListedLots'
  BY <1>6 DEF ManageStep
<1>7. ASSUME NEW t \in Tickets, PriceMoves(t) \/ GrowsOld(t)
      PROVE  ListedLots'
  BY <1>7 DEF PriceMoves, GrowsOld, TypeOK
<1>8. CASE UNCHANGED vars
  BY <1>8 DEF vars
<1> QED
  BY <1>1, <1>2, <1>3, <1>4, <1>5, <1>6, <1>7, <1>8
     DEF Next, PassStep, ManageKeeps, ManageMoves, ManageFails, TimeStops, SignalReverses

LEMMA InitTyped == Init => TypeOK /\ ListedLots
<1> SUFFICES ASSUME Init PROVE TypeOK /\ ListedLots
  OBVIOUS
<1>1. /\ price \in [Tickets -> Price] /\ stop \in [Tickets -> Stops]
      /\ lots \in [Tickets -> Nat]
  <2>1. 0 \in Price /\ -Risk \in Stops /\ OpenLots \subseteq Nat
    BY ConfigAssumption DEF Price, Stops
  <2>2. lots \in [Tickets -> Nat]
    BY <2>1 DEF Init
  <2> QED
    BY <2>1, <2>2 DEF Init
<1>2. doc \in [Tickets -> Row] /\ mgmt \in [Tickets -> Row]
  BY NewTyped DEF Init
<1>3. young \in [Tickets -> BOOLEAN] /\ taken \in [Tickets -> Nat]
  BY DEF Init
<1>4. fullOnly \in BOOLEAN /\ splits \in BOOLEAN /\ wasted \in BOOLEAN
  BY DEF Init
<1>5. ListedLots
  BY DEF Init, ListedLots
<1> QED
  BY <1>1, <1>2, <1>3, <1>4, <1>5, NewTyped, ConfigAssumption DEF Init, TypeOK

\* The position manager keeps its types for any lots, distances and failures: no
\* volume falls below zero and no stop is sent beyond the prices there are.
THEOREM TypeCorrect == Spec => []TypeOK
<1>1. Spec => [](TypeOK /\ ListedLots)
  BY InitTyped, StepTyped, StepListed, PTL DEF Spec
<1> QED
  BY <1>1, PTL

-----------------------------------------------------------------------------
(* A ticket waits for its stop only within the partial phase.              *)

RunnerBusy ==
  runner # None => pc = "partial" /\ runner \in todo /\ ~mgmt[runner].partial

\* Between two phases, and before a pass, no ticket waits for its stop.
LEMMA StepBusy ==
  ASSUME TypeOK, RunnerBusy, [Next]_vars
  PROVE  RunnerBusy'
<1> USE DEF market, book, phase, pass, history, RunnerBusy
<1>1. CASE LoopBegins \/ GuardBegins \/ PartialEnds \/ ManageEnds \/ Crash
  BY <1>1 DEF LoopBegins, GuardBegins, PartialEnds, ManageEnds, Crash
<1>2. ASSUME NEW t \in Tickets,
             PartialSkips(t) \/ PartialFails(t) \/ PartialCloses(t) \/ PartialLocks(t)
      PROVE  RunnerBusy'
  BY <1>2 DEF PartialSkips, PartialFails, PartialCloses, PartialLocks
<1>3. ASSUME NEW t \in Tickets, ManageStep(t)
      PROVE  RunnerBusy'
  BY <1>3 DEF ManageStep
<1>4. ASSUME NEW t \in Tickets, PriceMoves(t) \/ GrowsOld(t)
      PROVE  RunnerBusy'
  BY <1>4 DEF PriceMoves, GrowsOld
<1>5. CASE UNCHANGED vars
  BY <1>5 DEF vars
<1> QED
  BY <1>1, <1>2, <1>3, <1>4, <1>5
     DEF Next, PassStep, ManageKeeps, ManageMoves, ManageFails, TimeStops, SignalReverses

-----------------------------------------------------------------------------
(* The stops. manage_mt5_positions compares with the list of the pass, the *)
(* broker's stop may be another one by then. What makes the comparison     *)
(* good is that the list is taken again whenever the partial phase has     *)
(* closed a part; a close of the whole, which does not take it again,      *)
(* leaves no position whose stop could be set.                             *)

ListedStops ==
  /\ pc = "partial" /\ ~splits =>
       /\ \A t \in Tickets : view[t].stop = stop[t]
       /\ runner # None => lots[runner] = 0
  /\ pc = "manage" => \A t \in todo : view[t].stop >= stop[t]

\* Every step keeps the list's stops at least the broker's where it will be used.
LEMMA StepStops ==
  ASSUME TypeOK, RunnerBusy, ListedStops, [Next]_vars
  PROVE  ListedStops'
<1> USE DEF market, book, phase, pass, history, ListedStops
<1>1. \A t \in Tickets : stop[t] \in Int
  BY ConfigAssumption DEF TypeOK, Stops
<1>2. CASE LoopBegins
  <2>1. \A t \in Tickets : view'[t].stop = stop[t]
    BY <1>2, FetchesTyped DEF LoopBegins
  <2>2. pc' = "partial" /\ splits' = FALSE /\ stop' = stop /\ lots' = lots
        /\ runner' = runner
    BY <1>2 DEF LoopBegins
  <2>3. runner = None
    BY <1>2 DEF LoopBegins, RunnerBusy
  <2> QED
    BY <2>1, <2>2, <2>3
<1>3. CASE GuardBegins
  BY <1>1, <1>3, FetchesTyped DEF GuardBegins
<1>4. CASE PartialEnds
  <2>1. CASE splits
    BY <1>1, <1>4, <2>1, FetchesTyped DEF PartialEnds
  <2>2. CASE ~splits
    BY <1>1, <1>4, <2>2 DEF PartialEnds
  <2> QED
    BY <2>1, <2>2
<1>5. CASE ManageEnds \/ Crash
  BY <1>5 DEF ManageEnds, Crash
<1>6. ASSUME NEW t \in Tickets, PartialSkips(t) \/ PartialFails(t)
      PROVE  ListedStops'
  BY <1>6 DEF PartialSkips, PartialFails
<1>7. ASSUME NEW t \in Tickets, PartialCloses(t)
      PROVE  ListedStops'
  <2> DEFINE whole == fullOnly \/ PartialVolume(view[t].lots) = 0
  <2>1. /\ pc = "partial" /\ runner' = t /\ splits' = (splits \/ ~whole)
        /\ UNCHANGED <<stop, pc, view>>
    BY <1>7 DEF PartialCloses
  <2>2. whole => lots'[t] = 0
    BY <1>7 DEF PartialCloses, TypeOK
  <2> QED
    BY <2>1, <2>2
<1>8. ASSUME NEW t \in Tickets, PartialLocks(t)
      PROVE  ListedStops'
  <2>1. /\ runner = t /\ runner' = None /\ UNCHANGED <<pc, view, splits, lots>>
        /\ todo' = todo \ {t}
    BY <1>8 DEF PartialLocks
  <2>2. pc = "partial"
    BY <2>1, ConfigAssumption DEF RunnerBusy
  <2>3. ~splits => ~(lots[t] > 0)
    BY <2>1, <2>2, ConfigAssumption
  <2>4. ~splits => stop' = stop
    BY <1>8, <2>3 DEF PartialLocks
  <2> QED
    BY <2>1, <2>2, <2>4
<1>9. ASSUME NEW t \in Tickets, ManageMoves(t)
      PROVE  ListedStops'
  <2>1. /\ pc = "manage" /\ UNCHANGED <<pc, view>> /\ todo' = todo \ {t}
        /\ \A u \in Tickets \ {t} : stop'[u] = stop[u]
    BY <1>9 DEF ManageMoves, ManageStep, TypeOK
  <2> QED
    BY <2>1 DEF TypeOK
<1>10. ASSUME NEW t \in Tickets,
              ManageKeeps(t) \/ ManageFails(t) \/ TimeStops(t) \/ SignalReverses(t)
       PROVE  ListedStops'
  BY <1>10 DEF ManageKeeps, ManageFails, TimeStops, SignalReverses, ManageStep
<1>11. ASSUME NEW t \in Tickets, PriceMoves(t) \/ GrowsOld(t)
       PROVE  ListedStops'
  BY <1>11 DEF PriceMoves, GrowsOld, TypeOK
<1>12. CASE UNCHANGED vars
  BY <1>12 DEF vars
<1> QED
  BY <1>2, <1>3, <1>4, <1>5, <1>6, <1>7, <1>8, <1>9, <1>10, <1>11, <1>12 DEF Next, PassStep

-----------------------------------------------------------------------------
(* The partial close. partial_tp_done is in the rows in memory, in the file,  *)
(* or about to be set; each phase reads the file only after the other has  *)
(* written it. Only a crash between the close and the file loses it.       *)

Remembered ==
  crashes = 0 => \A t \in Tickets :
    /\ taken[t] <= 1
    /\ taken[t] > 0 => \/ pc = "idle" /\ doc[t].partial
                       \/ pc # "idle" /\ (mgmt[t].partial \/ runner = t)

\* A step of the stops phase leaves the memory of the partial close in every row.
LEMMA ManageRemembers ==
  ASSUME TypeOK, NEW t \in Tickets,
         \/ ManageKeeps(t) \/ ManageMoves(t) \/ ManageFails(t)
         \/ TimeStops(t) \/ SignalReverses(t)
  PROVE  \A u \in Tickets : mgmt'[u].partial = mgmt[u].partial
<1>1. CASE ManageKeeps(t) \/ SignalReverses(t)
  BY <1>1, ComputedKept DEF ManageKeeps, SignalReverses, TypeOK
<1>2. CASE ManageMoves(t) \/ ManageFails(t)
  <2>1. PICK m \in Computed(t) : \E f : mgmt' = [mgmt EXCEPT ![t] = [m.row EXCEPT !.failed = f]]
    BY <1>2 DEF ManageMoves, ManageFails
  <2>2. PICK f : mgmt' = [mgmt EXCEPT ![t] = [m.row EXCEPT !.failed = f]]
    BY <2>1
  <2>3. m.row \in Row /\ m.row.partial = mgmt[t].partial
    BY ComputedKept
  <2>4. [m.row EXCEPT !.failed = f].partial = mgmt[t].partial
    BY <2>3 DEF Row
  <2> QED
    BY <2>2, <2>4 DEF TypeOK
<1>3. CASE TimeStops(t)
  BY <1>3 DEF TimeStops
<1> QED
  BY <1>1, <1>2, <1>3

\* Every step keeps a close at tp1 remembered, and its number at one.
LEMMA StepRemembers ==
  ASSUME TypeOK, RunnerBusy, Remembered, [Next]_vars
  PROVE  Remembered'
<1> USE DEF market, book, phase, pass, history, Remembered
<1>1. CASE LoopBegins \/ GuardBegins
  BY <1>1 DEF LoopBegins, GuardBegins
<1>2. CASE PartialEnds \/ ManageEnds
  <2>1. /\ doc' = mgmt /\ runner = None /\ pc # "idle"
        /\ UNCHANGED <<mgmt, runner, taken, crashes>>
    BY <1>2 DEF PartialEnds, ManageEnds, RunnerBusy
  <2> QED
    BY <2>1, ConfigAssumption
<1>3. CASE Crash
  <2>1. crashes' # 0
    BY <1>3, ConfigAssumption DEF Crash, TypeOK
  <2> QED
    BY <2>1
<1>4. ASSUME NEW t \in Tickets, PartialSkips(t) \/ PartialFails(t)
      PROVE  Remembered'
  BY <1>4 DEF PartialSkips, PartialFails
<1>5. ASSUME NEW t \in Tickets, PartialCloses(t)
      PROVE  Remembered'
  <2>1. /\ pc = "partial" /\ runner = None /\ ~mgmt[t].partial /\ runner' = t
        /\ taken' = [taken EXCEPT ![t] = @ + 1]
        /\ UNCHANGED <<pc, mgmt, crashes>>
    BY <1>5 DEF PartialCloses
  <2>2. crashes = 0 => taken[t] = 0
    BY <2>1, ConfigAssumption DEF TypeOK
  <2> QED
    BY <2>1, <2>2, ConfigAssumption DEF TypeOK
<1>6. ASSUME NEW t \in Tickets, PartialLocks(t)
      PROVE  Remembered'
  <2>1. /\ runner = t /\ UNCHANGED <<taken, pc, crashes, doc>>
        /\ mgmt' = [mgmt EXCEPT ![t] = [mgmt[t] EXCEPT !.partial = TRUE, !.be = TRUE]]
    BY <1>6 DEF PartialLocks, TypeOK
  <2>2. [mgmt[t] EXCEPT !.partial = TRUE, !.be = TRUE].partial = TRUE
    BY DEF TypeOK, Row
  <2>3. /\ mgmt'[t].partial
        /\ \A u \in Tickets \ {t} : mgmt'[u] = mgmt[u]
    BY <2>1, <2>2 DEF TypeOK
  <2>4. pc = "partial"
    BY <2>1, ConfigAssumption DEF RunnerBusy
  <2> QED
    BY <2>1, <2>3, <2>4
<1>7. ASSUME NEW t \in Tickets,
             \/ ManageKeeps(t) \/ ManageMoves(t) \/ ManageFails(t)
             \/ TimeStops(t) \/ SignalReverses(t)
      PROVE  Remembered'
  <2>1. pc = "manage" /\ UNCHANGED <<pc, runner, taken, crashes>>
    BY <1>7 DEF ManageKeeps, ManageMoves, ManageFails, TimeStops, SignalReverses, ManageStep
  <2> QED
    BY <1>7, <2>1, ManageRemembers
<1>8. ASSUME NEW t \in Tickets, PriceMoves(t) \/ GrowsOld(t)
      PROVE  Remembered'
  BY <1>8 DEF PriceMoves, GrowsOld
<1>9. CASE UNCHANGED vars
  BY <1>9 DEF vars
<1> QED
  BY <1>1, <1>2, <1>3, <1>4, <1>5, <1>6, <1>7, <1>8, <1>9 DEF Next, PassStep

-----------------------------------------------------------------------------

StopsInv == TypeOK /\ ListedLots /\ RunnerBusy /\ ListedStops /\ Remembered

LEMMA StopsCorrect == Spec => []StopsInv
<1>1. Init => StopsInv
  BY InitTyped DEF Init, RunnerBusy, ListedStops, Remembered, StopsInv
<1>2. StopsInv /\ [Next]_vars => StopsInv'
  BY StepTyped, StepListed, StepBusy, StepStops, StepRemembers DEF StopsInv
<1> QED
  BY <1>1, <1>2, PTL DEF Spec

\* Between crashes a ticket is closed at tp1 at most once, whatever is refused or
\* closed from outside in between and whichever pass follows which.
THEOREM ClosedAtTargetOnce == Spec => []PartialOnce
<1>1. StopsInv => PartialOnce
  BY DEF StopsInv, Remembered, PartialOnce
<1> QED
  BY <1>1, StopsCorrect, PTL

\* Only two actions send a stop; the one of the stops phase sends a better one
\* than the broker's.
LEMMA StopsMove ==
  ASSUME StopsInv, [Next]_vars, NEW t \in Tickets
  PROVE  stop'[t] >= stop[t] \/ (pc = "partial" /\ stop'[t] = runnerStop)
<1> USE DEF market, book, phase, pass, history
<1>1. stop[t] \in Int /\ TypeOK
  BY ConfigAssumption DEF StopsInv, TypeOK, Stops
<1>2. ASSUME NEW u \in Tickets, ManageMoves(u)
      PROVE  stop'[t] >= stop[t]
  <2>1. PICK m \in Computed(u) :
          Moves(m, u) /\ stop' = [stop EXCEPT ![u] = Clamped(m.stop, u)]
    BY <1>2 DEF ManageMoves
  <2>2. view[u].stop >= stop[u] /\ view[u].stop \in Int /\ stop[u] \in Int
    BY <1>2, ConfigAssumption
       DEF StopsInv, ListedStops, ManageMoves, ManageStep, TypeOK, Stops
  <2>3. Clamped(m.stop, u) \in Int /\ Clamped(m.stop, u) > view[u].stop
    BY <1>1, <2>1, MovesBetween, ConfigAssumption DEF Stops
  <2>4. Clamped(m.stop, u) >= stop[u]
    BY <2>2, <2>3
  <2> QED
    BY <1>1, <2>1, <2>4 DEF TypeOK
<1>3. ASSUME NEW u \in Tickets, PartialLocks(u)
      PROVE  stop'[t] >= stop[t] \/ (pc = "partial" /\ stop'[t] = runnerStop)
  <2>1. pc = "partial"
    BY <1>3, ConfigAssumption DEF PartialLocks, StopsInv, RunnerBusy
  <2> QED
    BY <1>1, <1>3, <2>1 DEF PartialLocks, TypeOK
<1>4. CASE stop' = stop
  BY <1>1, <1>4
<1> QED
  BY <1>2, <1>3, <1>4
     DEF Next, PassStep, vars, LoopBegins, GuardBegins, PartialEnds, ManageEnds,
         PartialSkips, PartialFails, PartialCloses, ManageKeeps, ManageFails, TimeStops,
         SignalReverses, Crash, PriceMoves, GrowsOld

\* The stops phase never loosens a stop at the broker, though it compares with a
\* list that may be older: between the list and its use only the phase itself sets
\* a stop (position_manager_loop lists again after a partial close).
THEOREM RatchetHolds == Spec => ManagedRatchet
<1>1. StopsInv /\ [Next]_vars
        => (pc = "manage" => \A t \in Tickets : stop'[t] >= stop[t])
  BY StopsMove
<1> QED
  BY <1>1, StopsCorrect, PTL DEF Spec, ManagedRatchet

\* A stop at entry or better stays there: the stops phase only tightens, the lock
\* after a partial close, clamped to the market at tp1, lies at entry or better itself. No refused request and no
\* crash in between changes that.
THEOREM FreeHolds == Spec => FreeStaysFree
<1>1. StopsInv /\ [Next]_vars
        => \A t \in Tickets : stop[t] >= 0 => stop'[t] >= 0
  <2> SUFFICES ASSUME StopsInv, [Next]_vars, NEW t \in Tickets, stop[t] >= 0
               PROVE  stop'[t] >= 0
    OBVIOUS
  <2>1. stop[t] \in Int /\ stop'[t] \in Int
    BY StepTyped, ConfigAssumption DEF StopsInv, TypeOK, Stops
  <2> QED
    BY <2>1, StopsMove, ConfigAssumption DEF StopsInv, TypeOK
<1> QED
  BY <1>1, StopsCorrect, PTL DEF Spec, FreeStaysFree
=============================================================================
