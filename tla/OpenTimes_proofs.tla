-------------------------- MODULE OpenTimes_proofs --------------------------
(***************************************************************************)
(* Theorems about the recorded open times, for any number of positions.    *)
(***************************************************************************)
EXTENDS OpenTimes, TLAPS

USE DEF Threads, None, Goto, Connects

-----------------------------------------------------------------------------
(* Types. A thread has a ticket in hand from its order to its record.      *)

InHand == \A p \in Threads : pc[p] \in {"load", "store"} <=> mine[p] # 0

Typed == TypeOK /\ InHand

LEMMA EmptyHanded ==
  ASSUME Typed, NEW p \in Threads, NEW l \in PCs \ {"load", "store"},
         pc[p] \notin {"load", "store"}, pc' = [pc EXCEPT ![p] = l], mine' = mine
  PROVE  InHand' /\ pc' \in [Threads -> PCs] /\ mine'[p] = 0
<1>1. pc' \in [Threads -> PCs]
  BY DEF Typed, TypeOK
<1>2. \A q \in Threads : pc'[q] \in {"load", "store"} <=> pc[q] \in {"load", "store"}
  BY DEF Typed, TypeOK
<1>3. mine'[p] = 0
  BY DEF Typed, InHand
<1> QED BY <1>1, <1>2, <1>3 DEF Typed, InHand

LEMMA FetchTypes ==
  ASSUME TypeOK, NEW p \in Threads, Fetches(p)
  PROVE  view' \in [Threads -> SUBSET (1..issued)] /\ glitches' \in 0..MaxGlitches
<1>1. PICK v \in {open, {}} : view' = [view EXCEPT ![p] = v]
  BY DEF Fetches
<1>2. v \in SUBSET (1..issued)
  BY DEF TypeOK
<1>3. view' \in [Threads -> SUBSET (1..issued)]
  BY <1>1, <1>2 DEF TypeOK
<1>4. glitches' \in 0..MaxGlitches
  BY ConfigAssumption DEF Fetches, TypeOK
<1> QED BY <1>3, <1>4

LEMMA TypeStep == Typed /\ [Next]_vars => Typed'
<1> SUFFICES ASSUME Typed, [Next]_vars PROVE Typed'
  OBVIOUS
<1>l. {"idle", "orders", "guard", "guarding", "pruneLoad", "pruneStore", "manage",
       "managing", "connect", "reviewing"} \subseteq PCs \ {"load", "store"}
  BY DEF PCs
<1>0. issued \in Nat /\ crashes \in Nat /\ glitches \in Nat
  BY ConfigAssumption DEF Typed, TypeOK
<1>1. CASE UNCHANGED vars
  BY <1>1 DEF vars, book, docs, locals, counts, Typed, TypeOK, InHand
<1>2. ASSUME NEW p \in Threads, OrdersConnect(p) PROVE Typed'
  <2>1. InHand' /\ pc' \in [Threads -> PCs]
    BY <1>l, <1>2, EmptyHanded DEF OrdersConnect, locals
  <2> QED BY <1>2, <2>1 DEF OrdersConnect, book, docs, locals, counts, Typed, TypeOK
<1>3. ASSUME NEW p \in Threads, ManageConnects(p) PROVE Typed'
  <2>1. pc[p] \in {"manage", "idle"} /\ pc' = [pc EXCEPT ![p] = "managing"]
    BY <1>3 DEF ManageConnects
  <2>2. mine' = mine /\ pc[p] \notin {"load", "store"} /\ "managing" \in PCs \ {"load", "store"}
    BY <1>l, <1>3, <2>1 DEF ManageConnects
  <2>5. InHand' /\ pc' \in [Threads -> PCs]
    BY <2>1, <2>2, EmptyHanded
  <2>3. view' \in [Threads -> SUBSET (1..issued)] /\ glitches' \in 0..MaxGlitches
    BY <1>3, FetchTypes DEF ManageConnects, Typed
  <2>4. session' \in Threads
    BY <1>3 DEF ManageConnects
  <2> QED BY <1>3, <2>3, <2>4, <2>5 DEF ManageConnects, book, docs, Typed, TypeOK
<1>4. ASSUME NEW p \in Threads, PlaceOrder(p) PROVE Typed'
  <2> USE DEF Typed, TypeOK
  <2>1. issued' = issued + 1 /\ issued' \in 0..MaxTickets /\ issued + 1 # 0
    BY <1>0, <1>4, ConfigAssumption DEF PlaceOrder
  <2>2. 1..issued \subseteq 1..issued' /\ 0..issued \subseteq 0..issued'
          /\ issued + 1 \in 1..issued' /\ issued + 1 \in 0..issued'
    BY <1>0, <2>1
  <2>3. open' \subseteq 1..issued' /\ held' \subseteq 1..issued'
          /\ times' \subseteq 1..issued' /\ doc' \subseteq 1..issued'
          /\ early' \subseteq 1..issued'
    BY <1>4, <2>1, <2>2 DEF PlaceOrder, docs
  <2>4. mine' \in [Threads -> 0..issued'] /\ pc' \in [Threads -> PCs]
    BY <1>4, <2>1, <2>2 DEF PlaceOrder, PCs
  <2>5. loaded' \in [Threads -> SUBSET (1..issued')]
          /\ view' \in [Threads -> SUBSET (1..issued')]
    BY <1>4, <2>1, <2>2 DEF PlaceOrder
  <2>6. InHand'
    BY <1>4, <2>1 DEF PlaceOrder, InHand
  <2> QED BY <1>4, <2>1, <2>3, <2>4, <2>5, <2>6 DEF PlaceOrder, counts
<1>5. ASSUME NEW p \in Threads, LoadsTimes(p) PROVE Typed'
  <2> USE DEF Typed, TypeOK
  <2>1. pc' \in [Threads -> PCs] /\ loaded' \in [Threads -> SUBSET (1..issued)]
    BY <1>5 DEF LoadsTimes, PCs
  <2>2. InHand'
    BY <1>5 DEF LoadsTimes, InHand
  <2> QED BY <1>5, <2>1, <2>2 DEF LoadsTimes, book, docs, counts
<1>6. ASSUME NEW p \in Threads, RecordsOpen(p) PROVE Typed'
  <2> USE DEF Typed, TypeOK
  <2>1. mine[p] \in 1..issued /\ 0 \in 0..issued
    BY <1>0, <1>6 DEF RecordsOpen, InHand
  <2>2. times' \subseteq 1..issued /\ pc' \in [Threads -> PCs]
    BY <1>6, <2>1 DEF RecordsOpen, PCs
  <2>3. mine' \in [Threads -> 0..issued]
    BY <1>6, <2>1 DEF RecordsOpen
  <2>4. InHand'
    BY <1>6 DEF RecordsOpen, InHand
  <2> QED BY <1>6, <2>2, <2>3, <2>4 DEF RecordsOpen, book, counts
<1>7. ASSUME NEW p \in Threads, OrdersEnd(p) PROVE Typed'
  <2>1. InHand' /\ pc' \in [Threads -> PCs]
    BY <1>l, <1>7, EmptyHanded DEF OrdersEnd, locals
  <2> QED BY <1>7, <2>1 DEF OrdersEnd, book, locals, counts, Typed, TypeOK
<1>8. ASSUME NEW p \in Threads, ManagerCloses(p) PROVE Typed'
  BY <1>8 DEF ManagerCloses, Closes, docs, locals, counts, Typed, TypeOK, InHand
<1>9. ASSUME NEW p \in Threads, ManageEnds(p) PROVE Typed'
  <2>1. InHand' /\ pc' \in [Threads -> PCs]
    BY <1>l, <1>9, EmptyHanded DEF ManageEnds, locals
  <2> QED BY <1>9, <2>1 DEF ManageEnds, book, locals, counts, Typed, TypeOK
<1>10. ASSUME NEW p \in Threads, LoopRaises(p) PROVE Typed'
  <2> DEFINE l == IF p = "pipeline" THEN NextLoop(pc[p]) ELSE "idle"
  <2>1. l \in {"guard", "manage", "idle"}
    BY DEF NextLoop
  <2>2. pc' = [pc EXCEPT ![p] = l] /\ mine' = [mine EXCEPT ![p] = 0]
    BY <1>10 DEF LoopRaises
  <2> HIDE DEF l
  <2>3. pc' \in [Threads -> PCs] /\ mine' \in [Threads -> 0..issued]
    BY <1>0, <1>l, <2>1, <2>2 DEF Typed, TypeOK
  <2>4. InHand'
    BY <2>1, <2>2 DEF InHand, Typed, TypeOK
  <2>5. crashes' \in 0..MaxCrashes /\ session' \in Threads \cup {None}
    BY <1>0, <1>10, ConfigAssumption DEF LoopRaises, Typed, TypeOK
  <2> QED BY <1>10, <2>3, <2>4, <2>5 DEF LoopRaises, book, docs, Typed, TypeOK
<1>11. CASE OrdersSkipped \/ GuardSkips \/ GuardDisconnects \/ PruneLoads \/ PruneStores
  <2>1. InHand' /\ pc' \in [Threads -> PCs]
    BY <1>l, <1>11, EmptyHanded
    DEF OrdersSkipped, GuardSkips, GuardDisconnects, PruneLoads, PruneStores, locals
  <2> QED
    BY <1>11, <2>1
    DEF OrdersSkipped, GuardSkips, GuardDisconnects, PruneLoads, PruneStores,
        book, docs, locals, counts, Typed, TypeOK
<1>12. CASE GuardConnects
  <2>1. InHand' /\ pc' \in [Threads -> PCs]
    BY <1>l, <1>12, EmptyHanded DEF GuardConnects
  <2>2. view' \in [Threads -> SUBSET (1..issued)] /\ glitches' \in 0..MaxGlitches
    BY <1>12, FetchTypes DEF GuardConnects, Typed
  <2> QED BY <1>12, <2>1, <2>2 DEF GuardConnects, book, docs, Typed, TypeOK
<1>16. CASE GuardCloses
  <2>1. open' \subseteq 1..issued
    BY <1>16 DEF GuardCloses, Typed, TypeOK
  <2>2. \/ view' = [view EXCEPT !["pipeline"] = open'] /\ glitches' = glitches
        \/ glitches < MaxGlitches /\ glitches' = glitches + 1
             /\ view' = [view EXCEPT !["pipeline"] = {}]
        \/ view' = view /\ glitches' = glitches
    BY <1>16 DEF GuardCloses
  <2>3. view' \in [Threads -> SUBSET (1..issued)]
    BY <2>1, <2>2 DEF Typed, TypeOK
  <2>4. glitches' \in 0..MaxGlitches
    BY <2>2, ConfigAssumption DEF Typed, TypeOK
  <2> QED BY <1>16, <2>1, <2>3, <2>4 DEF GuardCloses, docs, Typed, TypeOK, InHand
<1>13. CASE ReviewerCloses \/ BrokerCloses \/ TimePasses
  BY <1>13
  DEF ReviewerCloses, Closes, BrokerCloses, TimePasses, docs, locals,
      counts, Typed, TypeOK, InHand
<1>14. CASE ReviewReads \/ ReviewConnects \/ ReviewEnds
  <2>1. InHand' /\ pc' \in [Threads -> PCs]
    BY <1>l, <1>14, EmptyHanded DEF ReviewReads, ReviewConnects, ReviewEnds, locals
  <2> QED
    BY <1>14, <2>1
    DEF ReviewReads, ReviewConnects, ReviewEnds, book, docs, locals, counts, Typed, TypeOK
<1>15. CASE Crash
  <2>1. pc' \in [Threads -> PCs] /\ mine' \in [Threads -> 0..issued] /\ InHand'
    BY <1>0, <1>15 DEF Crash, PCs, InHand
  <2> QED BY <1>0, <1>15, <2>1, ConfigAssumption DEF Crash, book, docs, Typed, TypeOK
<1> QED
  BY <1>1, <1>2, <1>3, <1>4, <1>5, <1>6, <1>7, <1>8, <1>9, <1>10,
     <1>11, <1>12, <1>13, <1>14, <1>15, <1>16
  DEF Next, Sessions, Entries, Manager, Guardian, Reviewer

LEMMA TypeInvariant == Spec => []Typed
<1>1. Init => Typed
  <2> SUFFICES ASSUME Init PROVE Typed
    OBVIOUS
  <2>1. 0 \in 0..MaxTickets /\ 0 \in 0..MaxCrashes /\ 0 \in 0..MaxGlitches
    BY ConfigAssumption
  <2> QED BY <2>1 DEF Init, Typed, TypeOK, InHand, PCs
<1> QED BY <1>1, TypeStep, PTL DEF Spec

\* Every variable keeps its type, whatever is on, with any number of failures.
THEOREM TypeCorrect == Spec => []TypeOK
BY TypeInvariant, PTL DEF Typed

-----------------------------------------------------------------------------
(* The session *)

SessionHeld == \A p \in Threads : pc[p] \in SessionPCs => session = p

LEMMA SessionStep == TypeOK /\ SessionHeld /\ [Next]_vars => SessionHeld'
<1> SUFFICES ASSUME TypeOK, SessionHeld, [Next]_vars PROVE SessionHeld'
  OBVIOUS
<1> USE DEF SessionHeld, SessionPCs, TypeOK
<1>1. ASSUME NEW p \in Threads, Sessions(p) PROVE SessionHeld'
  BY <1>1 DEF Sessions, OrdersConnect, ManageConnects
<1>2. ASSUME NEW p \in Threads, Entries(p) PROVE SessionHeld'
  BY <1>2 DEF Entries, PlaceOrder, LoadsTimes, RecordsOpen, OrdersEnd
<1>3. ASSUME NEW p \in Threads, Manager(p) PROVE SessionHeld'
  BY <1>3 DEF Manager, ManagerCloses, ManageEnds
<1>4. ASSUME NEW p \in Threads, LoopRaises(p) PROVE SessionHeld'
  BY <1>4 DEF LoopRaises, NextLoop
<1>5. CASE OrdersSkipped \/ GuardConnects \/ Guardian
  BY <1>5
  DEF OrdersSkipped, GuardConnects, Guardian, GuardSkips, GuardCloses,
      GuardDisconnects, PruneLoads, PruneStores
<1>6. CASE ReviewConnects \/ Reviewer
  BY <1>6 DEF ReviewConnects, Reviewer, ReviewReads, ReviewerCloses, ReviewEnds
<1>7. CASE Crash \/ UNCHANGED <<pc, session>>
  BY <1>7 DEF Crash
<1> QED
  BY <1>1, <1>2, <1>3, <1>4, <1>5, <1>6, <1>7
  DEF Next, vars, BrokerCloses, TimePasses

LEMMA SessionInvariant == Spec => []SessionHeld
<1>1. Init => SessionHeld
  BY DEF Init, SessionHeld, SessionPCs
<1> QED BY <1>1, TypeCorrect, SessionStep, PTL DEF Spec

-----------------------------------------------------------------------------
(* The file *)

\* What is off stays off; the reviewer never writes.
Idle ==
  /\ ~FastLive => pc["fast"] = "idle"
  /\ ~GuardEnabled => pc["pipeline"] \notin {"guarding", "pruneLoad", "pruneStore"}
  /\ pc["reviewer"] \in {"idle", "connect", "reviewing"}
  /\ ~ReviewLive => pc["reviewer"] = "idle"

LEMMA IdleStep == TypeOK /\ Idle /\ [Next]_vars => Idle'
<1> SUFFICES ASSUME TypeOK, Idle, [Next]_vars PROVE Idle'
  OBVIOUS
<1> USE DEF Idle, TypeOK
<1>1. ASSUME NEW p \in Threads, Sessions(p) PROVE Idle'
  BY <1>1 DEF Sessions, OrdersConnect, ManageConnects
<1>2. ASSUME NEW p \in Threads, Entries(p) PROVE Idle'
  BY <1>2 DEF Entries, PlaceOrder, LoadsTimes, RecordsOpen, OrdersEnd
<1>3. ASSUME NEW p \in Threads, Manager(p) PROVE Idle'
  BY <1>3 DEF Manager, ManagerCloses, ManageEnds
<1>4. ASSUME NEW p \in Threads, LoopRaises(p) PROVE Idle'
  BY <1>4 DEF LoopRaises, NextLoop, SessionPCs
<1>5. CASE OrdersSkipped \/ GuardConnects \/ Guardian
  BY <1>5
  DEF OrdersSkipped, GuardConnects, Guardian, GuardSkips, GuardCloses,
      GuardDisconnects, PruneLoads, PruneStores
<1>6. CASE ReviewConnects \/ Reviewer
  BY <1>6 DEF ReviewConnects, Reviewer, ReviewReads, ReviewerCloses, ReviewEnds
<1>7. CASE Crash \/ UNCHANGED pc
  BY <1>7 DEF Crash
<1> QED
  BY <1>1, <1>2, <1>3, <1>4, <1>5, <1>6, <1>7
  DEF Next, vars, BrokerCloses, TimePasses

LEMMA IdleInvariant == Spec => []Idle
<1>1. Init => Idle
  BY DEF Init, Idle
<1> QED BY <1>1, TypeCorrect, IdleStep, PTL DEF Spec

\* Between reading the file and writing it nobody else writes; while Blue
\* Guardian is between its positions and the prune nothing is opened.
Fresh ==
  /\ \A p \in Threads : pc[p] = "store" => loaded[p] = times
  /\ pc["pipeline"] = "pruneStore" => loaded["pipeline"] = times
  /\ pc["pipeline"] \in {"guarding", "pruneLoad", "pruneStore"} => open \subseteq view["pipeline"]

Recorded == \A t \in open : t \in times \/ \E p \in Threads : mine[p] = t

Kept == Fresh /\ Recorded

\* Closing positions, and what the manager and the reviewer do besides,
\* disturbs nothing.
LEMMA KeptShrinks ==
  ASSUME Kept, open' \subseteq open, UNCHANGED <<times, mine, loaded>>,
         view'["pipeline"] = view["pipeline"],
         \A p \in Threads : pc'[p] = "store" => pc[p] = "store",
         pc'["pipeline"] \in {"guarding", "pruneLoad", "pruneStore"}
           => pc'["pipeline"] = pc["pipeline"]
  PROVE  Kept'
<1>1. Recorded'
  BY DEF Kept, Recorded
<1>2. Fresh'
  BY DEF Kept, Fresh
<1> QED BY <1>1, <1>2 DEF Kept

LEMMA KeptStep ==
  ASSUME ~(FastLive /\ GuardEnabled), crashes' = 0, glitches' = 0,
         Typed, SessionHeld, Idle, Kept, [Next]_vars
  PROVE  Kept'
<1> USE DEF Typed, TypeOK, Kept, Fresh, Recorded
<1>1. \A p \in Threads : pc[p] \in {"orders", "load", "store"}
        => /\ p # "reviewer"
           /\ pc["pipeline"] \notin {"guarding", "pruneLoad", "pruneStore"}
  BY DEF Idle
<1>2. \A p, q \in Threads : pc[p] \in {"load", "store"} /\ pc[q] = "store" => p = q
  BY DEF SessionHeld, SessionPCs
<1>3. ASSUME NEW p \in Threads, Sessions(p) PROVE Kept'
  <2>1. /\ pc' = [pc EXCEPT ![p] = pc'[p]] /\ pc'[p] \in {"orders", "managing"}
        /\ UNCHANGED <<open, times, mine>>
        /\ \A q \in Threads \ {p} : loaded'[q] = loaded[q] /\ view'[q] = view[q]
    BY <1>3
    DEF Sessions, OrdersConnect, ManageConnects, Fetches, book, docs, locals
  <2> QED BY <2>1
<1>4. ASSUME NEW p \in Threads, PlaceOrder(p) PROVE Kept'
  <2>1. mine[p] = 0
    BY <1>4 DEF PlaceOrder, InHand
  <2>2. mine' = [mine EXCEPT ![p] = issued + 1] /\ open' = open \cup {issued + 1}
          /\ times' = times
    BY <1>4 DEF PlaceOrder, docs
  <2>3. \A t \in open : t # 0
    OBVIOUS
  <2>4. Recorded'
    BY <2>1, <2>2, <2>3
  <2>5. Fresh'
    BY <1>1, <1>4 DEF PlaceOrder, docs
  <2> QED BY <2>4, <2>5
<1>5. ASSUME NEW p \in Threads, LoadsTimes(p) PROVE Kept'
  BY <1>1, <1>5 DEF LoadsTimes, book, docs
<1>6. ASSUME NEW p \in Threads, RecordsOpen(p) PROVE Kept'
  <2>1. loaded[p] = times /\ times' = times \cup {mine[p]}
    BY <1>6 DEF RecordsOpen
  <2>2. Recorded'
    BY <1>6, <2>1 DEF RecordsOpen, book
  <2>3. \A q \in Threads : pc'[q] # "store"
    BY <1>2, <1>6 DEF RecordsOpen
  <2>4. Fresh'
    BY <1>1, <1>6, <2>3 DEF RecordsOpen, book
  <2> QED BY <2>2, <2>4
<1>7. ASSUME NEW p \in Threads, OrdersEnd(p) PROVE Kept'
  BY <1>7 DEF OrdersEnd, book, locals
<1>8. ASSUME NEW p \in Threads, Manager(p) PROVE Kept'
  <2>1. open' \subseteq open /\ UNCHANGED <<times, mine, loaded, view>>
    BY <1>8 DEF Manager, ManagerCloses, ManageEnds, Closes, book, docs, locals
  <2>2. pc' = pc \/ pc' = [pc EXCEPT ![p] = "idle"]
    BY <1>8 DEF Manager, ManagerCloses, ManageEnds
  <2>3. \A q \in Threads : pc'[q] \in {pc[q], "idle"}
    BY <2>2
  <2> HIDE DEF Kept
  <2> QED BY <2>1, <2>3, KeptShrinks
<1>9. ASSUME NEW p \in Threads, LoopRaises(p) \/ Crash PROVE Kept'
  BY <1>9 DEF LoopRaises, Crash
<1>10. CASE GuardConnects
  <2>1. view' = [view EXCEPT !["pipeline"] = open]
    BY <1>10 DEF GuardConnects, Fetches
  <2> QED BY <1>10, <2>1 DEF GuardConnects, book, docs
<1>11. CASE OrdersSkipped \/ GuardSkips
  <2>1. UNCHANGED <<open, times, mine, loaded, view>>
    BY <1>11 DEF OrdersSkipped, GuardSkips, book, docs, locals
  <2>2. \A q \in Threads : pc'[q] \in {pc[q], "guard", "manage"}
    BY <1>11 DEF OrdersSkipped, GuardSkips
  <2> HIDE DEF Kept
  <2> QED BY <2>1, <2>2, KeptShrinks
<1>17. CASE GuardDisconnects
  <2>1. pc["pipeline"] = "guarding" /\ pc' = [pc EXCEPT !["pipeline"] = "pruneLoad"]
          /\ UNCHANGED <<open, times, mine, loaded, view>>
    BY <1>17 DEF GuardDisconnects, book, docs, locals
  <2> QED BY <2>1
<1>15. CASE PruneLoads
  BY <1>15 DEF PruneLoads, book, docs
<1>16. CASE GuardCloses
  <2>1. PICK t \in open : open' = open \ {t}
    BY <1>16 DEF GuardCloses
  <2>2. view' \in {view, [view EXCEPT !["pipeline"] = open']}
          /\ UNCHANGED <<pc, times, mine, loaded>>
    BY <1>16 DEF GuardCloses, docs
  <2>3. Recorded'
    BY <2>1, <2>2
  <2>4. Fresh'
    BY <2>1, <2>2
  <2> QED BY <2>3, <2>4
<1>12. CASE PruneStores
  <2>1. times' = times \cap view["pipeline"] /\ open \subseteq view["pipeline"]
    BY <1>12 DEF PruneStores
  <2>2. \A p \in Threads : pc[p] # "store"
    BY <1>1, <1>12 DEF PruneStores
  <2>3. Recorded'
    BY <1>12, <2>1 DEF PruneStores, book, locals
  <2>4. Fresh'
    BY <1>12, <2>2 DEF PruneStores, book, locals
  <2> QED BY <2>3, <2>4
<1>13. CASE ReviewConnects \/ Reviewer
  <2>1. open' \subseteq open /\ UNCHANGED <<times, mine, loaded>>
    BY <1>13
    DEF ReviewConnects, Reviewer, ReviewReads, ReviewerCloses, ReviewEnds, Closes,
        book, docs, locals
  <2>2. view'["pipeline"] = view["pipeline"]
    BY <1>13
    DEF ReviewConnects, Reviewer, ReviewReads, ReviewerCloses, ReviewEnds, locals
  <2>3. \E l \in {"idle", "connect", "reviewing"} :
          pc' = pc \/ pc' = [pc EXCEPT !["reviewer"] = l]
    BY <1>13 DEF ReviewConnects, Reviewer, ReviewReads, ReviewerCloses, ReviewEnds
  <2>4. \A q \in Threads : pc'[q] \in {pc[q], "idle", "connect", "reviewing"}
    BY <2>3
  <2> HIDE DEF Kept
  <2> QED BY <2>1, <2>2, <2>4, KeptShrinks
<1>14. CASE BrokerCloses \/ TimePasses \/ UNCHANGED vars
  <2>1. open' \subseteq open /\ UNCHANGED <<times, mine, loaded, view, pc>>
    BY <1>14 DEF BrokerCloses, TimePasses, vars, book, docs, locals
  <2> HIDE DEF Kept
  <2> QED BY <2>1, KeptShrinks
<1> QED
  BY <1>3, <1>4, <1>5, <1>6, <1>7, <1>8, <1>9, <1>10, <1>11, <1>12, <1>13, <1>14,
     <1>15, <1>16, <1>17
  DEF Next, Entries, Guardian

LEMMA CountsGrow ==
  ASSUME Typed, [Next]_vars, crashes' + glitches' = 0
  PROVE  crashes' = 0 /\ glitches' = 0 /\ crashes + glitches = 0
<1> USE DEF Typed, TypeOK
<1>1. /\ crashes' = crashes \/ crashes' = crashes + 1
      /\ glitches' = glitches \/ glitches' = glitches + 1
  <2>1. ASSUME NEW p \in Threads,
               \/ Sessions(p) \/ Entries(p) \/ Manager(p) \/ LoopRaises(p)
        PROVE  /\ crashes' = crashes \/ crashes' = crashes + 1
               /\ glitches' = glitches \/ glitches' = glitches + 1
    BY <2>1
    DEF Sessions, OrdersConnect, ManageConnects, Fetches, Entries, PlaceOrder, LoadsTimes,
        RecordsOpen, OrdersEnd, Manager, ManagerCloses, ManageEnds, LoopRaises, counts
  <2>2. CASE OrdersSkipped \/ GuardConnects \/ Guardian
    BY <2>2
    DEF OrdersSkipped, GuardConnects, Fetches, Guardian, GuardSkips, GuardCloses,
        GuardDisconnects, PruneLoads, PruneStores, counts
  <2>3. CASE ReviewConnects \/ Reviewer \/ Crash \/ BrokerCloses \/ TimePasses \/ UNCHANGED vars
    BY <2>3
    DEF ReviewConnects, Reviewer, ReviewReads, ReviewerCloses, ReviewEnds, Crash,
        BrokerCloses, TimePasses, vars, counts
  <2> QED BY <2>1, <2>2, <2>3 DEF Next
<1> QED BY <1>1

\* As long as fast mode and Blue Guardian are not both on, and until a failure
\* comes between an order and its record, the file has the time of every position:
\* the two order paths cannot undo each other's records, since reading and
\* writing them is inside the session, and a prune drops nothing that is open.
THEOREM NoTimeLost ==
  ASSUME ~(FastLive /\ GuardEnabled)
  PROVE  Spec => []TimesKept
<1> DEFINE Inv == crashes + glitches = 0 => Kept
<1>1. Init => Inv
  BY DEF Init, Kept, Fresh, Recorded
<1>2. Typed /\ SessionHeld /\ Idle /\ Inv /\ [Next]_vars => Inv'
  BY KeptStep, CountsGrow
<1>3. Inv => TimesKept
  BY DEF Kept, Recorded, TimesKept
<1> QED
  BY <1>1, <1>2, <1>3, TypeInvariant, SessionInvariant, IdleInvariant, PTL DEF Spec

-----------------------------------------------------------------------------
(* The hold *)

LEMMA HoldStep ==
  ASSUME GuardEnabled \/ ~ReviewLive, Idle, HoldRespected, [Next]_vars
  PROVE  HoldRespected'
<1> USE DEF HoldRespected
<1>1. ASSUME NEW p \in Threads, ManagerCloses(p) PROVE HoldRespected'
  BY <1>1 DEF ManagerCloses, MeasuredHeld, Closes
<1>2. CASE ReviewerCloses
  <2>1. GuardEnabled
    BY <1>2 DEF ReviewerCloses, Idle
  <2> QED BY <1>2, <2>1 DEF ReviewerCloses, Closes, CloseAllowed
<1>3. CASE UNCHANGED early
  BY <1>3
<1> QED
  BY <1>1, <1>2, <1>3
  DEF Next, vars, Sessions, OrdersConnect, ManageConnects, Entries, PlaceOrder,
      LoadsTimes, RecordsOpen, OrdersEnd, Manager, ManageEnds, LoopRaises, Crash,
      OrdersSkipped, GuardConnects, Guardian, GuardSkips, GuardCloses,
      GuardDisconnects, PruneLoads, PruneStores, ReviewConnects, Reviewer,
      ReviewReads, ReviewEnds, BrokerCloses, TimePasses

\* With Blue Guardian, or without the live reviewer, no rule with a minimum
\* hold closes a position too early, also when its open time was lost.
THEOREM HoldHolds ==
  ASSUME GuardEnabled \/ ~ReviewLive
  PROVE  Spec => []HoldRespected
<1>1. Init => HoldRespected
  BY DEF Init, HoldRespected
<1>2. Idle /\ HoldRespected /\ [Next]_vars => HoldRespected'
  BY HoldStep
<1> QED BY <1>1, <1>2, IdleInvariant, PTL DEF Spec
=============================================================================
