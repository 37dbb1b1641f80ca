----------------------- MODULE OrderExecution_proofs -----------------------
(***************************************************************************)
(* Proofs about OrderExecution, for every value of its constants.          *)
(***************************************************************************)
EXTENDS OrderExecution, FiniteSetTheorems, TLAPS

-----------------------------------------------------------------------------
(* Types. TypeOK alone is not inductive: the order record of a signal is   *)
(* typed only because cur holds a signal wherever a signal is processed.   *)

CurKnown ==
  \A t \in Threads : pc[t] \in {"fastGate", "read", "sending"} => cur[t] \in Signals

Typed == TypeOK /\ CurKnown

\* A step of the broker path keeps the types.
LEMMA BrokerTyped ==
  ASSUME Typed, NEW t \in Threads, Broker(t)
  PROVE  Typed'
<1> USE ConfigAssumption DEF Typed, TypeOK, CurKnown, locks, book, docs, locals,
        faults, Goto, ClearLocals, Threads, PCs, Ticket, Position, Record
<1>1. CASE Connect(t)
  BY <1>1 DEF Connect
<1>2. CASE ConnectFails(t)
  BY <1>2 DEF ConnectFails, AfterExecution
<1>3. CASE BatchBegins(t)
  BY <1>3 DEF BatchBegins, ExecutedIds
<1>4. CASE BatchBeginsBlind(t)
  BY <1>4 DEF BatchBeginsBlind, ExecutedIds
<1>5. CASE BatchRefused(t)
  BY <1>5 DEF BatchRefused
<1>6. CASE \E s \in Signals : SkipSignal(t, s)
  BY <1>6 DEF SkipSignal
<1>7. CASE \E s \in Signals : SendOrder(t, s)
  BY <1>7 DEF SendOrder
<1>8. CASE \E s \in Signals : RegimeFlipAborts(t, s)
  BY <1>8 DEF RegimeFlipAborts
<1>9. CASE OrderAccepted(t)
  BY <1>9 DEF OrderAccepted
<1>10. CASE OrderRejected(t)
  BY <1>10 DEF OrderRejected
<1>11. CASE OrderAnswerLost(t)
  BY <1>11 DEF OrderAnswerLost
<1>12. CASE BatchEnds(t)
  BY <1>12 DEF BatchEnds
<1>13. CASE WriteOrders(t)
  BY <1>13 DEF WriteOrders
<1>14. CASE WritePositions(t)
  BY <1>14 DEF WritePositions, ExecutedIds
<1>15. CASE Disconnect(t)
  BY <1>15 DEF Disconnect, AfterExecution
<1> QED
  BY <1>1, <1>2, <1>3, <1>4, <1>5, <1>6, <1>7, <1>8, <1>9, <1>10, <1>11, <1>12, <1>13, <1>14, <1>15 DEF Broker

\* A step of the closing path keeps the types.
LEMMA GuardianTyped ==
  ASSUME Typed, NEW t \in Threads, Guardian(t)
  PROVE  Typed'
<1> USE ConfigAssumption DEF Typed, TypeOK, CurKnown, locks, book, docs, locals,
        faults, Goto, ClearLocals, Threads, PCs, Ticket, Position, Record
<1>1. CASE GuardianSkipped(t)
  BY <1>1 DEF GuardianSkipped, AfterGuardian
<1>2. CASE GuardianConnect(t)
  BY <1>2 DEF GuardianConnect
<1>3. CASE GuardianSent(t)
  BY <1>3 DEF GuardianSent
<1>4. CASE GuardianEnd(t)
  BY <1>4 DEF GuardianEnd, AfterGuardian
<1>5. CASE \E p \in Position : GuardianSend(t, p)
  BY <1>5 DEF GuardianSend
<1> QED
  BY <1>1, <1>2, <1>3, <1>4, <1>5 DEF Guardian

\* A step of the position manager keeps the types.
LEMMA ManageTyped ==
  ASSUME Typed, NEW t \in Threads, Manage(t)
  PROVE  Typed'
<1> USE ConfigAssumption DEF Typed, TypeOK, CurKnown, locks, book, docs, locals,
        faults, Goto, ClearLocals, Threads, PCs, Ticket, Position, Record
<1>1. CASE ManageSkipped(t)
  BY <1>1 DEF ManageSkipped
<1>2. CASE ManageConnect(t)
  BY <1>2 DEF ManageConnect
<1>3. CASE ManageSend(t)
  BY <1>3 DEF ManageSend
<1>4. CASE ManageSent(t)
  BY <1>4 DEF ManageSent
<1>5. CASE ManageEnd(t)
  BY <1>5 DEF ManageEnd
<1> QED
  BY <1>1, <1>2, <1>3, <1>4, <1>5 DEF Manage

\* A step of the pipeline thread keeps the types.
LEMMA PipelineTyped ==
  ASSUME Typed, Pipeline
  PROVE  Typed'
<1> USE ConfigAssumption DEF Typed, TypeOK, CurKnown, locks, book, docs, locals,
        faults, Goto, ClearLocals, Threads, PCs, Ticket, Position, Record
<1>1. CASE Verifying
  <2>1. CASE VerifySkips
    BY <2>1 DEF VerifySkips
  <2>2. CASE VerifyConnects
    BY <2>2 DEF VerifyConnects
  <2>3. CASE VerifySyncs
    <3>1. posDoc' \subseteq Position
      BY <2>3 DEF VerifySyncs
    <3>2. glitches' \in 0..MaxGlitches
      BY <2>3 DEF VerifySyncs
    <3>3. session' = None /\ attached' = FALSE /\ pc' = [pc EXCEPT !["pipeline"] = "verify"]
      BY <2>3 DEF VerifySyncs
    <3>4. UNCHANGED <<trade, book, ordersDoc, fastDone, approved, queued, locals, crashes>>
      BY <2>3 DEF VerifySyncs
    <3> QED BY <3>1, <3>2, <3>3, <3>4
  <2>4. CASE Verify
    BY <2>4 DEF Verify
  <2> QED BY <1>1, <2>1, <2>2, <2>3, <2>4 DEF Verifying
<1>2. CASE GateRefuses
  BY <1>2 DEF GateRefuses
<1>3. CASE ReadDocs
  BY <1>3 DEF ReadDocs
<1>4. CASE DrainIntents
  BY <1>4 DEF DrainIntents
<1>5. CASE DrainTakesLock
  BY <1>5 DEF DrainTakesLock
<1>6. CASE DrainEnds
  BY <1>6 DEF DrainEnds
<1>7. CASE DrainFindsNothing
  BY <1>7 DEF DrainFindsNothing
<1>8. CASE \E p \in Position : ReversalSend(p)
  BY <1>8 DEF ReversalSend
<1>9. CASE ReversalSent
  BY <1>9 DEF ReversalSent
<1>10. CASE ReversalDone
  BY <1>10 DEF ReversalDone
<1>11. CASE Broker("pipeline")
  <2> HIDE DEF Typed
  <2> QED BY <1>11, BrokerTyped
<1>12. CASE Guardian("pipeline")
  <2> HIDE DEF Typed
  <2> QED BY <1>12, GuardianTyped
<1>13. CASE Manage("pipeline")
  <2> HIDE DEF Typed
  <2> QED BY <1>13, ManageTyped
<1> QED
  BY <1>1, <1>2, <1>3, <1>4, <1>5, <1>6, <1>7, <1>8, <1>9, <1>10, <1>11, <1>12, <1>13 DEF Pipeline

\* A step of the fast thread keeps the types.
LEMMA FastTyped ==
  ASSUME Typed, Fast
  PROVE  Typed'
<1> USE ConfigAssumption DEF Typed, TypeOK, CurKnown, locks, book, docs, locals,
        faults, Goto, ClearLocals, Threads, PCs, Ticket, Position, Record
<1>1. CASE \E s \in Signals : FastTick(s)
  BY <1>1 DEF FastTick
<1>2. CASE FastBlocked
  BY <1>2 DEF FastBlocked
<1>3. CASE FastAllowed
  BY <1>3 DEF FastAllowed
<1>4. CASE FastRead
  BY <1>4 DEF FastRead, FastExecutedIds
<1>5. CASE Broker("fast")
  <2> HIDE DEF Typed
  <2> QED BY <1>5, BrokerTyped
<1>6. CASE Manage("fast")
  <2> HIDE DEF Typed
  <2> QED BY <1>6, ManageTyped
<1> QED
  BY <1>1, <1>2, <1>3, <1>4, <1>5, <1>6 DEF Fast

\* Every step keeps the types.
LEMMA StepTyped ==
  ASSUME Typed, [Next]_vars
  PROVE  Typed'
<1>1. CASE Review
  <2>1. CASE ReviewStarts
    BY <1>1, <2>1, ConfigAssumption DEF Typed, TypeOK, CurKnown, locks, book, docs,
       faults, Goto, Threads, PCs, Ticket, Position, Record, ReviewStarts
  <2>2. CASE Guardian("review")
    BY <2>2, GuardianTyped DEF Threads
  <2> QED
    BY <1>1, <2>1, <2>2 DEF Review
<1>2. CASE Market
  BY <1>2 DEF Typed, TypeOK, CurKnown, locks, docs, locals, faults, Market,
     PendingFills, StopHit
<1>3. CASE Crash
  <2>1. /\ (pc \in [Threads -> PCs])'
        /\ (orders \in [Threads -> SUBSET Record])'
        /\ (executed \in [Threads -> SUBSET Signals])'
        /\ (todo \in [Threads -> SUBSET Signals])'
        /\ (view \in [Threads -> SUBSET Position])'
        /\ (cur \in [Threads -> Signals \cup {None}])'
    BY <1>3 DEF Crash, PCs
  <2>2. CurKnown'
    BY <1>3 DEF Crash, CurKnown
  <2>3. attached' \in BOOLEAN
    BY <1>3, Zenon DEF Crash
  <2> QED
    BY <1>3, <2>1, <2>2, <2>3, ConfigAssumption DEF Crash, Typed, TypeOK, book, docs
<1>4. CASE UNCHANGED vars
  BY <1>4 DEF Typed, TypeOK, CurKnown, vars, locks, book, docs, locals, faults
<1> QED
  BY <1>1, <1>2, <1>3, <1>4, PipelineTyped, FastTyped DEF Next

LEMMA InitTyped == Init => Typed
<1> SUFFICES ASSUME Init PROVE Typed
  OBVIOUS
<1>1. /\ pc \in [Threads -> PCs]
      /\ orders \in [Threads -> SUBSET Record]
      /\ executed \in [Threads -> SUBSET Signals]
      /\ todo \in [Threads -> SUBSET Signals]
      /\ view \in [Threads -> SUBSET Position]
      /\ cur \in [Threads -> Signals \cup {None}]
  BY DEF Init, PCs
<1>2. CurKnown
  BY DEF Init, CurKnown
<1>3. attached \in BOOLEAN
  BY Zenon DEF Init
<1> QED
  BY <1>1, <1>2, <1>3, ConfigAssumption DEF Init, Typed, TypeOK

\* Every reachable state is well typed: no queue beyond its capacity, no ticket
\* beyond those handed out.
THEOREM TypeCorrect == Spec => []TypeOK
<1>1. Spec => []Typed
  BY InitTyped, StepTyped, PTL DEF Spec
<1> QED
  BY <1>1, PTL DEF Typed

-----------------------------------------------------------------------------
(* The MT5 session. SessionKeepsTerminal is inductive given the types: a   *)
(* thread enters SessionPCs only by taking a free session, and only the    *)
(* thread that leaves them, or a connect that found the session free,      *)
(* detaches the terminal.                                                  *)

\* A step of the broker path keeps the terminal with the session's owner.
LEMMA BrokerSession ==
  ASSUME Typed, SessionKeepsTerminal, NEW t \in Threads, Broker(t)
  PROVE  SessionKeepsTerminal'
<1> USE ConfigAssumption DEF Typed, TypeOK, SessionKeepsTerminal, locks, locals, Goto,
        ClearLocals, SessionPCs, PCs
<1>1. CASE Connect(t)
  BY <1>1 DEF Connect
<1>2. CASE ConnectFails(t)
  BY <1>2 DEF ConnectFails, AfterExecution
<1>3. CASE BatchBegins(t)
  BY <1>3 DEF BatchBegins
<1>4. CASE BatchBeginsBlind(t)
  BY <1>4 DEF BatchBeginsBlind
<1>5. CASE BatchRefused(t)
  BY <1>5 DEF BatchRefused
<1>6. CASE \E s \in Signals : SkipSignal(t, s)
  BY <1>6 DEF SkipSignal
<1>7. CASE \E s \in Signals : SendOrder(t, s)
  BY <1>7 DEF SendOrder
<1>8. CASE \E s \in Signals : RegimeFlipAborts(t, s)
  BY <1>8 DEF RegimeFlipAborts
<1>9. CASE OrderAccepted(t)
  BY <1>9 DEF OrderAccepted
<1>10. CASE OrderRejected(t)
  BY <1>10 DEF OrderRejected
<1>11. CASE OrderAnswerLost(t)
  BY <1>11 DEF OrderAnswerLost
<1>12. CASE BatchEnds(t)
  BY <1>12 DEF BatchEnds
<1>13. CASE WriteOrders(t)
  BY <1>13 DEF WriteOrders
<1>14. CASE WritePositions(t)
  BY <1>14 DEF WritePositions
<1>15. CASE Disconnect(t)
  BY <1>15 DEF Disconnect, AfterExecution
<1> QED
  BY <1>1, <1>2, <1>3, <1>4, <1>5, <1>6, <1>7, <1>8, <1>9, <1>10, <1>11, <1>12, <1>13, <1>14, <1>15 DEF Broker

\* A closing step keeps the terminal with the session's owner.
LEMMA GuardianSession ==
  ASSUME Typed, SessionKeepsTerminal, NEW t \in Threads, Guardian(t)
  PROVE  SessionKeepsTerminal'
<1> USE ConfigAssumption DEF Typed, TypeOK, SessionKeepsTerminal, locks, locals, Goto,
        ClearLocals, SessionPCs, PCs
<1>1. CASE GuardianSkipped(t)
  BY <1>1 DEF GuardianSkipped, AfterGuardian
<1>2. CASE GuardianConnect(t)
  BY <1>2 DEF GuardianConnect
<1>3. CASE GuardianSent(t)
  BY <1>3 DEF GuardianSent
<1>4. CASE GuardianEnd(t)
  BY <1>4 DEF GuardianEnd, AfterGuardian
<1>5. CASE \E p \in Position : GuardianSend(t, p)
  BY <1>5 DEF GuardianSend
<1> QED
  BY <1>1, <1>2, <1>3, <1>4, <1>5 DEF Guardian

\* A position-manager step keeps the terminal with the session's owner.
LEMMA ManageSession ==
  ASSUME Typed, SessionKeepsTerminal, NEW t \in Threads, Manage(t)
  PROVE  SessionKeepsTerminal'
<1> USE ConfigAssumption DEF Typed, TypeOK, SessionKeepsTerminal, locks, locals, Goto,
        ClearLocals, SessionPCs, PCs
<1>1. CASE ManageSkipped(t)
  BY <1>1 DEF ManageSkipped
<1>2. CASE ManageConnect(t)
  BY <1>2 DEF ManageConnect
<1>3. CASE ManageSend(t)
  BY <1>3 DEF ManageSend
<1>4. CASE ManageSent(t)
  BY <1>4 DEF ManageSent
<1>5. CASE ManageEnd(t)
  BY <1>5 DEF ManageEnd
<1> QED
  BY <1>1, <1>2, <1>3, <1>4, <1>5 DEF Manage

\* A pipeline step keeps the terminal with the session's owner.
LEMMA PipelineSession ==
  ASSUME Typed, SessionKeepsTerminal, Pipeline
  PROVE  SessionKeepsTerminal'
<1> USE ConfigAssumption DEF Typed, TypeOK, SessionKeepsTerminal, locks, locals, Goto,
        ClearLocals, SessionPCs, PCs
<1>1. CASE Verifying
  <2>1. CASE VerifySkips
    BY <2>1 DEF VerifySkips
  <2>2. CASE VerifyConnects
    BY <2>2 DEF VerifyConnects
  <2>3. CASE VerifySyncs
    <3>1. pc["pipeline"] = "syncing" /\ session = "pipeline"
      BY <2>3 DEF VerifySyncs, Threads
    <3>2. \A u \in Threads : u # "pipeline" => pc[u] \notin SessionPCs
      BY <3>1
    <3>3. pc' = [pc EXCEPT !["pipeline"] = "verify"]
      BY <2>3 DEF VerifySyncs
    <3> QED BY <3>2, <3>3
  <2>4. CASE Verify
    BY <2>4 DEF Verify
  <2> QED BY <1>1, <2>1, <2>2, <2>3, <2>4 DEF Verifying
<1>2. CASE GateRefuses
  BY <1>2 DEF GateRefuses
<1>3. CASE ReadDocs
  BY <1>3 DEF ReadDocs
<1>4. CASE DrainIntents
  BY <1>4 DEF DrainIntents
<1>5. CASE DrainTakesLock
  BY <1>5 DEF DrainTakesLock
<1>6. CASE DrainEnds
  BY <1>6 DEF DrainEnds
<1>7. CASE DrainFindsNothing
  BY <1>7 DEF DrainFindsNothing
<1>8. CASE \E p \in Position : ReversalSend(p)
  BY <1>8 DEF ReversalSend
<1>9. CASE ReversalSent
  BY <1>9 DEF ReversalSent
<1>10. CASE ReversalDone
  BY <1>10 DEF ReversalDone
<1>11. CASE Broker("pipeline")
  <2> HIDE DEF Typed, SessionKeepsTerminal
  <2> QED BY <1>11, BrokerSession DEF Threads
<1>12. CASE Guardian("pipeline")
  <2> HIDE DEF Typed, SessionKeepsTerminal
  <2> QED BY <1>12, GuardianSession DEF Threads
<1>13. CASE Manage("pipeline")
  <2> HIDE DEF Typed, SessionKeepsTerminal
  <2> QED BY <1>13, ManageSession DEF Threads
<1> QED
  BY <1>1, <1>2, <1>3, <1>4, <1>5, <1>6, <1>7, <1>8, <1>9, <1>10, <1>11, <1>12, <1>13 DEF Pipeline

\* A fast-thread step keeps the terminal with the session's owner.
LEMMA FastSession ==
  ASSUME Typed, SessionKeepsTerminal, Fast
  PROVE  SessionKeepsTerminal'
<1> USE ConfigAssumption DEF Typed, TypeOK, SessionKeepsTerminal, locks, locals, Goto,
        ClearLocals, SessionPCs, PCs
<1>1. CASE \E s \in Signals : FastTick(s)
  BY <1>1 DEF FastTick
<1>2. CASE FastBlocked
  BY <1>2 DEF FastBlocked
<1>3. CASE FastAllowed
  BY <1>3 DEF FastAllowed
<1>4. CASE FastRead
  BY <1>4 DEF FastRead
<1>5. CASE Broker("fast")
  <2> HIDE DEF Typed, SessionKeepsTerminal
  <2> QED BY <1>5, BrokerSession DEF Threads
<1>6. CASE Manage("fast")
  <2> HIDE DEF Typed, SessionKeepsTerminal
  <2> QED BY <1>6, ManageSession DEF Threads
<1> QED
  BY <1>1, <1>2, <1>3, <1>4, <1>5, <1>6 DEF Fast

\* Every step keeps the terminal with the session's owner.
LEMMA StepSession ==
  ASSUME Typed, SessionKeepsTerminal, [Next]_vars
  PROVE  SessionKeepsTerminal'
<1>1. CASE Review
  <2>1. CASE ReviewStarts
    BY <1>1, <2>1 DEF Typed, TypeOK, SessionKeepsTerminal, locks, Goto, SessionPCs,
       ReviewStarts
  <2>2. CASE Guardian("review")
    BY <2>2, GuardianSession DEF Threads
  <2> QED
    BY <1>1, <2>1, <2>2 DEF Review
<1>2. CASE Market
  BY <1>2 DEF SessionKeepsTerminal, locks, Market, PendingFills, StopHit
<1>3. CASE Crash
  BY <1>3 DEF SessionKeepsTerminal, SessionPCs, Crash
<1>4. CASE UNCHANGED vars
  BY <1>4 DEF SessionKeepsTerminal, vars, locks
<1>5. CASE Pipeline
  BY <1>5, PipelineSession
<1>6. CASE Fast
  BY <1>6, FastSession
<1> QED
  BY <1>1, <1>2, <1>3, <1>4, <1>5, <1>6 DEF Next

\* No thread's connect or shutdown detaches the terminal while another thread is
\* between connect() and disconnect().
THEOREM TerminalKept == Spec => []SessionKeepsTerminal
<1>1. Init => SessionKeepsTerminal
  BY DEF Init, SessionKeepsTerminal, SessionPCs
<1>2. Spec => []Typed
  BY InitTyped, StepTyped, PTL DEF Spec
<1> QED
  BY <1>1, <1>2, StepSession, PTL DEF Spec

\* At most one thread is inside order_send: every sender is between connect()
\* and disconnect(), with or without the trade lock.
THEOREM OneMutator == Spec => []SingleMutator
<1>1. SessionKeepsTerminal => SingleMutator
  BY DEF SessionKeepsTerminal, SingleMutator, SendPCs, SessionPCs
<1> QED
  BY <1>1, TerminalKept, PTL

-----------------------------------------------------------------------------
(* Placing orders. With market entries only and a terminal that answers,   *)
(* the batch's view contains every open position while the trade lock is   *)
(* held: the position manager, the broker and the other closers can only   *)
(* remove positions, and OrderAccepted refreshes the view. What the gates  *)
(* of SendOrder establish for the view therefore holds for the book.       *)

\* The book may take one more position of signal s.
Room(ps, s) ==
  /\ Cardinality(OnSymbol(ps, s)) < MaxOpenPerSymbol
  /\ ~AllowPyramiding =>
       \A p \in ps : ~(SymbolOf[p.sig] = SymbolOf[s] /\ SideOf[p.sig] = SideOf[s])

\* CapRespected and NoStacking of a set of positions.
Legal(ps) ==
  /\ IsFiniteSet(ps)
  /\ \A s \in Signals : Cardinality(OnSymbol(ps, s)) <= MaxOpenPerSymbol
  /\ ~AllowPyramiding =>
       \A p, q \in ps :
         SymbolOf[p.sig] = SymbolOf[q.sig] /\ SideOf[p.sig] = SideOf[q.sig] => p = q

PlacingInv ==
  /\ \A t \in Threads : pc[t] \in TradePCs => trade = t
  /\ \A t \in Threads : pc[t] \in {"batch", "sending"} =>
       IsFiniteSet(view[t]) /\ positions \subseteq view[t]
  /\ \A t \in Threads : pc[t] = "sending" => Room(positions, cur[t])
  /\ pending = {}
  /\ Legal(positions)

\* Fewer positions on a symbol count for less.
LEMMA OnSymbolShrinks ==
  ASSUME NEW A, NEW B, IsFiniteSet(A), B \subseteq A, NEW s
  PROVE  /\ IsFiniteSet(OnSymbol(B, s))
         /\ Cardinality(OnSymbol(B, s)) \in Nat
         /\ Cardinality(OnSymbol(A, s)) \in Nat
         /\ Cardinality(OnSymbol(B, s)) <= Cardinality(OnSymbol(A, s))
<1>1. IsFiniteSet(OnSymbol(A, s)) /\ OnSymbol(B, s) \subseteq OnSymbol(A, s)
  BY FS_Subset DEF OnSymbol
<1> QED
  BY <1>1, FS_Subset, FS_CardinalityType

\* Closing positions never takes away room ...
LEMMA RoomShrinks ==
  ASSUME NEW A, NEW B, IsFiniteSet(A), B \subseteq A, NEW s, Room(A, s)
  PROVE  Room(B, s)
BY OnSymbolShrinks, ConfigAssumption DEF Room

\* ... and never makes a legal book illegal.
LEMMA LegalShrinks ==
  ASSUME NEW A, NEW B, Legal(A), B \subseteq A
  PROVE  Legal(B)
<1>1. IsFiniteSet(B)
  BY FS_Subset DEF Legal
<1>2. \A s \in Signals : Cardinality(OnSymbol(B, s)) <= MaxOpenPerSymbol
  BY OnSymbolShrinks, ConfigAssumption DEF Legal
<1> QED
  BY <1>1, <1>2 DEF Legal

\* A position opened where there is room leaves the book legal.
LEMMA LegalGrows ==
  ASSUME NEW A, A \subseteq Position, Legal(A), NEW s \in Signals, Room(A, s),
         NEW k \in Ticket
  PROVE  Legal(A \cup {[ticket |-> k, sig |-> s]})
<1> DEFINE p == [ticket |-> k, sig |-> s]
           B == A \cup {p}
<1>1. IsFiniteSet(B)
  BY FS_AddElement DEF Legal
<1>2. ASSUME NEW u \in Signals
      PROVE  Cardinality(OnSymbol(B, u)) <= MaxOpenPerSymbol
  <2>1. IsFiniteSet(OnSymbol(A, u)) /\ Cardinality(OnSymbol(A, u)) \in Nat
    BY OnSymbolShrinks DEF Legal
  <2>2. CASE SymbolOf[u] = SymbolOf[s]
    <3>1. OnSymbol(B, u) = OnSymbol(A, u) \cup {p}
      BY <2>2 DEF OnSymbol
    <3>2. OnSymbol(A, u) = OnSymbol(A, s)
      BY <2>2 DEF OnSymbol
    <3> HIDE DEF p, B
    <3>3. Cardinality(OnSymbol(A, u) \cup {p})
            = IF p \in OnSymbol(A, u) THEN Cardinality(OnSymbol(A, u))
                                      ELSE Cardinality(OnSymbol(A, u)) + 1
      BY <2>1, FS_AddElement, Zenon
    <3>4. /\ Cardinality(OnSymbol(B, u)) <= Cardinality(OnSymbol(A, u)) + 1
          /\ Cardinality(OnSymbol(B, u)) \in Nat
      BY <2>1, <3>1, <3>3
    <3> QED
      BY <2>1, <3>2, <3>3, <3>4, ConfigAssumption DEF Room
  <2>3. CASE SymbolOf[u] # SymbolOf[s]
    <3>1. OnSymbol(B, u) = OnSymbol(A, u)
      BY <2>3 DEF OnSymbol
    <3> QED
      BY <3>1 DEF Legal
  <2> QED
    BY <2>2, <2>3
<1>3. ASSUME ~AllowPyramiding, NEW x \in B, NEW y \in B,
             SymbolOf[x.sig] = SymbolOf[y.sig], SideOf[x.sig] = SideOf[y.sig]
      PROVE  x = y
  BY <1>3 DEF Legal, Room
<1> QED
  BY <1>1, <1>2, <1>3 DEF Legal

\* What the gates of a signal establish: room in every part of the view.
LEMMA AdmissibleRoom ==
  ASSUME Typed, NEW t \in Threads, NEW s \in Signals, Admissible(t, s),
         NEW A, IsFiniteSet(view[t]), A \subseteq view[t]
  PROVE  Room(A, s)
<1>1. Room(view[t], s)
  <2>1. Cardinality(OnSymbol(view[t], s)) < MaxOpenPerSymbol
    BY DEF Admissible, CapacityAvailable
  <2>2. ASSUME ~AllowPyramiding
        PROVE  \A p \in view[t] :
                 ~(SymbolOf[p.sig] = SymbolOf[s] /\ SideOf[p.sig] = SideOf[s])
    BY <2>2 DEF Admissible, IsDuplicatePosition, OnSymbol
  <2> QED
    BY <2>1, <2>2 DEF Room
<1> QED
  BY <1>1, RoomShrinks

\* A step that only closes positions, and starts or ends no batch, keeps the
\* placing invariant.
LEMMA ShrinkPlacing ==
  ASSUME PlacingInv, positions' \subseteq positions, pending' = {},
         \A u \in Threads : pc'[u] \in TradePCs => trade' = u,
         \A u \in Threads : pc'[u] \in {"batch", "sending"} =>
           pc[u] = pc'[u] /\ view'[u] = view[u] /\ cur'[u] = cur[u]
  PROVE  PlacingInv'
<1>1. Legal(positions')
  BY LegalShrinks DEF PlacingInv
<1>2. ASSUME NEW u \in Threads, pc'[u] = "sending"
      PROVE  Room(positions', cur'[u])
  BY <1>2, RoomShrinks DEF PlacingInv, Legal
<1>3. ASSUME NEW u \in Threads, pc'[u] \in {"batch", "sending"}
      PROVE  IsFiniteSet(view'[u]) /\ positions' \subseteq view'[u]
  BY <1>3 DEF PlacingInv
<1> QED
  BY <1>1, <1>2, <1>3 DEF PlacingInv

\* A step of the broker path keeps the placing invariant.
LEMMA BrokerPlacing ==
  ASSUME LimitEntry = {}, MaxGlitches = 0, Typed, PlacingInv, NEW t \in Threads, Broker(t)
  PROVE  PlacingInv'
<1> USE ConfigAssumption DEF PlacingInv, TradePCs, PCs, locks, book, docs, locals,
        faults, Goto, ClearLocals
<1>1. CASE Connect(t)
  BY <1>1 DEF Connect, Typed, TypeOK
<1>2. CASE ConnectFails(t)
  BY <1>2 DEF ConnectFails, Typed, TypeOK, AfterExecution
<1>3. CASE BatchBegins(t)
  BY <1>3 DEF Legal, BatchBegins, Typed, TypeOK
<1>4. CASE BatchBeginsBlind(t)
  BY <1>4 DEF BatchBeginsBlind, Typed, TypeOK
<1>5. CASE BatchRefused(t)
  BY <1>5 DEF BatchRefused, Typed, TypeOK
<1>6. CASE \E s \in Signals : SkipSignal(t, s)
  BY <1>6 DEF SkipSignal, Typed, TypeOK
<1>7. CASE \E s \in Signals : SendOrder(t, s)
  BY <1>7, AdmissibleRoom DEF SendOrder, Typed, TypeOK
<1>8. CASE \E s \in Signals : RegimeFlipAborts(t, s)
  BY <1>8 DEF RegimeFlipAborts, Typed, TypeOK
<1>9. CASE OrderAccepted(t)
  <2> DEFINE p == [ticket |-> nextTicket, sig |-> cur[t]]
  <2>1. /\ cur[t] \in Signals /\ nextTicket \in Ticket /\ positions \subseteq Position
        /\ Room(positions, cur[t]) /\ Legal(positions) /\ trade = t
    BY <1>9 DEF OrderAccepted, Typed, TypeOK, CurKnown, Ticket
  <2>2. positions' = positions \cup {p} /\ pending' = {} /\ view'[t] = positions'
    BY <1>9 DEF OrderAccepted, Typed, TypeOK
  <2>3. Legal(positions')
    BY <2>1, <2>2, LegalGrows
  <2>4. \A u \in Threads : pc'[u] \in TradePCs => u = t /\ pc'[u] = "batch"
    BY <1>9, <2>1 DEF OrderAccepted, Typed, TypeOK, Threads
  <2>5. trade' = t
    BY <1>9, <2>1 DEF OrderAccepted
  <2> QED
    BY <2>2, <2>3, <2>4, <2>5 DEF Legal
<1>10. CASE OrderRejected(t)
  BY <1>10 DEF OrderRejected, Typed, TypeOK
<1>11. CASE OrderAnswerLost(t)
  BY <1>11 DEF OrderAnswerLost, Typed, TypeOK
<1>12. CASE BatchEnds(t)
  BY <1>12 DEF BatchEnds, Typed, TypeOK
<1>13. CASE WriteOrders(t)
  BY <1>13 DEF WriteOrders, Typed, TypeOK
<1>14. CASE WritePositions(t)
  BY <1>14 DEF WritePositions, Typed, TypeOK
<1>15. CASE Disconnect(t)
  BY <1>15 DEF Disconnect, Typed, TypeOK, AfterExecution
<1> QED
  BY <1>1, <1>2, <1>3, <1>4, <1>5, <1>6, <1>7, <1>8, <1>9, <1>10, <1>11, <1>12, <1>13, <1>14, <1>15 DEF Broker

\* A closing step keeps the placing invariant.
LEMMA GuardianPlacing ==
  ASSUME LimitEntry = {}, MaxGlitches = 0, Typed, PlacingInv, NEW t \in Threads, Guardian(t)
  PROVE  PlacingInv'
<1> USE ConfigAssumption DEF PlacingInv, TradePCs, PCs, locks, book, docs, locals,
        faults, Goto, ClearLocals
<1>1. CASE GuardianSkipped(t)
  BY <1>1 DEF GuardianSkipped, Typed, TypeOK, AfterGuardian
<1>2. CASE GuardianConnect(t)
  BY <1>2 DEF GuardianConnect, Typed, TypeOK
<1>3. CASE GuardianSent(t)
  BY <1>3 DEF GuardianSent, Typed, TypeOK
<1>4. CASE GuardianEnd(t)
  BY <1>4 DEF GuardianEnd, Typed, TypeOK, AfterGuardian
<1>5. CASE \E p \in Position : GuardianSend(t, p)
  <2>1. positions' \subseteq positions /\ pending' = {}
    BY <1>5 DEF GuardianSend
  <2>2. \A u \in Threads : pc'[u] \in TradePCs => trade' = u
    BY <1>5 DEF GuardianSend, Typed, TypeOK
  <2>3. \A u \in Threads : pc'[u] \in {"batch", "sending"} =>
          pc[u] = pc'[u] /\ view'[u] = view[u] /\ cur'[u] = cur[u]
    BY <1>5 DEF GuardianSend, Typed, TypeOK
  <2> HIDE DEF PlacingInv
  <2> QED
    BY <2>1, <2>2, <2>3, ShrinkPlacing
<1> QED
  BY <1>1, <1>2, <1>3, <1>4, <1>5 DEF Guardian

\* A position-manager step keeps the placing invariant.
LEMMA ManagePlacing ==
  ASSUME LimitEntry = {}, MaxGlitches = 0, Typed, PlacingInv, NEW t \in Threads, Manage(t)
  PROVE  PlacingInv'
<1> USE ConfigAssumption DEF PlacingInv, TradePCs, PCs, locks, book, docs, locals,
        faults, Goto, ClearLocals
<1>1. CASE ManageSkipped(t)
  BY <1>1 DEF ManageSkipped, Typed, TypeOK
<1>2. CASE ManageConnect(t)
  BY <1>2 DEF ManageConnect, Typed, TypeOK
<1>3. CASE ManageSend(t)
  <2>1. positions' \subseteq positions /\ pending' = {}
    BY <1>3 DEF ManageSend
  <2>2. \A u \in Threads : pc'[u] \in TradePCs => trade' = u
    BY <1>3 DEF ManageSend, Typed, TypeOK
  <2>3. \A u \in Threads : pc'[u] \in {"batch", "sending"} =>
          pc[u] = pc'[u] /\ view'[u] = view[u] /\ cur'[u] = cur[u]
    BY <1>3 DEF ManageSend, Typed, TypeOK
  <2> HIDE DEF PlacingInv
  <2> QED
    BY <2>1, <2>2, <2>3, ShrinkPlacing
<1>4. CASE ManageSent(t)
  BY <1>4 DEF ManageSent, Typed, TypeOK
<1>5. CASE ManageEnd(t)
  BY <1>5 DEF ManageEnd, Typed, TypeOK
<1> QED
  BY <1>1, <1>2, <1>3, <1>4, <1>5 DEF Manage

\* A pipeline step keeps the placing invariant.
LEMMA PipelinePlacing ==
  ASSUME LimitEntry = {}, MaxGlitches = 0, Typed, PlacingInv, Pipeline
  PROVE  PlacingInv'
<1> USE ConfigAssumption DEF PlacingInv, TradePCs, PCs, locks, book, docs, locals,
        faults, Goto, ClearLocals
<1>1. CASE Verifying
  BY <1>1 DEF Verifying, VerifySkips, VerifyConnects, VerifySyncs, Verify, Typed, TypeOK
<1>2. CASE GateRefuses
  BY <1>2 DEF GateRefuses, Typed, TypeOK
<1>3. CASE ReadDocs
  BY <1>3 DEF ReadDocs, Typed, TypeOK
<1>4. CASE DrainIntents
  BY <1>4 DEF DrainIntents, Typed, TypeOK
<1>5. CASE DrainTakesLock
  BY <1>5 DEF DrainTakesLock, Typed, TypeOK
<1>6. CASE DrainEnds
  BY <1>6 DEF DrainEnds, Typed, TypeOK, Threads
<1>7. CASE DrainFindsNothing
  BY <1>7 DEF DrainFindsNothing, Typed, TypeOK
<1>8. CASE \E p \in Position : ReversalSend(p)
  <2>1. positions' \subseteq positions /\ pending' = {}
    BY <1>8 DEF ReversalSend
  <2>2. \A u \in Threads : pc'[u] \in TradePCs => trade' = u
    BY <1>8 DEF ReversalSend, Typed, TypeOK
  <2>3. \A u \in Threads : pc'[u] \in {"batch", "sending"} =>
          pc[u] = pc'[u] /\ view'[u] = view[u] /\ cur'[u] = cur[u]
    BY <1>8 DEF ReversalSend, Typed, TypeOK
  <2> HIDE DEF PlacingInv
  <2> QED
    BY <2>1, <2>2, <2>3, ShrinkPlacing
<1>9. CASE ReversalSent
  BY <1>9 DEF ReversalSent, Typed, TypeOK, Threads
<1>10. CASE ReversalDone
  BY <1>10 DEF ReversalDone, Typed, TypeOK
<1>11. CASE Broker("pipeline")
  <2> HIDE DEF PlacingInv
  <2> QED BY <1>11, BrokerPlacing DEF Threads
<1>12. CASE Guardian("pipeline")
  <2> HIDE DEF PlacingInv
  <2> QED BY <1>12, GuardianPlacing DEF Threads
<1>13. CASE Manage("pipeline")
  <2> HIDE DEF PlacingInv
  <2> QED BY <1>13, ManagePlacing DEF Threads
<1> QED
  BY <1>1, <1>2, <1>3, <1>4, <1>5, <1>6, <1>7, <1>8, <1>9, <1>10, <1>11, <1>12, <1>13 DEF Pipeline

\* A fast-thread step keeps the placing invariant.
LEMMA FastPlacing ==
  ASSUME LimitEntry = {}, MaxGlitches = 0, Typed, PlacingInv, Fast
  PROVE  PlacingInv'
<1> USE ConfigAssumption DEF PlacingInv, TradePCs, PCs, locks, book, docs, locals,
        faults, Goto, ClearLocals
<1>1. CASE \E s \in Signals : FastTick(s)
  BY <1>1 DEF FastTick, Typed, TypeOK
<1>2. CASE FastBlocked
  BY <1>2 DEF FastBlocked, Typed, TypeOK
<1>3. CASE FastAllowed
  BY <1>3 DEF FastAllowed, Typed, TypeOK
<1>4. CASE FastRead
  BY <1>4 DEF FastRead, Typed, TypeOK
<1>5. CASE Broker("fast")
  <2> HIDE DEF PlacingInv
  <2> QED BY <1>5, BrokerPlacing DEF Threads
<1>6. CASE Manage("fast")
  <2> HIDE DEF PlacingInv
  <2> QED BY <1>6, ManagePlacing DEF Threads
<1> QED
  BY <1>1, <1>2, <1>3, <1>4, <1>5, <1>6 DEF Fast

\* Every step keeps the placing invariant.
LEMMA StepPlacing ==
  ASSUME LimitEntry = {}, MaxGlitches = 0, Typed, PlacingInv, [Next]_vars
  PROVE  PlacingInv'
<1>1. CASE Review
  <2>1. CASE ReviewStarts
    BY <1>1, <2>1 DEF Typed, TypeOK, PlacingInv, TradePCs, locks, book, Goto, ReviewStarts
  <2>2. CASE Guardian("review")
    BY <2>2, GuardianPlacing DEF Threads
  <2> QED
    BY <1>1, <2>1, <2>2 DEF Review
<1>2. CASE Market
  <2>1. positions' \subseteq positions /\ pending' = {}
    BY <1>2 DEF Market, PendingFills, StopHit, PlacingInv
  <2> QED
    BY <1>2, <2>1, ShrinkPlacing
       DEF Market, PendingFills, StopHit, locks, locals, PlacingInv
<1>3. CASE Crash
  BY <1>3 DEF PlacingInv, TradePCs, Crash, book
<1>4. CASE UNCHANGED vars
  BY <1>4 DEF PlacingInv, vars, locks, book, locals
<1>5. CASE Pipeline
  BY <1>5, PipelinePlacing
<1>6. CASE Fast
  BY <1>6, FastPlacing
<1> QED
  BY <1>1, <1>2, <1>3, <1>4, <1>5, <1>6 DEF Next

LEMMA InitPlacing == Init => PlacingInv
<1> SUFFICES ASSUME Init PROVE PlacingInv
  OBVIOUS
<1>1. \A s : OnSymbol({}, s) = {}
  BY DEF OnSymbol
<1>2. Legal(positions)
  BY <1>1, FS_EmptySet, ConfigAssumption DEF Init, Legal
<1> QED
  BY <1>2 DEF Init, PlacingInv, TradePCs

\* With market entries and a terminal that answers, the placing invariant holds
\* whatever the two order paths, the crashes and the closers do.
LEMMA PlacingCorrect ==
  ASSUME LimitEntry = {}, MaxGlitches = 0
  PROVE  Spec => []PlacingInv
<1>1. Spec => []Typed
  BY InitTyped, StepTyped, PTL DEF Spec
<1>2. Typed /\ PlacingInv /\ [Next]_vars => PlacingInv'
  BY StepPlacing
<1> QED
  BY <1>1, <1>2, InitPlacing, PTL DEF Spec

\* A symbol never holds more open positions than max_open_per_symbol, for any
\* number of signals, symbols, crashes and stale documents.
THEOREM CapHolds ==
  ASSUME LimitEntry = {}, MaxGlitches = 0
  PROVE  Spec => []CapRespected
<1>1. PlacingInv => CapRespected
  BY DEF PlacingInv, Legal, CapRespected
<1> QED
  BY <1>1, PlacingCorrect, PTL

\* Without pyramiding no two positions share a symbol and a side.
THEOREM NothingStacked ==
  ASSUME LimitEntry = {}, MaxGlitches = 0
  PROVE  Spec => []NoStacking
<1>1. PlacingInv => NoStacking
  BY DEF PlacingInv, Legal, NoStacking
<1> QED
  BY <1>1, PlacingCorrect, PTL

-----------------------------------------------------------------------------
(* Refinement. The abstract gate is held while a batch runs: PlacingInv    *)
(* says that the batch then holds the trade lock and that what it is about *)
(* to open fits the book itself.                                           *)

\* Closing a position that is already closed changes nothing.
LEMMA CloseOne ==
  ASSUME NEW A, NEW B, NEW S, A = B \/ \E p \in S : A = B \ {p}
  PROVE  A = B \/ \E p \in B : A = B \ {p}
<1>1. ASSUME NEW p, p \notin B PROVE B \ {p} = B
  BY <1>1
<1> QED
  BY <1>1

\* A step that neither starts nor ends a batch, and closes at most one
\* position, is a step of the gate or a stutter.
LEMMA QuietStep ==
  ASSUME positions' = positions \/ (\E p \in positions : positions' = positions \ {p}),
         nextTicket' = nextTicket,
         \A u \in Threads : pc'[u] \in {"batch", "sending"} <=> pc[u] \in {"batch", "sending"},
         \A u \in Threads : pc[u] \in {"batch", "sending"} => trade' = trade
  PROVE  [Gate!Next]_(Gate!vars)
<1>1. GateHolder' = GateHolder
  BY DEF GateHolder
<1>2. CASE positions' = positions
  BY <1>1, <1>2 DEF Gate!vars
<1>3. CASE \E p \in positions : positions' = positions \ {p}
  BY <1>1, <1>3 DEF Gate!Next, Gate!Close
<1> QED
  BY <1>2, <1>3

\* The gate counts as the execution does: FiniteSets is reached twice.
LEMMA GateCardinality == \A S : Gate!Cardinality(S) = Cardinality(S)
  BY DEF Gate!Cardinality, Cardinality

\* A step of the broker path is a step of the gate or a stutter.
LEMMA BrokerGate ==
  ASSUME LimitEntry = {}, MaxGlitches = 0, Typed, PlacingInv, NEW t \in Threads, Broker(t)
  PROVE  [Gate!Next]_(Gate!vars)
<1> USE ConfigAssumption DEF locks, book, docs, locals, faults, Goto, ClearLocals
<1>1. CASE Connect(t)
  BY <1>1, QuietStep DEF Connect, Typed, TypeOK
<1>2. CASE ConnectFails(t)
  BY <1>2, QuietStep DEF ConnectFails, Typed, TypeOK, AfterExecution
<1>3. CASE BatchBegins(t)
  <2>1. GateHolder = None
    BY <1>3 DEF BatchBegins, GateHolder, PlacingInv, TradePCs
  <2>2. GateHolder' = t /\ positions' = positions /\ nextTicket' = nextTicket
    BY <1>3 DEF BatchBegins, GateHolder, Typed, TypeOK
  <2> QED
    BY <2>1, <2>2 DEF Gate!Next, Gate!Take
<1>4. CASE BatchBeginsBlind(t)
  BY <1>4 DEF BatchBeginsBlind, Typed, TypeOK
<1>5. CASE BatchRefused(t)
  BY <1>5, QuietStep DEF BatchRefused, Typed, TypeOK
<1>6. CASE \E s \in Signals : SkipSignal(t, s)
  BY <1>6, QuietStep DEF SkipSignal, Typed, TypeOK
<1>7. CASE \E s \in Signals : SendOrder(t, s)
  BY <1>7, QuietStep DEF SendOrder, Typed, TypeOK
<1>8. CASE \E s \in Signals : RegimeFlipAborts(t, s)
  <2>1. GateHolder = t /\ t # None
    BY <1>8 DEF RegimeFlipAborts, GateHolder, PlacingInv, TradePCs
  <2>2. GateHolder' = None
    BY <1>8 DEF RegimeFlipAborts, GateHolder
  <2>3. positions' = positions /\ nextTicket' = nextTicket
    BY <1>8 DEF RegimeFlipAborts
  <2> QED
    BY <2>1, <2>2, <2>3 DEF Gate!Next, Gate!Release
<1>9. CASE OrderAccepted(t)
  <2>1. cur[t] \in Signals /\ Room(positions, cur[t]) /\ trade = t /\ t # None
    BY <1>9 DEF OrderAccepted, PlacingInv, TradePCs, Typed, CurKnown
  <2>2. positions' = positions \cup {[ticket |-> nextTicket, sig |-> cur[t]]}
    BY <1>9 DEF OrderAccepted
  <2>3. GateHolder = t /\ GateHolder' = t /\ nextTicket' = nextTicket + 1
    BY <1>9, <2>1 DEF OrderAccepted, GateHolder, Typed, TypeOK
  <2>4. Gate!Room(positions, cur[t])
    BY <2>1, GateCardinality DEF Room, OnSymbol, Gate!Room, Gate!OnSymbol
  <2> QED
    BY <2>1, <2>2, <2>3, <2>4 DEF Gate!Next, Gate!Open
<1>10. CASE OrderRejected(t)
  BY <1>10, QuietStep DEF OrderRejected, Typed, TypeOK
<1>11. CASE OrderAnswerLost(t)
  BY <1>11 DEF OrderAnswerLost, Typed, TypeOK
<1>12. CASE BatchEnds(t)
  <2>1. GateHolder = t /\ t # None
    BY <1>12 DEF BatchEnds, GateHolder, PlacingInv, TradePCs
  <2>2. GateHolder' = None
    BY <1>12 DEF BatchEnds, GateHolder
  <2>3. positions' = positions /\ nextTicket' = nextTicket
    BY <1>12 DEF BatchEnds
  <2> QED
    BY <2>1, <2>2, <2>3 DEF Gate!Next, Gate!Release
<1>13. CASE WriteOrders(t)
  BY <1>13, QuietStep DEF WriteOrders, Typed, TypeOK
<1>14. CASE WritePositions(t)
  BY <1>14, QuietStep DEF WritePositions, Typed, TypeOK
<1>15. CASE Disconnect(t)
  BY <1>15, QuietStep DEF Disconnect, Typed, TypeOK, AfterExecution
<1> QED
  BY <1>1, <1>2, <1>3, <1>4, <1>5, <1>6, <1>7, <1>8, <1>9, <1>10, <1>11, <1>12, <1>13, <1>14, <1>15 DEF Broker

\* A closing step is a step of the gate or a stutter.
LEMMA GuardianGate ==
  ASSUME Typed, PlacingInv, NEW t \in Threads, Guardian(t)
  PROVE  [Gate!Next]_(Gate!vars)
<1> USE ConfigAssumption DEF locks, book, docs, locals, faults, Goto, ClearLocals
<1>1. CASE GuardianSkipped(t)
  BY <1>1, QuietStep DEF GuardianSkipped, Typed, TypeOK, AfterGuardian
<1>2. CASE GuardianConnect(t)
  BY <1>2, QuietStep DEF GuardianConnect, Typed, TypeOK
<1>3. CASE GuardianSent(t)
  BY <1>3, QuietStep DEF GuardianSent, Typed, TypeOK, PlacingInv, TradePCs
<1>4. CASE GuardianEnd(t)
  BY <1>4, QuietStep DEF GuardianEnd, Typed, TypeOK, AfterGuardian
<1>5. CASE \E p \in Position : GuardianSend(t, p)
  <2>1. positions' = positions \/ \E p \in Position : positions' = positions \ {p}
    BY <1>5 DEF GuardianSend
  <2>2. positions' = positions \/ \E p \in positions : positions' = positions \ {p}
    BY <2>1, CloseOne
  <2> QED
    BY <1>5, <2>2, QuietStep DEF GuardianSend, Typed, TypeOK, PlacingInv, TradePCs
<1> QED
  BY <1>1, <1>2, <1>3, <1>4, <1>5 DEF Guardian

\* A position-manager step is a step of the gate or a stutter.
LEMMA ManageGate ==
  ASSUME Typed, PlacingInv, NEW t \in Threads, Manage(t)
  PROVE  [Gate!Next]_(Gate!vars)
<1> USE ConfigAssumption DEF locks, book, docs, locals, faults, Goto, ClearLocals
<1>1. CASE ManageSkipped(t)
  BY <1>1, QuietStep DEF ManageSkipped, Typed, TypeOK
<1>2. CASE ManageConnect(t)
  BY <1>2, QuietStep DEF ManageConnect, Typed, TypeOK
<1>3. CASE ManageSend(t)
  <2>1. positions' = positions \/ \E p \in view[t] : positions' = positions \ {p}
    BY <1>3 DEF ManageSend
  <2>2. positions' = positions \/ \E p \in positions : positions' = positions \ {p}
    BY <2>1, CloseOne
  <2> QED
    BY <1>3, <2>2, QuietStep DEF ManageSend, Typed, TypeOK
<1>4. CASE ManageSent(t)
  BY <1>4, QuietStep DEF ManageSent, Typed, TypeOK
<1>5. CASE ManageEnd(t)
  BY <1>5, QuietStep DEF ManageEnd, Typed, TypeOK
<1> QED
  BY <1>1, <1>2, <1>3, <1>4, <1>5 DEF Manage

\* A pipeline step is a step of the gate or a stutter.
LEMMA PipelineGate ==
  ASSUME LimitEntry = {}, MaxGlitches = 0, Typed, PlacingInv, Pipeline
  PROVE  [Gate!Next]_(Gate!vars)
<1> USE ConfigAssumption DEF locks, book, docs, locals, faults, Goto, ClearLocals
<1>1. CASE Verifying
  BY <1>1, QuietStep DEF Verifying, VerifySkips, VerifyConnects, VerifySyncs, Verify, Typed, TypeOK
<1>2. CASE GateRefuses
  BY <1>2, QuietStep DEF GateRefuses, Typed, TypeOK
<1>3. CASE ReadDocs
  BY <1>3, QuietStep DEF ReadDocs, Typed, TypeOK
<1>4. CASE DrainIntents
  BY <1>4, QuietStep DEF DrainIntents, Typed, TypeOK
<1>5. CASE DrainTakesLock
  BY <1>5, QuietStep DEF DrainTakesLock, Typed, TypeOK, PlacingInv, TradePCs
<1>6. CASE DrainEnds
  BY <1>6, QuietStep DEF DrainEnds, Typed, TypeOK, PlacingInv, TradePCs, Threads
<1>7. CASE DrainFindsNothing
  BY <1>7, QuietStep DEF DrainFindsNothing, Typed, TypeOK
<1>8. CASE \E p \in Position : ReversalSend(p)
  <2>1. positions' = positions \/ \E p \in Position : positions' = positions \ {p}
    BY <1>8 DEF ReversalSend
  <2>2. positions' = positions \/ \E p \in positions : positions' = positions \ {p}
    BY <2>1, CloseOne
  <2> QED
    BY <1>8, <2>2, QuietStep DEF ReversalSend, Typed, TypeOK, PlacingInv, TradePCs
<1>9. CASE ReversalSent
  BY <1>9, QuietStep DEF ReversalSent, Typed, TypeOK, PlacingInv, TradePCs, Threads
<1>10. CASE ReversalDone
  BY <1>10, QuietStep DEF ReversalDone, Typed, TypeOK
<1>11. CASE Broker("pipeline")
  BY <1>11, BrokerGate DEF Threads
<1>12. CASE Guardian("pipeline")
  BY <1>12, GuardianGate DEF Threads
<1>13. CASE Manage("pipeline")
  BY <1>13, ManageGate DEF Threads
<1> QED
  BY <1>1, <1>2, <1>3, <1>4, <1>5, <1>6, <1>7, <1>8, <1>9, <1>10, <1>11, <1>12, <1>13 DEF Pipeline

\* A fast-thread step is a step of the gate or a stutter.
LEMMA FastGateStep ==
  ASSUME LimitEntry = {}, MaxGlitches = 0, Typed, PlacingInv, Fast
  PROVE  [Gate!Next]_(Gate!vars)
<1> USE ConfigAssumption DEF locks, book, docs, locals, faults, Goto, ClearLocals
<1>1. CASE \E s \in Signals : FastTick(s)
  BY <1>1, QuietStep DEF FastTick, Typed, TypeOK
<1>2. CASE FastBlocked
  BY <1>2, QuietStep DEF FastBlocked, Typed, TypeOK
<1>3. CASE FastAllowed
  BY <1>3, QuietStep DEF FastAllowed, Typed, TypeOK
<1>4. CASE FastRead
  BY <1>4, QuietStep DEF FastRead, Typed, TypeOK
<1>5. CASE Broker("fast")
  BY <1>5, BrokerGate DEF Threads
<1>6. CASE Manage("fast")
  BY <1>6, ManageGate DEF Threads
<1> QED
  BY <1>1, <1>2, <1>3, <1>4, <1>5, <1>6 DEF Fast

\* Every step is a step of the gate or a stutter.
LEMMA StepGate ==
  ASSUME LimitEntry = {}, MaxGlitches = 0, Typed, PlacingInv, [Next]_vars
  PROVE  [Gate!Next]_(Gate!vars)
<1>1. CASE Review
  <2>1. CASE ReviewStarts
    BY <1>1, <2>1, QuietStep DEF Typed, TypeOK, locks, book, Goto, ReviewStarts
  <2>2. CASE Guardian("review")
    BY <2>2, GuardianGate DEF Threads
  <2> QED
    BY <1>1, <2>1, <2>2 DEF Review
<1>2. CASE Market
  BY <1>2, QuietStep DEF Market, PendingFills, StopHit, PlacingInv, locks
<1>3. CASE Crash
  <2>1. GateHolder' = None /\ positions' = positions /\ nextTicket' = nextTicket
    BY <1>3 DEF Crash, GateHolder, book
  <2> QED
    BY <2>1 DEF Gate!Next, Gate!Release, Gate!vars
<1>4. CASE UNCHANGED vars
  BY <1>4, QuietStep DEF vars, locks, book
<1>5. CASE Pipeline
  BY <1>5, PipelineGate
<1>6. CASE Fast
  BY <1>6, FastGateStep
<1> QED
  BY <1>1, <1>2, <1>3, <1>4, <1>5, <1>6 DEF Next

\* With market entries and a terminal that answers, order execution implements
\* the gate: the threads, the locks, the stale documents and the crashes never
\* let a position be opened where the account has no room for it.
THEOREM GateImplemented ==
  ASSUME LimitEntry = {}, MaxGlitches = 0
  PROVE  Spec => ImplementsGate
<1>1. Init => Gate!Init
  BY DEF Init, Gate!Init, GateHolder
<1>2. Spec => []Typed
  BY InitTyped, StepTyped, PTL DEF Spec
<1>3. Spec => []PlacingInv
  BY PlacingCorrect
<1>4. Typed /\ PlacingInv /\ [Next]_vars => [Gate!Next]_(Gate!vars)
  BY StepGate
<1> QED
  BY <1>1, <1>2, <1>3, <1>4, PTL DEF Spec, ImplementsGate, Gate!Spec

-----------------------------------------------------------------------------
(* The ledger of orders. With the pipeline as the only order path and a    *)
(* process that does not die, paper_orders.json together with the batch's  *)
(* own list is a complete record of what the broker accepted, and that     *)
(* completeness is what makes the executed ids of the next batch refuse    *)
(* every signal that was ever ordered. Neither half is inductive without   *)
(* the other.                                                              *)

\* The fast layer does not trade, the regime-flip replacement is off, the
\* process does not die and the terminal answers. Without each of them TLC
\* finds a lost record or a second order.
SingleWriter ==
  ~FastLive /\ ~RegimeFlipReplace /\ MaxCrashes = 0 /\ MaxGlitches = 0

\* The order list os holds the order p as submitted.
Recorded(p, os) ==
  \E r \in os : r.status \in Submitted /\ r.ticket = p.ticket /\ r.sig = p.sig

LoneWriter ==
  /\ pc["fast"] = "idle"
  /\ pc["review"] \in {"idle", "guardian", "guarding", "closing"}

\* Between reading paper_orders.json and writing it back, the copy is complete;
\* outside the batch the document is.
AllRecorded ==
  /\ pc["pipeline"] \notin {"batch", "sending", "writeOrders"} =>
       \A p \in issued : Recorded(p, ordersDoc)
  /\ pc["pipeline"] \in {"connect", "reversal", "reversing", "lock", "batch",
                         "sending", "writeOrders"} =>
       \A p \in issued : Recorded(p, orders["pipeline"])

\* What is still to be looked at has either never been ordered or is among the
\* executed ids of the batch; the signal being sent has never been ordered.
BatchKnows ==
  /\ pc["pipeline"] \notin {"batch", "sending", "writeOrders", "writePositions",
                            "disconnect"} =>
       executed["pipeline"] = {}
  /\ pc["pipeline"] \in {"batch", "sending"} =>
       \A p \in issued : p.sig \in todo["pipeline"] => p.sig \in executed["pipeline"]
  /\ pc["pipeline"] = "sending" =>
       /\ cur["pipeline"] \notin todo["pipeline"]
       /\ \A p \in issued : p.sig # cur["pipeline"]

LedgerInv == LoneWriter /\ AllRecorded /\ BatchKnows /\ AtMostOnce

\* A step of another thread, or of the market, that leaves the orders alone.
LEMMA LedgerQuiet ==
  ASSUME LedgerInv, LoneWriter', issued' = issued, ordersDoc' = ordersDoc,
         pc'["pipeline"] = pc["pipeline"], orders'["pipeline"] = orders["pipeline"],
         executed'["pipeline"] = executed["pipeline"],
         todo'["pipeline"] = todo["pipeline"], cur'["pipeline"] = cur["pipeline"]
  PROVE  LedgerInv'
BY DEF LedgerInv, AllRecorded, BatchKnows, AtMostOnce, Recorded

\* A pipeline step that orders nothing and stays outside the batch, with the
\* order list it has or a complete copy of the document.
LEMMA LedgerOutside ==
  ASSUME LedgerInv, LoneWriter', issued' = issued, ordersDoc' = ordersDoc,
         pc["pipeline"] \notin {"batch", "sending", "writeOrders"},
         pc'["pipeline"] \notin {"batch", "sending", "writeOrders"},
         pc'["pipeline"] \in {"connect", "reversal", "reversing", "lock"} =>
           \/ orders'["pipeline"] = ordersDoc
           \/ /\ orders'["pipeline"] = orders["pipeline"]
              /\ pc["pipeline"] \in {"connect", "reversal", "reversing", "lock"},
         pc'["pipeline"] \notin {"writePositions", "disconnect"} =>
           executed'["pipeline"] = {}
  PROVE  LedgerInv'
BY DEF LedgerInv, AllRecorded, BatchKnows, AtMostOnce, Recorded

\* A broker step of the pipeline keeps the ledger complete and every signal
\* ordered at most once.
LEMMA BrokerLedger ==
  ASSUME SingleWriter, Typed, LedgerInv, Broker("pipeline")
  PROVE  LedgerInv'
<1> DEFINE P == "pipeline"
<1>1. LoneWriter'
  <2>1. pc' = [pc EXCEPT ![P] = pc'[P]]
    BY ConfigAssumption DEF Broker, Typed, TypeOK, Goto, Connect, ConnectFails, BatchBegins,
       BatchBeginsBlind, BatchRefused, SkipSignal, SendOrder, RegimeFlipAborts,
       OrderAccepted, OrderRejected, OrderAnswerLost, BatchEnds, WriteOrders,
       WritePositions, Disconnect, Threads
  <2> QED
    BY <2>1 DEF LedgerInv, LoneWriter, Typed, TypeOK, Threads
<1> USE ConfigAssumption DEF locks, book, docs, locals, faults, Goto, ClearLocals, Threads
<1>2. CASE Connect(P)
  BY <1>1, <1>2, LedgerOutside DEF Connect, Typed, TypeOK, LedgerInv, BatchKnows
<1>3. CASE ConnectFails(P)
  BY <1>1, <1>3, LedgerOutside DEF ConnectFails, AfterExecution, Typed, TypeOK
<1>4. CASE BatchBegins(P)
  <2>1. executed'[P] = ExecutedIds(orders[P])
    BY <1>4 DEF BatchBegins, Typed, TypeOK, LedgerInv, BatchKnows
  <2>2. \A p \in issued : p.sig \in ExecutedIds(orders[P])
    BY <1>4 DEF BatchBegins, LedgerInv, AllRecorded, Recorded, ExecutedIds
  <2>3. /\ pc[P] = "lock" /\ pc'[P] = "batch"
        /\ UNCHANGED <<issued, ordersDoc, orders, todo>>
    BY <1>4 DEF BatchBegins, Typed, TypeOK
  <2> QED
    BY <1>1, <2>1, <2>2, <2>3 DEF LedgerInv, AllRecorded, BatchKnows, AtMostOnce, Recorded
<1>5. CASE BatchBeginsBlind(P)
  BY <1>5 DEF BatchBeginsBlind, SingleWriter, Typed, TypeOK
<1>6. CASE BatchRefused(P)
  BY <1>1, <1>6, LedgerOutside DEF BatchRefused, Typed, TypeOK
<1>7. CASE \E s \in Signals : SkipSignal(P, s)
  BY <1>1, <1>7 DEF SkipSignal, Typed, TypeOK, LedgerInv, AllRecorded, BatchKnows,
     AtMostOnce, Recorded
<1>8. CASE \E s \in Signals : SendOrder(P, s)
  <2>1. PICK s \in Signals : SendOrder(P, s)
    BY <1>8
  <2>2. /\ pc[P] = "batch" /\ pc'[P] = "sending" /\ cur'[P] = s
        /\ todo'[P] = todo[P] \ {s} /\ s \in todo[P] /\ s \notin executed[P]
        /\ UNCHANGED <<issued, ordersDoc, orders, executed>>
    BY <2>1 DEF SendOrder, Admissible, Typed, TypeOK
  <2> QED
    BY <1>1, <2>2 DEF LedgerInv, AllRecorded, BatchKnows, AtMostOnce, Recorded
<1>9. CASE \E s \in Signals : RegimeFlipAborts(P, s)
  BY <1>9 DEF RegimeFlipAborts, SingleWriter
<1>10. CASE OrderAccepted(P)
  <2> DEFINE p == [ticket |-> nextTicket, sig |-> cur[P]]
  <2>1. /\ pc[P] = "sending" /\ pc'[P] = "batch" /\ issued' = issued \cup {p}
        /\ UNCHANGED <<ordersDoc, executed, todo>>
    BY <1>10 DEF OrderAccepted, Typed, TypeOK
  <2>2. /\ \A r \in orders[P] : r \in orders'[P]
        /\ Recorded(p, orders'[P])
    <3> DEFINE r == [sig |-> cur[P], ticket |-> nextTicket,
                     status |-> IF cur[P] \in LimitEntry THEN "pending" ELSE "filled"]
    <3>1. orders'[P] = orders[P] \cup {r}
      BY <1>10 DEF OrderAccepted, Typed, TypeOK
    <3>2. r.status \in Submitted /\ r.ticket = p.ticket /\ r.sig = p.sig
      BY DEF Submitted
    <3> QED
      BY <3>1, <3>2 DEF Recorded
  <2> HIDE DEF locks, book, docs, locals, faults, Goto, ClearLocals
  <2>3. \A q \in issued' : Recorded(q, orders'[P])
    BY <2>1, <2>2 DEF LedgerInv, AllRecorded, Recorded
  <2>4. AtMostOnce'
    BY <2>1 DEF LedgerInv, BatchKnows, AtMostOnce
  <2>5. BatchKnows'
    BY <2>1 DEF LedgerInv, BatchKnows
  <2>6. AllRecorded'
    BY <2>1, <2>3 DEF AllRecorded
  <2> QED
    BY <1>1, <2>4, <2>5, <2>6 DEF LedgerInv
<1>11. CASE OrderRejected(P)
  <2>1. /\ pc[P] = "sending" /\ pc'[P] = "batch"
        /\ \A r \in orders[P] : r \in orders'[P]
        /\ UNCHANGED <<issued, ordersDoc, executed, todo>>
    BY <1>11 DEF OrderRejected, Typed, TypeOK
  <2> QED
    BY <1>1, <2>1 DEF LedgerInv, AllRecorded, BatchKnows, AtMostOnce, Recorded
<1>12. CASE OrderAnswerLost(P)
  BY <1>12 DEF OrderAnswerLost, SingleWriter, Typed, TypeOK
<1>13. CASE BatchEnds(P)
  BY <1>1, <1>13 DEF BatchEnds, Typed, TypeOK, LedgerInv, AllRecorded, BatchKnows,
     AtMostOnce, Recorded
<1>14. CASE WriteOrders(P)
  BY <1>1, <1>14 DEF WriteOrders, Typed, TypeOK, LedgerInv, AllRecorded, BatchKnows,
     AtMostOnce, Recorded
<1>15. CASE WritePositions(P)
  BY <1>1, <1>15, LedgerOutside DEF WritePositions, Typed, TypeOK
<1>16. CASE Disconnect(P)
  BY <1>1, <1>16, LedgerOutside DEF Disconnect, AfterExecution, Typed, TypeOK
<1> QED
  BY <1>2, <1>3, <1>4, <1>5, <1>6, <1>7, <1>8, <1>9, <1>10, <1>11, <1>12, <1>13, <1>14, <1>15, <1>16 DEF Broker

\* Every pipeline step does.
LEMMA PipelineLedger ==
  ASSUME SingleWriter, Typed, LedgerInv, Pipeline
  PROVE  LedgerInv'
<1> USE ConfigAssumption DEF locks, book, docs, locals, faults, Goto, ClearLocals, Threads,
        Typed, TypeOK, LoneWriter
<1>1. executed["pipeline"] = {} \/ pc["pipeline"] \in {"batch", "sending", "writeOrders",
                                                     "writePositions", "disconnect"}
  BY DEF LedgerInv, BatchKnows
<1>2. LoneWriter
  BY DEF LedgerInv
<1>3. CASE Verifying
  BY <1>1, <1>2, <1>3, LedgerOutside DEF Verifying, VerifySkips, VerifyConnects, VerifySyncs, Verify
<1>4. CASE GateRefuses
  BY <1>1, <1>2, <1>4, LedgerOutside DEF GateRefuses
<1>5. CASE ReadDocs
  BY <1>1, <1>2, <1>5, LedgerOutside DEF ReadDocs
<1>6. CASE DrainIntents
  BY <1>1, <1>2, <1>6, LedgerOutside DEF DrainIntents
<1>7. CASE DrainTakesLock
  BY <1>1, <1>2, <1>7, LedgerOutside DEF DrainTakesLock
<1>8. CASE DrainEnds
  BY <1>1, <1>2, <1>8, LedgerOutside DEF DrainEnds
<1>9. CASE DrainFindsNothing
  BY <1>1, <1>2, <1>9, LedgerOutside DEF DrainFindsNothing
<1>10. CASE \E p \in Position : ReversalSend(p)
  BY <1>1, <1>2, <1>10, LedgerOutside DEF ReversalSend
<1>11. CASE ReversalSent
  BY <1>1, <1>2, <1>11, LedgerOutside DEF ReversalSent
<1>12. CASE ReversalDone
  BY <1>1, <1>2, <1>12, LedgerOutside DEF ReversalDone
<1>13. CASE Broker("pipeline")
  <2> HIDE DEF Typed, LoneWriter
  <2> QED BY <1>13, BrokerLedger
<1>14. CASE Guardian("pipeline")
  BY <1>1, <1>2, <1>14, LedgerOutside DEF Guardian, GuardianSkipped, GuardianConnect,
     GuardianSent, GuardianEnd, GuardianSend, AfterGuardian
<1>15. CASE Manage("pipeline")
  BY <1>1, <1>2, <1>15, LedgerOutside DEF Manage, ManageSkipped, ManageConnect, ManageSend,
     ManageSent, ManageEnd
<1> QED
  BY <1>3, <1>4, <1>5, <1>6, <1>7, <1>8, <1>9, <1>10, <1>11, <1>12, <1>13, <1>14, <1>15 DEF Pipeline

\* Every step does: the fast thread never leaves idle, the reviewer and the
\* market only close.
LEMMA StepLedger ==
  ASSUME SingleWriter, Typed, LedgerInv, [Next]_vars
  PROVE  LedgerInv'
<1>1. LoneWriter /\ pc["fast"] = "idle"
  BY DEF LedgerInv, LoneWriter
<1>2. CASE Pipeline
  BY <1>2, PipelineLedger
<1>3. CASE Fast
  BY <1>1, <1>3 DEF SingleWriter, Fast, FastTick, FastBlocked, FastAllowed, FastRead,
     Broker, Connect, ConnectFails, BatchBegins, BatchBeginsBlind, BatchRefused,
     SkipSignal, SendOrder, RegimeFlipAborts, OrderAccepted, OrderRejected,
     OrderAnswerLost, BatchEnds, WriteOrders, WritePositions, Disconnect, Manage,
     ManageSkipped, ManageConnect, ManageSend, ManageSent, ManageEnd
<1>4. CASE Review
  BY <1>1, <1>4, LedgerQuiet DEF Review, ReviewStarts, Guardian, GuardianSkipped,
     GuardianConnect, GuardianSent, GuardianEnd, GuardianSend, AfterGuardian, LoneWriter,
     book, docs, locals, Goto, ClearLocals, Threads, Typed, TypeOK
<1>5. CASE Market
  BY <1>1, <1>5, LedgerQuiet DEF Market, PendingFills, StopHit, LoneWriter, book, docs,
     locals
<1>6. CASE Crash
  BY <1>6 DEF Crash, SingleWriter, Typed, TypeOK
<1>7. CASE UNCHANGED vars
  BY <1>1, <1>7, LedgerQuiet DEF vars, book, docs, locals, LoneWriter
<1> QED
  BY <1>2, <1>3, <1>4, <1>5, <1>6, <1>7 DEF Next

LEMMA LedgerCorrect ==
  ASSUME SingleWriter
  PROVE  Spec => []LedgerInv
<1>1. Init => LedgerInv
  BY DEF Init, LedgerInv, LoneWriter, AllRecorded, BatchKnows, AtMostOnce, Threads
<1>2. Spec => []Typed
  BY InitTyped, StepTyped, PTL DEF Spec
<1> QED
  BY <1>1, <1>2, StepLedger, PTL DEF Spec

\* With a single order path, no signal_id is ever ordered twice: stale
\* approvals executed again, a position that has closed in the meantime, a limit
\* order that still rests and a reversal do not make is_duplicate_position and
\* the executed ids forget it (mt5_broker.py:193-199).
THEOREM OrderedOnce ==
  ASSUME SingleWriter
  PROVE  Spec => []AtMostOnce
<1>1. LedgerInv => AtMostOnce
  BY DEF LedgerInv
<1> QED
  BY <1>1, LedgerCorrect, PTL

\* With a single order path, paper_orders.json and the running batch together
\* know every order the broker ever accepted.
THEOREM NothingUnrecorded ==
  ASSUME SingleWriter
  PROVE  Spec => []LedgerComplete
<1>1. LedgerInv => LedgerComplete
  BY DEF LedgerInv, AllRecorded, Recorded, LedgerComplete, Threads
<1> QED
  BY <1>1, LedgerCorrect, PTL
=============================================================================
