-------------------------- MODULE SignalPath_proofs --------------------------
(***************************************************************************)
(* Theorems about the way of a signal, for any number of cycles, failures  *)
(* and restarts, any limits and with the store on or off.                  *)
(***************************************************************************)
EXTENDS SignalPath, FiniteSetTheorems, TLAPS

USE ConfigAssumption DEF docs, hands, orders, history

-----------------------------------------------------------------------------
(* Types *)

\* Whoever places an order has a signal in hand; an order that was placed is one
\* of the last hour until it is recorded.
HandsFilled ==
  /\ pc = "place" => hand # 0
  /\ fast # "idle" => fsig # 0
  /\ fast \in {"persist", "record"} => fsig \in window

TypeInv == TypeOK /\ HandsFilled

LEMMA StoredTyped ==
  ASSUME TypeOK, NEW d \in Docs
  PROVE  Stored(d) \in Signal
BY DEF Stored, TypeOK

LEMMA CyclesAreSignals == Cycles = Signal \ {0} /\ 0 \in Signal
BY DEF Cycles, Signal

LEMMA PipelineTyped ==
  ASSUME TypeInv, Pipeline
  PROVE  TypeInv'
<1> USE DEF TypeInv, HandsFilled, Docs, PCs
<1>1. CASE SignalLoop \/ SignalSyncs
  <2>1. Proposals \subseteq Signal /\ Pruned \in [first : Signal, last : Signal]
    BY CyclesAreSignals DEF Proposals, Pruned, NotStaged, TypeOK
  <2> QED BY <1>1, <2>1 DEF SignalLoop, SignalSyncs, Saves, Syncs, TypeOK
<1>2. CASE Evaluates \/ EvaluateSyncs \/ RefreshesCache \/ CacheSyncs
  <2>1. Evaluations(Stored("candidates")) \subseteq Signal
    BY StoredTyped, CyclesAreSignals DEF Evaluations
  <2> QED
    BY <1>2, <2>1
    DEF Evaluates, EvaluateSyncs, RefreshesCache, CacheSyncs, Saves, Syncs, TypeOK
<1>3. CASE Verifies
  <2>1. ASSUME NEW drifted \in BOOLEAN, Touches(drifted)
        PROVE  staged' \in [first : Signal, last : Signal] /\ touched' \subseteq Cycles
    BY <2>1, CyclesAreSignals DEF Touches, TypeOK
  <2>2. staged' \in [first : Signal, last : Signal] /\ touched' \subseteq Cycles
    BY <1>3, <2>1 DEF Verifies, TypeOK
  <2>3. hand' \in Signal
    BY <1>3, StoredTyped, CyclesAreSignals DEF Verifies, Verdicts
  <2> QED BY <1>3, <2>2, <2>3 DEF Verifies, TypeOK
<1>4. CASE VerifierSaves \/ VerifierSyncs
  BY <1>4, CyclesAreSignals DEF VerifierSaves, VerifierSyncs, Saves, Syncs, TypeOK
<1>5. CASE ExecutionReturns \/ ExecutionReads \/ ExecutionPlaces
  <2>1. CASE ExecutionReturns \/ ExecutionReads
    BY <2>1, StoredTyped, CyclesAreSignals DEF ExecutionReturns, ExecutionReads, TypeOK
  <2>2. CASE ExecutionPlaces
    <3>1. staged' \in [first : Signal, last : Signal] /\ touched' \subseteq Cycles
      BY <2>2, CyclesAreSignals DEF ExecutionPlaces, NotStaged, TypeOK
    <3> QED BY <2>2, <3>1, CyclesAreSignals DEF ExecutionPlaces, TypeOK
  <2> QED BY <1>5, <2>1, <2>2
<1>6. CASE NextCycle
  BY <1>6 DEF NextCycle, TypeOK, Cycles
<1> QED BY <1>1, <1>2, <1>3, <1>4, <1>5, <1>6 DEF Pipeline

LEMMA FastTyped ==
  ASSUME TypeInv, Fast
  PROVE  TypeInv'
<1> USE DEF TypeInv, HandsFilled, FastPCs
<1>1. CASE FastTick
  BY <1>1, StoredTyped DEF FastTick, TypeOK, Docs
<1>2. CASE FastChecks \/ FastLooksUp \/ FastConnects \/ FastRefused
  BY <1>2 DEF FastChecks, FastLooksUp, FastConnects, FastRefused, TypeOK
<1>3. CASE FastPlaces \/ FastPersists
  BY <1>3, CyclesAreSignals DEF FastPlaces, FastPersists, TypeOK
<1>4. CASE FastRecords
  BY <1>4 DEF FastRecords, TypeOK
<1> QED BY <1>1, <1>2, <1>3, <1>4 DEF Fast

LEMMA FaultsTyped ==
  ASSUME TypeInv, LoopRaises \/ FastRaises \/ Restart \/ CacheExpires \/ HourPasses
  PROVE  TypeInv'
<1> USE DEF TypeInv, HandsFilled
<1>1. CASE LoopRaises
  BY <1>1, CyclesAreSignals
  DEF LoopRaises, NextLoop, Stage, Stages, TypeOK, PCs
<1>2. CASE FastRaises
  BY <1>2, CyclesAreSignals DEF FastRaises, Unrecorded, TypeOK, FastPCs
<1>3. CASE Restart
  <2>1. Unrecorded \subseteq Cycles /\ 0 \in Signal
    BY CyclesAreSignals DEF Unrecorded, TypeOK
  <2>2. cycle' \in Cycles
    BY <1>3 DEF Restart, TypeOK, Cycles
  <2>3. faults' \in 0..MaxFaults
    BY <1>3 DEF Restart, TypeOK
  <2> QED BY <1>3, <2>1, <2>2, <2>3 DEF Restart, TypeOK, FastPCs, PCs
<1>4. CASE CacheExpires \/ HourPasses
  BY <1>4 DEF CacheExpires, HourPasses, TypeOK
<1> QED BY <1>1, <1>2, <1>3, <1>4

LEMMA TypesInit == Init => TypeInv
<1>1. 1 \in Cycles /\ 0 \in 0..MaxFaults
  BY DEF Cycles
<1>2. [d \in Docs |-> 0] \in [Docs -> Signal] /\ NotStaged \in [first : Signal, last : Signal]
  BY CyclesAreSignals DEF NotStaged
<1> QED
  BY <1>1, <1>2, CyclesAreSignals
  DEF Init, TypeInv, HandsFilled, TypeOK, PCs, FastPCs

LEMMA TypesHold == Spec => []TypeInv
<1>1. Init => TypeInv
  BY TypesInit
<1>2. TypeInv /\ UNCHANGED vars => TypeInv'
  BY DEF TypeInv, HandsFilled, TypeOK, vars
<1>3. TypeInv /\ [Next]_vars => TypeInv'
  BY <1>2, PipelineTyped, FastTyped, FaultsTyped DEF Next
<1> QED BY <1>1, <1>3, PTL DEF Spec

\* The variables keep their types for any number of cycles, failures and restarts.
THEOREM TypeCorrect == Spec => []TypeOK
BY TypesHold, PTL DEF TypeInv

-----------------------------------------------------------------------------
(* The hourly limit *)

\* Every order of the hour has a record, unless it is about to be written or was
\* lost; a tick that has passed the limit leaves room for its own.
Counted ==
  /\ window \ lost \subseteq recorded \cup Unrecorded
  /\ Cardinality(recorded) <= MaxHour
  /\ fast # "idle" => Cardinality(recorded) < MaxHour

LEMMA FiniteRecords ==
  ASSUME TypeOK
  PROVE  /\ IsFiniteSet(window) /\ IsFiniteSet(recorded)
         /\ Cardinality(recorded) \in Nat
<1>1. IsFiniteSet(Cycles)
  BY FS_Interval DEF Cycles
<1>2. IsFiniteSet(window) /\ IsFiniteSet(recorded)
  BY <1>1, FS_Subset DEF TypeOK
<1> QED BY <1>2, FS_CardinalityType

LEMMA OneMore ==
  ASSUME TypeOK
  PROVE  /\ IsFiniteSet(recorded \cup {fsig})
         /\ Cardinality(recorded \cup {fsig}) \in Nat
         /\ Cardinality(recorded \cup {fsig}) <= Cardinality(recorded) + 1
<1>1. CASE fsig \in recorded
  <2>1. recorded \cup {fsig} = recorded
    BY <1>1
  <2> QED BY <2>1, FiniteRecords
<1>2. CASE fsig \notin recorded
  <2>1. IsFiniteSet(recorded \cup {fsig})
          /\ Cardinality(recorded \cup {fsig}) = Cardinality(recorded) + 1
    BY <1>2, FiniteRecords, FS_AddElement
  <2> QED BY <2>1, FiniteRecords
<1> QED BY <1>1, <1>2

LEMMA CountedStep == TypeInv /\ Counted /\ [Next]_vars => Counted'
<1> SUFFICES ASSUME TypeInv, Counted, [Next]_vars PROVE Counted'
  OBVIOUS
<1> USE DEF TypeInv, Counted, Unrecorded
<1>1. CASE Pipeline \/ LoopRaises \/ CacheExpires \/ UNCHANGED vars
  <2>1. UNCHANGED <<fast, fsig, recorded, window, lost>>
    BY <1>1
    DEF Pipeline, SignalLoop, SignalSyncs, Evaluates, EvaluateSyncs, RefreshesCache,
        CacheSyncs, Verifies, VerifierSaves, VerifierSyncs, ExecutionReturns,
        ExecutionReads, ExecutionPlaces, NextCycle, LoopRaises, CacheExpires, vars
  <2> QED BY <2>1
<1>2. CASE FastTick
  BY <1>2 DEF FastTick, RateOk
<1>3. CASE FastChecks \/ FastLooksUp \/ FastConnects \/ FastRefused \/ FastPlaces \/ FastPersists
  BY <1>3 DEF FastChecks, FastLooksUp, FastConnects, FastRefused, FastPlaces, FastPersists
<1>4. CASE FastRecords
  <2>1. Cardinality(recorded \cup {fsig}) <= MaxHour
    BY <1>4, OneMore, FiniteRecords DEF FastRecords
  <2>2. recorded' = recorded \cup {fsig} /\ fast' = "idle" /\ UNCHANGED <<window, lost>>
    BY <1>4 DEF FastRecords
  <2> QED BY <1>4, <2>1, <2>2 DEF FastRecords
<1>5. CASE FastRaises \/ Restart
  BY <1>5 DEF FastRaises, Restart
<1>6. CASE HourPasses
  <2>1. PICK s \in window :
          /\ ~(fast \in {"persist", "record"} /\ s = fsig)
          /\ window' = window \ {s}
          /\ recorded' = recorded \ {s}
          /\ lost' = lost \ {s}
    BY <1>6 DEF HourPasses
  <2>2. UNCHANGED <<fast, fsig>>
    BY <1>6 DEF HourPasses
  <2>3. Cardinality(recorded') <= Cardinality(recorded) /\ Cardinality(recorded') \in Nat
    BY <2>1, FiniteRecords, FS_Subset, FS_CardinalityType
  <2> QED BY <2>1, <2>2, <2>3, FiniteRecords
<1> QED BY <1>1, <1>2, <1>3, <1>4, <1>5, <1>6 DEF Next, Fast

\* Of the fast orders of an hour no more than the limit are counted or countable:
\* whatever is above it lost its record in a failure.
THEOREM RateHolds == Spec => []RateKept
<1>1. Init => Counted
  BY FS_EmptySet DEF Init, Counted, Unrecorded
<1>2. TypeInv /\ Counted => RateKept
  <2> SUFFICES ASSUME TypeInv, Counted PROVE RateKept
    OBVIOUS
  <2>2. CASE fast \in {"persist", "record"}
    <3>1. Cardinality(window \ lost) <= Cardinality(recorded \cup {fsig})
      BY <2>2, OneMore, FS_Subset DEF Counted, Unrecorded, TypeInv
    <3>2. Cardinality(window \ lost) \in Nat /\ Cardinality(recorded \cup {fsig}) \in Nat
      BY <2>2, OneMore, FS_Subset, FS_CardinalityType DEF Counted, Unrecorded, TypeInv
    <3> QED BY <2>2, OneMore, <3>1, <3>2, FiniteRecords DEF Counted, RateKept, TypeInv
  <2>3. CASE fast \notin {"persist", "record"}
    <3>1. window \ lost \subseteq recorded
      BY <2>3 DEF Counted, Unrecorded
    <3>2. Cardinality(window \ lost) <= Cardinality(recorded)
            /\ Cardinality(window \ lost) \in Nat
      BY <3>1, FiniteRecords, FS_Subset, FS_CardinalityType DEF TypeInv
    <3> QED BY <3>2, FiniteRecords DEF Counted, RateKept, TypeInv
  <2> QED BY <2>2, <2>3
<1> QED BY <1>1, <1>2, CountedStep, TypesHold, PTL DEF Spec

-----------------------------------------------------------------------------
(* Files and store *)

\* The stage that writes a document, and the steps at which this cycle has
\* written its file, and its table too.
Author(d) ==
  CASE d = "candidates" -> "signal" [] d = "approved" -> "verify" [] OTHER -> "evaluate"

Synced(d) ==
  CASE d = "candidates" -> PCs \ {"signal", "signalSync", "rest"}
    [] d = "evaluated"  -> {"cache", "cacheSync", "verify", "verifySave", "verifySync",
                            "execute", "place"}
    [] d = "cache"      -> {"verify", "verifySave", "verifySync", "execute", "place"}
    [] d = "approved"   -> {"execute", "place"}

Agree(d) == Store /\ pc \in Synced(d) /\ Author(d) \notin failed => mirror[d] = table[d]

LEMMA AgreeStep ==
  ASSUME TypeInv, NEW d \in Docs, Agree(d), [Next]_vars
  PROVE  Agree(d)'
<1> USE DEF TypeInv, TypeOK, Agree, Author, Synced, PCs, Docs
<1>1. CASE SignalLoop \/ SignalSyncs
  BY <1>1 DEF SignalLoop, SignalSyncs, Saves, Syncs
<1>2. CASE Evaluates \/ EvaluateSyncs \/ RefreshesCache \/ CacheSyncs
  BY <1>2 DEF Evaluates, EvaluateSyncs, RefreshesCache, CacheSyncs, Saves, Syncs
<1>3. CASE Verifies \/ VerifierSaves \/ VerifierSyncs
  BY <1>3 DEF Verifies, VerifierSaves, VerifierSyncs, Saves, Syncs
<1>4. CASE ExecutionReturns \/ ExecutionReads \/ ExecutionPlaces \/ NextCycle \/ Restart
  BY <1>4 DEF ExecutionReturns, ExecutionReads, ExecutionPlaces, NextCycle, Restart
<1>5. CASE LoopRaises
  BY <1>5 DEF LoopRaises, NextLoop, Stage
<1>6. CASE Fast \/ FastRaises \/ CacheExpires \/ HourPasses \/ UNCHANGED vars
  <2>1. UNCHANGED <<pc, mirror, table, failed>>
    BY <1>6
    DEF Fast, FastTick, FastChecks, FastLooksUp, FastConnects, FastPlaces, FastRefused,
        FastPersists, FastRecords, FastRaises, CacheExpires, HourPasses, vars
  <2> QED BY <2>1
<1> QED BY <1>1, <1>2, <1>3, <1>4, <1>5, <1>6 DEF Next, Pipeline

\* When the loops before it have finished, the execution loop finds the same
\* documents in files and store, whatever failed in any cycle before.
THEOREM MirrorsHold == Spec => []MirrorsAgree
<1> DEFINE Inv == \A d \in Docs : Agree(d)
<1>1. Init => Inv
  BY DEF Init, Agree, Synced, PCs, Docs
<1>2. TypeInv /\ Inv /\ [Next]_vars => Inv'
  BY AgreeStep
<1>3. TypeInv /\ Inv => MirrorsAgree
  BY DEF Agree, Synced, PCs, Docs, MirrorsAgree, TypeInv, TypeOK
<1> QED BY <1>1, <1>2, <1>3, TypesHold, PTL DEF Spec

-----------------------------------------------------------------------------
(* Orders of this cycle *)

\* The steps at which this cycle has written the file of a document.
Written(d) ==
  CASE d = "candidates" -> PCs \ {"signal", "rest"}
    [] d = "evaluated"  -> Synced(d) \cup {"evaluateSync"}
    [] d = "cache"      -> Synced(d) \cup {"cacheSync"}
    [] d = "approved"   -> Synced(d) \cup {"verifySync"}

\* Without a failed stage documents and hand hold a signal of this cycle or none.
OfCycle ==
  failed = {} =>
    /\ \A d \in Docs : pc \in Written(d) => mirror[d] \in {0, cycle}
    /\ pc \in {"verifySave", "place"} => hand \in {0, cycle}

Whole == TypeInv /\ OfCycle /\ \A d \in Docs : Agree(d)

LEMMA StoredOfCycle ==
  ASSUME Whole, failed = {}, NEW d \in Docs, pc \in Synced(d)
  PROVE  Stored(d) \in {0, cycle}
<1>1. pc \in Written(d)
  BY DEF Written, Synced, Docs
<1> QED BY <1>1 DEF Whole, OfCycle, Agree, Stored

LEMMA OfCycleStep ==
  ASSUME Whole, [Next]_vars
  PROVE  OfCycle'
<1> SUFFICES ASSUME failed' = {} PROVE OfCycle'
  BY DEF OfCycle
<1> USE DEF Whole, OfCycle, TypeInv, TypeOK, Written, Synced, PCs, Docs
<1>1. CASE SignalLoop \/ SignalSyncs
  BY <1>1 DEF SignalLoop, SignalSyncs, Saves, Syncs, Proposals
<1>2. CASE Evaluates
  <2>1. Stored("candidates") \in {0, cycle}
    BY <1>2, StoredOfCycle DEF Evaluates
  <2> QED BY <1>2, <2>1 DEF Evaluates, Saves, Evaluations
<1>3. CASE EvaluateSyncs \/ RefreshesCache \/ CacheSyncs
  BY <1>3 DEF EvaluateSyncs, RefreshesCache, CacheSyncs, Saves, Syncs
<1>4. CASE Verifies
  <2>1. Stored("evaluated") \in {0, cycle}
    BY <1>4, StoredOfCycle DEF Verifies
  <2> QED BY <1>4, <2>1 DEF Verifies, Verdicts
<1>5. CASE VerifierSaves \/ VerifierSyncs
  BY <1>5 DEF VerifierSaves, VerifierSyncs, Saves, Syncs
<1>6. CASE ExecutionReads
  <2>1. Stored("approved") \in {0, cycle}
    BY <1>6, StoredOfCycle DEF ExecutionReads
  <2> QED BY <1>6, <2>1 DEF ExecutionReads
<1>7. CASE ExecutionReturns \/ ExecutionPlaces \/ NextCycle \/ Restart
  BY <1>7 DEF ExecutionReturns, ExecutionPlaces, NextCycle, Restart
<1>8. CASE LoopRaises
  BY <1>8 DEF LoopRaises
<1>9. CASE Fast \/ FastRaises \/ CacheExpires \/ HourPasses \/ UNCHANGED vars
  <2>1. UNCHANGED <<pc, cycle, hand, mirror, failed>>
    BY <1>9
    DEF Fast, FastTick, FastChecks, FastLooksUp, FastConnects, FastPlaces, FastRefused,
        FastPersists, FastRecords, FastRaises, CacheExpires, HourPasses, vars
  <2> QED BY <2>1
<1> QED BY <1>1, <1>2, <1>3, <1>4, <1>5, <1>6, <1>7, <1>8, <1>9 DEF Next, Pipeline

LEMMA WholeHolds == Spec => []Whole
<1>1. Init => Whole
  BY TypesInit DEF Init, Whole, OfCycle, Agree, Synced, Written, PCs, Docs
<1>2. Whole /\ [Next]_vars => OfCycle' /\ \A d \in Docs : Agree(d)'
  BY OfCycleStep, AgreeStep DEF Whole
<1>3. Whole /\ TypeInv' /\ [Next]_vars => Whole'
  BY <1>2 DEF Whole
<1> QED BY <1>1, <1>3, TypesHold, PTL DEF Spec

\* The pipeline orders a signal of an earlier cycle only when a stage of the
\* present one has failed.
THEOREM OrdersFresh == Spec => FreshOrders
<1>1. Whole /\ [Next]_vars => (PipelineOrders => hand = cycle \/ failed # {})
  <2> SUFFICES ASSUME Whole, [Next]_vars, PipelineOrders, failed = {} PROVE hand = cycle
    OBVIOUS
  <2>1. pc = "place"
    BY DEF PipelineOrders
  <2> QED BY <2>1 DEF Whole, OfCycle, TypeInv, HandsFilled
<1> QED BY <1>1, WholeHolds, PTL DEF Spec, FreshOrders

-----------------------------------------------------------------------------
(* What the fast thread has checked *)

Bounded ==
  /\ \A d \in Docs : mirror[d] <= cycle /\ table[d] <= cycle
  /\ hand <= cycle /\ fsig <= cycle

\* A signal of this cycle is approved only once the verifier has written it.
ApprovedLate ==
  /\ mirror["approved"] = cycle => pc \in {"verifySync", "execute", "place", "rest"}
  /\ table["approved"] = cycle => pc \in {"execute", "place", "rest"}

\* While the fast thread looks its signal up, a signal of this cycle stays
\* approved; one of an earlier cycle is withdrawn only after the evaluated signals
\* have been replaced.
Asked ==
  /\ dirty \/ failed = {}
  /\ fast = "lookup" /\ fsig = cycle => Stored("approved") = fsig
  /\ fast = "lookup" => Stored("approved") = fsig \/ Stored("evaluated") # fsig \/ dirty

LEMMA BoundedStep ==
  ASSUME TypeInv, TypeInv', Bounded, [Next]_vars
  PROVE  Bounded'
<1> USE DEF TypeInv, TypeOK, Bounded, Docs
<1>1. cycle \in Nat /\ cycle # 0 /\ cycle' \in Nat /\ Signal \subseteq Nat
  BY DEF Cycles, Signal
<1>2. \A d \in Docs : Stored(d) <= cycle
  BY DEF Stored
<1>3. CASE SignalLoop \/ SignalSyncs
  BY <1>1, <1>3 DEF SignalLoop, SignalSyncs, Saves, Syncs, Proposals
<1>4. CASE Evaluates \/ EvaluateSyncs \/ RefreshesCache \/ CacheSyncs
  <2>1. CASE Evaluates
    <3>1. PICK s \in Evaluations(Stored("candidates")) :
            mirror' = [mirror EXCEPT !["evaluated"] = s]
      BY <2>1 DEF Evaluates, Saves
    <3>2. s <= cycle
      BY <1>1, <1>2, <3>1 DEF Evaluations
    <3>3. UNCHANGED <<cycle, table, hand, fsig>>
      BY <2>1 DEF Evaluates
    <3>4. \A d \in Docs : mirror'[d] <= cycle
      BY <3>1, <3>2
    <3> QED BY <3>3, <3>4
  <2>2. CASE EvaluateSyncs
    BY <1>1, <2>2 DEF EvaluateSyncs, Syncs
  <2>3. CASE RefreshesCache
    BY <1>1, <2>3 DEF RefreshesCache, Saves
  <2>4. CASE CacheSyncs
    BY <1>1, <2>4 DEF CacheSyncs, Syncs
  <2> QED BY <1>4, <2>1, <2>2, <2>3, <2>4
<1>5. CASE Verifies
  BY <1>1, <1>2, <1>5 DEF Verifies, Verdicts
<1>6. CASE VerifierSaves \/ VerifierSyncs
  BY <1>1, <1>6 DEF VerifierSaves, VerifierSyncs, Saves, Syncs
<1>7. CASE ExecutionReturns \/ ExecutionReads \/ ExecutionPlaces \/ LoopRaises
  <2>1. /\ hand' \in {hand, 0, Stored("approved")}
        /\ UNCHANGED <<cycle, mirror, table, fsig>>
    BY <1>7 DEF ExecutionReturns, ExecutionReads, ExecutionPlaces, LoopRaises, docs, hands
  <2>2. hand' <= cycle
    BY <1>1, <1>2, <2>1
  <2> QED BY <2>1, <2>2
<1>8. CASE NextCycle \/ Restart
  <2>1. cycle' = cycle + 1 /\ hand' \in {hand, 0} /\ UNCHANGED <<mirror, table, fsig>>
    BY <1>8 DEF NextCycle, Restart
  <2>2. /\ \A d \in Docs : mirror[d] \in Nat /\ table[d] \in Nat
        /\ hand \in Nat /\ fsig \in Nat
    BY <1>1
  <2> QED BY <1>1, <2>1, <2>2
<1>9. CASE Fast \/ FastRaises \/ CacheExpires \/ HourPasses \/ UNCHANGED vars
  <2>1. UNCHANGED <<cycle, hand, mirror, table>> /\ fsig' \in {fsig, Stored("cache")}
    BY <1>9
    DEF Fast, FastTick, FastChecks, FastLooksUp, FastConnects, FastPlaces, FastRefused,
        FastPersists, FastRecords, FastRaises, CacheExpires, HourPasses, vars
  <2> QED BY <1>1, <1>2, <2>1
<1> QED BY <1>3, <1>4, <1>5, <1>6, <1>7, <1>8, <1>9 DEF Next, Pipeline

LEMMA ApprovedLateStep ==
  ASSUME TypeInv, Bounded, ApprovedLate, [Next]_vars
  PROVE  ApprovedLate'
<1> USE DEF TypeInv, TypeOK, Bounded, ApprovedLate, Docs, PCs
<1>1. CASE SignalLoop \/ SignalSyncs \/ Evaluates \/ EvaluateSyncs
  BY <1>1 DEF SignalLoop, SignalSyncs, Evaluates, EvaluateSyncs, Saves, Syncs
<1>2. CASE RefreshesCache \/ CacheSyncs \/ Verifies \/ VerifierSaves \/ VerifierSyncs
  BY <1>2 DEF RefreshesCache, CacheSyncs, Verifies, VerifierSaves, VerifierSyncs, Saves, Syncs
<1>3. CASE ExecutionReturns \/ ExecutionReads \/ ExecutionPlaces
  BY <1>3 DEF ExecutionReturns, ExecutionReads, ExecutionPlaces
<1>4. CASE NextCycle \/ Restart
  <2>1. cycle' = cycle + 1 /\ UNCHANGED <<mirror, table>>
    BY <1>4 DEF NextCycle, Restart
  <2>2. mirror["approved"] \in Nat /\ table["approved"] \in Nat /\ cycle \in Nat
    BY DEF Signal, Cycles
  <2>3. mirror["approved"] <= cycle /\ table["approved"] <= cycle
    OBVIOUS
  <2> QED BY <2>1, <2>2, <2>3
<1>5. CASE LoopRaises
  BY <1>5 DEF LoopRaises, NextLoop, Stage
<1>6. CASE Fast \/ FastRaises \/ CacheExpires \/ HourPasses \/ UNCHANGED vars
  <2>1. UNCHANGED <<pc, cycle, mirror, table>>
    BY <1>6
    DEF Fast, FastTick, FastChecks, FastLooksUp, FastConnects, FastPlaces, FastRefused,
        FastPersists, FastRecords, FastRaises, CacheExpires, HourPasses, vars
  <2> QED BY <2>1
<1> QED BY <1>1, <1>2, <1>3, <1>4, <1>5, <1>6 DEF Next, Pipeline

LEMMA AskedStep ==
  ASSUME Whole, Whole', Bounded, ApprovedLate, Asked, [Next]_vars
  PROVE  Asked'
<1> USE DEF Asked
<1>1. fast = "lookup" => fsig # 0
  BY DEF Whole, TypeInv, HandsFilled
<1>2. CASE SignalLoop \/ SignalSyncs \/ RefreshesCache \/ CacheSyncs \/ Verifies
  <2>1. UNCHANGED <<cycle, failed, dirty, fast, fsig>>
    BY <1>2 DEF SignalLoop, SignalSyncs, RefreshesCache, CacheSyncs, Verifies
  <2>2. UNCHANGED <<mirror["approved"], table["approved"],
                    mirror["evaluated"], table["evaluated"]>>
    BY <1>2
    DEF SignalLoop, SignalSyncs, RefreshesCache, CacheSyncs, Verifies, Saves, Syncs,
        Whole, TypeInv, TypeOK, Docs
  <2> QED BY <2>1, <2>2 DEF Stored
<1>3. CASE Evaluates \/ EvaluateSyncs
  <2>1. /\ UNCHANGED <<cycle, failed, dirty, fast, fsig>>
        /\ Stored("approved")' = Stored("approved")
    BY <1>3
    DEF Evaluates, EvaluateSyncs, Saves, Syncs, Stored, Whole, TypeInv, TypeOK, Docs
  <2>2. CASE Stored("evaluated")' = Stored("evaluated")
    BY <2>1, <2>2
  <2>3. CASE Stored("evaluated")' # Stored("evaluated") /\ failed = {}
    <3>1. Stored("evaluated")' = mirror["evaluated"]' /\ pc' \in Written("evaluated")
      BY <1>3, <2>3
      DEF Evaluates, EvaluateSyncs, Saves, Syncs, Stored, Written, Synced,
          Whole, TypeInv, TypeOK, Docs
    <3>2. Stored("evaluated")' \in {0, cycle}
      BY <2>1, <2>3, <3>1 DEF Whole, OfCycle, Written, Synced, Docs
    <3> QED BY <1>1, <2>1, <3>2
  <2> QED BY <2>1, <2>2, <2>3
<1>4. CASE VerifierSaves \/ VerifierSyncs
  <2>1. /\ UNCHANGED <<cycle, failed, fast, fsig>>
        /\ Stored("evaluated")' = Stored("evaluated")
        /\ dirty' \in BOOLEAN /\ (~dirty' => failed = {})
        /\ dirty' # dirty => pc = "verifySync"
    BY <1>4
    DEF VerifierSaves, VerifierSyncs, Saves, Syncs, Stored, Whole, TypeInv, TypeOK, Docs
  <2>2. fast = "lookup" /\ fsig = cycle => Stored("approved")' = fsig
    <3>1. CASE Stored("approved")' = Stored("approved")
      BY <2>1, <3>1
    <3>2. CASE Stored("approved")' # Stored("approved")
      BY <1>4, <3>2
      DEF VerifierSaves, VerifierSyncs, Saves, Syncs, Stored, ApprovedLate,
          Whole, TypeInv, TypeOK, Docs
    <3> QED BY <3>1, <3>2
  <2>3. failed = {} => Stored("evaluated") \in {0, cycle}
    BY <1>4, StoredOfCycle DEF VerifierSaves, VerifierSyncs, Syncs, Synced, Docs
  <2> QED BY <1>1, <2>1, <2>2, <2>3
<1>5. CASE ExecutionReturns \/ ExecutionReads \/ ExecutionPlaces
  <2>1. UNCHANGED <<cycle, mirror, table, failed, dirty, fast, fsig>>
    BY <1>5 DEF ExecutionReturns, ExecutionReads, ExecutionPlaces
  <2> QED BY <2>1 DEF Stored
<1>6. CASE NextCycle
  <2>1. cycle' = cycle + 1 /\ failed' = {} /\ UNCHANGED <<mirror, table, dirty, fast, fsig>>
    BY <1>6 DEF NextCycle
  <2>2. fsig' # cycle'
    BY <2>1 DEF Bounded, Whole, TypeInv, TypeOK, Signal, Cycles
  <2> QED BY <2>1, <2>2 DEF Stored
<1>7. CASE LoopRaises
  <2>1. dirty' = TRUE /\ UNCHANGED <<cycle, mirror, table, fast, fsig>>
    BY <1>7 DEF LoopRaises
  <2> QED BY <2>1 DEF Stored
<1>8. CASE Restart
  BY <1>8 DEF Restart
<1>9. CASE Fast \/ FastRaises \/ CacheExpires \/ HourPasses \/ UNCHANGED vars
  <2>1. UNCHANGED <<cycle, mirror, table, failed, dirty>>
          /\ (fast' = "lookup" =>
                \/ UNCHANGED <<fast, fsig>>
                \/ fsig' = fsig /\ Stored("approved") = fsig)
    BY <1>9
    DEF Fast, FastTick, FastChecks, FastLooksUp, FastConnects, FastPlaces, FastRefused,
        FastPersists, FastRecords, FastRaises, CacheExpires, HourPasses, vars
  <2> QED BY <2>1 DEF Stored
<1> QED BY <1>2, <1>3, <1>4, <1>5, <1>6, <1>7, <1>8, <1>9 DEF Next, Pipeline

\* The fast thread takes its signal to the terminal only while that signal is the
\* approved one, although it reads approval and evaluation at different moments,
\* unless a stage has failed since the last whole cycle.
THEOREM FastHolds == Spec => FastChecked
<1> DEFINE Inv == Bounded /\ ApprovedLate /\ Asked
<1>1. Init => Inv
  BY DEF Init, Bounded, ApprovedLate, Asked, Docs
<1>2. Whole /\ Whole' /\ Inv /\ [Next]_vars => Inv'
  BY BoundedStep, ApprovedLateStep, AskedStep DEF Whole
<1>3. Inv /\ [Next]_vars =>
        (fast = "lookup" /\ fast' = "connect" => Stored("approved") = fsig \/ dirty)
  <2> SUFFICES ASSUME Inv, [Next]_vars, fast = "lookup", fast' = "connect"
               PROVE  Stored("evaluated") = fsig
    BY DEF Asked
  <2>1. CASE Pipeline \/ LoopRaises \/ CacheExpires \/ HourPasses \/ UNCHANGED vars
    <3>1. fast' = fast
      BY <2>1
      DEF Pipeline, SignalLoop, SignalSyncs, Evaluates, EvaluateSyncs, RefreshesCache,
          CacheSyncs, Verifies, VerifierSaves, VerifierSyncs, ExecutionReturns,
          ExecutionReads, ExecutionPlaces, NextCycle, LoopRaises, CacheExpires,
          HourPasses, vars
    <3> QED BY <3>1
  <2>2. CASE Fast \/ FastRaises \/ Restart
    BY <2>2
    DEF Fast, FastTick, FastChecks, FastLooksUp, FastConnects, FastPlaces, FastRefused,
        FastPersists, FastRecords, FastRaises, Restart
  <2> QED BY <2>1, <2>2 DEF Next
<1> QED BY <1>1, <1>2, <1>3, WholeHolds, PTL DEF Spec, FastChecked

-----------------------------------------------------------------------------
(* The confirmation time *)

\* The sights of a staged signal lie between its first and its last, none further
\* from the next than rows are kept unless the signal loop failed in between.
Rows ==
  IF staged.first = 0 THEN staged = NotStaged /\ touched = {}
  ELSE /\ staged.first \in touched /\ staged.last \in touched
       /\ staged.last <= cycle
       /\ \A c \in touched : staged.first <= c /\ c <= staged.last
       /\ \A c \in touched \ {staged.last} : \E d \in touched :
            d > c /\ (d - c <= Keep \/ d \in unpruned)

\* After the signal loop of this cycle no row is too old, and a signal that is
\* about to be approved has waited since its first sight.
Timely ==
  /\ pc \notin {"signal", "rest"} /\ cycle \notin unpruned /\ staged.first # 0
       => cycle - staged.last <= Keep
  /\ pc = "verifySave" /\ hand # 0
       => staged.first # 0 /\ staged.last = cycle /\ cycle - staged.first >= Confirm

LEMMA RowsStep ==
  ASSUME TypeInv, Rows, Timely, [Next]_vars
  PROVE  Rows' /\ Timely'
<1> USE DEF TypeInv, TypeOK
<1>1. cycle \in Nat /\ cycle # 0 /\ touched \subseteq Nat /\ Signal \subseteq Nat
  BY DEF Cycles, Signal
<1>2. CASE SignalLoop
  <2>1. /\ pc = "signal" /\ pc' = "signalSync" /\ UNCHANGED <<cycle, unpruned>>
        /\ staged' = Pruned
        /\ touched' = IF Pruned = NotStaged THEN {} ELSE touched
    BY <1>2 DEF SignalLoop, Saves
  <2>2. CASE Pruned = NotStaged
    BY <2>1, <2>2 DEF Rows, Timely, NotStaged
  <2>3. CASE Pruned # NotStaged
    <3>1. staged' = staged /\ touched' = touched /\ staged.first # 0
            /\ ~(cycle - staged.last > Keep)
      BY <2>1, <2>3 DEF Pruned, Rows
    <3>2. Rows'
      BY <2>1, <3>1 DEF Rows
    <3>3. cycle - staged.last <= Keep
      <4>1. staged.last \in Nat
        BY <1>1
      <4>2. Keep \in Nat
        BY ConfigAssumption
      <4> HIDE DEF TypeInv, TypeOK
      <4> QED BY <1>1, <3>1, <4>1, <4>2
    <3>4. cycle' - staged'.last <= Keep
      BY <2>1, <3>1, <3>3
    <3>5. Timely'
      BY <2>1, <3>4 DEF Timely
    <3> QED BY <3>2, <3>5
  <2> QED BY <2>2, <2>3
<1>3. CASE Verifies
  <2>1. pc = "verify" /\ pc' = "verifySave" /\ UNCHANGED <<cycle, unpruned>>
    BY <1>3 DEF Verifies
  <2>2. CASE UNCHANGED <<staged, touched>> /\ hand' = 0
    BY <2>1, <2>2 DEF Rows, Timely
  <2>3. ASSUME NEW drifted \in BOOLEAN, Touches(drifted),
               hand' \in Verdicts(Stored("evaluated"))
        PROVE  Rows' /\ Timely'
    <3>1. CASE staged.first = 0 \/ drifted
      <4>1. staged' = [first |-> cycle, last |-> cycle] /\ touched' = {cycle}
        BY <2>3, <3>1 DEF Touches
      <4>2. Rows'
        BY <1>1, <2>1, <4>1 DEF Rows
      <4>3. Timely'
        BY <1>1, <2>1, <2>3, <4>1 DEF Timely, Verdicts, Confirmed
      <4> QED BY <4>2, <4>3
    <3>2. CASE ~(staged.first = 0 \/ drifted)
      <4>1. staged' = [staged EXCEPT !.last = cycle] /\ touched' = touched \cup {cycle}
        BY <2>3, <3>2 DEF Touches
      <4>2. staged'.first = staged.first /\ staged'.last = cycle
        BY <4>1
      <4>3. staged.last <= cycle /\ (cycle - staged.last <= Keep \/ cycle \in unpruned)
        BY <2>1, <3>2 DEF Rows, Timely
      <4>4. ASSUME NEW c \in touched' \ {cycle}
            PROVE  \E d \in touched' : d > c /\ (d - c <= Keep \/ d \in unpruned)
        <5>1. CASE c = staged.last
          <6>1. c \in Nat /\ c < cycle
            BY <1>1, <4>1, <4>3, <4>4, <5>1
          <6> QED BY <1>1, <4>1, <4>3, <5>1, <6>1
        <5>2. CASE c # staged.last
          BY <3>2, <4>1, <4>4, <5>2 DEF Rows
        <5> QED BY <5>1, <5>2
      <4>5. \A c \in touched' : staged.first <= c /\ c <= cycle
        BY <1>1, <3>2, <4>1, <4>3 DEF Rows
      <4>6. Rows'
        BY <2>1, <3>2, <4>1, <4>2, <4>4, <4>5, <1>1 DEF Rows
      <4>7. Timely'
        BY <1>1, <2>1, <2>3, <3>2, <4>2 DEF Timely, Verdicts, Confirmed
      <4> QED BY <4>6, <4>7
    <3> QED BY <3>1, <3>2
  <2> QED BY <1>3, <2>2, <2>3 DEF Verifies
<1>4. CASE NextCycle \/ Restart
  <2>1. cycle' = cycle + 1 /\ pc' = "signal" /\ UNCHANGED <<staged, touched, unpruned>>
    BY <1>4 DEF NextCycle, Restart
  <2>2. staged.last \in Nat
    BY <1>1
  <2> QED BY <1>1, <2>1, <2>2 DEF Rows, Timely
<1>5. CASE LoopRaises
  <2>1. /\ UNCHANGED <<cycle, staged, touched>> /\ unpruned \subseteq unpruned'
        /\ pc = "signal" => cycle \in unpruned'
        /\ pc' # "verifySave" /\ pc # "rest"
    BY <1>5 DEF LoopRaises, NextLoop, Stage
  <2>2. Rows'
    BY <2>1 DEF Rows
  <2> QED BY <2>1, <2>2 DEF Timely
<1>6. CASE SignalSyncs \/ Evaluates \/ EvaluateSyncs \/ RefreshesCache \/ CacheSyncs
           \/ VerifierSaves \/ VerifierSyncs
           \/ ExecutionReturns \/ ExecutionReads
  <2>1. /\ UNCHANGED <<cycle, staged, touched, unpruned>>
        /\ pc \notin {"signal", "rest"} /\ pc' # "verifySave"
    BY <1>6
    DEF SignalSyncs, Evaluates, EvaluateSyncs, RefreshesCache, CacheSyncs, VerifierSaves,
        VerifierSyncs, ExecutionReturns, ExecutionReads, Saves, Syncs
  <2> QED BY <2>1 DEF Rows, Timely
<1>7. CASE ExecutionPlaces
  <2>1. pc' = "rest" /\ UNCHANGED <<cycle, unpruned>>
    BY <1>7 DEF ExecutionPlaces
  <2>2. Timely'
    BY <2>1 DEF Timely
  <2>3. CASE UNCHANGED <<staged, touched>>
    BY <2>1, <2>2, <2>3 DEF Rows
  <2>4. CASE staged' = NotStaged /\ touched' = {}
    BY <2>2, <2>4 DEF Rows, NotStaged
  <2> QED BY <1>7, <2>3, <2>4 DEF ExecutionPlaces
<1>8. CASE Fast \/ FastRaises \/ CacheExpires \/ HourPasses \/ UNCHANGED vars
  <2>1. UNCHANGED <<pc, cycle, hand, staged, touched, unpruned>>
    BY <1>8
    DEF Fast, FastTick, FastChecks, FastLooksUp, FastConnects, FastPlaces, FastRefused,
        FastPersists, FastRecords, FastRaises, CacheExpires, HourPasses, vars
  <2> QED BY <2>1 DEF Rows, Timely
<1> QED BY <1>2, <1>3, <1>4, <1>5, <1>6, <1>7, <1>8 DEF Next, Pipeline

\* What the verifier approves was first seen the confirmation time ago and seen
\* again and again since, for any confirmation time and any age rows are kept.
THEOREM ConfirmationHolds == Spec => []ConfirmedSteadily
<1>1. Init => Rows /\ Timely
  BY DEF Init, Rows, Timely, NotStaged
<1>2. TypeInv /\ Rows /\ Timely /\ [Next]_vars => Rows' /\ Timely'
  BY RowsStep
<1>3. Rows /\ Timely => ConfirmedSteadily
  BY DEF Rows, Timely, ConfirmedSteadily
<1> QED BY <1>1, <1>2, <1>3, TypesHold, PTL DEF Spec
=============================================================================
