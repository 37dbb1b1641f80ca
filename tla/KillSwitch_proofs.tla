------------------------- MODULE KillSwitch_proofs -------------------------
(***************************************************************************)
(* Theorems about the kill switch, for every configuration and every bound *)
(* of days, holds, unblocks and faults.                                    *)
(***************************************************************************)
EXTENDS KillSwitch, TLAPS

USE DEF Goto

-----------------------------------------------------------------------------
(* Types *)

LEMMA SwitchValues ==
  /\ Off \in Switch /\ Missing \in Switch
  /\ [Off EXCEPT !.on = RiskHold] \in Switch
  /\ \A why \in Reasons : On(why) \in Switch
BY ConfigAssumption DEF Off, Missing, On, Switch, Reasons

LEMMA ReadsSwitch ==
  ASSUME TypeOK, NEW default \in Switch, ReadsInto(default)
  PROVE  seen' \in Switch /\ faults' \in 0..MaxFaults
BY ConfigAssumption DEF TypeOK, ReadsInto, CannotRead

LEMMA ReadsDoc ==
  ASSUME TypeOK, NEW doc \in Documents, NEW found \in PCs, NEW default \in PCs,
         GateReadsDoc(doc, found, default)
  PROVE  /\ pc' \in {found, default} /\ faults' \in 0..MaxFaults
         /\ unread' \in SUBSET Documents /\ hitSince' \in BOOLEAN
<1>1. \A lost \in SUBSET Documents :
        Remembers(lost) => unread' \in SUBSET Documents /\ hitSince' \in BOOLEAN
  BY DEF Remembers, TypeOK
<1>2. unread \in SUBSET Documents /\ unread \cup {doc} \in SUBSET Documents
  BY DEF TypeOK
<1>3. unread' \in SUBSET Documents /\ hitSince' \in BOOLEAN
  BY <1>1, <1>2 DEF GateReadsDoc
<1>4. pc' \in {found, default} /\ faults' \in 0..MaxFaults
  BY ConfigAssumption DEF TypeOK, GateReadsDoc, CannotRead
<1> QED BY <1>3, <1>4

LEMMA EvaluatedSwitch ==
  ASSUME NEW k \in Switch
  PROVE  Evaluated(k) \in Switch
BY SwitchValues DEF Evaluated, Reasons

LEMMA TypeStep == TypeOK /\ [Next]_vars => TypeOK'
<1> SUFFICES ASSUME TypeOK, [Next]_vars PROVE TypeOK'
  OBVIOUS
<1> USE SwitchValues
<1>1. CASE UNCHANGED vars
  BY <1>1 DEF TypeOK, vars, docs, locals, world, history, counts
<1>2. CASE RiskReads
  BY <1>2, ReadsSwitch DEF RiskReads, TypeOK, PCs, docs, world, history
<1>3. CASE RiskEvaluates
  BY <1>3, EvaluatedSwitch DEF RiskEvaluates, TypeOK, PCs, world, history, counts
<1>4. CASE RiskSavesState \/ RiskSavesSwitch
  BY <1>4 DEF RiskSavesState, RiskSavesSwitch, TypeOK, PCs, Switch, world, history, counts
<1>5. CASE VerifierReads \/ GateReads \/ GuardianReads
  <2>1. CASE GateReads
    <3>1. unread' \in SUBSET Documents
      BY <2>1 DEF GateReads, Documents
    <3> QED BY <2>1, <3>1, ReadsSwitch DEF GateReads, TypeOK, PCs, docs, world
  <2>2. CASE VerifierReads \/ GuardianReads
    BY <2>2, ReadsSwitch
    DEF VerifierReads, GuardianReads, TypeOK, PCs, docs, world, history
  <2> QED BY <1>5, <2>1, <2>2
<1>6. CASE VerifierSaves
  BY <1>6 DEF VerifierSaves, TypeOK, PCs, world, history, counts
<1>7. CASE GateRollsOver
  <2>1. apart' \in BOOLEAN
    BY <1>7 DEF GateRollsOver
  <2> QED BY <1>7, <2>1, ConfigAssumption DEF GateRollsOver, TypeOK, PCs, world, counts
<1>8. CASE GateTestsSwitch \/ GateTestsRiskState \/ PauseTested \/ Places
  <2>1. CASE GateTestsSwitch \/ Places
    <3>1. unread' \in SUBSET Documents /\ hitSince' \in BOOLEAN
      BY <2>1 DEF GateTestsSwitch, Places, Remembers, TypeOK
    <3> QED BY <2>1, <3>1 DEF GateTestsSwitch, Places, TypeOK, PCs, docs, world, counts
  <2>2. CASE GateTestsRiskState
    BY <2>2, ReadsDoc DEF GateTestsRiskState, Documents, TypeOK, PCs, docs, world
  <2>3. CASE PauseTested
    BY <2>3, ReadsDoc DEF PauseTested, Documents, TypeOK, PCs, docs, world
  <2> QED BY <1>8, <2>1, <2>2, <2>3
<1>9. CASE GateTestsProfit
  <2>1. [on |-> TRUE, why |-> "halt", day |-> stamp] \in Switch
    BY DEF TypeOK, Switch, Reasons
  <2>2. GateReadsDoc("profit", IF market.hit THEN "guard" ELSE "pause", "pause")
    BY <1>9 DEF GateTestsProfit, ProfitGate
  <2>3. /\ pc' \in PCs /\ faults' \in 0..MaxFaults
        /\ unread' \in SUBSET Documents /\ hitSince' \in BOOLEAN
    BY <2>2, ReadsDoc DEF Documents, PCs
  <2>4. kill' \in Switch /\ halted' \in 0..MaxDay
    BY <1>9, <2>1 DEF GateTestsProfit, ProfitGate, TypeOK
  <2>5. 0 \in 0..MaxDay
    BY ConfigAssumption
  <2> QED
    BY <1>9, <2>3, <2>4, <2>5 DEF GateTestsProfit, ProfitGate, TypeOK, world
<1>10. CASE GuardianEvaluates
  BY <1>10 DEF GuardianEvaluates, TypeOK, PCs, world, history, counts
<1>11. CASE GuardianSaves
  <2>1. [seen EXCEPT !.on = TRUE, !.why = "guardian"] \in Switch
    BY DEF TypeOK, Switch, Reasons
  <2> QED BY <1>11, <2>1 DEF GuardianSaves, TypeOK, PCs, world, history, counts
<1>12. CASE LoopRaises
  <2>1. NextLoop[pc] \in PCs
    BY DEF NextLoop, PCs, TypeOK
  <2>2. apart' \in BOOLEAN /\ unread' \in SUBSET Documents
    BY <1>12 DEF LoopRaises
  <2>3. faults' \in 0..MaxFaults /\ stamp' \in 0..MaxDay
    BY <1>12, ConfigAssumption DEF LoopRaises, TypeOK
  <2>4. /\ pc' \in PCs /\ seen' \in Switch /\ hitSince' \in BOOLEAN
        /\ UNCHANGED <<fast, kill, riskKill, paused, approved, day, market, halted,
                       holds, unblocks>>
    BY <1>12, <2>1 DEF LoopRaises, docs, world
  <2> QED BY <2>2, <2>3, <2>4 DEF TypeOK
<1>13. CASE FastEvaluates \/ FastConfirms \/ FastReturns
  <2>1. faults' \in 0..MaxFaults
    BY <1>13, ConfigAssumption
    DEF FastEvaluates, FastConfirms, FastReturns, FastFinds, CannotRead, TypeOK, counts
  <2> QED
    BY <1>13, <2>1
    DEF FastEvaluates, FastConfirms, FastReturns, TypeOK, locals, docs, world, history, counts
<1>14. CASE Unblock \/ Hold
  BY <1>14, ConfigAssumption
  DEF Unblock, Hold, TypeOK, Reasons, locals, world, history
<1>15. CASE Restart
  <2>1. apart' \in BOOLEAN /\ kill' \in Switch /\ unread' \in SUBSET Documents
    BY <1>15 DEF Restart, TypeOK
  <2>2. faults' \in 0..MaxFaults /\ stamp' \in 0..MaxDay
    BY <1>15, ConfigAssumption DEF Restart, TypeOK
  <2>3. /\ pc' \in PCs /\ seen' \in Switch /\ hitSince' \in BOOLEAN
        /\ fast' \in {"idle", "live", "order"}
        /\ UNCHANGED <<riskKill, paused, approved, day, market, halted, holds, unblocks>>
    BY <1>15 DEF Restart, PCs, world
  <2> QED BY <2>1, <2>2, <2>3 DEF TypeOK
<1>16. CASE Market
  <2> DEFINE Measured == [breach : BOOLEAN, pauseDue : BOOLEAN, hit : BOOLEAN]
  <2>1. /\ [market EXCEPT !.breach = ~@] \in Measured
        /\ [market EXCEPT !.pauseDue = ~@] \in Measured
        /\ [market EXCEPT !.hit = ~@] \in Measured
        /\ [market EXCEPT !.hit = FALSE] \in Measured
    BY DEF TypeOK
  <2>2. CASE RiskChanges
    BY <2>1, <2>2 DEF RiskChanges, TypeOK, locals, docs, history, counts
  <2>3. CASE PauseChanges
    BY <2>1, <2>3 DEF PauseChanges, TypeOK, locals, docs, history, counts
  <2>4. CASE ProfitChanges
    BY <2>1, <2>4 DEF ProfitChanges, TypeOK, locals, docs, counts
  <2>5. CASE Midnight
    <3>1. day + 1 \in 1..MaxDay
      BY <2>5, ConfigAssumption DEF Midnight, TypeOK
    <3> QED BY <2>1, <2>5, <3>1 DEF Midnight, TypeOK, locals, docs, counts
  <2> QED BY <1>16, <2>2, <2>3, <2>4, <2>5 DEF Market
<1> QED
  BY <1>1, <1>2, <1>3, <1>4, <1>5, <1>6, <1>7, <1>8, <1>9, <1>10, <1>11, <1>12,
     <1>13, <1>14, <1>15, <1>16
  DEF Next, Pipeline

LEMMA TypeInit == Init => TypeOK
<1>1. [breach |-> FALSE, pauseDue |-> FALSE, hit |-> FALSE]
        \in [breach : BOOLEAN, pauseDue : BOOLEAN, hit : BOOLEAN]
  OBVIOUS
<1>2. 1 \in 1..MaxDay /\ 0 \in 0..MaxDay
  BY ConfigAssumption
<1>3. 0 \in 0..MaxHolds /\ 0 \in 0..MaxUnblocks /\ 0 \in 0..MaxFaults
  BY ConfigAssumption
<1> QED BY <1>1, <1>2, <1>3, SwitchValues DEF Init, TypeOK, PCs

\* Every reachable state is type-correct, for every configuration.
THEOREM TypeCorrect == Spec => []TypeOK
BY TypeInit, TypeStep, PTL DEF Spec

-----------------------------------------------------------------------------
(* The order path *)

\* Inductive. Outside the risk loop's two writes a verdict in risk_state.json is
\* also in the switch, unless they have come apart. So what a pass of the gate
\* has read of the switch stops it, unless it was not read or they are apart;
\* from the gate's test of risk_state.json on, that was not read either. A
\* profit the gate's first read saw at the target and that has not moved since
\* is still there when the gate measures it.
VerdictGuard ==
  /\ (kill.why = "missing" => ~kill.on) /\ seen.why # "missing"
  /\ pc # "riskSave" /\ riskKill /\ ~apart => kill.on
  /\ pc = "riskSave" /\ riskKill => seen.on
  /\ pc \in {"gateDay", "gateSwitch"} /\ riskKill
       => seen.on \/ apart \/ "switch" \in unread
  /\ pc \in {"gateRisk", "gatePnl"} \cup OrderPCs /\ riskKill
       => apart \/ "switch" \in unread
  /\ pc \in {"gatePnl"} \cup OrderPCs /\ riskKill => "risk" \in unread
  /\ pc = "place" /\ paused => "pause" \in unread

LEMMA SwitchOn ==
  /\ ~Off.on /\ ~Missing.on /\ Off.why = "none"
  /\ \A why \in Reasons : On(why).on /\ On(why).why = why
BY DEF Off, Missing, On

LEMMA ReadsSeen ==
  ASSUME TypeOK, VerdictGuard, NEW default \in Switch, default.why = "none",
         ReadsInto(default)
  PROVE  /\ seen'.why # "missing"
         /\ faults' = faults => seen' = kill \/ ~kill.on
BY DEF ReadsInto, CannotRead, TypeOK, VerdictGuard

LEMMA EvaluatedWhy ==
  ASSUME NEW k \in Switch, k.why # "missing"
  PROVE  Evaluated(k).why # "missing"
BY SwitchOn DEF Evaluated, Reasons

LEMMA GuardStep == TypeOK /\ VerdictGuard /\ [Next]_vars => VerdictGuard'
<1> SUFFICES ASSUME TypeOK, VerdictGuard, [Next]_vars PROVE VerdictGuard'
  OBVIOUS
<1> USE SwitchOn DEF VerdictGuard, OrderPCs
<1>1. CASE UNCHANGED vars
  BY <1>1 DEF vars, docs, locals, world, history
<1>2. CASE RiskReads
  <2>1. [Off EXCEPT !.on = RiskHold].why = "none"
    BY DEF Off
  <2> QED BY <1>2, <2>1, ReadsSeen, SwitchValues DEF RiskReads, docs, history
<1>3. CASE RiskEvaluates
  BY <1>3, EvaluatedWhy, SwitchValues DEF RiskEvaluates, history, TypeOK
<1>4. CASE RiskSavesState \/ RiskSavesSwitch
  BY <1>4 DEF RiskSavesState, RiskSavesSwitch, history
<1>5. CASE VerifierReads
  BY <1>5, ReadsSeen, SwitchValues DEF VerifierReads, docs, history
<1>6. CASE VerifierSaves
  <2>1. pc = "verifySave" /\ pc' = "gate" /\ seen' = Off
          /\ UNCHANGED <<kill, riskKill, apart>>
    BY <1>6, Zenon DEF VerifierSaves, history
  <2> QED BY <2>1
<1>7. CASE GateReads
  <2>1. seen'.why # "missing" /\ (faults' = faults => seen' = kill \/ ~kill.on)
    BY <1>7, ReadsSeen, SwitchValues DEF GateReads
  <2>2. faults' # faults => "switch" \in unread'
    BY <1>7 DEF GateReads
  <2> QED BY <1>7, <2>1, <2>2 DEF GateReads, docs
<1>8. CASE GateRollsOver
  BY <1>8 DEF GateRollsOver, OldHalt
<1>9. CASE GateTestsSwitch
  BY <1>9 DEF GateTestsSwitch, Remembers, docs
<1>10. CASE GateTestsRiskState
  BY <1>10 DEF GateTestsRiskState, GateReadsDoc, Remembers, docs
<1>11. CASE GateTestsProfit
  BY <1>11 DEF GateTestsProfit, ProfitGate, GateReadsDoc, Remembers
<1>12. CASE PauseTested \/ Places
  BY <1>12 DEF PauseTested, Places, GateReadsDoc, Remembers, docs
<1>13. CASE GuardianEvaluates \/ GuardianReads \/ GuardianSaves
  <2>1. CASE GuardianEvaluates
    BY <1>13, <2>1 DEF GuardianEvaluates, history
  <2>2. CASE GuardianReads
    BY <2>2, ReadsSeen, SwitchValues DEF GuardianReads, docs, history
  <2>3. CASE GuardianSaves
    BY <2>3 DEF GuardianSaves, history, TypeOK, Switch
  <2> QED BY <1>13, <2>1, <2>2, <2>3
<1>14. CASE LoopRaises
  <2>1. NextLoop[pc] \in {"verify", "gate", "risk", "guard"}
    BY DEF NextLoop, TypeOK
  <2> QED BY <1>14, <2>1 DEF LoopRaises, docs
<1>15. CASE FastEvaluates \/ FastConfirms \/ FastReturns
  BY <1>15 DEF FastEvaluates, FastConfirms, FastReturns, locals, docs, history
<1>16. CASE Unblock \/ Hold
  BY <1>16 DEF Unblock, Hold, locals, history, Reasons
<1>17. CASE Restart
  BY <1>17 DEF Restart
<1>18. CASE Market
  BY <1>18
  DEF Market, RiskChanges, PauseChanges, ProfitChanges, Midnight, locals, docs, history
<1> QED
  BY <1>1, <1>2, <1>3, <1>4, <1>5, <1>6, <1>7, <1>8, <1>9, <1>10, <1>11, <1>12,
     <1>13, <1>14, <1>15, <1>16, <1>17, <1>18
  DEF Next, Pipeline

LEMMA GuardCorrect == Spec => []VerdictGuard
<1>1. Init => VerdictGuard
  BY SwitchOn DEF Init, VerdictGuard, OrderPCs
<1> QED BY <1>1, GuardStep, TypeCorrect, PTL DEF Spec

\* A verdict saved by the risk loop keeps the pipeline from its orders: whatever
\* happens to kill_switch.json, risk_state.json has to be unreadable too, and as
\* long as nobody clears the switch it takes both; with Blue Guardian's pause
\* all three.
THEOREM VerdictHolds == Spec => []VerdictBlocks
<1>1. VerdictGuard => VerdictBlocks
  BY DEF VerdictGuard, VerdictBlocks, OrderPCs
<1> QED BY <1>1, GuardCorrect, PTL

\* Inductive: what the gate's first read saw of the profit is still so.
ProfitGuard == OrdersBelowTarget /\ (hitSince => market.hit)

LEMMA ProfitStep == TypeOK /\ ProfitGuard /\ [Next]_vars => ProfitGuard'
<1> SUFFICES ASSUME TypeOK, ProfitGuard, [Next]_vars PROVE ProfitGuard'
  OBVIOUS
<1> USE DEF ProfitGuard, OrdersBelowTarget, OrderPCs
<1>1. CASE UNCHANGED vars
  BY <1>1 DEF vars, docs, locals, world, history
<1>2. CASE RiskReads \/ RiskEvaluates \/ RiskSavesState \/ RiskSavesSwitch
  BY <1>2 DEF RiskReads, RiskEvaluates, RiskSavesState, RiskSavesSwitch, world, history
<1>3. CASE VerifierReads
  BY <1>3 DEF VerifierReads, world, history
<1>4. CASE VerifierSaves
  <2>1. pc' = "gate" /\ UNCHANGED <<hitSince, market>>
    BY <1>4, Zenon DEF VerifierSaves, world, history
  <2> QED BY <2>1
<1>5. CASE GateReads
  <2>1. pc' = "gateDay" /\ hitSince' = market.hit /\ market' = market
    BY <1>5 DEF GateReads, world
  <2>2. hitSince' => market'.hit
    BY <2>1, Zenon
  <2> QED BY <2>1, <2>2
<1>6. CASE GateRollsOver
  BY <1>6 DEF GateRollsOver, world
<1>7. CASE GateTestsSwitch
  BY <1>7 DEF GateTestsSwitch, Remembers, world
<1>8. CASE GateTestsRiskState
  BY <1>8 DEF GateTestsRiskState, GateReadsDoc, Remembers, world
<1>9. CASE GateTestsProfit
  BY <1>9 DEF GateTestsProfit, ProfitGate, GateReadsDoc, Remembers, world
<1>10. CASE PauseTested \/ Places
  BY <1>10 DEF PauseTested, Places, GateReadsDoc, Remembers, world
<1>11. CASE GuardianEvaluates \/ GuardianReads \/ GuardianSaves
  BY <1>11 DEF GuardianEvaluates, GuardianReads, GuardianSaves, world, history
<1>12. CASE LoopRaises \/ Restart
  BY <1>12 DEF LoopRaises, Restart, world
<1>13. CASE FastEvaluates \/ FastConfirms \/ FastReturns
  BY <1>13 DEF FastEvaluates, FastConfirms, FastReturns, locals, world, history
<1>14. CASE Unblock \/ Hold
  BY <1>14 DEF Unblock, Hold, locals, world, history
<1>15. CASE RiskChanges \/ PauseChanges
  BY <1>15 DEF RiskChanges, PauseChanges, TypeOK, locals, history
<1>16. CASE ProfitChanges \/ Midnight
  BY <1>16 DEF ProfitChanges, Midnight, locals
<1> QED
  BY <1>1, <1>2, <1>3, <1>4, <1>5, <1>6, <1>7, <1>8, <1>9, <1>10, <1>11, <1>12,
     <1>13, <1>14, <1>15, <1>16
  DEF Next, Pipeline, Market

\* No cycle of the pipeline reaches its orders while the realised profit has
\* been at the target since the gate's first read, if the trades can be read.
THEOREM TargetHolds == Spec => []OrdersBelowTarget
<1>1. Init => ProfitGuard
  BY DEF Init, ProfitGuard, OrdersBelowTarget
<1>2. ProfitGuard => OrdersBelowTarget
  BY DEF ProfitGuard
<1> QED BY <1>1, <1>2, ProfitStep, TypeCorrect, PTL DEF Spec

-----------------------------------------------------------------------------
(* What the gate clears *)

\* Inductive: stamps are never of a later day, and as long as no hold was
\* written what the gate has read is what the file says, unless the file has
\* been switched off meanwhile.
GateCopy ==
  /\ kill.day <= day /\ seen.day <= day /\ stamp <= day
  /\ pc = "gateDay" /\ holds = 0 => ~seen.on \/ seen = kill \/ ~kill.on

LEMMA ReadsCopy ==
  ASSUME TypeOK, GateCopy, NEW default \in Switch, default.day = 0,
         ReadsInto(default)
  PROVE  seen'.day <= day /\ (seen' = default \/ seen' = kill)
BY DEF ReadsInto, TypeOK, GateCopy

LEMMA EvaluatedDay ==
  ASSUME TypeOK, NEW k \in Switch, k.day <= day
  PROVE  Evaluated(k).day <= day
BY DEF Evaluated, On, Off, TypeOK

LEMMA CopyStep == TypeOK /\ GateCopy /\ [Next]_vars => GateCopy'
<1> SUFFICES ASSUME TypeOK, GateCopy, [Next]_vars PROVE GateCopy'
  OBVIOUS
<1> USE SwitchValues DEF GateCopy
<1>0. /\ day \in Nat /\ day >= 0 /\ seen \in Switch /\ kill \in Switch
      /\ Off.day = 0 /\ ~Off.on
  BY DEF TypeOK, Off
<1>1. CASE UNCHANGED vars
  BY <1>1 DEF vars, docs, locals, world, counts
<1>2. CASE RiskReads
  BY <1>2, ReadsCopy, <1>0 DEF RiskReads, Off, docs, world, counts
<1>3. CASE RiskEvaluates
  BY <1>3, <1>0, EvaluatedDay DEF RiskEvaluates, world, counts
<1>4. CASE RiskSavesState \/ RiskSavesSwitch
  BY <1>4, <1>0 DEF RiskSavesState, RiskSavesSwitch, world, counts
<1>5. CASE VerifierReads \/ GateReads \/ GuardianReads
  BY <1>5, <1>0, ReadsCopy DEF VerifierReads, GateReads, GuardianReads, docs, world, counts
<1>6. CASE VerifierSaves
  BY <1>6, <1>0 DEF VerifierSaves, world, counts
<1>7. CASE GateRollsOver
  BY <1>7, <1>0 DEF GateRollsOver, world, counts
<1>8. CASE GateTestsSwitch \/ GateTestsRiskState \/ PauseTested \/ Places
  BY <1>8, <1>0
  DEF GateTestsSwitch, GateTestsRiskState, PauseTested, Places, GateReadsDoc, docs,
      world, counts
<1>9. CASE GateTestsProfit
  BY <1>9, <1>0 DEF GateTestsProfit, ProfitGate, GateReadsDoc, world
<1>10. CASE GuardianEvaluates
  BY <1>10 DEF GuardianEvaluates, world, counts
<1>11. CASE GuardianSaves
  BY <1>11, <1>0 DEF GuardianSaves, Switch, world, counts
<1>12. CASE LoopRaises
  <2>1. NextLoop[pc] # "gateDay"
    BY DEF NextLoop, TypeOK
  <2> QED BY <1>12, <1>0, <2>1 DEF LoopRaises, docs, world, counts
<1>13. CASE FastEvaluates \/ FastConfirms \/ FastReturns
  BY <1>13 DEF FastEvaluates, FastConfirms, FastReturns, locals, docs, world, counts
<1>14. CASE Unblock
  BY <1>14, <1>0 DEF Unblock, locals, world, counts
<1>15. CASE Hold
  BY <1>15, <1>0 DEF Hold, TypeOK, On, locals, world
<1>16. CASE Restart
  BY <1>16, <1>0 DEF Restart, world, counts
<1>17. CASE RiskChanges \/ PauseChanges \/ ProfitChanges
  BY <1>17 DEF RiskChanges, PauseChanges, ProfitChanges, locals, docs, counts
<1>18. CASE Midnight
  BY <1>18, <1>0 DEF Midnight, TypeOK, Switch, locals, docs, counts
<1> QED
  BY <1>1, <1>2, <1>3, <1>4, <1>5, <1>6, <1>7, <1>8, <1>9, <1>10, <1>11, <1>12,
     <1>13, <1>14, <1>15, <1>16, <1>17, <1>18
  DEF Next, Pipeline, Market

\* Until an operator edits the file, the gate of the execution loop clears
\* nothing but a profit halt of an earlier day.
THEOREM GateClearsOldHalts == Spec => ClearsOldHaltsOnly
<1>1. Init => GateCopy
  BY DEF Init, GateCopy, Off, Missing
<1>2. TypeOK /\ GateCopy /\ [Next]_vars
        => [GateClears /\ holds = 0 => kill.why = "halt" /\ kill.day < day]_vars
  <2> SUFFICES ASSUME TypeOK, GateCopy, Next, GateClears, holds = 0
               PROVE  kill.why = "halt" /\ kill.day < day
    OBVIOUS
  <2>1. GateRollsOver
    <3>1. LoopRaises => pc' = "guard"
      BY DEF LoopRaises, NextLoop, GateClears, PCs
    <3> QED
      BY <3>1
      DEF GateClears, Next, Pipeline, Market, RiskReads, RiskEvaluates,
          RiskSavesState, RiskSavesSwitch, VerifierReads, VerifierSaves,
          GateReads, GateTestsSwitch, GateTestsRiskState, GateTestsProfit,
          ProfitGate, PauseTested, Places, GuardianEvaluates, GuardianReads, GuardianSaves,
          FastEvaluates, FastConfirms, FastReturns, Unblock, Hold, Restart,
          RiskChanges, PauseChanges, ProfitChanges, Midnight, locals
  <2> QED
    BY <2>1 DEF GateRollsOver, GateClears, GateCopy, OldHalt, TypeOK, Switch
<1> QED
  BY <1>1, <1>2, CopyStep, TypeCorrect, PTL DEF Spec, ClearsOldHaltsOnly
=============================================================================
