------------------------- MODULE DailyLimits_proofs -------------------------
(***************************************************************************)
(* Theorems about the loss limits, for all accounts, amounts, limits and   *)
(* bounds.                                                                 *)
(***************************************************************************)
EXTENDS DailyLimits, TLAPS

-----------------------------------------------------------------------------
(* Types *)

LEMMA AccountFields ==
  ASSUME NEW a \in Account
  PROVE  a.login \in Logins /\ a.balance \in Money /\ a.equity \in Money
BY DEF Account

LEMMA GrowthReset ==
  ASSUME TypeOK
  PROVE  ResetGrowth \in Growth
<1>1. utcDay \in 0..MaxDay
  BY ConfigAssumption DEF TypeOK
<1> QED BY <1>1, AccountFields DEF TypeOK, ResetGrowth, Growth

LEMMA GrowthEvaluated ==
  ASSUME TypeOK
  PROVE  EvaluatedGrowth \in Growth
<1>1. Session \in Growth
  BY GrowthReset DEF Session, TypeOK
<1> DEFINE b == \/ LockOnTarget /\ (account.equity - Session.start) * 100 >= TargetPct * Session.start
                \/ (account.equity - Session.start) * 100 <= -(MaxLossPct * Session.start)
<1>2. b \in BOOLEAN
  OBVIOUS
<1>3. EvaluatedGrowth = [Session EXCEPT !.login = 0, !.paused = b]
  BY DEF EvaluatedGrowth
<1> HIDE DEF b
<1> QED BY <1>1, <1>2, <1>3 DEF Growth

LEMMA LargerIsOne ==
  ASSUME NEW a, NEW b
  PROVE  Larger(a, b) \in {a, b}
BY DEF Larger

LEMMA BlueEvaluated ==
  ASSUME TypeOK, EvaluateBlue
  PROVE  blue' \in Blue /\ watermark' \in Money \cup {0}
<1>1. watermark' \in Money \cup {0}
  BY LargerIsOne, AccountFields DEF TypeOK, EvaluateBlue, NewWatermark, Baseline
<1>2. tradeDay \in 0..MaxDay /\ 0 \in 0..MaxBreaches
  BY ConfigAssumption DEF TypeOK
<1>3. baseline.cash \in Money \cup {0}
  BY DEF TypeOK, Baseline
<1>4. Larger(account.balance, account.equity) \in Money
  BY LargerIsOne, AccountFields DEF TypeOK
<1>5. Opened.day \in 0..MaxDay /\ Opened.anchor \in Money \cup {0}
  BY <1>2, <1>3, <1>4 DEF Opened, TypeOK, Blue
<1> DEFINE b == BluePauses(Opened.anchor, NewWatermark)
<1>6. b \in BOOLEAN
  BY DEF BluePauses
<1>7. blue' = [day |-> Opened.day, anchor |-> Opened.anchor, login |-> 0,
               paused |-> b, breaches |-> 0]
  BY DEF EvaluateBlue
<1> HIDE DEF b
<1> QED BY <1>1, <1>2, <1>5, <1>6, <1>7 DEF Blue

LEMMA TypeStep == TypeOK /\ [Next]_vars => TypeOK'
<1> SUFFICES ASSUME TypeOK, [Next]_vars PROVE TypeOK'
  OBVIOUS
<1>1. CASE UNCHANGED vars
  BY <1>1 DEF TypeOK, vars, clock
<1>2. CASE Probe \/ Crash
  BY <1>2 DEF Probe, Crash, TypeOK, PCs, clock
<1>3. CASE RiskRebaselines
  BY <1>3, GrowthReset, AccountFields
  DEF RiskRebaselines, TypeOK, PCs, Baseline, clock
<1>4. CASE RiskEvaluates
  <2>1. blue' \in Blue /\ watermark' \in Money \cup {0}
    BY <1>4, BlueEvaluated DEF RiskEvaluates, TypeOK
  <2>2. trigger' \in BOOLEAN
    BY <1>4 DEF RiskEvaluates, StaticLossHit, BelowFloor
  <2> QED BY <1>4, <2>1, <2>2, GrowthEvaluated DEF RiskEvaluates, TypeOK, PCs, clock
<1>5. CASE RiskSaves
  <2>1. blue' \in Blue /\ watermark' \in Money \cup {0}
    BY <1>5, BlueEvaluated DEF RiskSaves, TypeOK
  <2>2. verdict' \in BOOLEAN
    BY <1>5 DEF RiskSaves, TypeOK
  <2> QED BY <1>5, <2>1, <2>2 DEF RiskSaves, TypeOK, PCs, clock
<1>6. CASE Execute
  BY <1>6 DEF Execute, TypeOK, PCs, clock
<1>7. CASE GuardianEvaluates
  BY <1>7, BlueEvaluated DEF GuardianEvaluates, TypeOK, PCs, clock
<1>8. CASE GuardianCountsBreach
  <2>1. blue.breaches < MaxBreaches => [blue EXCEPT !.breaches = @ + 1] \in Blue
    BY ConfigAssumption DEF TypeOK, Blue
  <2> QED BY <1>8, <2>1 DEF GuardianCountsBreach, TypeOK, PCs, clock
<1>9. CASE BrokerSetsBaseline
  BY <1>9, AccountFields DEF BrokerSetsBaseline, TypeOK, Baseline, clock
<1>10. CASE PracticeSession
  <2>1. verdict' \in BOOLEAN
    BY <1>10 DEF PracticeSession, TypeOK
  <2> QED
    BY <1>10, <2>1, GrowthReset, AccountFields
    DEF PracticeSession, TypeOK, PCs, Baseline, clock
<1>11. CASE PricesMove \/ PositionsClose
  BY <1>11 DEF PricesMove, PositionsClose, TypeOK, Account, clock
<1>12. CASE AccountSwitch
  BY <1>12, ConfigAssumption DEF AccountSwitch, TypeOK, Account, clock
<1>13. CASE DayEnds
  BY <1>13, ConfigAssumption DEF DayEnds, TypeOK
<1> QED
  BY <1>1, <1>2, <1>3, <1>4, <1>5, <1>6, <1>7, <1>8, <1>9, <1>10, <1>11, <1>12, <1>13
  DEF Next, Pipeline

LEMMA TypeInit == Init => TypeOK
<1> SUFFICES ASSUME Init PROVE TypeOK
  OBVIOUS
<1>1. 0 \in 0..MaxDay /\ 1 \in 1..MaxDay /\ 0 \in 0..MaxBreaches /\ 0 \in 0..MaxSwitches
  BY ConfigAssumption
<1>2. pc \in PCs /\ terminal \in Account /\ account \in Account
  BY DEF Init, PCs
<1>3. baseline \in Baseline /\ growth \in Growth /\ blue \in Blue
  BY <1>1 DEF Init, Baseline, Growth, Blue
<1> QED BY <1>1, <1>2, <1>3 DEF Init, TypeOK

\* Every document keeps its type, through restarts, account switches and the
\* writes of both order paths.
THEOREM TypeCorrect == Spec => []TypeOK
BY TypeInit, TypeStep, PTL DEF Spec

-----------------------------------------------------------------------------
(* Baselines *)

\* A baseline without a login has no cash, one with a login has.
BaselineWhole == baseline.login # 0 => baseline.cash # 0

LEMMA BaselineStep == TypeOK /\ BaselineWhole /\ [Next]_vars => BaselineWhole'
<1> SUFFICES ASSUME TypeOK, BaselineWhole, [Next]_vars PROVE BaselineWhole'
  OBVIOUS
<1>1. \A a \in Account : a.balance # 0 /\ a.equity # 0
  BY ConfigAssumption, AccountFields
<1>2. CASE RiskRebaselines
  BY <1>1, <1>2 DEF RiskRebaselines, TypeOK, BaselineWhole
<1>3. CASE BrokerSetsBaseline
  BY <1>1, <1>3 DEF BrokerSetsBaseline, TypeOK, BaselineWhole
<1>4. CASE PracticeSession
  BY <1>1, <1>4 DEF PracticeSession, TypeOK, BaselineWhole
<1>5. CASE UNCHANGED baseline
  BY <1>5 DEF BaselineWhole
<1> QED
  BY <1>2, <1>3, <1>4, <1>5
  DEF Next, Pipeline, vars, Probe, Crash, RiskEvaluates, RiskSaves, Execute,
      GuardianEvaluates, GuardianCountsBreach, PricesMove, PositionsClose,
      AccountSwitch, DayEnds

LEMMA BaselineStepKeeps ==
  ASSUME TypeOK, BaselineWhole, [Next]_vars, baseline'.login = baseline.login
  PROVE  baseline' = baseline
<1>1. account.login # 0 /\ terminal.login # 0
  BY ConfigAssumption, AccountFields DEF TypeOK
<1>2. CASE RiskRebaselines
  BY <1>1, <1>2 DEF RiskRebaselines
<1>3. CASE BrokerSetsBaseline
  BY <1>1, <1>3 DEF BrokerSetsBaseline, BaselineWhole
<1>4. CASE PracticeSession
  BY <1>1, <1>4 DEF PracticeSession, BaselineWhole
<1>5. CASE UNCHANGED baseline
  BY <1>5
<1> QED
  BY <1>2, <1>3, <1>4, <1>5
  DEF Next, Pipeline, vars, Probe, Crash, RiskEvaluates, RiskSaves, Execute,
      GuardianEvaluates, GuardianCountsBreach, PricesMove, PositionsClose,
      AccountSwitch, DayEnds

LEMMA BaselineInvariant == Spec => []BaselineWhole
<1>1. Init => BaselineWhole
  BY DEF Init, BaselineWhole
<1> QED BY <1>1, TypeCorrect, BaselineStep, PTL DEF Spec

\* The three writers of mt5_baseline.json (risk loop, broker code of either
\* order path, practice session) never replace the starting cash of the
\* account it already belongs to.
THEOREM BaselineOnce == Spec => BaselineKept
<1>1. TypeOK /\ BaselineWhole /\ [Next]_vars
        => [baseline'.login = baseline.login => baseline' = baseline]_vars
  BY BaselineStepKeeps
<1> QED BY <1>1, TypeCorrect, BaselineInvariant, PTL DEF Spec, BaselineKept

-----------------------------------------------------------------------------
(* The day's opening equity *)

\* A day that was opened has an equity, and a login on the file is the one
\* whose equity opened it.
GrowthWhole ==
  /\ growth.start = 0 => growth.day = 0
  /\ growth.login # 0 => growth.login = growth.of

LEMMA SessionWhole ==
  ASSUME TypeOK, GrowthWhole
  PROVE  /\ ResetGrowth.start # 0 /\ EvaluatedGrowth.start # 0
         /\ ResetGrowth.login = ResetGrowth.of /\ EvaluatedGrowth.login = 0
<1>1. account.equity # 0
  BY ConfigAssumption, AccountFields DEF TypeOK
<1>2. ResetGrowth.start # 0 /\ ResetGrowth.login = ResetGrowth.of
  BY <1>1 DEF ResetGrowth
<1>3. Session \in Growth /\ Session.start # 0
  BY <1>2, GrowthReset DEF Session, NewSession, TypeOK
<1> QED BY <1>2, <1>3 DEF EvaluatedGrowth, Growth

LEMMA GrowthStep == TypeOK /\ GrowthWhole /\ [Next]_vars => GrowthWhole'
<1> SUFFICES ASSUME TypeOK, GrowthWhole, [Next]_vars PROVE GrowthWhole'
  OBVIOUS
<1>1. CASE growth' = ResetGrowth \/ growth' = EvaluatedGrowth
  BY <1>1, SessionWhole DEF GrowthWhole
<1>2. CASE UNCHANGED growth
  BY <1>2 DEF GrowthWhole
<1> QED
  BY <1>1, <1>2
  DEF Next, Pipeline, vars, Probe, PracticeSession, RiskRebaselines, RiskEvaluates, RiskSaves,
      Execute, GuardianEvaluates, GuardianCountsBreach, BrokerSetsBaseline,
      Crash, PricesMove, PositionsClose, AccountSwitch, DayEnds

LEMMA GrowthInvariant == Spec => []GrowthWhole
<1>1. Init => GrowthWhole
  BY DEF Init, GrowthWhole
<1> QED BY <1>1, TypeCorrect, GrowthStep, PTL DEF Spec

LEMMA EvaluationKeepsStart ==
  ASSUME TypeOK, GrowthWhole,
         EvaluatedGrowth.day = growth.day, EvaluatedGrowth.of = growth.of
  PROVE  EvaluatedGrowth.start = growth.start
<1>1. EvaluatedGrowth.day = Session.day /\ EvaluatedGrowth.of = Session.of
        /\ EvaluatedGrowth.start = Session.start
  BY GrowthReset DEF EvaluatedGrowth, Session, TypeOK, Growth
<1>2. CASE NewSession
  <2>1. growth.day = utcDay /\ growth.of = account.login
    BY <1>1, <1>2 DEF Session, ResetGrowth
  <2>2. growth.day # 0
    BY <2>1, ConfigAssumption DEF TypeOK
  <2> QED BY <1>2, <2>1, <2>2 DEF NewSession, GrowthWhole
<1>3. CASE ~NewSession
  BY <1>1, <1>3 DEF Session
<1> QED BY <1>2, <1>3

LEMMA DayStartStep ==
  ASSUME TypeOK, GrowthWhole, BaselineWhole, [Next]_vars,
         growth'.day = growth.day, growth'.of = growth.of, baseline' = baseline
  PROVE  growth'.start = growth.start
<1>1. account.login # 0
  BY ConfigAssumption, AccountFields DEF TypeOK
<1>2. CASE RiskEvaluates
  BY <1>2, EvaluationKeepsStart DEF RiskEvaluates
<1>3. CASE RiskRebaselines
  BY <1>3 DEF RiskRebaselines
<1>4. CASE PracticeSession
  <2>1. baseline.cash = 0 => baseline.login = 0
    BY DEF BaselineWhole
  <2> QED BY <1>1, <1>4, <2>1 DEF PracticeSession
<1>5. CASE UNCHANGED growth
  BY <1>5
<1> QED
  BY <1>2, <1>3, <1>4, <1>5
  DEF Next, Pipeline, vars, Probe, Crash, RiskSaves, Execute, GuardianEvaluates,
      GuardianCountsBreach, BrokerSetsBaseline, PricesMove, PositionsClose,
      AccountSwitch, DayEnds

\* Within a UTC day, for one account, the equity its loss and target are
\* measured from does not move: not by evaluations, not by restarts.
THEOREM DayStartFixed == Spec => DayStartKept
<1>1. TypeOK /\ GrowthWhole /\ BaselineWhole /\ [Next]_vars
        => [growth'.day = growth.day /\ growth'.of = growth.of /\ baseline' = baseline
              => growth'.start = growth.start]_vars
  BY DayStartStep
<1> QED
  BY <1>1, TypeCorrect, GrowthInvariant, BaselineInvariant, PTL DEF Spec, DayStartKept

-----------------------------------------------------------------------------
(* Verdicts *)

\* A pause that was found is on its way to the verdict.
PauseOnItsWay == pc = "riskBlue" /\ growth.paused => trigger

LEMMA PauseStep ==
  ASSUME ~GuardEnabled, PauseOnItsWay, LossPauseEnforced, [Next]_vars
  PROVE  PauseOnItsWay' /\ LossPauseEnforced'
<1> USE DEF PauseOnItsWay, LossPauseEnforced
<1>1. CASE RiskEvaluates \/ RiskSaves
  BY <1>1 DEF RiskEvaluates, RiskSaves
<1>2. CASE pc' \in {"probe", "session", "rebase", "risk", "guard", "shield"}
  BY <1>2
<1>3. CASE UNCHANGED <<pc, growth, trigger, verdict>>
  BY <1>3
<1> QED
  BY <1>1, <1>2, <1>3
  DEF Next, Pipeline, vars, Probe, PracticeSession, RiskRebaselines, Execute,
      GuardianEvaluates, GuardianCountsBreach, BrokerSetsBaseline, Crash,
      PricesMove, PositionsClose, AccountSwitch, DayEnds

\* Without Blue Guardian no orders are placed in a cycle whose evaluation found
\* the day's loss limit, or its locked target, reached.
THEOREM LossPauseHolds ==
  ASSUME ~GuardEnabled
  PROVE  Spec => []LossPauseEnforced
<1>1. Init => PauseOnItsWay /\ LossPauseEnforced
  BY DEF Init, PauseOnItsWay, LossPauseEnforced
<1>2. PauseOnItsWay /\ LossPauseEnforced /\ [Next]_vars
        => PauseOnItsWay' /\ LossPauseEnforced'
  BY PauseStep
<1> QED BY <1>1, <1>2, PTL DEF Spec

\* The evaluated document holds what the floor said.
FloorInDocument == pc = "execute" /\ GuardEnabled /\ BelowFloor(watermark) => blue.paused

LEMMA FloorStep ==
  ASSUME FloorInDocument, GuardianEnforced, [Next]_vars
  PROVE  FloorInDocument' /\ GuardianEnforced'
<1> USE DEF FloorInDocument, GuardianEnforced
<1>1. CASE RiskSaves
  <2>1. CASE GuardEnabled
    <3>1. account' = account /\ trigger' = trigger /\ watermark' = NewWatermark
            /\ verdict' = (trigger \/ blue'.paused)
      BY <1>1, <2>1 DEF RiskSaves, EvaluateBlue
    <3>2. BelowFloor(watermark)' <=> BelowFloor(NewWatermark)
      BY <3>1 DEF BelowFloor
    <3>3. BelowFloor(NewWatermark) => blue'.paused
      BY <1>1, <2>1 DEF RiskSaves, EvaluateBlue, BluePauses
    <3> QED BY <3>1, <3>2, <3>3
  <2>2. CASE ~GuardEnabled
    BY <2>2
  <2> QED BY <2>1, <2>2
<1>2. CASE pc' # "execute"
  BY <1>2
<1>3. CASE UNCHANGED <<pc, account, blue, watermark, trigger, verdict>>
  BY <1>3 DEF BelowFloor
<1> QED
  BY <1>1, <1>2, <1>3
  DEF Next, Pipeline, vars, Probe, PracticeSession, RiskRebaselines, RiskEvaluates, Execute,
      GuardianEvaluates, GuardianCountsBreach, BrokerSetsBaseline, Crash,
      PricesMove, PositionsClose, AccountSwitch, DayEnds

\* Whatever one of the two Blue Guardian evaluations of a risk loop found is in
\* the verdict the orders of that cycle are tested against, also when the
\* broker code of the fast thread moves the baseline between the two.
THEOREM GuardianHolds == Spec => []GuardianEnforced
<1>1. Init => FloorInDocument /\ GuardianEnforced
  BY DEF Init, FloorInDocument, GuardianEnforced
<1>2. FloorInDocument /\ GuardianEnforced /\ [Next]_vars
        => FloorInDocument' /\ GuardianEnforced'
  BY FloorStep
<1> QED BY <1>1, <1>2, PTL DEF Spec

-----------------------------------------------------------------------------
(* The two evaluations of one risk loop *)

\* A static loss that the first part of the risk loop could see is a trigger in
\* its second part.
LossFound == pc = "riskBlue" /\ StaticLoss(account) => trigger

LEMMA LossStep ==
  ASSUME ~FastLive, TypeOK, BaselineWhole, LossFound, [Next]_vars
  PROVE  LossFound'
<1>1. CASE RiskEvaluates
  <2>1. account' = account /\ baseline' = baseline /\ account.login # 0
          /\ trigger' = (\/ StaticLossHit
                         \/ GuardEnabled /\ (blue'.paused \/ BelowFloor(watermark'))
                         \/ ~GuardEnabled /\ growth'.paused)
    BY <1>1, ConfigAssumption, AccountFields DEF RiskEvaluates, TypeOK
  <2>2. baseline.login = account.login => DrawdownBase = baseline.cash
    BY <2>1 DEF DrawdownBase, BaselineWhole
  <2> QED BY <2>1, <2>2 DEF LossFound, StaticLoss, StaticLossHit
<1>2. CASE pc' # "riskBlue"
  BY <1>2 DEF LossFound
<1>3. CASE UNCHANGED <<pc, account, baseline, trigger>>
  BY <1>3 DEF LossFound, StaticLoss
<1> QED
  BY <1>1, <1>2, <1>3
  DEF Next, Pipeline, vars, Probe, PracticeSession, RiskRebaselines, RiskSaves, Execute,
      GuardianEvaluates, GuardianCountsBreach, BrokerSetsBaseline, BrokerRuns, Crash,
      PricesMove, PositionsClose, AccountSwitch, DayEnds

LEMMA LossSaved ==
  ASSUME LossFound, [Next]_vars, pc = "riskBlue", pc' = "execute",
         StaticLoss(account)
  PROVE  verdict'
<1>1. trigger
  BY DEF LossFound
<1>2. RiskSaves
  BY DEF Next, Pipeline, vars, Probe, PracticeSession, RiskRebaselines, RiskEvaluates, Execute,
         GuardianEvaluates, GuardianCountsBreach, BrokerSetsBaseline, Crash,
         PricesMove, PositionsClose, AccountSwitch, DayEnds
<1>3. CASE GuardEnabled
  BY <1>1, <1>2, <1>3 DEF RiskSaves
<1>4. CASE ~GuardEnabled
  BY <1>1, <1>2, <1>4 DEF RiskSaves
<1> QED BY <1>3, <1>4

\* A static loss that the start-up of the process found in the account is in
\* the verdict of every risk loop of that process: it is measured from the
\* account's own starting cash, and days, restarts, account switches and what
\* Blue Guardian says make no difference. Without the fast thread, which may
\* write the baseline between the evaluation and the save.
THEOREM StaticKillHolds ==
  ASSUME ~FastLive
  PROVE  Spec => StaticKill
<1>1. Init => LossFound
  BY DEF Init, LossFound
<1>2. TypeOK /\ BaselineWhole /\ LossFound /\ [Next]_vars => LossFound'
  BY LossStep
<1>3. LossFound /\ [Next]_vars
        => [pc = "riskBlue" /\ pc' = "execute" /\ StaticLoss(account)
              => verdict']_vars
  BY LossSaved
<1> QED
  BY <1>1, <1>2, <1>3, TypeCorrect, BaselineInvariant, PTL DEF Spec, StaticKill

\* Between the evaluations the document is what the first one made of the account
\* and the baseline, and the second one would start from the same, unless a new
\* trading day began.
Settled ==
  /\ blue.login = 0
  /\ pc = "riskBlue" /\ GuardEnabled =>
       /\ baseline.login # 0 => blue.anchor = baseline.cash
       /\ NewWatermark = watermark
       /\ blue.paused <=> BluePauses(blue.anchor, watermark)

LEMMA LargerIdempotent ==
  ASSUME NEW a \in Nat, NEW b \in Nat
  PROVE  Larger(Larger(a, b), b) = Larger(a, b)
BY DEF Larger

\* What one evaluation leaves is a fixed point of the watermark.
LEMMA EvaluationSettles ==
  ASSUME TypeOK, blue.login = 0, EvaluateBlue,
         UNCHANGED <<account, baseline, tradeDay>>
  PROVE  /\ blue'.login = 0
         /\ baseline.login # 0 => blue'.anchor = baseline.cash
         /\ NewWatermark' = watermark'
         /\ blue'.paused <=> BluePauses(blue'.anchor, watermark')
<1>1. watermark \in Nat /\ account.balance \in Nat
  <2>1. watermark \in Money \cup {0} /\ account.balance \in Money
    BY AccountFields DEF TypeOK
  <2>2. Money \subseteq Nat
    BY ConfigAssumption
  <2> DEFINE b == account.balance
  <2>3. watermark \in Money \cup {0} /\ b \in Money
    BY <2>1
  <2> HIDE DEF b
  <2>4. watermark \in Nat /\ b \in Nat
    BY <2>2, <2>3
  <2> QED BY <2>4 DEF b
<1>2. /\ watermark' = NewWatermark /\ blue'.login = 0
      /\ blue'.anchor = Opened.anchor
      /\ blue'.paused = BluePauses(Opened.anchor, NewWatermark)
  BY DEF EvaluateBlue
<1>3. AccountChanged <=> baseline.login # 0
  BY DEF AccountChanged
<1>4. AccountChanged' <=> baseline.login # 0
  BY <1>2 DEF AccountChanged
<1>5. baseline.login # 0 => Opened.anchor = baseline.cash
  BY <1>3 DEF Opened
<1>6. NewWatermark' = watermark'
  <2>1. CASE baseline.login # 0
    <3>1. NewWatermark' = Larger(baseline.cash, account.balance)
      BY <1>4, <2>1 DEF NewWatermark
    <3>2. watermark' = Larger(baseline.cash, account.balance)
      BY <1>2, <1>3, <2>1 DEF NewWatermark
    <3> QED BY <3>1, <3>2
  <2>2. CASE baseline.login = 0
    <3>1. NewWatermark' = Larger(watermark', account.balance)
      BY <1>4, <2>2 DEF NewWatermark
    <3>2. watermark' = Larger(watermark, account.balance)
      BY <1>2, <1>3, <2>2 DEF NewWatermark
    <3> QED BY <1>1, <3>1, <3>2, LargerIdempotent
  <2> QED BY <2>1, <2>2
<1> QED BY <1>2, <1>5, <1>6

LEMMA SettledStep ==
  ASSUME ~FastLive, TypeOK, Settled, [Next]_vars
  PROVE  Settled'
<1>0. blue.login = 0
  BY DEF Settled
<1>1. CASE RiskEvaluates
  <2>1. CASE GuardEnabled
    <3>1. EvaluateBlue /\ UNCHANGED <<account, baseline, tradeDay>>
      BY <1>1, <2>1 DEF RiskEvaluates, clock
    <3>2. BluePauses(blue.anchor, watermark)' <=> BluePauses(blue'.anchor, watermark')
      BY <3>1 DEF BluePauses, BelowFloor
    <3> QED BY <1>0, <3>1, <3>2, EvaluationSettles DEF Settled
  <2>2. CASE ~GuardEnabled
    BY <1>0, <1>1, <2>2 DEF RiskEvaluates, Settled
  <2> QED BY <2>1, <2>2
<1>2. CASE RiskSaves \/ GuardianEvaluates
  <2>1. pc' # "riskBlue" /\ (blue' = blue \/ blue'.login = 0)
    BY <1>2 DEF RiskSaves, GuardianEvaluates, EvaluateBlue
  <2> QED BY <1>0, <2>1 DEF Settled
<1>3. CASE GuardianCountsBreach
  <2>1. pc' # "riskBlue" /\ blue'.login = blue.login
    BY <1>3 DEF GuardianCountsBreach, TypeOK, Blue
  <2> QED BY <1>0, <2>1 DEF Settled
<1>4. CASE pc' # "riskBlue" /\ UNCHANGED blue
  BY <1>0, <1>4 DEF Settled
<1>5. CASE UNCHANGED <<pc, account, baseline, blue, watermark>>
  BY <1>5 DEF Settled, NewWatermark, AccountChanged, BluePauses, BelowFloor
<1> QED
  BY <1>1, <1>2, <1>3, <1>4, <1>5
  DEF Next, Pipeline, vars, Probe, PracticeSession, RiskRebaselines, Execute,
      BrokerSetsBaseline, BrokerRuns, Crash, PricesMove, PositionsClose, AccountSwitch,
      DayEnds

LEMMA SecondAgrees ==
  ASSUME Settled, [Next]_vars, pc = "riskBlue", pc' = "execute", GuardEnabled,
         TypeOK, blue'.day = blue.day
  PROVE  blue'.paused = blue.paused
<1>1. EvaluateBlue
  BY DEF Next, Pipeline, vars, Probe, PracticeSession, RiskRebaselines, RiskEvaluates, RiskSaves,
         Execute, GuardianEvaluates, GuardianCountsBreach, BrokerSetsBaseline,
         Crash, PricesMove, PositionsClose, AccountSwitch, DayEnds
<1>2. Opened.day = blue.day /\ Opened.anchor \in Money \cup {0}
  <2>1. blue'.day = Opened.day /\ blue'.anchor = Opened.anchor
    BY <1>1 DEF EvaluateBlue
  <2>2. blue' \in Blue
    BY <1>1, BlueEvaluated
  <2> QED BY <2>1, <2>2 DEF Blue
<1>3. Opened.anchor = blue.anchor
  <2>1. CASE baseline.login # 0
    <3>1. AccountChanged
      BY <2>1 DEF AccountChanged, Settled
    <3> QED BY <2>1, <3>1 DEF Opened, Settled
  <2>2. CASE baseline.login = 0
    <3>1. ~AccountChanged
      BY <2>2 DEF AccountChanged
    <3>2. blue.day # tradeDay => Opened.day = tradeDay
      BY <3>1 DEF Opened, TypeOK, Blue
    <3> QED BY <1>2, <3>1, <3>2 DEF Opened
  <2> QED BY <2>1, <2>2
<1>4. blue'.paused = BluePauses(blue.anchor, watermark)
  BY <1>1, <1>3 DEF EvaluateBlue, Settled
<1>5. blue.paused \in BOOLEAN
  BY DEF TypeOK, Blue
<1> DEFINE b == BluePauses(blue.anchor, watermark)
<1>6. b \in BOOLEAN /\ (blue.paused <=> b) /\ blue'.paused = b
  BY <1>4 DEF Settled, BluePauses
<1> HIDE DEF b
<1> QED BY <1>5, <1>6

\* Without the fast thread the second evaluation of a risk loop repeats the first:
\* the pause in blue_guardian.json and the verdict cannot contradict one another
\* because of the order in which they are computed.
THEOREM EvaluationsHold ==
  ASSUME ~FastLive
  PROVE  Spec => EvaluationsAgree
<1>1. Init => Settled
  BY DEF Init, Settled
<1>2. TypeOK /\ Settled /\ [Next]_vars => Settled'
  BY SettledStep
<1>3. TypeOK /\ Settled /\ [Next]_vars
        => [pc = "riskBlue" /\ pc' = "execute" /\ GuardEnabled /\ blue'.day = blue.day
              => blue'.paused = blue.paused]_vars
  BY SecondAgrees
<1> QED
  BY <1>1, <1>2, <1>3, TypeCorrect, PTL DEF Spec, EvaluationsAgree
=============================================================================
