---------------------------- MODULE DailyLimits ----------------------------
(***************************************************************************)
(* The loss and profit limits that lead to a kill verdict, and the         *)
(* documents they are measured against:                                    *)
(*                                                                         *)
(*   account.json          what the last start-up saw of the account       *)
(*   mt5_baseline.json     login and starting cash (static drawdown)       *)
(*   daily_growth.json     the UTC day's opening equity, daily pause       *)
(*   blue_guardian.json    the trading day's anchor, pause, breaches       *)
(*   ..._high_watermark    highest closed balance (trailing drawdown)      *)
(*                                                                         *)
(* A process starts with the probe of the terminal and, without the        *)
(* performance gates, the practice session. Then every cycle runs          *)
(* risk_loop -> execution_loop -> blue_guardian_loop (data_loop.run before *)
(* them reads candles and ticks, not the account). The broker code, which  *)
(* both order paths run, also writes the baseline. Money is in a few whole *)
(* amounts, percentages are compared exactly (the code rounds them to two  *)
(* decimals).                                                              *)
(***************************************************************************)
EXTENDS Integers, FiniteSets

CONSTANTS
  Logins,           \* account numbers
  Money,            \* balances and equities of the accounts
  GuardEnabled,     \* blue_guardian.enabled
  LockOnTarget,     \* growth plan on, profit locked when the target is hit
  FastLive,         \* fast mode runs the broker code at any time
  PracticeReset,    \* no performance gates: starts set a missing baseline
  StartingCash,     \* execution.starting_cash
  MaxDrawdownPct,   \* risk.max_drawdown_pct
  MaxLossPct,       \* growth.max_daily_loss_pct
  TargetPct,        \* growth.daily_target_pct
  LossBuffer,       \* blue_guardian.daily_loss_buffer_usd
  MaxLoss,          \* blue_guardian.max_daily_loss_usd
  ProfitTarget,     \* blue_guardian.daily_profit_target_usd
  LockOnProfit,     \* blue_guardian.daily_profit_lock_on_hit
  TrailPct,         \* blue_guardian.max_trailing_drawdown_pct
  Shield,           \* blue_guardian.guardian_shield_usd, as a loss
  AccountSize,      \* blue_guardian.account_size_usd
  MaxDay,           \* bound: days
  MaxSwitches,      \* bound: account switches in the terminal
  MaxBreaches       \* bound: shield breaches counted

ASSUME ConfigAssumption ==
  /\ Logins \subseteq Nat \ {0} /\ Logins # {}
  /\ Money \subseteq Nat \ {0} /\ Money # {}
  /\ GuardEnabled \in BOOLEAN /\ LockOnTarget \in BOOLEAN
  /\ FastLive \in BOOLEAN /\ PracticeReset \in BOOLEAN /\ LockOnProfit \in BOOLEAN
  /\ StartingCash \in Money
  /\ MaxDrawdownPct \in Nat /\ MaxLossPct \in Nat /\ TargetPct \in Nat
  /\ LossBuffer \in Nat /\ MaxLoss \in Nat /\ ProfitTarget \in Nat
  /\ TrailPct \in 0..100 /\ Shield \in Nat
  /\ AccountSize \in Nat
  /\ MaxDay \in Nat \ {0} /\ MaxSwitches \in Nat /\ MaxBreaches \in Nat

VARIABLES
  pc,          \* next step of the pipeline thread
  terminal,    \* the account the terminal is logged in to
  account,     \* account.json, from an earlier start if the probe fails
  baseline,    \* mt5_baseline.json, login 0 while there is none
  growth,      \* daily_growth.json
  blue,        \* blue_guardian.json
  watermark,   \* blue_guardian_high_watermark.json, 0 while there is none
  trigger,     \* RiskManager.evaluate found a kill trigger
  verdict,     \* kill_switch as the risk loop saved it
  utcDay,      \* the UTC day
  tradeDay,    \* the Blue Guardian day, from 17:00 New York
  switches     \* number of account switches so far

clock == <<utcDay, tradeDay>>
vars  == <<pc, terminal, account, baseline, growth, blue, watermark, trigger,
           verdict, clock, switches>>

-----------------------------------------------------------------------------
Account  == [login : Logins, balance : Money, equity : Money]
Baseline == [login : Logins \cup {0}, cash : Money \cup {0}]
\* "login" 0: the key is missing. "of" is not in the file: the account whose
\* equity opened the day.
Growth   == [day : 0..MaxDay, start : Money \cup {0}, login : Logins \cup {0},
             paused : BOOLEAN, of : Logins \cup {0}]
Blue     == [day : 0..MaxDay, anchor : Money \cup {0}, login : Logins \cup {0},
             paused : BOOLEAN, breaches : 0..MaxBreaches]

PCs == {"probe", "session", "rebase", "risk", "riskBlue", "execute", "guard", "shield"}

TypeOK ==
  /\ pc \in PCs
  /\ terminal \in Account /\ account \in Account
  /\ baseline \in Baseline /\ growth \in Growth /\ blue \in Blue
  /\ watermark \in Money \cup {0}
  /\ trigger \in BOOLEAN /\ verdict \in BOOLEAN
  /\ utcDay \in 1..MaxDay /\ tradeDay \in 1..MaxDay
  /\ switches \in 0..MaxSwitches

Init ==
  /\ pc = "probe"
  /\ terminal \in {a \in Account : a.balance = StartingCash /\ a.equity = StartingCash}
  /\ account = terminal
  /\ baseline = [login |-> 0, cash |-> 0]
  /\ growth = [day |-> 0, start |-> 0, login |-> 0, paused |-> FALSE, of |-> 0]
  /\ blue = [day |-> 0, anchor |-> 0, login |-> 0, paused |-> FALSE, breaches |-> 0]
  /\ watermark = 0
  /\ trigger = FALSE /\ verdict = FALSE
  /\ utcDay = 1 /\ tradeDay = 1
  /\ switches = 0

Larger(a, b) == IF a >= b THEN a ELSE b

-----------------------------------------------------------------------------
(* core/daily_growth.py *)

\* reset_daily_growth_baseline: the login is on the file until the next
\* evaluation.
ResetGrowth ==
  [day |-> utcDay, start |-> account.equity, login |-> account.login,
   paused |-> FALSE, of |-> account.login]

\* sync_daily_session: a new UTC day, no opening equity, or another login
NewSession ==
  \/ growth.day # utcDay
  \/ growth.start = 0
  \/ growth.login # 0 /\ growth.login # account.login

Session == IF NewSession THEN ResetGrowth ELSE growth

\* Mutation: the day opens again with every evaluation.
EvaluatedGrowth_Reopens ==
  [ResetGrowth EXCEPT
     !.login = 0,
     !.paused = (account.equity - growth.start) * 100 <= -(MaxLossPct * growth.start)]

\* evaluate_daily_growth: what it writes has no login. The loss pause is
\* independent of the growth plan.
EvaluatedGrowth ==
  LET s   == Session
      pnl == account.equity - s.start
  IN  [s EXCEPT
         !.login = 0,
         !.paused = \/ LockOnTarget /\ pnl * 100 >= TargetPct * s.start
                    \/ pnl * 100 <= -(MaxLossPct * s.start)]

-----------------------------------------------------------------------------
(* core/blue_guardian.py, evaluate_daily_state *)

\* What the evaluation starts from: a known baseline of another login than
\* the document's starts everything again from the baseline, a new trading
\* day starts from what the account holds now.
AccountChanged == baseline.login # 0 /\ blue.login # baseline.login

Opened ==
  IF AccountChanged
  THEN [day |-> tradeDay, anchor |-> baseline.cash, login |-> baseline.login,
        paused |-> FALSE, breaches |-> 0]
  ELSE IF blue.day # tradeDay
  THEN [blue EXCEPT !.day = tradeDay,
                    !.anchor = Larger(account.balance, account.equity),
                    !.paused = FALSE]
  ELSE blue

\* _sync_high_watermark, after the reset of an account change
NewWatermark ==
  Larger(IF AccountChanged THEN baseline.cash ELSE watermark, account.balance)

\* The trailing floor; from 6% over the account's size on it is never below
\* that size.
BelowFloor(hw) ==
  \/ account.equity * 100 <= hw * (100 - TrailPct)
  \/ hw * 100 >= AccountSize * 106 /\ account.equity <= AccountSize

\* One of the four reasons to pause: the loss buffer, the loss limit, the
\* trailing floor, the locked profit target.
BluePauses(anchor, hw) ==
  \/ account.equity <= anchor - LossBuffer
  \/ account.equity <= anchor - MaxLoss
  \/ BelowFloor(hw)
  \/ LockOnProfit /\ account.equity - anchor >= ProfitTarget

\* Mutation: the anchor follows the equity.
EvaluateBlue_MovesAnchor ==
  /\ watermark' = NewWatermark
  /\ blue' = [day |-> Opened.day,
              anchor |-> account.equity,
              login |-> 0,
              paused |-> BluePauses(blue.anchor, NewWatermark),
              breaches |-> 0]

\* The document is written without the login and without the breaches.
EvaluateBlue ==
  /\ watermark' = NewWatermark
  /\ blue' = [day |-> Opened.day,
              anchor |-> Opened.anchor,
              login |-> 0,
              paused |-> BluePauses(Opened.anchor, NewWatermark),
              breaches |-> 0]

-----------------------------------------------------------------------------
(* start.py *)

\* probe_logged_in_account: account.json takes the terminal's account. Where
\* the profile is given, or MT5 does not answer, the file of an earlier start
\* stays.
Probe ==
  /\ pc = "probe"
  /\ account' \in {terminal, account}
  /\ pc' = "session"
  /\ UNCHANGED <<terminal, baseline, growth, blue, watermark, trigger, verdict,
                 clock, switches>>

\* ensure_practice_session: without the performance gates a baseline that is
\* missing or another account's is set, and the kill switch is cleared.
PracticeSession ==
  /\ pc = "session"
  /\ IF PracticeReset /\ (baseline.cash = 0 \/ baseline.login # account.login)
     THEN /\ baseline' = [login |-> account.login, cash |-> account.equity]
          /\ growth' = ResetGrowth
     ELSE UNCHANGED <<baseline, growth>>
  /\ verdict' = (verdict /\ ~PracticeReset)
  /\ pc' = "rebase"
  /\ UNCHANGED <<terminal, account, blue, watermark, trigger, clock, switches>>

\* The process dies at any place.
Crash ==
  /\ pc' = "probe"
  /\ trigger' = FALSE
  /\ UNCHANGED <<terminal, account, baseline, growth, blue, watermark, verdict,
                 clock, switches>>

-----------------------------------------------------------------------------
(* The pipeline *)

\* risk_loop: the account is not the baseline's.
RiskRebaselines ==
  /\ pc = "rebase"
  /\ IF baseline.login # 0 /\ baseline.login # account.login
     THEN /\ baseline' = [login |-> account.login, cash |-> account.balance]
          /\ growth' = ResetGrowth
     ELSE UNCHANGED <<baseline, growth>>
  /\ pc' = "risk"
  /\ UNCHANGED <<terminal, account, blue, watermark, trigger, verdict, clock,
                 switches>>

\* Mutation: the base moves with the day.
DrawdownBase_OfDay == IF growth.start = 0 THEN StartingCash ELSE growth.start

\* The static drawdown is measured from the baseline.
DrawdownBase == IF baseline.cash = 0 THEN StartingCash ELSE baseline.cash

StaticLossHit ==
  (DrawdownBase - account.equity) * 100 >= MaxDrawdownPct * DrawdownBase

\* RiskManager.evaluate: the daily pause counts when Blue Guardian is off.
RiskEvaluates ==
  /\ pc = "risk"
  /\ growth' = EvaluatedGrowth
  /\ IF GuardEnabled THEN EvaluateBlue ELSE UNCHANGED <<blue, watermark>>
  /\ trigger' = \/ StaticLossHit
                \/ GuardEnabled /\ (blue'.paused \/ BelowFloor(watermark'))
                \/ ~GuardEnabled /\ growth'.paused
  /\ pc' = "riskBlue"
  /\ UNCHANGED <<terminal, account, baseline, verdict, clock, switches>>

\* Mutation: only the second evaluation decides under Blue Guardian.
RiskSaves_LastOnly ==
  /\ pc = "riskBlue"
  /\ IF GuardEnabled
     THEN EvaluateBlue /\ verdict' = blue'.paused
     ELSE UNCHANGED <<blue, watermark>> /\ verdict' = trigger
  /\ pc' = "execute"
  /\ UNCHANGED <<terminal, account, baseline, growth, trigger, clock, switches>>

\* risk_loop evaluates Blue Guardian once more and saves the verdict.
RiskSaves ==
  /\ pc = "riskBlue"
  /\ IF GuardEnabled
     THEN EvaluateBlue /\ verdict' = (trigger \/ blue'.paused)
     ELSE UNCHANGED <<blue, watermark>> /\ verdict' = trigger
  /\ pc' = "execute"
  /\ UNCHANGED <<terminal, account, baseline, growth, trigger, clock, switches>>

\* The trigger was a variable of the risk loop.
Execute ==
  /\ pc = "execute"
  /\ pc' = "guard"
  /\ trigger' = FALSE
  /\ UNCHANGED <<terminal, account, baseline, growth, blue, watermark, verdict,
                 clock, switches>>

\* blue_guardian_loop
GuardianEvaluates ==
  /\ pc = "guard"
  /\ IF GuardEnabled
     THEN EvaluateBlue /\ pc' = "shield"
     ELSE UNCHANGED <<blue, watermark>> /\ pc' = "rebase"
  /\ UNCHANGED <<terminal, account, baseline, growth, trigger, verdict, clock,
                 switches>>

\* The floating loss is measured after the closes, on the document as it is.
GuardianCountsBreach ==
  /\ pc = "shield"
  /\ IF terminal.equity - terminal.balance <= -Shield
     THEN /\ blue.breaches < MaxBreaches
          /\ blue' = [blue EXCEPT !.breaches = @ + 1]
     ELSE UNCHANGED blue
  /\ pc' = "rebase"
  /\ UNCHANGED <<terminal, account, baseline, growth, watermark, trigger,
                 verdict, clock, switches>>

Pipeline ==
  \/ Probe \/ PracticeSession \/ RiskRebaselines \/ RiskEvaluates \/ RiskSaves \/ Execute
  \/ GuardianEvaluates \/ GuardianCountsBreach

-----------------------------------------------------------------------------
\* The fast thread is started after the practice session.
BrokerRuns ==
  \/ pc = "execute"
  \/ FastLive /\ pc \notin {"probe", "session"}

\* Mutation: the baseline is written with every batch.
BrokerSetsBaseline_Always ==
  /\ BrokerRuns
  /\ baseline' = [login |-> terminal.login, cash |-> terminal.balance]
  /\ UNCHANGED <<pc, terminal, account, growth, blue, watermark, trigger,
                 verdict, clock, switches>>

\* MT5Broker._account_balance, at the end of a batch of either order path:
\* the account it sees is the terminal's.
BrokerSetsBaseline ==
  /\ BrokerRuns
  /\ baseline.login # terminal.login \/ baseline.cash = 0
  /\ baseline' = [login |-> terminal.login, cash |-> terminal.balance]
  /\ UNCHANGED <<pc, terminal, account, growth, blue, watermark, trigger,
                 verdict, clock, switches>>

-----------------------------------------------------------------------------
(* The world *)

\* Prices move, and the equity with them.
PricesMove ==
  /\ \E e \in Money : terminal' = [terminal EXCEPT !.equity = e]
  /\ UNCHANGED <<pc, account, baseline, growth, blue, watermark, trigger,
                 verdict, clock, switches>>

\* All positions are closed: the balance is the equity.
PositionsClose ==
  /\ terminal' = [terminal EXCEPT !.balance = terminal.equity]
  /\ UNCHANGED <<pc, account, baseline, growth, blue, watermark, trigger,
                 verdict, clock, switches>>

\* Another account is logged in to in the terminal.
AccountSwitch ==
  /\ switches < MaxSwitches
  /\ switches' = switches + 1
  /\ \E l \in Logins \ {terminal.login}, m \in Money :
       terminal' = [login |-> l, balance |-> m, equity |-> m]
  /\ UNCHANGED <<pc, account, baseline, growth, blue, watermark, trigger,
                 verdict, clock>>

DayEnds ==
  /\ \/ utcDay < MaxDay /\ utcDay' = utcDay + 1 /\ UNCHANGED tradeDay
     \/ tradeDay < MaxDay /\ tradeDay' = tradeDay + 1 /\ UNCHANGED utcDay
  /\ UNCHANGED <<pc, terminal, account, baseline, growth, blue, watermark,
                 trigger, verdict, switches>>

Next ==
  \/ Pipeline \/ BrokerSetsBaseline \/ Crash
  \/ PricesMove \/ PositionsClose \/ AccountSwitch \/ DayEnds

Spec == Init /\ [][Next]_vars

\* The supervisor keeps the loops running.
LiveSpec == Spec /\ WF_vars(Pipeline)

-----------------------------------------------------------------------------
(* Properties *)

\* An equity that is the static limit below the starting cash of its account.
StaticLoss(a) ==
  /\ baseline.login = a.login
  /\ (baseline.cash - a.equity) * 100 >= MaxDrawdownPct * baseline.cash

\* What is left of the "8% STATIC kill": a loss that the last start-up found
\* (account.json) makes the verdict of every risk loop of the process, on
\* whatever day and from whatever equity the day opened. A loss during the run
\* is not in account.json: LossReachesVerdict.
StaticKill ==
  [][pc = "riskBlue" /\ pc' = "execute" /\ StaticLoss(account) => verdict']_vars

\* The kill is there while the terminal's account stays that far down and the
\* process runs, whenever the loss came.
LossReachesVerdict ==
  <>[](StaticLoss(terminal) /\ pc \notin {"probe", "session"}) => []<>verdict

\* The daily loss pause reaches the verdict of the same cycle.
LossPauseEnforced == pc = "execute" /\ growth.paused => verdict

\* The starting cash of an account is written once, not rebaselined down as
\* it loses: only a change of login replaces it.
BaselineKept ==
  [][baseline'.login = baseline.login => baseline' = baseline]_vars

\* The opening equity of the UTC day is not moved within the day while the
\* account stays the same, except with the baseline.
DayStartKept ==
  [][growth'.day = growth.day /\ growth'.of = growth.of /\ baseline' = baseline
       => growth'.start = growth.start]_vars

\* The two Blue Guardian evaluations of one risk loop, on the same trading day,
\* come to the same pause, so that its two documents agree.
EvaluationsAgree ==
  [][pc = "riskBlue" /\ pc' = "execute" /\ GuardEnabled /\ blue'.day = blue.day
       => blue'.paused = blue.paused]_vars

\* Whatever one of the two evaluations found, a trigger, a pause or an equity
\* below the floor, is in the verdict: the second does not undo the first.
GuardianEnforced ==
  pc = "execute" /\ GuardEnabled
    /\ (trigger \/ blue.paused \/ BelowFloor(watermark))
  => verdict

\* The pause reason says "paused until tomorrow".
PausedUntilTomorrow ==
  [][growth.paused /\ growth'.day = growth.day /\ baseline' = baseline
       => growth'.paused]_vars

\* The trailing drawdown trails the highest closed balance: it does not come
\* down while the account stays the same.
WatermarkKept ==
  [][baseline'.login = baseline.login /\ switches = 0 => watermark' >= watermark]_vars

\* Shield breaches are counted for the account, they do not disappear.
BreachesKept == [][blue'.breaches >= blue.breaches]_vars

\* The risk loop's rebaseline on a login change goes to the account that is
\* logged in.
RebaselinesForward ==
  [][pc = "rebase" /\ baseline' # baseline /\ baseline.login = terminal.login
       => baseline'.login = terminal.login]_vars

\* The day is measured from an equity of the account it is applied to, since
\* the risk loop rebaselines when the login changes.
DayOfAccount == pc = "execute" => growth.of = account.login
=============================================================================
