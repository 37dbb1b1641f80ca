----------------------------- MODULE KillSwitch -----------------------------
(***************************************************************************)
(* The kill switch: state/kill_switch.json and the documents that back it  *)
(* up (risk_state.json, blue_guardian.json), with everyone who reads or    *)
(* writes them without a lock held across the two:                         *)
(*                                                                         *)
(*   pipeline   risk_loop -> verifier_loop -> execution_loop ->            *)
(*              blue_guardian_loop, one thread, cycle after cycle          *)
(*   fast       fast_entry_executor -> fast_live_executor                  *)
(*   operator   POST /api/unblock-trades, an edited kill_switch.json, a    *)
(*              restart of the process (practice session reset)            *)
(*                                                                         *)
(* The market is what the loops measure: a risk limit is exceeded          *)
(* (breach), Blue Guardian's limits ask for a pause (pauseDue), today's    *)
(* realised profit has reached daily_profit_halt_usd (hit).                *)
(*                                                                         *)
(* Every one of these documents is read with a default, and the default is *)
(* always "not blocked": a file that cannot be read opens the gate it      *)
(* stands for. Each such read is a fault the bound MaxFaults counts.       *)
(***************************************************************************)
EXTENDS Naturals

CONSTANTS
  RiskHold,       \* risk.kill_switch of the configuration
  GuardEnabled,   \* blue_guardian.enabled
  PlanActive,     \* performance_gates_active: no practice reset at start
  FastLive,       \* fast mode may place orders
  MaxDay,         \* bound: UTC days of a behaviour
  MaxHolds,       \* bound: manual holds written by an operator
  MaxUnblocks,    \* bound: dashboard unblocks
  MaxFaults       \* bound: restarts, loops that raise, unreadable documents

ASSUME ConfigAssumption ==
  /\ RiskHold \in BOOLEAN /\ GuardEnabled \in BOOLEAN
  /\ PlanActive \in BOOLEAN /\ FastLive \in BOOLEAN
  /\ MaxDay \in Nat \ {0}
  /\ MaxHolds \in Nat /\ MaxUnblocks \in Nat /\ MaxFaults \in Nat

VARIABLES
  pc,        \* where the pipeline thread is
  fast,      \* where the fast thread is
  kill,      \* kill_switch.json
  riskKill,  \* risk_state.json "kill_switch"
  paused,    \* blue_guardian.json "trading_paused"
  approved,  \* approved_signals.json holds a signal
  seen,      \* the pipeline's local copy of kill_switch.json
  stamp,     \* the gate's local stamp_today
  day,       \* the UTC day
  market,    \* [breach, pauseDue, hit]
  hitSince,  \* history: hit has held since this pass of the gate read the switch
  halted,    \* history: the day a profit halt was last written, 0 if unblocked
  unread,    \* history: what this pass of the order gate could not read
  apart,     \* history: risk_state.json holds a verdict which the switch was
             \* not given, or has lost since
  holds, unblocks, faults

docs    == <<kill, riskKill, paused, approved>>
locals  == <<pc, seen, stamp>>
world   == <<day, market>>
history == <<hitSince, halted, unread, apart>>
counts  == <<holds, unblocks, faults>>
vars    == <<locals, fast, docs, world, history, counts>>

-----------------------------------------------------------------------------
Reasons == {"none", "hold", "halt", "risk", "guardian", "missing"}
Switch  == [on : BOOLEAN, why : Reasons, day : 0..MaxDay]

Off     == [on |-> FALSE, why |-> "none", day |-> 0]
\* The file does not exist yet.
Missing == [on |-> FALSE, why |-> "missing", day |-> 0]
On(why) == [on |-> TRUE, why |-> why, day |-> 0]

PCs == {"risk", "riskEval", "riskState", "riskSave", "verify", "verifySave",
        "gate", "gateDay", "gateSwitch", "gateRisk", "gatePnl", "pause",
        "place", "guard", "guardRead", "guardSave"}

\* What stands between a verdict and an order.
Documents == {"switch", "risk", "pause", "profit"}

\* execution_loop is past _check_execution_allowed.
OrderPCs == {"pause", "place"}

TypeOK ==
  /\ pc \in PCs
  /\ fast \in {"idle", "live", "order"}
  /\ kill \in Switch /\ seen \in Switch
  /\ riskKill \in BOOLEAN /\ paused \in BOOLEAN
  /\ approved \in BOOLEAN /\ hitSince \in BOOLEAN
  /\ stamp \in 0..MaxDay /\ halted \in 0..MaxDay
  /\ unread \in SUBSET Documents /\ apart \in BOOLEAN
  /\ day \in 1..MaxDay
  /\ market \in [breach : BOOLEAN, pauseDue : BOOLEAN, hit : BOOLEAN]
  /\ holds \in 0..MaxHolds
  /\ unblocks \in 0..MaxUnblocks
  /\ faults \in 0..MaxFaults

Init ==
  /\ pc = "risk" /\ fast = "idle"
  /\ kill = Missing /\ riskKill = FALSE /\ paused = FALSE /\ approved = FALSE
  /\ seen = Off /\ stamp = 0
  /\ day = 1
  /\ market = [breach |-> FALSE, pauseDue |-> FALSE, hit |-> FALSE]
  /\ hitSince = FALSE /\ halted = 0 /\ unread = {} /\ apart = FALSE
  /\ holds = 0 /\ unblocks = 0 /\ faults = 0

-----------------------------------------------------------------------------
(* read_json_state answers its default when the file is missing, empty,    *)
(* half written or cannot be opened: a reader cannot tell the difference.  *)

CannotRead ==
  /\ faults < MaxFaults
  /\ faults' = faults + 1

ReadsInto(default) ==
  \/ /\ seen' = IF kill.why = "missing" THEN default ELSE kill
     /\ UNCHANGED faults
  \/ CannotRead /\ seen' = default

\* What a pass of the gate could not read is its own affair: the next pass
\* reads everything again.
Remembers(lost) ==
  /\ unread' = IF pc' = "guard" THEN {} ELSE lost
  /\ hitSince' = (hitSince /\ pc' # "guard")

\* The order gate reads a document and goes where its content sends it, or
\* where the default does.
GateReadsDoc(doc, found, default) ==
  \/ pc' = found /\ Remembers(unread) /\ UNCHANGED faults
  \/ pc' = default /\ Remembers(unread \cup {doc}) /\ CannotRead

Goto(label) == pc' = label

-----------------------------------------------------------------------------
(* risk_loop.run *)

RiskReads ==
  /\ pc = "risk"
  /\ ReadsInto([Off EXCEPT !.on = RiskHold])
  /\ Goto("riskEval")
  /\ UNCHANGED <<stamp, fast, docs, world, history, holds, unblocks>>

\* Mutation: a pause is left in place when it is no longer due.
Evaluated_KeepsPause(k) ==
  IF market.pauseDue \/ k.why = "guardian" THEN On("guardian")
  ELSE IF market.breach THEN On("risk")
  ELSE IF RiskHold THEN k ELSE Off

\* RiskManager.evaluate, then the Blue Guardian override of risk_loop: the
\* first trigger switches on, without one the switch is cleared whoever set
\* it, unless the configuration holds it.
Evaluated(k) ==
  IF market.pauseDue THEN On("guardian")
  ELSE IF market.breach THEN On("risk")
  ELSE IF RiskHold THEN k ELSE Off

\* The account's login is not the baseline's: the local copy starts cleared.
RiskEvaluates ==
  /\ pc = "riskEval"
  /\ \E k \in {seen, Off} : seen' = Evaluated(k)
  /\ paused' = market.pauseDue
  /\ Goto("riskState")
  /\ UNCHANGED <<stamp, fast, kill, riskKill, approved, world, history, counts>>

RiskSavesState ==
  /\ pc = "riskState"
  /\ riskKill' = seen.on
  /\ Goto("riskSave")
  /\ UNCHANGED <<seen, stamp, fast, kill, paused, approved, world, history, counts>>

RiskSavesSwitch ==
  /\ pc = "riskSave"
  /\ kill' = seen
  /\ seen' = Off
  /\ apart' = FALSE
  /\ Goto("verify")
  /\ UNCHANGED <<stamp, fast, riskKill, paused, approved, world, hitSince,
                 halted, unread, counts>>

-----------------------------------------------------------------------------
(* verifier_loop.run: the switch is read before the terminal is asked for  *)
(* spreads and symbol specifications, and used after.                      *)

VerifierReads ==
  /\ pc = "verify"
  /\ ReadsInto(Off)
  /\ Goto("verifySave")
  /\ UNCHANGED <<stamp, fast, docs, world, history, holds, unblocks>>

VerifierSaves ==
  /\ pc = "verifySave"
  /\ approved' \in IF seen.on THEN {FALSE} ELSE BOOLEAN
  /\ seen' = Off
  /\ Goto("gate")
  /\ UNCHANGED <<stamp, fast, kill, riskKill, paused, world, history, counts>>

-----------------------------------------------------------------------------
(* execution_loop._check_execution_allowed *)

GateReads ==
  /\ pc = "gate"
  /\ ReadsInto(Off)
  /\ unread' = IF faults' = faults THEN {} ELSE {"switch"}
  /\ hitSince' = market.hit
  /\ Goto("gateDay")
  /\ UNCHANGED <<stamp, fast, docs, world, halted, apart, holds, unblocks>>

\* Mutation: the day stamp is not compared.
OldHalt_AnyDay(k) == k.on /\ k.why = "halt" /\ k.day # 0

\* Mutation: a halt of yesterday is not recognised.
OldHalt_Never(k) == k.on /\ k.why = "halt" /\ k.day > day

OldHalt(k) == k.on /\ k.why = "halt" /\ k.day # 0 /\ k.day # day

\* stamp_today is taken once; an old halt is cleared in the file.
GateRollsOver ==
  /\ pc = "gateDay"
  /\ stamp' = day
  /\ IF OldHalt(seen) THEN kill' = Off /\ seen' = Off ELSE UNCHANGED <<kill, seen>>
  /\ apart' = (apart \/ (riskKill /\ OldHalt(seen)))
  /\ Goto("gateSwitch")
  /\ UNCHANGED <<fast, riskKill, paused, approved, world, hitSince, halted,
                 unread, counts>>

GateTestsSwitch ==
  /\ pc = "gateSwitch"
  /\ Goto(IF seen.on THEN "guard" ELSE "gateRisk")
  /\ Remembers(unread)
  /\ seen' = Off
  /\ UNCHANGED <<stamp, fast, docs, world, halted, apart, counts>>

\* Mutation: only kill_switch.json decides.
GateTestsRiskState_Skipped ==
  /\ pc = "gateRisk"
  /\ Goto("gatePnl")
  /\ UNCHANGED <<seen, stamp, fast, docs, world, history, counts>>

GateTestsRiskState ==
  /\ pc = "gateRisk"
  /\ GateReadsDoc("risk", IF riskKill THEN "guard" ELSE "gatePnl", "gatePnl")
  /\ UNCHANGED <<seen, stamp, fast, docs, world, halted, apart, holds, unblocks>>

\* What the profit gate does with its measurement: an unreadable
\* paper_trades.json is a day without any profit.
ProfitGate(stops) ==
  /\ pc = "gatePnl"
  /\ GateReadsDoc("profit", IF stops THEN "guard" ELSE "pause", "pause")
  /\ IF pc' = "guard"
     THEN kill' = [on |-> TRUE, why |-> "halt", day |-> stamp] /\ halted' = stamp
     ELSE UNCHANGED <<kill, halted>>
  /\ stamp' = 0
  /\ UNCHANGED <<seen, fast, riskKill, paused, approved, world, apart, holds,
                 unblocks>>

\* Mutation: the profit is not measured again on a day already stamped.
GateTestsProfit_OncePerDay == ProfitGate(market.hit /\ halted # stamp)

GateTestsProfit == ProfitGate(market.hit)

\* execution_loop.run: Blue Guardian's pause, then the approved signals. (An
\* unreadable approved_signals.json ends the loop, as LoopRaises does.)
PauseTested ==
  /\ pc = "pause"
  /\ GateReadsDoc("pause",
                  IF approved /\ ~paused THEN "place" ELSE "guard",
                  IF approved THEN "place" ELSE "guard")
  /\ UNCHANGED <<seen, stamp, fast, docs, world, halted, apart, holds, unblocks>>

\* The orders of the batch are sent.
Places ==
  /\ pc = "place"
  /\ Goto("guard")
  /\ Remembers({})
  /\ UNCHANGED <<seen, stamp, fast, docs, world, halted, apart, counts>>

-----------------------------------------------------------------------------
(* blue_guardian_loop.run *)

GuardianEvaluates ==
  /\ pc = "guard"
  /\ IF GuardEnabled
     THEN /\ paused' = market.pauseDue
          /\ Goto(IF market.pauseDue THEN "guardRead" ELSE "risk")
     ELSE Goto("risk") /\ UNCHANGED paused
  /\ UNCHANGED <<seen, stamp, fast, kill, riskKill, approved, world, history, counts>>

GuardianReads ==
  /\ pc = "guardRead"
  /\ ReadsInto(Off)
  /\ Goto("guardSave")
  /\ UNCHANGED <<stamp, fast, docs, world, history, holds, unblocks>>

\* The other fields of the document are kept, a day stamp too.
GuardianSaves ==
  /\ pc = "guardSave"
  /\ kill' = [seen EXCEPT !.on = TRUE, !.why = "guardian"]
  /\ seen' = Off
  /\ Goto("risk")
  /\ UNCHANGED <<stamp, fast, riskKill, paused, approved, world, history, counts>>

-----------------------------------------------------------------------------
(* run_pipeline catches what a loop raises and starts the next one. *)

NextLoop ==
  [p \in PCs |->
     CASE p \in {"risk", "riskEval", "riskState", "riskSave"} -> "verify"
       [] p \in {"verify", "verifySave"} -> "gate"
       [] p \in {"guard", "guardRead", "guardSave"} -> "risk"
       [] OTHER -> "guard"]

LoopRaises ==
  /\ faults < MaxFaults
  /\ faults' = faults + 1
  /\ Goto(NextLoop[pc])
  /\ seen' = Off /\ stamp' = 0
  /\ unread' = {} /\ hitSince' = FALSE
  /\ apart' = (apart \/ (riskKill /\ pc = "riskSave"))
  /\ UNCHANGED <<fast, docs, world, halted, holds, unblocks>>

Pipeline ==
  \/ RiskReads \/ RiskEvaluates \/ RiskSavesState \/ RiskSavesSwitch
  \/ VerifierReads \/ VerifierSaves
  \/ GateReads \/ GateRollsOver \/ GateTestsSwitch \/ GateTestsRiskState
  \/ GateTestsProfit \/ PauseTested \/ Places
  \/ GuardianEvaluates \/ GuardianReads \/ GuardianSaves

-----------------------------------------------------------------------------
(* Fast mode: evaluate_entry tests the switch, execute_fast_entry tests    *)
(* it again with the pause and the verifier's approval; the session       *)
(* lock may be waited for before the order.                                *)

\* One moment at which the documents cannot be read hides what they hold.
FastFinds(open) == (open /\ UNCHANGED faults) \/ CannotRead

FastEvaluates ==
  /\ FastLive
  /\ fast = "idle"
  /\ FastFinds(~kill.on)
  /\ fast' = "live"
  /\ UNCHANGED <<locals, docs, world, history, holds, unblocks>>

FastConfirms ==
  /\ fast = "live"
  /\ approved /\ FastFinds(~kill.on /\ ~paused)
  /\ fast' = "order"
  /\ UNCHANGED <<locals, docs, world, history, holds, unblocks>>

\* Blocked by one of these tests or by another gate, or the order is done.
FastReturns ==
  /\ fast # "idle"
  /\ fast' = "idle"
  /\ UNCHANGED <<locals, docs, world, history, counts>>

-----------------------------------------------------------------------------
(* The operator *)

\* POST /api/unblock-trades
Unblock ==
  /\ unblocks < MaxUnblocks
  /\ unblocks' = unblocks + 1
  /\ kill' = Off
  /\ halted' = 0 /\ apart' = riskKill
  /\ UNCHANGED <<locals, fast, riskKill, paused, approved, world, hitSince,
                 unread, holds, faults>>

\* A manual hold is written into kill_switch.json.
Hold ==
  /\ holds < MaxHolds
  /\ holds' = holds + 1
  /\ kill' = On("hold")
  /\ UNCHANGED <<locals, fast, riskKill, paused, approved, world, history,
                 unblocks, faults>>

\* The process stops anywhere and starts again: ensure_practice_session
\* clears the switch before the services start, unless it cannot read it.
Restart ==
  /\ faults < MaxFaults
  /\ faults' = faults + 1
  /\ pc' = "risk" /\ seen' = Off /\ stamp' = 0
  /\ fast' = "idle"
  /\ kill' \in IF kill.on /\ ~PlanActive THEN {kill, Off} ELSE {kill}
  /\ unread' = {} /\ hitSince' = FALSE
  /\ apart' = (apart \/ (riskKill /\ (pc = "riskSave" \/ kill' # kill)))
  /\ UNCHANGED <<riskKill, paused, approved, world, halted, holds, unblocks>>

-----------------------------------------------------------------------------
(* The market and the clock *)

RiskChanges ==
  /\ market' = [market EXCEPT !.breach = ~@]
  /\ UNCHANGED <<locals, fast, docs, day, history, counts>>

PauseChanges ==
  /\ GuardEnabled
  /\ market' = [market EXCEPT !.pauseDue = ~@]
  /\ UNCHANGED <<locals, fast, docs, day, history, counts>>

\* A trade is closed: today's realised profit crosses the target.
ProfitChanges ==
  /\ market' = [market EXCEPT !.hit = ~@]
  /\ hitSince' = FALSE
  /\ UNCHANGED <<locals, fast, docs, day, halted, unread, apart, counts>>

\* UTC midnight: nothing has been realised today.
Midnight ==
  /\ day < MaxDay
  /\ day' = day + 1
  /\ market' = [market EXCEPT !.hit = FALSE]
  /\ hitSince' = FALSE
  /\ UNCHANGED <<locals, fast, docs, halted, unread, apart, counts>>

Market == RiskChanges \/ PauseChanges \/ ProfitChanges \/ Midnight

-----------------------------------------------------------------------------
Next ==
  \/ Pipeline \/ LoopRaises
  \/ FastEvaluates \/ FastConfirms \/ FastReturns
  \/ Unblock \/ Hold \/ Restart
  \/ Market

Spec == Init /\ [][Next]_vars

\* The supervisor restarts the pipeline runner after every cycle, also after
\* an exception; no step of it waits for another thread.
Fairness == WF_vars(Pipeline)
LiveSpec == Spec /\ Fairness

-----------------------------------------------------------------------------
(* Properties *)

\* A verdict the risk loop has saved reaches the orders of the pipeline only
\* through two failures at once: risk_state.json cannot be read, and the switch
\* either cannot be read or no longer says what was saved with it (unblock,
\* rollover, restart, a loop that raised between the two writes). Blue
\* Guardian's pause is a third document and has to fail as well.
VerdictBlocks ==
  /\ riskKill /\ pc \in OrderPCs
       => "risk" \in unread /\ (apart \/ "switch" \in unread)
  /\ paused /\ pc = "place" => "pause" \in unread

\* The execution loop never gets to its orders in a cycle during which the
\* realised profit was at the target from the gate's first read on, whatever
\* became of the switch or of the day in between, unless the trades cannot be
\* read at the moment they are summed up.
OrdersBelowTarget == pc \in OrderPCs /\ hitSince => "profit" \in unread

\* The gate of the execution loop clears nothing but a profit halt of an
\* earlier day: as long as no operator has edited the file, a pause, a risk
\* trigger or a halt of today stays where it is.
GateClears == pc = "gateDay" /\ pc' = "gateSwitch" /\ kill.on /\ ~kill'.on
ClearsOldHaltsOnly ==
  [][GateClears /\ holds = 0 => kill.why = "halt" /\ kill.day < day]_vars

\* "Auto-resets at UTC midnight": a profit halt of an earlier day does not
\* stay in the file, also when the configuration makes the risk loop keep
\* whatever it finds.
StaleHalt == kill.on /\ kill.why = "halt" /\ kill.day < day
HaltEndsWithDay == StaleHalt ~> ~StaleHalt

\* Once the market stays calm the gate opens again: no reason left in one of
\* the three documents keeps the agent halted.
Calm == ~market.breach /\ ~market.pauseDue /\ ~market.hit
TradesAgain == <>[]Calm => []<>(pc = "pause")

\* The comment in the gate: writing a fresh daily halt is always safe, a
\* manual hold's reason is never clobbered.
KeepsManualHold ==
  [][pc = "gatePnl" /\ kill.why = "hold" => kill' = kill \/ pc' = pc]_vars

\* The configuration: the halt stops opening new trades once today's profit
\* is at the target; nobody has unblocked since.
HaltStopsEntries ==
  [][fast = "live" /\ fast' = "order" => ~(market.hit /\ halted = day)]_vars

\* The dashboard: an unblock clears all blocking gates, so that trades can
\* flow immediately.
UnblockOpensGates ==
  [][unblocks' # unblocks => ~kill'.on /\ ~riskKill' /\ ~paused']_vars
=============================================================================
