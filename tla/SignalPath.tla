----------------------------- MODULE SignalPath -----------------------------
(***************************************************************************)
(* The way of a signal from the signal loop to an order.                   *)
(*                                                                         *)
(*   signal_loop -> evaluation_loop -> verifier_loop -> execution_loop     *)
(*      candidates      evaluated, cache    approved                       *)
(*                                                                         *)
(* Every document is written twice, first as a JSON file (mirror), then as *)
(* a table of the SQLite store (table); the loops read the store. A loop   *)
(* that raises is skipped and the next one takes what it finds. The fast   *)
(* thread reads the cache, the approved and the evaluated signals between  *)
(* any two writes, and places an order of its own.                         *)
(*                                                                         *)
(* One symbol, one side, one setup. A signal gets a new identifier in each *)
(* cycle, here the number of the cycle; 0 is an empty document. The cycles *)
(* are also the clock of entry_staging. What happens to an order is in     *)
(* OrderExecution.                                                         *)
(***************************************************************************)
EXTENDS Integers, FiniteSets

CONSTANTS
  Store,      \* state_store.enabled and read_from_sqlite
  FastLive,   \* fast mode places orders
  Confirm,    \* trading.entry_confirm_seconds, in cycles
  Keep,       \* max_age_sec of prune_stale, in cycles
  MaxHour,    \* fast_mode.max_trades_per_symbol_per_hour
  MaxCycles,  \* bound: pipeline cycles
  MaxFaults   \* bound: loops that raise, restarts

ASSUME ConfigAssumption ==
  /\ Store \in BOOLEAN /\ FastLive \in BOOLEAN
  /\ Confirm \in Nat \ {0} /\ Keep \in Nat /\ MaxHour \in Nat
  /\ MaxCycles \in Nat \ {0} /\ MaxFaults \in Nat

VARIABLES
  pc,        \* next step of the pipeline thread
  cycle,     \* number of the pipeline cycle
  mirror,    \* the JSON documents
  table,     \* the same documents in the SQLite store
  hand,      \* the signal the running loop has in hand
  staged,    \* entry_staging.json: first and last cycle it was seen, or 0
  live,      \* the cache entry the fast thread reads has not expired
  fast,      \* next step of the fast thread
  fsig,      \* the signal of its tick
  intents,   \* the intent queue is not empty
  session,   \* holder of the terminal session
  executed,  \* signals in paper_orders.json or fast_mode_state.json
  recorded,  \* fast orders of the last hour in fast_mode_state.json
  window,    \* fast orders of the last hour at the broker
  lost,      \* history: fast orders that were never recorded
  touched,   \* history: cycles in which staged was touched since its first
  unpruned,  \* history: those whose signal loop failed, before or after it pruned
  failed,    \* history: stages of this cycle that did not finish
  dirty,     \* history: a stage failed since the last cycle without failure
  faults

docs    == <<mirror, table>>
hands   == <<fast, fsig>>
orders  == <<executed, recorded, window, lost>>
history == <<touched, unpruned, failed, dirty>>
vars    == <<pc, cycle, docs, hand, staged, live, hands, intents, session,
             orders, history, faults>>

Cycles == 1..MaxCycles
Signal == 0..MaxCycles
Docs   == {"candidates", "evaluated", "cache", "approved"}
Stages == {"signal", "evaluate", "verify", "execute"}
PCs    == {"signal", "signalSync", "evaluate", "evaluateSync", "cache",
           "cacheSync", "verify", "verifySave", "verifySync", "execute",
           "place", "rest"}
FastPCs == {"idle", "check", "lookup", "connect", "order", "persist", "record"}

TypeOK ==
  /\ pc \in PCs /\ cycle \in Cycles
  /\ mirror \in [Docs -> Signal] /\ table \in [Docs -> Signal]
  /\ hand \in Signal
  /\ staged \in [first : Signal, last : Signal]
  /\ live \in BOOLEAN
  /\ fast \in FastPCs /\ fsig \in Signal
  /\ intents \in BOOLEAN
  /\ session \in {"none", "pipeline", "fast"}
  /\ executed \subseteq Cycles /\ recorded \subseteq window
  /\ window \subseteq Cycles /\ lost \subseteq Cycles
  /\ touched \subseteq Cycles /\ unpruned \subseteq Cycles
  /\ failed \subseteq Stages /\ dirty \in BOOLEAN
  /\ faults \in 0..MaxFaults

NotStaged == [first |-> 0, last |-> 0]

Init ==
  /\ pc = "signal" /\ cycle = 1
  /\ mirror = [d \in Docs |-> 0] /\ table = [d \in Docs |-> 0]
  /\ hand = 0
  /\ staged = NotStaged
  /\ live = FALSE
  /\ fast = "idle" /\ fsig = 0
  /\ intents = FALSE
  /\ session = "none"
  /\ executed = {} /\ recorded = {} /\ window = {} /\ lost = {}
  /\ touched = {} /\ unpruned = {} /\ failed = {} /\ dirty = FALSE
  /\ faults = 0

-----------------------------------------------------------------------------
(* core/state_store.py *)

\* The read_... functions: an empty table is a document, so that the files
\* are only read when the store is off.
Stored(d) == IF Store THEN table[d] ELSE mirror[d]

\* write_json_state
Saves(d, s, next) ==
  /\ mirror' = [mirror EXCEPT ![d] = s]
  /\ pc' = next

\* sync_store_from_doc: the rows are deleted and inserted again in one
\* transaction; nothing happens when the store is off.
Syncs(d, from, next) ==
  /\ pc = from
  /\ table' = IF Store THEN [table EXCEPT ![d] = mirror[d]] ELSE table
  /\ pc' = next

-----------------------------------------------------------------------------
(* signal_loop and entry_staging *)

Pruned == IF staged.first # 0 /\ cycle - staged.last > Keep THEN NotStaged ELSE staged

\* What the five streams, the meta decision and refine_candidates leave: a
\* signal of this cycle or none.
Proposals == {0, cycle}

\* Mutation: the rows are never pruned.
SignalLoop_KeepsRows ==
  /\ pc = "signal"
  /\ \E s \in Proposals : Saves("candidates", s, "signalSync")
  /\ UNCHANGED <<cycle, table, hand, staged, live, hands, intents, session,
                 orders, history, faults>>

\* refine_candidates prunes the staging rows first.
SignalLoop ==
  /\ pc = "signal"
  /\ staged' = Pruned
  /\ touched' = IF Pruned = NotStaged THEN {} ELSE touched
  /\ \E s \in Proposals : Saves("candidates", s, "signalSync")
  /\ UNCHANGED <<cycle, table, hand, live, hands, intents, session, orders,
                 unpruned, failed, dirty, faults>>

SignalSyncs ==
  /\ Syncs("candidates", "signalSync", "evaluate")
  /\ UNCHANGED <<cycle, mirror, hand, staged, live, hands, intents, session,
                 orders, history, faults>>

-----------------------------------------------------------------------------
(* evaluation_loop and the fast signal cache *)

\* evaluate_batch: the policy keeps the candidate or skips it.
Evaluations(s) == {0, s}

\* No candidates are a document of their own.
Evaluates ==
  /\ pc = "evaluate"
  /\ \E s \in Evaluations(Stored("candidates")) : Saves("evaluated", s, "evaluateSync")
  /\ UNCHANGED <<cycle, table, hand, staged, live, hands, intents, session,
                 orders, history, faults>>

EvaluateSyncs ==
  /\ Syncs("evaluated", "evaluateSync", "cache")
  /\ UNCHANGED <<cycle, mirror, hand, staged, live, hands, intents, session,
                 orders, history, faults>>

\* refresh_cache gives the entry a new time to live, also for a signal that
\* has been in the cache before.
RefreshesCache ==
  /\ pc = "cache"
  /\ Saves("cache", mirror["evaluated"], "cacheSync")
  /\ live' = IF Store THEN live ELSE TRUE
  /\ UNCHANGED <<cycle, table, hand, staged, hands, intents, session, orders,
                 history, faults>>

CacheSyncs ==
  /\ Syncs("cache", "cacheSync", "verify")
  /\ live' = IF Store THEN TRUE ELSE live
  /\ UNCHANGED <<cycle, mirror, hand, staged, hands, intents, session, orders,
                 history, faults>>

-----------------------------------------------------------------------------
(* verifier_loop *)

\* touch_and_check: the first sight, or a price that has drifted from the
\* staged one, starts the timer.
Touches(drifted) ==
  IF staged.first = 0 \/ drifted
  THEN staged' = [first |-> cycle, last |-> cycle] /\ touched' = {cycle}
  ELSE staged' = [staged EXCEPT !.last = cycle] /\ touched' = touched \cup {cycle}

Confirmed == cycle - staged'.first >= Confirm

\* _verify_one: entry_confirm is one of its checks and any other may reject the
\* signal. (Gold may be approved without it, core/gold_policy.py.)
Verdicts(s) == IF Confirmed THEN {0, s} ELSE {0}

\* The evaluated signals are read, the terminal is asked for positions and
\* spreads, and the batch is verified.
Verifies ==
  /\ pc = "verify"
  /\ pc' = "verifySave"
  /\ \/ Stored("evaluated") = 0 /\ hand' = 0 /\ UNCHANGED <<staged, touched>>
     \/ /\ Stored("evaluated") # 0
        /\ \E drifted \in BOOLEAN :
             /\ Touches(drifted)
             /\ hand' \in Verdicts(Stored("evaluated"))
  /\ UNCHANGED <<cycle, docs, live, hands, intents, session, orders, unpruned,
                 failed, dirty, faults>>

\* Mutation: the approved signals stay until others are approved.
VerifierSaves_KeepsOld ==
  /\ pc = "verifySave"
  /\ Saves("approved", IF hand = 0 THEN mirror["approved"] ELSE hand, "verifySync")
  /\ hand' = 0
  /\ UNCHANGED <<cycle, table, staged, live, hands, intents, session, orders,
                 history, faults>>

VerifierSaves ==
  /\ pc = "verifySave"
  /\ Saves("approved", hand, "verifySync")
  /\ hand' = 0
  /\ UNCHANGED <<cycle, table, staged, live, hands, intents, session, orders,
                 history, faults>>

\* Mutation: an empty list of approved signals is not written to the store.
VerifierSyncs_Rows ==
  /\ pc = "verifySync"
  /\ table' = IF Store /\ mirror["approved"] # 0
              THEN [table EXCEPT !["approved"] = mirror["approved"]] ELSE table
  /\ pc' = "execute"
  /\ dirty' = (failed # {})
  /\ UNCHANGED <<cycle, mirror, hand, staged, live, hands, intents, session,
                 orders, touched, unpruned, failed, faults>>

VerifierSyncs ==
  /\ Syncs("approved", "verifySync", "execute")
  /\ dirty' = (failed # {})
  /\ UNCHANGED <<cycle, mirror, hand, staged, live, hands, intents, session,
                 orders, touched, unpruned, failed, faults>>

-----------------------------------------------------------------------------
(* execution_loop *)

\* A gate is closed, a drained intent ends the loop, or nothing is approved.
ExecutionReturns ==
  /\ pc = "execute"
  /\ pc' = "rest"
  /\ intents' \in {intents, FALSE}
  /\ UNCHANGED <<cycle, docs, hand, staged, live, hands, session, orders,
                 history, faults>>

ExecutionReads ==
  /\ pc = "execute"
  /\ ~intents
  /\ Stored("approved") # 0
  /\ hand' = Stored("approved")
  /\ pc' = "place"
  /\ UNCHANGED <<cycle, docs, staged, live, hands, intents, session, orders,
                 history, faults>>

\* The batch in its session: the signal is placed, or skipped or refused.
\* executed_signal_ids are those of paper_orders.json. In paper mode a trade that
\* is found closed takes the staging rows of its symbol away (clear_symbol).
ExecutionPlaces ==
  /\ pc = "place"
  /\ session = "none"
  /\ executed' \in {executed, executed \cup {hand}}
  /\ hand' = 0
  /\ pc' = "rest"
  /\ \/ UNCHANGED <<staged, touched>>
     \/ staged' = NotStaged /\ touched' = {}
  /\ UNCHANGED <<cycle, docs, live, hands, intents, session, recorded, window,
                 lost, unpruned, failed, dirty, faults>>

NextCycle ==
  /\ pc = "rest"
  /\ cycle < MaxCycles
  /\ cycle' = cycle + 1
  /\ pc' = "signal"
  /\ failed' = {}
  /\ UNCHANGED <<docs, hand, staged, live, hands, intents, session, orders,
                 touched, unpruned, dirty, faults>>

-----------------------------------------------------------------------------
(* fast_tick_loop and execute_fast_entry *)

\* Mutation: the hourly limit lets one more through.
RateOk_OneMore == Cardinality(recorded) <= MaxHour

\* _rate_limits_ok
RateOk == Cardinality(recorded) < MaxHour

\* prune_expired, then evaluate_entry finds the price in the zone: the intent
\* is pushed before the entry is executed.
FastTick ==
  /\ FastLive
  /\ fast = "idle"
  /\ live /\ Stored("cache") # 0
  /\ RateOk
  /\ fsig' = Stored("cache")
  /\ intents' = TRUE
  /\ fast' = "check"
  /\ UNCHANGED <<pc, cycle, docs, hand, staged, live, session, orders, history,
                 faults>>

\* Mutation: the approval of the verifier is not asked for.
FastChecks_Unapproved ==
  /\ fast = "check"
  /\ fast' = IF fsig \notin executed THEN "lookup" ELSE "idle"
  /\ UNCHANGED <<pc, cycle, docs, hand, staged, live, fsig, intents, session,
                 orders, history, faults>>

\* _is_verifier_approved and _executed_ids
FastChecks ==
  /\ fast = "check"
  /\ fast' = IF Stored("approved") = fsig /\ fsig \notin executed
             THEN "lookup" ELSE "idle"
  /\ UNCHANGED <<pc, cycle, docs, hand, staged, live, fsig, intents, session,
                 orders, history, faults>>

\* _find_evaluated_signal
FastLooksUp ==
  /\ fast = "lookup"
  /\ fast' = IF Stored("evaluated") = fsig THEN "connect" ELSE "idle"
  /\ UNCHANGED <<pc, cycle, docs, hand, staged, live, fsig, intents, session,
                 orders, history, faults>>

FastConnects ==
  /\ fast = "connect"
  /\ session = "none"
  /\ session' = "fast"
  /\ fast' = "order"
  /\ UNCHANGED <<pc, cycle, docs, hand, staged, live, fsig, intents, orders,
                 history, faults>>

FastPlaces ==
  /\ fast = "order"
  /\ window' = window \cup {fsig}
  /\ lost' = lost \ {fsig}
  /\ fast' = "persist"
  /\ UNCHANGED <<pc, cycle, docs, hand, staged, live, fsig, intents, session,
                 executed, recorded, history, faults>>

\* Nothing is placed: an error is reported and the session given back.
FastRefused ==
  /\ fast = "order"
  /\ session' = "none"
  /\ fast' = "idle"
  /\ UNCHANGED <<pc, cycle, docs, hand, staged, live, fsig, intents, orders,
                 history, faults>>

\* _persist_mt5_result and _mark_executed
FastPersists ==
  /\ fast = "persist"
  /\ executed' = executed \cup {fsig}
  /\ fast' = "record"
  /\ UNCHANGED <<pc, cycle, docs, hand, staged, live, fsig, intents, session,
                 recorded, window, lost, history, faults>>

\* record_trade_entry, then disconnect() in the finally clause
FastRecords ==
  /\ fast = "record"
  /\ recorded' = recorded \cup {fsig}
  /\ session' = "none"
  /\ fast' = "idle"
  /\ UNCHANGED <<pc, cycle, docs, hand, staged, live, fsig, intents, executed,
                 window, lost, history, faults>>

-----------------------------------------------------------------------------
(* Failures and the clock *)

Unrecorded == IF fast \in {"persist", "record"} THEN {fsig} ELSE {}

Stage ==
  CASE pc \in {"signal", "signalSync"} -> "signal"
    [] pc \in {"evaluate", "evaluateSync", "cache", "cacheSync"} -> "evaluate"
    [] pc \in {"verify", "verifySave", "verifySync"} -> "verify"
    [] OTHER -> "execute"

NextLoop ==
  CASE Stage = "signal" -> "evaluate"
    [] Stage = "evaluate" -> "verify"
    [] Stage = "verify" -> "execute"
    [] OTHER -> "rest"

\* A loop raises, an SQLite error in its sync included, or returns early since
\* a file it needs is missing: run_pipeline goes on with the next loop.
LoopRaises ==
  /\ faults < MaxFaults
  /\ faults' = faults + 1
  /\ pc # "rest"
  /\ pc' = NextLoop
  /\ hand' = 0
  /\ failed' = failed \cup {Stage}
  /\ unpruned' = IF Stage = "signal" THEN unpruned \cup {cycle} ELSE unpruned
  /\ dirty' = TRUE
  /\ UNCHANGED <<cycle, docs, staged, live, hands, intents, session, orders,
                 touched>>

\* execute_fast_entry catches the exception and gives the session back.
FastRaises ==
  /\ faults < MaxFaults
  /\ faults' = faults + 1
  /\ fast \in {"order", "persist", "record"}
  /\ lost' = lost \cup Unrecorded
  /\ session' = "none"
  /\ fast' = "idle"
  /\ UNCHANGED <<pc, cycle, docs, hand, staged, live, fsig, intents, executed,
                 recorded, window, history>>

\* The process is killed and started again, with a new cycle.
Restart ==
  /\ faults < MaxFaults
  /\ faults' = faults + 1
  /\ cycle < MaxCycles
  /\ cycle' = cycle + 1
  /\ pc' = "signal"
  /\ hand' = 0
  /\ fast' = "idle"
  /\ lost' = lost \cup Unrecorded
  /\ session' = "none"
  /\ intents' = FALSE
  /\ failed' = {} /\ dirty' = TRUE
  /\ UNCHANGED <<docs, staged, live, fsig, executed, recorded, window, touched,
                 unpruned>>

CacheExpires ==
  /\ live' = FALSE
  /\ UNCHANGED <<pc, cycle, docs, hand, staged, hands, intents, session, orders,
                 history, faults>>

\* An order is no longer of the last hour, nor is its record: _trades_last_hour
\* counts from the same moment.
HourPasses ==
  /\ \E s \in window :
       /\ ~(fast \in {"persist", "record"} /\ s = fsig)
       /\ window' = window \ {s}
       /\ recorded' = recorded \ {s}
       /\ lost' = lost \ {s}
  /\ UNCHANGED <<pc, cycle, docs, hand, staged, live, hands, intents, session,
                 executed, history, faults>>

-----------------------------------------------------------------------------
Pipeline ==
  \/ SignalLoop \/ SignalSyncs
  \/ Evaluates \/ EvaluateSyncs \/ RefreshesCache \/ CacheSyncs
  \/ Verifies \/ VerifierSaves \/ VerifierSyncs
  \/ ExecutionReturns \/ ExecutionReads \/ ExecutionPlaces \/ NextCycle

Fast ==
  \/ FastTick \/ FastChecks \/ FastLooksUp \/ FastConnects
  \/ FastPlaces \/ FastRefused \/ FastPersists \/ FastRecords

Next ==
  \/ Pipeline \/ Fast
  \/ LoopRaises \/ FastRaises \/ Restart \/ CacheExpires \/ HourPasses

Spec == Init /\ [][Next]_vars

-----------------------------------------------------------------------------
(* Properties *)

\* When the loops before it have all finished, the execution loop finds the
\* same documents in the files, which the dashboard shows, and in the store,
\* which it orders from, whatever earlier failures left behind.
MirrorsAgree ==
  Store /\ pc \in {"execute", "place"} /\ failed = {} => mirror = table

\* The pipeline orders a signal of an earlier cycle only in a cycle in which
\* one of its stages failed.
PipelineOrders == pc = "place" /\ pc' = "rest" /\ executed' # executed
FreshOrders == [][PipelineOrders => hand = cycle \/ failed # {}]_vars

\* The fast thread goes for the session only with a signal that is still the
\* approved one: its three reads are at different moments, but a verifier that
\* withdraws the signal comes after an evaluation that has replaced it.
FastChecked ==
  [][fast = "lookup" /\ fast' = "connect" => Stored("approved") = fsig \/ dirty]_vars

\* The fast orders of an hour stay within the limit, those not counted whose
\* record was lost in a failure.
RateKept == Cardinality(window \ lost) <= MaxHour

\* A signal the verifier approves was seen the confirmation time ago without a
\* drift since, and was never out of sight for longer than staging rows are
\* kept, except before a cycle whose signal loop, which prunes them, failed.
ConfirmedSteadily ==
  pc = "verifySave" /\ hand # 0 =>
    /\ \E c \in touched : cycle - c >= Confirm
    /\ \A c \in touched \ {cycle} : \E d \in touched :
         d > c /\ (d - c <= Keep \/ d \in unpruned)

\* "Track how long this signal fingerprint has been continuously valid".
ContinuouslyValid ==
  pc = "verifySave" /\ hand # 0 => \A c \in Cycles :
    staged.first <= c /\ c <= cycle => c \in touched

\* A signal is not entered any more once its cache entry has expired or the
\* verifier has dropped it (cancel_stale_seconds).
EntryStillValid == [][FastPlaces => Stored("approved") = fsig]_vars
=============================================================================
