--------------------------- MODULE OrderExecution ---------------------------
(***************************************************************************)
(* Live (MT5) order execution: the three service threads that reach the    *)
(* broker, the two process-wide locks, the in-memory intent queue and the  *)
(* JSON documents that remember what has been executed.                    *)
(*                                                                         *)
(*   "pipeline"  trading_pipeline service: verifier_loop, execution_loop,  *)
(*               then blue_guardian_loop / position_manager_loop           *)
(*   "fast"      fast_mode service: fast_tick_loop, then                   *)
(*               fast_position_guard                                       *)
(*   "review"    thesis_review service: closes decayed positions           *)
(*                                                                         *)
(* The gates that are not about the broker (kill switch, Blue Guardian     *)
(* pause, health, rate limits, volume) can refuse at any time here; they   *)
(* are the subject of modules of their own.                                *)
(***************************************************************************)
EXTENDS Integers, FiniteSets

CONSTANTS
  Signals,            \* signal_ids the verifier may approve
  SymbolOf,           \* [Signals -> symbol]
  SideOf,             \* [Signals -> {"BUY", "SELL"}]
  LimitEntry,         \* signals whose entry_mode is "limit" (pending orders)
  Bankbot,            \* signals whose source is "bankbot" (reversal strategy)
  MaxOpenPerSymbol,   \* trading.max_open_per_symbol
  AllowPyramiding,    \* trading.allow_pyramiding
  RegimeFlipReplace,  \* trading.regime_flip_replace_enabled
  FastLive,           \* fast_mode.live_enabled
  FastMaxOpen,        \* fast_mode.max_open_positions, per symbol
  ReviewLive,         \* thesis_review live_close_enabled
  MaxTickets,         \* bound: orders the terminal accepts in a behaviour
  QueueBound,         \* capacity of the intent queue (1000 in the code)
  DrainMax,           \* intents popped by one drain (50 in the code)
  MaxCrashes,         \* bound: process crashes in a behaviour
  MaxGlitches,        \* bound: terminal calls that fail without an answer
  None                \* no thread, no signal

Threads == {"pipeline", "fast", "review"}

ASSUME ConfigAssumption ==
  /\ LimitEntry \subseteq Signals
  /\ Bankbot \subseteq Signals
  /\ SideOf \in [Signals -> {"BUY", "SELL"}]
  /\ DOMAIN SymbolOf = Signals
  /\ MaxOpenPerSymbol \in Nat \ {0}
  /\ FastMaxOpen \in Nat
  /\ MaxTickets \in Nat
  /\ QueueBound \in Nat
  /\ DrainMax \in Nat \ {0}
  /\ MaxCrashes \in Nat
  /\ MaxGlitches \in Nat
  /\ AllowPyramiding \in BOOLEAN
  /\ RegimeFlipReplace \in BOOLEAN
  /\ FastLive \in BOOLEAN
  /\ ReviewLive \in BOOLEAN
  /\ None \notin Signals
  /\ None \notin Threads

VARIABLES
  pc,          \* where each thread is
  session,     \* holder of _MT5_SESSION_LOCK
  trade,       \* holder of MT5TerminalManager._shared_trade_lock
  attached,    \* the process-wide mt5 module is initialised
  positions,   \* open positions at the broker (this agent's magic)
  pending,     \* pending orders at the broker
  nextTicket,  \* next ticket the broker hands out
  ordersDoc,   \* state/paper_orders.json
  posDoc,      \* state/paper_positions.json
  fastDone,    \* fast_mode_state.json "executed_signals"
  approved,    \* state/approved_signals.json
  queued,      \* length of MT5TerminalManager._shared_intent_queue
  orders,      \* per thread: local copy of the order list
  executed,    \* per thread: executed signal ids of the running batch
  todo,        \* per thread: approved signals not yet looked at
  view,        \* per thread: local copy of the open positions
  cur,         \* per thread: the signal being processed
  crashes,     \* number of crashes so far
  glitches,    \* number of terminal failures so far
  issued       \* history: every order the broker ever accepted

locals == <<orders, executed, todo, view, cur>>
locks  == <<session, trade, attached>>
book   == <<positions, pending, nextTicket, issued>>
docs   == <<ordersDoc, posDoc, fastDone, approved>>
faults == <<crashes, glitches>>
vars   == <<pc, locks, book, docs, queued, locals, faults>>

-----------------------------------------------------------------------------
(* Data *)

PCs == {"idle", "syncing", "verify", "gate", "drainLock", "draining", "readDocs", "fastGate",
        "read", "connect", "reversal", "reversing", "lock", "batch",
        "sending", "writeOrders", "writePositions", "disconnect",
        "guardian", "guarding", "closing", "manage", "managing",
        "modifying", "managed"}

\* Between connect() and disconnect() of a MT5ConnectionManager.
SessionPCs == {"syncing", "reversal", "reversing", "lock", "batch", "sending",
               "writeOrders", "writePositions", "disconnect", "guarding",
               "closing", "managing", "modifying", "managed"}

\* Inside a "with _shared_trade_lock" block.
TradePCs == {"draining", "reversing", "batch", "sending", "closing"}

\* Inside mt5.order_send().
SendPCs == {"reversing", "sending", "closing", "modifying"}

Ticket   == 1..MaxTickets
Position == [ticket : Ticket, sig : Signals]
Record   == [sig : Signals, ticket : 0..MaxTickets,
             status : {"filled", "pending", "failed"}]

Submitted == {"filled", "pending"}

\* Mutation: pending orders are not counted as submitted.
ExecutedIds_FilledOnly(os) == {o.sig : o \in {r \in os : r.status = "filled"}}

\* MT5Broker._executed_signal_ids
ExecutedIds(os) == {o.sig : o \in {r \in os : r.status \in Submitted}}

\* fast_live_executor._executed_ids: any order with a signal_id, failed too
FastExecutedIds == {o.sig : o \in ordersDoc} \cup fastDone

OnSymbol(ps, s) == {p \in ps : SymbolOf[p.sig] = SymbolOf[s]}

\* enrich_positions_with_orders: the signal_id of a position is known only
\* through a filled order record with its ticket.
KnownSignal(p, os) ==
  \E o \in os : o.status = "filled" /\ o.ticket = p.ticket /\ o.sig = p.sig

\* symbol_capacity_available
CapacityAvailable(ps, s) == Cardinality(OnSymbol(ps, s)) < MaxOpenPerSymbol

\* Mutation: only positions that an order record explains count as duplicates.
IsDuplicatePosition_RecordedOnly(s, ps, os) ==
  \E p \in OnSymbol(ps, s) : KnownSignal(p, os) /\ SideOf[p.sig] = SideOf[s]

\* is_duplicate_position, after its executed-id and capacity checks
IsDuplicatePosition(s, ps, os) ==
  IF AllowPyramiding
  THEN \E p \in ps : p.sig = s /\ KnownSignal(p, os)
  ELSE \E p \in OnSymbol(ps, s) : SideOf[p.sig] = SideOf[s]

\* The gates of one signal in _process_approved_signals_unsafe
Admissible(t, s) ==
  /\ s \notin executed[t]
  /\ CapacityAvailable(view[t], s)
  /\ ~IsDuplicatePosition(s, view[t], orders[t])

OppositeOpen(ps, s) == {p \in OnSymbol(ps, s) : SideOf[p.sig] # SideOf[s]}

ClearLocals(t) ==
  /\ orders'   = [orders   EXCEPT ![t] = {}]
  /\ executed' = [executed EXCEPT ![t] = {}]
  /\ todo'     = [todo     EXCEPT ![t] = {}]
  /\ view'     = [view     EXCEPT ![t] = {}]
  /\ cur'      = [cur      EXCEPT ![t] = None]

Goto(t, label) == pc' = [pc EXCEPT ![t] = label]

\* The service's next loop once the execution loop has returned.
AfterExecution(t) == IF t = "pipeline" THEN "guardian" ELSE "manage"

-----------------------------------------------------------------------------
Init ==
  /\ pc = [t \in Threads |-> "idle"]
  /\ session = None /\ trade = None /\ attached = FALSE
  /\ positions = {} /\ pending = {} /\ nextTicket = 1 /\ issued = {}
  /\ ordersDoc = {} /\ posDoc = {} /\ fastDone = {} /\ approved = {}
  /\ queued = 0
  /\ orders = [t \in Threads |-> {}]
  /\ executed = [t \in Threads |-> {}]
  /\ todo = [t \in Threads |-> {}]
  /\ view = [t \in Threads |-> {}]
  /\ cur = [t \in Threads |-> None]
  /\ crashes = 0 /\ glitches = 0

-----------------------------------------------------------------------------
(* The pipeline up to the broker call *)

\* verifier_loop has no candidates or cannot connect: the previous approvals
\* stay and are executed again by this cycle's execution_loop.
VerifySkips ==
  /\ pc["pipeline"] = "idle"
  /\ Goto("pipeline", "gate")
  /\ UNCHANGED <<locks, book, docs, queued, locals, faults>>

\* _collect_active_positions opens a session of its own.
VerifyConnects ==
  /\ pc["pipeline"] = "idle"
  /\ session = None
  /\ session' = "pipeline"
  /\ attached' = TRUE
  /\ Goto("pipeline", "syncing")
  /\ UNCHANGED <<trade, book, docs, queued, locals, faults>>

\* It writes the terminal's positions to paper_positions.json and disconnects.
\* When positions_get() fails (None) there are no positions to write.
VerifySyncs ==
  /\ pc["pipeline"] = "syncing"
  /\ \/ posDoc' = positions /\ UNCHANGED glitches
     \/ glitches < MaxGlitches /\ glitches' = glitches + 1 /\ posDoc' = {}
  /\ session' = None
  /\ attached' = FALSE
  /\ Goto("pipeline", "verify")
  /\ UNCHANGED <<trade, book, ordersDoc, fastDone, approved, queued, locals, crashes>>

\* approved_signals.json is replaced, or stays when the verifier fails. The
\* sessions for spreads and symbol specs before it only read.
Verify ==
  /\ pc["pipeline"] = "verify"
  /\ approved' \in SUBSET Signals
  /\ Goto("pipeline", "gate")
  /\ UNCHANGED <<locks, book, ordersDoc, posDoc, fastDone, queued, locals, faults>>

\* _check_execution_allowed returned False; after an empty drain: Blue Guardian
\* pause, or no approved signal is left after the market-closed back-off.
GateRefuses ==
  /\ pc["pipeline"] \in {"gate", "readDocs"}
  /\ Goto("pipeline", "guardian")
  /\ UNCHANGED <<locks, book, docs, queued, locals, faults>>

\* _drain_intents_phase pops what is queued: the intents leave the queue
\* whatever becomes of them.
DrainIntents ==
  /\ pc["pipeline"] = "gate"
  /\ queued > 0
  /\ queued' = IF queued > DrainMax THEN queued - DrainMax ELSE 0
  /\ Goto("pipeline", "drainLock")
  /\ UNCHANGED <<locks, book, docs, locals, faults>>

\* MT5Broker.process_approved_signals(intents), called without connect().
DrainTakesLock ==
  /\ pc["pipeline"] = "drainLock"
  /\ trade = None
  /\ trade' = "pipeline"
  /\ Goto("pipeline", "draining")
  /\ UNCHANGED <<session, attached, book, docs, queued, locals, faults>>

\* Mutation: the drain phase shuts the terminal down when it returns.
DrainEnds_Disconnects ==
  /\ pc["pipeline"] = "draining"
  /\ trade' = None
  /\ attached' = FALSE
  /\ Goto("pipeline", "guardian")
  /\ UNCHANGED <<session, book, docs, queued, locals, faults>>

\* Detached terminal: RuntimeError. Attached through another thread's
\* connection: the intents carry no sl, so each is skipped by a gate or
\* raises KeyError before order_send. run() returns early either way.
DrainEnds ==
  /\ pc["pipeline"] = "draining"
  /\ trade' = None
  /\ Goto("pipeline", "guardian")
  /\ UNCHANGED <<session, attached, book, docs, queued, locals, faults>>

DrainFindsNothing ==
  /\ pc["pipeline"] = "gate"
  /\ queued = 0
  /\ Goto("pipeline", "readDocs")
  /\ UNCHANGED <<locks, book, docs, queued, locals, faults>>

\* Reads approved signals, orders and positions BEFORE any lock is taken.
ReadDocs ==
  /\ pc["pipeline"] = "readDocs"
  /\ approved # {}
  /\ todo'   = [todo   EXCEPT !["pipeline"] = approved]
  /\ orders' = [orders EXCEPT !["pipeline"] = ordersDoc]
  /\ view'   = [view   EXCEPT !["pipeline"] = posDoc]
  /\ Goto("pipeline", "connect")
  /\ UNCHANGED <<locks, book, docs, queued, executed, cur, faults>>

-----------------------------------------------------------------------------
(* The fast layer up to the broker call *)

\* evaluate_entry returned enter_*: fast_tick_loop pushes an open intent (a
\* full queue is ignored) and then calls execute_fast_entry itself. The tick
\* goes on with the next symbol before fast_position_guard runs.
FastTick(s) ==
  /\ FastLive
  /\ pc["fast"] \in {"idle", "manage"}
  /\ Cardinality(OnSymbol(posDoc, s)) < FastMaxOpen
  /\ queued' = IF queued < QueueBound THEN queued + 1 ELSE queued
  /\ cur' = [cur EXCEPT !["fast"] = s]
  /\ Goto("fast", "fastGate")
  /\ UNCHANGED <<locks, book, docs, orders, executed, todo, view, faults>>

\* The early returns of execute_fast_entry: a gate, not_verifier_approved,
\* already_executed.
FastBlocked ==
  /\ pc["fast"] = "fastGate"
  /\ Goto("fast", "manage")
  /\ ClearLocals("fast")
  /\ UNCHANGED <<locks, book, docs, queued, faults>>

FastAllowed ==
  /\ pc["fast"] = "fastGate"
  /\ cur["fast"] \in approved
  /\ cur["fast"] \notin FastExecutedIds
  /\ Goto("fast", "read")
  /\ UNCHANGED <<locks, book, docs, queued, locals, faults>>

\* Snapshots orders and executed ids BEFORE connect().
FastRead ==
  /\ pc["fast"] = "read"
  /\ todo'     = [todo     EXCEPT !["fast"] = {cur["fast"]}]
  /\ orders'   = [orders   EXCEPT !["fast"] = ordersDoc]
  /\ executed' = [executed EXCEPT !["fast"] = FastExecutedIds]
  /\ cur'      = [cur      EXCEPT !["fast"] = None]
  /\ Goto("fast", "connect")
  /\ UNCHANGED <<locks, book, docs, queued, view, faults>>

-----------------------------------------------------------------------------
(* The broker call, shared by both paths *)

\* MT5ConnectionManager.connect: the session lock is held until disconnect().
Connect(t) ==
  /\ pc[t] = "connect"
  /\ session = None
  /\ session' = t
  /\ attached' = TRUE
  /\ Goto(t, IF t = "pipeline" THEN "reversal" ELSE "lock")
  /\ UNCHANGED <<trade, book, docs, queued, locals, faults>>

\* Every initialize() attempt failed: shutdown was called, the lock released.
ConnectFails(t) ==
  /\ pc[t] = "connect"
  /\ session = None
  /\ attached' = FALSE
  /\ Goto(t, AfterExecution(t))
  /\ ClearLocals(t)
  /\ UNCHANGED <<session, trade, book, docs, queued, faults>>

\* _close_bankbot_opposite_positions picks from the positions document, not
\* from the terminal; broker.close_position then sends the closing deal.
ReversalSend(p) ==
  /\ pc["pipeline"] = "reversal"
  /\ p \in view["pipeline"]
  /\ \E s \in todo["pipeline"] \cap Bankbot : p \in OppositeOpen(view["pipeline"], s)
  /\ trade = None
  /\ trade' = "pipeline"
  /\ view' = [view EXCEPT !["pipeline"] = @ \ {p}]
  /\ positions' \in {positions, positions \ {p}}
  /\ Goto("pipeline", "reversing")
  /\ UNCHANGED <<session, attached, pending, nextTicket, issued, docs, queued,
                 orders, executed, todo, cur, faults>>

ReversalSent ==
  /\ pc["pipeline"] = "reversing"
  /\ trade' = None
  /\ Goto("pipeline", "reversal")
  /\ UNCHANGED <<session, attached, book, docs, queued, locals, faults>>

\* The remaining opposite positions, if any, are younger than min_hold.
ReversalDone ==
  /\ pc["pipeline"] = "reversal"
  /\ Goto("pipeline", "lock")
  /\ UNCHANGED <<locks, book, docs, queued, locals, faults>>

\* Mutation: the batch trusts paper_positions.json instead of the terminal.
BatchBegins_StaleView(t) ==
  /\ pc[t] = "lock"
  /\ trade = None
  /\ trade' = t
  /\ view' = [view EXCEPT ![t] = posDoc]
  /\ executed' = [executed EXCEPT ![t] =
                    IF @ = {} THEN ExecutedIds(orders[t]) ELSE @]
  /\ Goto(t, "batch")
  /\ UNCHANGED <<session, attached, book, docs, queued, orders, todo, cur, faults>>

\* Mutation: the batch runs outside the trade lock.
BatchBegins_NoTradeLock(t) ==
  /\ pc[t] = "lock"
  /\ attached
  /\ view' = [view EXCEPT ![t] = positions]
  /\ executed' = [executed EXCEPT ![t] =
                    IF @ = {} THEN ExecutedIds(orders[t]) ELSE @]
  /\ Goto(t, "batch")
  /\ UNCHANGED <<locks, book, docs, queued, orders, todo, cur, faults>>

\* process_approved_signals: under the trade lock, positions are re-read from
\* the terminal; the order list stays the one read before connect().
BatchBegins(t) ==
  /\ pc[t] = "lock"
  /\ attached
  /\ trade = None
  /\ trade' = t
  /\ view' = [view EXCEPT ![t] = positions]
  /\ executed' = [executed EXCEPT ![t] =
                    IF @ = {} THEN ExecutedIds(orders[t]) ELSE @]
  /\ Goto(t, "batch")
  /\ UNCHANGED <<session, attached, book, docs, queued, orders, todo, cur, faults>>

\* positions_get() fails (None): _sync_positions takes it for no position.
BatchBeginsBlind(t) ==
  /\ pc[t] = "lock"
  /\ attached
  /\ trade = None
  /\ glitches < MaxGlitches
  /\ glitches' = glitches + 1
  /\ trade' = t
  /\ view' = [view EXCEPT ![t] = {}]
  /\ executed' = [executed EXCEPT ![t] =
                    IF @ = {} THEN ExecutedIds(orders[t]) ELSE @]
  /\ Goto(t, "batch")
  /\ UNCHANGED <<session, attached, book, docs, queued, orders, todo, cur, crashes>>

\* The account is not available or not the configured one: an exception leaves
\* the batch before it starts.
BatchRefused(t) ==
  /\ pc[t] = "lock"
  /\ trade = None
  /\ Goto(t, "disconnect")
  /\ UNCHANGED <<locks, book, docs, queued, locals, faults>>

SkipSignal(t, s) ==
  /\ pc[t] = "batch"
  /\ s \in todo[t]
  /\ todo' = [todo EXCEPT ![t] = @ \ {s}]
  /\ UNCHANGED <<pc, locks, book, docs, queued, orders, executed, view, cur, faults>>

SendOrder(t, s) ==
  /\ pc[t] = "batch"
  /\ s \in todo[t]
  /\ Admissible(t, s)
  /\ todo' = [todo EXCEPT ![t] = @ \ {s}]
  /\ cur'  = [cur  EXCEPT ![t] = s]
  /\ Goto(t, "sending")
  /\ UNCHANGED <<locks, book, docs, queued, orders, executed, view, faults>>

\* order_send succeeded. A market deal is a position at once, a limit entry
\* rests as a pending order; positions_get then refreshes the view.
OrderAccepted(t) ==
  LET s == cur[t]
      p == [ticket |-> nextTicket, sig |-> s]
      isPending == s \in LimitEntry
      record == [sig |-> s, ticket |-> nextTicket,
                 status |-> IF isPending THEN "pending" ELSE "filled"]
  IN
  /\ pc[t] = "sending"
  /\ nextTicket <= MaxTickets
  /\ nextTicket' = nextTicket + 1
  /\ issued'    = issued \cup {p}
  /\ positions' = IF isPending THEN positions ELSE positions \cup {p}
  /\ pending'   = IF isPending THEN pending \cup {p} ELSE pending
  /\ orders'    = [orders EXCEPT ![t] = @ \cup {record}]
  /\ view'      = [view   EXCEPT ![t] = positions']
  /\ cur'       = [cur    EXCEPT ![t] = None]
  /\ Goto(t, "batch")
  /\ UNCHANGED <<locks, docs, queued, executed, todo, faults>>

OrderRejected(t) ==
  /\ pc[t] = "sending"
  /\ orders' = [orders EXCEPT ![t] =
                  @ \cup {[sig |-> cur[t], ticket |-> 0, status |-> "failed"]}]
  /\ cur' = [cur EXCEPT ![t] = None]
  /\ Goto(t, "batch")
  /\ UNCHANGED <<locks, book, docs, queued, executed, todo, view, faults>>

\* order_send answers None or a time-out although the broker executed the
\* order: the record says failed and the view is not refreshed.
OrderAnswerLost(t) ==
  LET p == [ticket |-> nextTicket, sig |-> cur[t]] IN
  /\ pc[t] = "sending"
  /\ glitches < MaxGlitches
  /\ glitches' = glitches + 1
  /\ nextTicket <= MaxTickets
  /\ nextTicket' = nextTicket + 1
  /\ issued'    = issued \cup {p}
  /\ positions' = IF cur[t] \in LimitEntry THEN positions ELSE positions \cup {p}
  /\ pending'   = IF cur[t] \in LimitEntry THEN pending \cup {p} ELSE pending
  /\ orders' = [orders EXCEPT ![t] =
                  @ \cup {[sig |-> cur[t], ticket |-> 0, status |-> "failed"]}]
  /\ cur' = [cur EXCEPT ![t] = None]
  /\ Goto(t, "batch")
  /\ UNCHANGED <<locks, docs, queued, executed, todo, view, crashes>>

\* A fresh regime flip with a losing opposite position: the replacement calls
\* _close_position_unsafe without its reason argument; the TypeError leaves
\* the batch, and the orders it has placed are never written.
RegimeFlipAborts(t, s) ==
  /\ RegimeFlipReplace
  /\ pc[t] = "batch"
  /\ s \in todo[t]
  /\ s \notin executed[t]
  /\ OppositeOpen(view[t], s) # {}
  /\ trade' = None
  /\ Goto(t, "disconnect")
  /\ UNCHANGED <<session, attached, book, docs, queued, locals, faults>>

\* Mutation: the documents are saved only while a position is open.
BatchEnds_SavesWhenOpen(t) ==
  /\ pc[t] = "batch"
  /\ todo[t] = {}
  /\ trade' = None
  /\ view' = [view EXCEPT ![t] = positions]
  /\ Goto(t, IF positions = {} THEN "disconnect" ELSE "writeOrders")
  /\ UNCHANGED <<session, attached, book, docs, queued, orders, executed, todo, cur,
                 faults>>

BatchEnds(t) ==
  /\ pc[t] = "batch"
  /\ todo[t] = {}
  /\ trade' = None
  /\ view' = [view EXCEPT ![t] = positions]
  /\ Goto(t, "writeOrders")
  /\ UNCHANGED <<session, attached, book, docs, queued, orders, executed, todo, cur,
                 faults>>

\* write_json_state("paper_orders.json"): the whole list is replaced.
WriteOrders(t) ==
  /\ pc[t] = "writeOrders"
  /\ ordersDoc' = orders[t]
  /\ Goto(t, "writePositions")
  /\ UNCHANGED <<locks, book, posDoc, fastDone, approved, queued, locals, faults>>

\* paper_positions.json; the fast layer then marks its signal executed.
WritePositions(t) ==
  /\ pc[t] = "writePositions"
  /\ posDoc' = view[t]
  /\ fastDone' = IF t = "fast"
                 THEN fastDone \cup (ExecutedIds(orders[t]) \ executed[t])
                 ELSE fastDone
  /\ Goto(t, "disconnect")
  /\ UNCHANGED <<locks, book, ordersDoc, approved, queued, locals, faults>>

\* mt5.shutdown() detaches the whole process, then the lock is released.
Disconnect(t) ==
  /\ pc[t] = "disconnect"
  /\ attached' = FALSE
  /\ session' = None
  /\ Goto(t, AfterExecution(t))
  /\ ClearLocals(t)
  /\ UNCHANGED <<trade, book, docs, queued, faults>>

-----------------------------------------------------------------------------
(* Closing through MT5Broker.close_position, which takes the trade lock:   *)
(* blue_guardian_loop (pipeline) and thesis_review_loop (review)           *)

AfterGuardian(t) == IF t = "pipeline" THEN "manage" ELSE "idle"

\* thesis_review_loop chooses what to close from paper_positions.json.
ReviewStarts ==
  /\ ReviewLive
  /\ pc["review"] = "idle"
  /\ view' = [view EXCEPT !["review"] = posDoc]
  /\ Goto("review", "guardian")
  /\ UNCHANGED <<locks, book, docs, queued, orders, executed, todo, cur, faults>>

\* The loop is disabled, has nothing to close, or could not connect.
GuardianSkipped(t) ==
  /\ pc[t] = "guardian"
  /\ Goto(t, AfterGuardian(t))
  /\ ClearLocals(t)
  /\ UNCHANGED <<locks, book, docs, queued, faults>>

\* connect(); blue_guardian_loop then fetches the positions from the terminal.
GuardianConnect(t) ==
  /\ pc[t] = "guardian"
  /\ t = "review" => view[t] # {}
  /\ session = None
  /\ session' = t
  /\ attached' = TRUE
  /\ view' = [view EXCEPT ![t] = IF t = "pipeline" THEN positions ELSE @]
  /\ Goto(t, "guarding")
  /\ UNCHANGED <<trade, book, docs, queued, orders, executed, todo, cur, faults>>

\* Mutation: a position stays on the close list until it is seen closed.
GuardianSend_Retries(t, p) ==
  /\ pc[t] = "guarding"
  /\ p \in view[t]
  /\ trade = None
  /\ trade' = t
  /\ positions' \in {positions, positions \ {p}}
  /\ Goto(t, "closing")
  /\ UNCHANGED <<session, attached, pending, nextTicket, issued, docs, queued,
                 locals, faults>>

GuardianSend(t, p) ==
  /\ pc[t] = "guarding"
  /\ p \in view[t]
  /\ trade = None
  /\ trade' = t
  /\ view' = [view EXCEPT ![t] = @ \ {p}]
  /\ positions' \in {positions, positions \ {p}}
  /\ Goto(t, "closing")
  /\ UNCHANGED <<session, attached, pending, nextTicket, issued, docs, queued,
                 orders, executed, todo, cur, faults>>

GuardianSent(t) ==
  /\ pc[t] = "closing"
  /\ trade' = None
  /\ Goto(t, "guarding")
  /\ UNCHANGED <<session, attached, book, docs, queued, locals, faults>>

GuardianEnd(t) ==
  /\ pc[t] = "guarding"
  /\ attached' = FALSE
  /\ session' = None
  /\ Goto(t, AfterGuardian(t))
  /\ ClearLocals(t)
  /\ UNCHANGED <<trade, book, docs, queued, faults>>

-----------------------------------------------------------------------------
(* position_manager: stop moves and partial closes sent straight to        *)
(* mt5.order_send, without the trade lock. Runs in position_manager_loop   *)
(* (pipeline) and fast_position_guard (fast).                              *)

ManageSkipped(t) ==
  /\ pc[t] = "manage"
  /\ Goto(t, "idle")
  /\ UNCHANGED <<locks, book, docs, queued, locals, faults>>

\* Mutation: the position manager attaches without the session lock.
ManageConnect_NoSession(t) ==
  /\ pc[t] = "manage"
  /\ session' = t
  /\ attached' = TRUE
  /\ view' = [view EXCEPT ![t] = positions]
  /\ Goto(t, "managing")
  /\ UNCHANGED <<trade, book, docs, queued, orders, executed, todo, cur, faults>>

ManageConnect(t) ==
  /\ pc[t] = "manage"
  /\ session = None
  /\ session' = t
  /\ attached' = TRUE
  /\ view' = [view EXCEPT ![t] = positions]
  /\ Goto(t, "managing")
  /\ UNCHANGED <<trade, book, docs, queued, orders, executed, todo, cur, faults>>

\* One request per pass is enough here: the others repeat it. The guard only
\* moves stops; position_manager_loop can also close a position in full.
ManageSend(t) ==
  /\ pc[t] = "managing"
  /\ view[t] # {}
  /\ positions' \in {positions} \cup
       (IF t = "pipeline" THEN {positions \ {p} : p \in view[t]} ELSE {})
  /\ Goto(t, "modifying")
  /\ UNCHANGED <<locks, pending, nextTicket, issued, docs, queued, locals, faults>>

\* A partial or full close makes the loop fetch the positions again.
ManageSent(t) ==
  /\ pc[t] = "modifying"
  /\ view' = [view EXCEPT ![t] = IF t = "pipeline" THEN positions ELSE @]
  /\ Goto(t, "managed")
  /\ UNCHANGED <<locks, book, docs, queued, orders, executed, todo, cur, faults>>

\* position_manager_loop rewrites paper_positions.json only when it found an
\* open position: the last one to close stays in the document.
ManageEnd(t) ==
  /\ pc[t] \in {"managing", "managed"}
  /\ posDoc' = IF t = "pipeline" /\ view[t] # {} THEN view[t] ELSE posDoc
  /\ attached' = FALSE
  /\ session' = None
  /\ Goto(t, "idle")
  /\ ClearLocals(t)
  /\ UNCHANGED <<trade, book, ordersDoc, fastDone, approved, queued, faults>>

-----------------------------------------------------------------------------
(* The broker and the process *)

\* The market reaches a pending order's price.
PendingFills(p) ==
  /\ p \in pending
  /\ pending' = pending \ {p}
  /\ positions' = positions \cup {p}
  /\ UNCHANGED <<pc, locks, nextTicket, issued, docs, queued, locals, faults>>

\* The broker closes a position at its SL or TP.
StopHit(p) ==
  /\ p \in positions
  /\ positions' = positions \ {p}
  /\ UNCHANGED <<pc, locks, pending, nextTicket, issued, docs, queued, locals, faults>>

\* The process dies: locks, queue and local state go, files and book stay.
Crash ==
  /\ crashes < MaxCrashes
  /\ crashes' = crashes + 1
  /\ pc' = [t \in Threads |-> "idle"]
  /\ session' = None /\ trade' = None /\ attached' = FALSE
  /\ queued' = 0
  /\ orders' = [t \in Threads |-> {}]
  /\ executed' = [t \in Threads |-> {}]
  /\ todo' = [t \in Threads |-> {}]
  /\ view' = [t \in Threads |-> {}]
  /\ cur' = [t \in Threads |-> None]
  /\ UNCHANGED <<book, docs, glitches>>

-----------------------------------------------------------------------------
Broker(t) ==
  \/ Connect(t) \/ ConnectFails(t)
  \/ BatchBegins(t) \/ BatchBeginsBlind(t) \/ BatchRefused(t)
  \/ \E s \in Signals :
       SkipSignal(t, s) \/ SendOrder(t, s) \/ RegimeFlipAborts(t, s)
  \/ OrderAccepted(t) \/ OrderRejected(t) \/ OrderAnswerLost(t) \/ BatchEnds(t)
  \/ WriteOrders(t) \/ WritePositions(t) \/ Disconnect(t)

Guardian(t) ==
  \/ GuardianSkipped(t) \/ GuardianConnect(t) \/ GuardianSent(t) \/ GuardianEnd(t)
  \/ \E p \in Position : GuardianSend(t, p)

Manage(t) ==
  \/ ManageSkipped(t) \/ ManageConnect(t) \/ ManageSend(t) \/ ManageSent(t)
  \/ ManageEnd(t)

Verifying == VerifySkips \/ VerifyConnects \/ VerifySyncs \/ Verify

Pipeline ==
  \/ Verifying \/ GateRefuses \/ ReadDocs
  \/ DrainIntents \/ DrainTakesLock \/ DrainEnds \/ DrainFindsNothing
  \/ \E p \in Position : ReversalSend(p)
  \/ ReversalSent \/ ReversalDone
  \/ Broker("pipeline") \/ Guardian("pipeline") \/ Manage("pipeline")

Fast ==
  \/ \E s \in Signals : FastTick(s)
  \/ FastBlocked \/ FastAllowed \/ FastRead
  \/ Broker("fast") \/ Manage("fast")

Review == ReviewStarts \/ Guardian("review")

Market == \E p \in Position : PendingFills(p) \/ StopHit(p)

Next == Pipeline \/ Fast \/ Review \/ Market \/ Crash

Spec == Init /\ [][Next]_vars

\* Each service thread keeps running; no lock is assumed to be fair. Nothing
\* is assumed of the market, of crashes, or of how a choice is made.
Fairness == WF_vars(Pipeline) /\ WF_vars(Fast) /\ WF_vars(Review)

FairSpec == Spec /\ Fairness

-----------------------------------------------------------------------------
(* Properties *)

TypeOK ==
  /\ pc \in [Threads -> PCs]
  /\ session \in Threads \cup {None}
  /\ trade \in Threads \cup {None}
  /\ attached \in BOOLEAN
  /\ positions \subseteq Position
  /\ pending \subseteq Position
  /\ issued \subseteq Position
  /\ nextTicket \in 1..(MaxTickets + 1)
  /\ ordersDoc \subseteq Record
  /\ posDoc \subseteq Position
  /\ fastDone \subseteq Signals
  /\ approved \subseteq Signals
  /\ queued \in 0..QueueBound
  /\ orders \in [Threads -> SUBSET Record]
  /\ executed \in [Threads -> SUBSET Signals]
  /\ todo \in [Threads -> SUBSET Signals]
  /\ view \in [Threads -> SUBSET Position]
  /\ cur \in [Threads -> Signals \cup {None}]
  /\ crashes \in 0..MaxCrashes
  /\ glitches \in 0..MaxGlitches

\* At most one thread is inside mt5.order_send() at a time, although the
\* position manager never takes the trade lock (mt5_broker.py:60-65 and
\* execution_loop.py:372-376 claim a single mutator).
SingleMutator ==
  \A t, u \in Threads :
    pc[t] \in SendPCs /\ pc[u] \in SendPCs => t = u

\* While a thread is between connect() and disconnect(), no other thread's
\* connect or shutdown pulls the process-wide terminal from under it.
SessionKeepsTerminal ==
  \A t \in Threads : pc[t] \in SessionPCs => session = t /\ attached

\* The open positions of a symbol never exceed max_open_per_symbol, whatever
\* is approved, however stale the order list and the positions document are.
CapRespected ==
  \A s \in Signals : Cardinality(OnSymbol(positions, s)) <= MaxOpenPerSymbol

\* Without pyramiding, two positions on one symbol and side are never open
\* together, even when both paths execute the same signal or the process died
\* between the order and its record; only a terminal that fails to answer can
\* bring that about.
NoStacking ==
  glitches = 0 /\ ~AllowPyramiding =>
    \A p, q \in positions :
      /\ SymbolOf[p.sig] = SymbolOf[q.sig]
      /\ SideOf[p.sig] = SideOf[q.sig]
      => p = q

\* A signal_id opens at most one order in the whole history of the account,
\* however often a stale approval is executed again (is_duplicate_position:
\* "block re-entry of the same signal_id").
AtMostOnce ==
  \A p, q \in issued : p.sig = q.sig => p = q

\* The orders document knows every order the broker accepted, except those
\* the running batch has not written yet.
LedgerComplete ==
  \A p \in issued :
    \/ \E r \in ordersDoc : r.ticket = p.ticket /\ r.sig = p.sig
    \/ \E t \in Threads :
         /\ pc[t] \in {"batch", "sending", "writeOrders"}
         /\ \E r \in orders[t] : r.ticket = p.ticket /\ r.sig = p.sig

\* Every order_send runs under the trade lock, as the comment above MT5Broker
\* says of "fast_position_guard SL ratchets" (mt5_broker.py:60-62).
SendUnderTradeLock ==
  \A t \in Threads : pc[t] \in SendPCs => trade = t

\* execution_loop.run returns after the drain phase only "if we placed
\* anything"; otherwise it goes on to the approved signals.
EarlyReturnOnlyIfPlaced ==
  [][pc["pipeline"] = "draining" /\ pc'["pipeline"] = "guardian"
       => issued' # issued]_vars

\* Who may open positions: the thread whose batch runs under the trade lock.
GateHolder == IF \E t \in Threads : pc[t] \in {"batch", "sending"} THEN trade ELSE None

Gate == INSTANCE OrderGate WITH
  Owners <- Threads, holder <- GateHolder, book <- positions, next <- nextTicket

\* Order execution implements OrderGate: although orders are checked against a
\* view taken earlier, every position is opened by the one holder of the trade
\* lock, at a moment at which the account itself has room for it; crashes,
\* closers and the other path never come between the check and the opening.
ImplementsGate == Gate!Spec

\* A thread that holds the MT5 session always gives it back, although it may
\* wait for the trade lock inside it and the drain phase takes that lock
\* without a session.
SessionReleased ==
  \A t \in Threads : (session = t) ~> (session # t)
=============================================================================
