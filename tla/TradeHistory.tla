---------------------------- MODULE TradeHistory ----------------------------
(***************************************************************************)
(* Live mode: the closed trades and what is learned from them. The order   *)
(* path of the pipeline and that of the fast thread each read              *)
(* paper_trades.json, wait for the MT5 session, merge the closing deals of *)
(* the terminal's history into their copy (core/trade_tracker.py) and put  *)
(* the copy back. memory_loop writes the same file, with context added to  *)
(* its own earlier copy, and carries each trade it has not met before to   *)
(* memory.json, edge_scores.json, edge_database.json and the arena;        *)
(* trade_log_loop rebuilds trade_log.json when the file has changed.       *)
(*                                                                         *)
(* A trade is its deal: context, result and profit are what they are. The  *)
(* session lock is held from before the merge until after the write.       *)
(***************************************************************************)
EXTENDS Integers

CONSTANTS
  Deals,      \* bound: the closing deals of the account
  FastLive,   \* whether the fast thread orders
  MaxFaults   \* bound: reads, stages and answers that fail, and crashes

Threads == {"pipeline", "fast"}

VARIABLES
  dealt,      \* the deals that have happened
  window,     \* those in what history_deals_get still returns
  closed,     \* paper_trades.json
  memory,     \* memory.json: trades with a record
  scored,     \* edge_scores.json: adjustments each trade has made
  edges,      \* edge_database.json
  points,     \* strategy_arena.json: the outcomes counted
  logged,     \* trade_log.json
  newer,      \* paper_trades.json is newer than trade_log_meta.json says
  rewritten,  \* paper_trades.json was written since its time was taken
  at,         \* per thread: where it is
  own,        \* per thread: its copy of the trades
  fresh,      \* memory_loop: the trades it has not met before
  unread,     \* memory_loop: the documents it could not read
  shaken,     \* history: trades whose learning, or record, a fault has hit
  faults

learning == <<memory, scored, edges, points>>
log      == <<logged, newer>>
vars     == <<dealt, window, closed, learning, log, rewritten, at, own, fresh,
              unread, shaken, faults>>

Places == [pipeline |-> {"idle", "order", "write", "memory", "backfill", "persist",
                         "remember", "score", "ingest", "award", "log", "build", "save", "stamp"},
           fast     |-> {"idle", "order", "write"}]

Documents == {"memory", "scores", "edges", "points"}

\* The documents hold deals and the threads are where their code can be.
TypeOK ==
  /\ \A s \in {dealt, window, closed, memory, edges, points, logged, fresh, shaken} : s \subseteq Deals
  /\ scored \in [Deals -> Nat]
  /\ newer \in BOOLEAN /\ rewritten \in BOOLEAN
  /\ \A t \in Threads : at[t] \in Places[t]
  /\ own \in [Threads -> SUBSET Deals] /\ unread \subseteq Documents
  /\ faults \in 0 .. MaxFaults

Init ==
  /\ dealt = {} /\ window = {} /\ closed = {}
  /\ memory = {} /\ edges = {} /\ points = {} /\ logged = {}
  /\ scored = [d \in Deals |-> 0]
  /\ newer = FALSE /\ rewritten = FALSE
  /\ at = [t \in Threads |-> "idle"]
  /\ own = [t \in Threads |-> {}]
  /\ fresh = {} /\ unread = {} /\ shaken = {}
  /\ faults = 0

-----------------------------------------------------------------------------
Goes(t, next) == at' = [at EXCEPT ![t] = next]

Takes(t, trades) == own' = [own EXCEPT ![t] = trades]

\* Where a thread goes on after its order path: the other loops, or its tick.
AfterOrders(t) == IF t = "pipeline" THEN "memory" ELSE "idle"

Fault == faults < MaxFaults /\ faults' = faults + 1

\* write_json_state of paper_trades.json.
Saves(trades) == closed' = trades /\ newer' = TRUE /\ rewritten' = TRUE

SavesNothing == UNCHANGED <<closed, newer, rewritten>>

-----------------------------------------------------------------------------
(* The order paths: execution_loop.run and execute_fast_entry *)

\* Approved signals, or a fast entry: the trades are read before connect().
OrderReads(t) ==
  /\ at[t] = "idle" /\ (t = "fast" => FastLive)
  /\ Goes(t, "order")
  /\ Takes(t, closed)
  /\ UNCHANGED <<dealt, window, closed, learning, log, rewritten, fresh, unread, shaken, faults>>

\* The file cannot be read: the default, no trades. The merge brings back what
\* the terminal still returns and nothing else.
OrderReadsNothing(t) ==
  /\ at[t] = "idle" /\ (t = "fast" => FastLive)
  /\ Fault
  /\ Goes(t, "order")
  /\ Takes(t, {})
  /\ shaken' = shaken \cup (closed \ window)
  /\ UNCHANGED <<dealt, window, closed, learning, log, rewritten, fresh, unread>>

\* Gates, or no approved signal: the pipeline goes on without orders.
NoOrders ==
  /\ at["pipeline"] = "idle"
  /\ Goes("pipeline", "memory")
  /\ UNCHANGED <<dealt, window, closed, learning, log, rewritten, own, fresh, unread, shaken, faults>>

\* Mutation: what memory_loop has a record of counts as known.
Merged_Known(trades) == trades \cup (window \ memory)

\* merge_new_trades: every closing deal that is not in the copy.
Merged(trades) == trades \cup window

SessionFree(t) == \A u \in Threads \ {t} : at[u] # "write"

\* sync_mt5_closed_deals at the end of the batch.
Syncs(t) ==
  /\ at[t] = "order" /\ SessionFree(t)
  /\ Takes(t, Merged(own[t]))
  /\ Goes(t, "write")
  /\ UNCHANGED <<dealt, window, closed, learning, log, rewritten, fresh, unread, shaken, faults>>

\* history_deals_get answers None: the copy as it was read.
SyncsNothing(t) ==
  /\ at[t] = "order" /\ SessionFree(t)
  /\ Fault
  /\ Goes(t, "write")
  /\ UNCHANGED <<dealt, window, closed, learning, log, rewritten, own, fresh, unread, shaken>>

WritesTrades(t) ==
  /\ at[t] = "write"
  /\ Saves(own[t])
  /\ Takes(t, {})
  /\ Goes(t, AfterOrders(t))
  /\ UNCHANGED <<dealt, window, learning, logged, fresh, unread, shaken, faults>>

\* No connection, or the batch raises: nothing is written.
OrderFails(t) ==
  /\ at[t] \in {"order", "write"}
  /\ Fault
  /\ Takes(t, {})
  /\ Goes(t, AfterOrders(t))
  /\ UNCHANGED <<dealt, window, closed, learning, log, rewritten, fresh, unread, shaken>>

-----------------------------------------------------------------------------
(* memory_loop.run *)

\* What was read of a document; the default when it could not be.
Base(document, content) == IF document \in unread THEN {} ELSE content

\* Trades and memory are read; nobody else writes the latter. A file of trades
\* that cannot be read is an empty one, in which nothing is new.
MemoryReads ==
  /\ at["pipeline"] = "memory"
  /\ Takes("pipeline", closed)
  /\ fresh' = closed \ memory
  /\ Goes("pipeline", "backfill")
  /\ UNCHANGED <<dealt, window, closed, learning, log, rewritten, unread, shaken, faults>>

\* One of the documents cannot be read: without memory.json no trade has been met.
MemoryReadsLess ==
  /\ at["pipeline"] = "memory"
  /\ Fault
  /\ \E document \in Documents :
       /\ unread' = {document}
       /\ fresh' = IF document = "memory" THEN closed ELSE closed \ memory
  /\ Takes("pipeline", closed)
  /\ Goes("pipeline", "backfill")
  /\ UNCHANGED <<dealt, window, closed, learning, log, rewritten, shaken>>

\* _backfill_context: the copy goes back when context was found for any trade.
Backfills ==
  /\ at["pipeline"] = "backfill"
  /\ Saves(own["pipeline"]) \/ SavesNothing
  /\ Goes("pipeline", IF fresh = {} THEN "remember" ELSE "persist")
  /\ UNCHANGED <<dealt, window, learning, logged, own, fresh, unread, shaken, faults>>

\* _persist_enriched_trades
Persists ==
  /\ at["pipeline"] = "persist"
  /\ Saves(own["pipeline"])
  /\ Goes("pipeline", "remember")
  /\ UNCHANGED <<dealt, window, learning, logged, own, fresh, unread, shaken, faults>>

\* MemoryEngine.process: both documents are rewritten from what was read.
Remembers ==
  /\ at["pipeline"] = "remember"
  /\ memory' = Base("memory", memory) \cup fresh
  /\ shaken' = shaken \cup (memory \ Base("memory", memory))
  /\ Goes("pipeline", "score")
  /\ UNCHANGED <<dealt, window, closed, scored, edges, points, log, rewritten,
                 own, fresh, unread, faults>>

Adjusted == {d \in Deals : scored[d] > 0}

Scores ==
  /\ at["pipeline"] = "score"
  /\ scored' = [d \in Deals |->
                  (IF d \in Base("scores", Adjusted) THEN scored[d] ELSE 0)
                  + (IF d \in fresh THEN 1 ELSE 0)]
  /\ shaken' = shaken \cup (Adjusted \ Base("scores", Adjusted))
  /\ Goes("pipeline", "ingest")
  /\ UNCHANGED <<dealt, window, closed, memory, edges, points, log, rewritten,
                 own, fresh, unread, faults>>

\* EdgeDatabase.ingest_batch: nothing is written when nothing is new.
Ingests ==
  /\ at["pipeline"] = "ingest"
  /\ edges' = IF fresh = {} THEN edges ELSE Base("edges", edges) \cup fresh
  /\ shaken' = shaken \cup (edges \ edges')
  /\ Goes("pipeline", "award")
  /\ UNCHANGED <<dealt, window, closed, memory, scored, points, log, rewritten,
                 own, fresh, unread, faults>>

MemoryEnds ==
  /\ Goes("pipeline", "log")
  /\ fresh' = {} /\ unread' = {} /\ Takes("pipeline", {})

\* record_outcomes, of a trade whose outcome is not in its log.
Awards ==
  /\ at["pipeline"] = "award"
  /\ points' = IF fresh = {} THEN points ELSE Base("points", points) \cup fresh
  /\ shaken' = shaken \cup (points \ points')
  /\ MemoryEnds
  /\ UNCHANGED <<dealt, window, closed, memory, scored, edges, log, rewritten, faults>>

\* signal_loop finds no campaign in an arena it cannot read, and begins a new one.
ArenaResets ==
  /\ at["pipeline"] = "idle"
  /\ Fault
  /\ points' = {}
  /\ shaken' = shaken \cup points
  /\ UNCHANGED <<dealt, window, closed, memory, scored, edges, log, rewritten, at, own, fresh, unread>>

\* Once memory.json is written the next run does not take them up again.
HalfLearned == IF at["pipeline"] \in {"score", "ingest", "award"} THEN fresh ELSE {}

\* A stage raises, and run_pipeline goes on with the next loop.
MemoryFails ==
  /\ at["pipeline"] \in {"memory", "backfill", "persist", "remember", "score", "ingest", "award"}
  /\ Fault
  /\ shaken' = shaken \cup HalfLearned
  /\ MemoryEnds
  /\ UNCHANGED <<dealt, window, closed, learning, log, rewritten>>

-----------------------------------------------------------------------------
(* trade_log_loop.run *)

\* A newer paper_orders.json, written before the trades, is reason enough too.
LogLooks ==
  /\ at["pipeline"] = "log"
  /\ rewritten' = FALSE
  /\ Goes("pipeline", "build") \/ (~newer /\ Goes("pipeline", "idle"))
  /\ UNCHANGED <<dealt, window, closed, learning, log, own, fresh, unread, shaken, faults>>

LogReads ==
  /\ at["pipeline"] = "build"
  /\ Takes("pipeline", closed)
  /\ Goes("pipeline", "save")
  /\ UNCHANGED <<dealt, window, closed, learning, log, rewritten, fresh, unread, shaken, faults>>

LogSaves ==
  /\ at["pipeline"] = "save"
  /\ logged' = own["pipeline"]
  /\ Takes("pipeline", {})
  /\ Goes("pipeline", "stamp")
  /\ UNCHANGED <<dealt, window, closed, learning, newer, rewritten, fresh, unread, shaken, faults>>

\* The times taken before the trades were read.
LogStamps ==
  /\ at["pipeline"] = "stamp"
  /\ newer' = rewritten
  /\ Goes("pipeline", "idle")
  /\ UNCHANGED <<dealt, window, closed, learning, logged, rewritten, own, fresh, unread, shaken, faults>>

\* The rebuild raises and is reported.
LogFails ==
  /\ at["pipeline"] \in {"build", "save", "stamp"}
  /\ Fault
  /\ Takes("pipeline", {})
  /\ Goes("pipeline", "idle")
  /\ UNCHANGED <<dealt, window, closed, learning, log, rewritten, fresh, unread, shaken>>

-----------------------------------------------------------------------------
\* A position is closed: the terminal has a deal, the oldest first.
Deal(d) ==
  /\ d \notin dealt
  /\ dealt' = dealt \cup {d}
  /\ window' = window \cup {d}
  /\ UNCHANGED <<closed, learning, log, rewritten, at, own, fresh, unread, shaken, faults>>

\* Thirty days later history_deals_get is not asked for it any more.
Ages(d) ==
  /\ d \in window \cap closed
  /\ \A t \in Threads : at[t] = "idle"
  /\ window' = window \ {d}
  /\ UNCHANGED <<dealt, closed, learning, log, rewritten, at, own, fresh, unread, shaken, faults>>

\* The process ends and is started again.
Crash ==
  /\ \E t \in Threads : at[t] # "idle"
  /\ Fault
  /\ at' = [t \in Threads |-> "idle"]
  /\ own' = [t \in Threads |-> {}]
  /\ fresh' = {} /\ unread' = {}
  /\ shaken' = shaken \cup HalfLearned
  /\ UNCHANGED <<dealt, window, closed, learning, log, rewritten>>

OrderGoesOn(t) == Syncs(t) \/ WritesTrades(t)

MemoryGoesOn == MemoryReads \/ Backfills \/ Persists \/ Remembers \/ Scores \/ Ingests \/ Awards

LogGoesOn == LogLooks \/ LogReads \/ LogSaves \/ LogStamps

Fails ==
  \/ \E t \in Threads : OrderReadsNothing(t) \/ SyncsNothing(t) \/ OrderFails(t)
  \/ MemoryReadsLess \/ MemoryFails \/ ArenaResets \/ LogFails \/ Crash

Next ==
  \/ \E t \in Threads : OrderReads(t) \/ OrderGoesOn(t)
  \/ NoOrders \/ MemoryGoesOn \/ LogGoesOn
  \/ Fails
  \/ \E d \in Deals : Deal(d) \/ Ages(d)

Spec == Init /\ [][Next]_vars

\* Both threads carry on what they have begun, and the pipeline begins again.
PipelineGoesOn == NoOrders \/ OrderReads("pipeline") \/ OrderGoesOn("pipeline")
                  \/ MemoryGoesOn \/ LogGoesOn

FairSpec == Spec /\ WF_vars(PipelineGoesOn) /\ WF_vars(OrderGoesOn("fast"))

-----------------------------------------------------------------------------
(* Properties *)

Learned(d) == scored[d] = 1 /\ d \in memory \cap edges \cap points

\* Whatever copies the two order paths and memory_loop put over one another: as
\* long as the pipeline comes to its merge again and again, every deal is in the
\* end in the history and in the log for good, and it has moved the scores once
\* and reached memory, edge database and arena, unless a fault hit its learning.
DealsLearnedOnce ==
  []<>(at["pipeline"] = "write") =>
    \A d \in Deals : <>(d \in dealt) =>
      <>[](d \in shaken \/ (d \in closed \cap logged /\ Learned(d)))

\* "Append only trades not already recorded", "merge into trade history": a
\* trade that was recorded stays so (the day's realised profit is its sum).
HistoryGrows == [][closed \subseteq closed']_closed

\* Each trade moves the edge scores at most once.
ScoredOnce == \A d \in Deals : scored[d] <= 1

\* "safe": a trade with a memory record reaches the edge database.
RecordedIngested ==
  at["pipeline"] = "idle" => memory \subseteq edges

\* What left the terminal's window is in the history.
OldTradesKept ==
  \A t \in Threads : at[t] = "idle" => dealt \ window \subseteq closed
=============================================================================
