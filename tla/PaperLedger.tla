----------------------------- MODULE PaperLedger -----------------------------
(***************************************************************************)
(* Paper mode: the book of simulated positions, the balance and the trade  *)
(* history. core/paper_broker.py fills and exits, execution_loop detects   *)
(* closed trades (core/trade_tracker.py) and writes three files one after  *)
(* the other, position_manager_loop takes partial profits and moves stops  *)
(* in the same file of positions. All of it runs on the pipeline's thread: *)
(* what comes in between is a crash, and the market.                       *)
(*                                                                         *)
(* One symbol, buys only (a sell is the mirror image), closing prices      *)
(* only, as execution_loop calls the broker (bar_highlow is the replay's). *)
(***************************************************************************)
EXTENDS Integers, FiniteSets, FiniteSetsExt

CONSTANTS
  Signals,
  None,
  MaxPrice,       \* bound on the price, which starts in the middle
  Risk, TP1, TP2, \* distances of the signals' levels from the entry
  Size,           \* lots of a fill
  BETrigger, Lock,      \* trading.break_even
  ArmAt, Trail,         \* defer_trail_until.min_rr and the trail distance
  RunnerLock,           \* runner.lock_profit_rr
  PartialEnabled,
  Lifts,          \* bound: how far over price - Trail a managed stop may be put
  MaxOpenPerSymbol,
  MaxFills,       \* bound: positions ever opened
  MaxCrashes      \* bound

ASSUME ConfigAssumption ==
  /\ None \notin Signals
  /\ {Risk, TP1, TP2, Size, BETrigger, ArmAt, Trail, MaxOpenPerSymbol, MaxFills} \subseteq Nat \ {0}
  /\ {MaxPrice, Lock, RunnerLock, MaxCrashes} \subseteq Nat
  /\ RunnerLock < TP1 /\ TP1 < TP2 /\ Lock < BETrigger /\ PartialEnabled \in BOOLEAN
  /\ Lifts \subseteq 0 .. TP2 + Lock

Ids == 1 .. MaxFills

VARIABLES
  price,     \* of the symbol
  book,      \* paper_positions.json: a position or None per id
  balance,   \* paper_orders.json: lots of each id whose result is in cash
  trades,    \* paper_trades.json: closing trades per id
  rows,      \* position_management.json: ids with partial_tp_done
  pc,        \* where the pipeline is
  batch,     \* approved signals the broker has not come to
  known,     \* executed_signal_ids, computed before the batch
  seen,      \* the prices of the run
  prior,     \* ids in the file when the run began
  work,      \* the run's or pass's own positions, balance and trades, written at its end
  opened,    \* history: fills so far
  signal,    \* history: the signal each id was filled for
  parts,     \* history: partial take profits of each id
  dropped,   \* history: ids whose position left the file without a trade
  torn,      \* history: a run was cut off between two of its files
  crashes

files   == <<book, balance, trades, rows>>
run     == <<pc, batch, known, seen, prior, work>>
history == <<opened, signal, parts, dropped, torn>>
vars    == <<price, files, run, history, crashes>>

-----------------------------------------------------------------------------
Price == 0 .. MaxPrice
Level == -Risk - Trail .. MaxPrice + TP2 + Lock

\* sl, tp1, be_triggered, trail_active, partial_tp_done; ATR is constant.
Position == [entry : Price, stop : Level, tp : Level, size : 0 .. Size, peak : Price,
             be : BOOLEAN, trail : BOOLEAN, partial : BOOLEAN]

ASSUME NoneAssumption == None \notin Position

Open(b) == {i \in Ids : b[i] # None}

\* partial_close_volume with fraction 0.5.
PartialVolume(size) == size \div 2

NoWork == [book |-> [i \in Ids |-> None], balance |-> [i \in Ids |-> 0],
           trades |-> [i \in Ids |-> 0]]

Init ==
  /\ price = MaxPrice \div 2
  /\ book = NoWork.book /\ balance = NoWork.balance /\ trades = NoWork.trades
  /\ rows = {}
  /\ pc = "idle" /\ batch = {} /\ known = {} /\ seen = 0 /\ prior = {}
  /\ work = NoWork
  /\ opened = 0
  /\ signal = [i \in Ids |-> None]
  /\ parts = [i \in Ids |-> 0]
  /\ dropped = {}
  /\ torn = FALSE
  /\ crashes = 0

-----------------------------------------------------------------------------
(* execution_loop, PaperBroker.process_approved_signals *)

\* What the verifier has approved, which may be what it approved before. Without
\* approved signals the loop returns before it looks at any exit.
ExecutionBegins ==
  /\ pc = "idle"
  /\ pc' = "batch"
  /\ batch' \in SUBSET Signals \ {{}}
  /\ known' = {signal[i] : i \in Open(book)}
  /\ seen' = price
  /\ prior' = Open(book)
  /\ work' = [book |-> book, balance |-> balance, trades |-> trades]
  /\ UNCHANGED <<price, files, history, crashes>>

\* Mutant: the signal ids of open positions are not looked at.
IsDuplicate_Never(s) == FALSE

\* Every position of the model is on one symbol and side; pyramiding allows a
\* second one for another signal.
IsDuplicate(s) == s \in known \/ \E i \in Open(work.book) : signal[i] = s

\* Capacity, duplicates, session limits, dynamic entry, exposure, and limit
\* orders that are not reached, which no later run takes up.
Skips(s) ==
  /\ pc = "batch" /\ s \in batch
  /\ batch' = batch \ {s}
  /\ UNCHANGED <<price, files, pc, known, seen, prior, work, history, crashes>>

Fills(s) ==
  /\ pc = "batch" /\ s \in batch /\ opened < MaxFills
  /\ Cardinality(Open(work.book)) < MaxOpenPerSymbol
  /\ ~IsDuplicate(s)
  /\ opened' = opened + 1
  /\ signal' = [signal EXCEPT ![opened + 1] = s]
  /\ work' = [work EXCEPT !.book[opened + 1] =
                [entry |-> seen, stop |-> seen - Risk, tp |-> seen + TP1, size |-> Size,
                 peak |-> seen, be |-> FALSE, trail |-> FALSE, partial |-> FALSE]]
  /\ batch' = batch \ {s}
  /\ UNCHANGED <<price, files, pc, known, seen, prior, parts, dropped, torn,
                 crashes>>

-----------------------------------------------------------------------------
(* PaperBroker._check_exits: stop first, then break-even, partial, trail, exits *)

Peaked(p) == [p EXCEPT !.peak = Max({@, seen})]

BrokenEven(p) ==
  IF (p.be \/ seen - p.entry >= BETrigger) /\ p.entry + Lock > p.stop
  THEN [p EXCEPT !.stop = p.entry + Lock, !.be = TRUE]
  ELSE p

TakesPartial(p) ==
  /\ PartialEnabled /\ ~p.partial
  /\ seen >= p.tp /\ PartialVolume(p.size) > 0

\* The lock replaces the stop unseen, tp2 becomes the target.
Halved(p) == [p EXCEPT !.size = @ - PartialVolume(@), !.stop = p.entry + RunnerLock,
                       !.tp = p.entry + TP2, !.be = TRUE, !.partial = TRUE]

Trailed(p) ==
  IF (p.trail \/ p.partial \/ seen - p.entry >= ArmAt) /\ p.peak - Trail > p.stop
  THEN [p EXCEPT !.stop = p.peak - Trail, !.trail = TRUE]
  ELSE p

\* Mutant: a stop is honoured only on a winner.
Exits_WinnersOnly(before, p) ==
  \/ seen <= before.stop /\ p.be
  \/ p.partial /\ seen >= p.entry + TP2

\* At the stop the step began with, at the one it moved to, at tp2 for a runner,
\* and at tp1 only when partial take profits are off.
Exits(before, p) ==
  \/ seen <= before.stop
  \/ seen <= p.stop /\ (p.be \/ p.trail)
  \/ p.partial /\ seen >= p.entry + TP2
  \/ ~PartialEnabled /\ seen >= p.tp /\ ~p.trail

\* Mutant: the position list is not filtered by what was closed.
Exited_Kept(b, gone) == b

Exited(b, gone) == [i \in Ids |-> IF i \in gone THEN None ELSE b[i]]

CheckExits ==
  LET open   == Open(work.book)
      begun(i)  == work.book[i]
      moved(i)  == BrokenEven(Peaked(begun(i)))
      splits == {i \in open : seen > begun(i).stop /\ TakesPartial(moved(i))}
      ends(i)   == IF seen <= begun(i).stop THEN begun(i) ELSE Trailed(moved(i))
      gone   == {i \in open \ splits : Exits(begun(i), ends(i))}
      kept   == [i \in Ids |-> IF i \in splits THEN Halved(moved(i))
                               ELSE IF i \in open THEN ends(i) ELSE None]
  IN  /\ pc = "batch" /\ batch = {}
      /\ work' = [book    |-> Exited(kept, gone),
                  balance |-> [i \in Ids |->
                                 work.balance[i]
                                 + (IF i \in splits THEN PartialVolume(begun(i).size) ELSE 0)
                                 + (IF i \in gone THEN begun(i).size ELSE 0)],
                  trades  |-> [i \in Ids |-> work.trades[i] + (IF i \in gone THEN 1 ELSE 0)]]
      /\ parts' = [i \in Ids |-> parts[i] + (IF i \in splits THEN 1 ELSE 0)]
      /\ pc' = "detect"
      /\ UNCHANGED <<price, files, batch, known, seen, prior, opened, signal,
                     dropped, torn, crashes>>

\* detect_paper_closed gives each trade it infers an id of its own, so
\* merge_new_trades keeps it beside the one the broker made.
DetectClosed ==
  /\ pc = "detect"
  /\ work' = [work EXCEPT !.trades =
                [i \in Ids |-> @[i] + (IF i \in prior \ Open(work.book) THEN 1 ELSE 0)]]
  /\ pc' = "orders"
  /\ UNCHANGED <<price, files, batch, known, seen, prior, history, crashes>>

WriteOrders ==
  /\ pc = "orders"
  /\ balance' = work.balance
  /\ pc' = "positions"
  /\ UNCHANGED <<price, book, trades, rows, batch, known, seen, prior, work,
                 history, crashes>>

\* Mutant: the trades read before the run are written back.
WriteTrades_Stale ==
  /\ pc = "trades"
  /\ pc' = "idle" /\ batch' = {} /\ known' = {} /\ prior' = {} /\ work' = NoWork /\ seen' = 0
  /\ UNCHANGED <<price, files, history, crashes>>

WritePositions ==
  /\ pc = "positions"
  /\ book' = work.book
  /\ pc' = "trades"
  /\ UNCHANGED <<price, balance, trades, rows, batch, known, seen, prior, work,
                 history, crashes>>

Rest == /\ pc' = "idle" /\ batch' = {} /\ known' = {} /\ prior' = {}
        /\ work' = NoWork /\ seen' = 0

WriteTrades ==
  /\ pc = "trades"
  /\ trades' = work.trades
  /\ Rest
  /\ UNCHANGED <<price, book, balance, rows, history, crashes>>

-----------------------------------------------------------------------------
(* position_manager_loop in paper mode *)

\* manage_partial_tp_paper takes its own partial: it looks at its row, not at the
\* broker's flag, and its trade goes neither to the history nor to the cash. What
\* is closed whole goes to 0 and the position stays.
ManagerSplits(p, whole) ==
  [p EXCEPT !.size = IF whole THEN 0 ELSE @ - PartialVolume(@),
            !.stop = p.entry + RunnerLock, !.tp = p.entry + TP2, !.be = TRUE]

\* compute_managed_sl (see PositionManager) only lifts a stop, in paper mode also
\* beyond the price.
Lifted(p, d) == IF d = None THEN p ELSE [p EXCEPT !.stop = Max({@, price - Trail + d})]

\* The list is in the order of the fills. full_close_only, set by one that cannot
\* be halved, stays for those after it. A reversal removes the position. The rows
\* are saved before the positions.
Manages(reversed) ==
  LET splits   == {i \in Open(book) \ rows : price >= book[i].tp /\ book[i].size > 0}
      whole(i) == \/ ~PartialEnabled
                  \/ \E j \in splits : j <= i /\ PartialVolume(book[j].size) = 0
      split(i) == IF i \in splits THEN ManagerSplits(book[i], whole(i)) ELSE book[i]
  IN  /\ pc = "idle" /\ Open(book) # {}
      /\ pc' = "manage"
      /\ \E lift \in [Open(book) -> Lifts \cup {None}] :
           work' = [book    |-> [i \in Ids |-> IF i \in Open(book) \ reversed
                                               THEN Lifted(split(i), lift[i]) ELSE None],
                    balance |-> balance, trades |-> trades]
      /\ rows' = (rows \cup splits) \ reversed
      /\ parts' = [i \in Ids |-> parts[i] + (IF i \in splits THEN 1 ELSE 0)]
      /\ UNCHANGED <<price, book, balance, trades, batch, known, seen, prior, opened, signal,
                     dropped, torn, crashes>>

PositionManagerRuns == Manages({})

\* trading.signal_reversal_early_close, off unless configured.
ReversalCloses == \E i \in Open(book) : Manages({i})

ManagerWrites ==
  /\ pc = "manage"
  /\ book' = work.book
  /\ dropped' = dropped \cup (Open(book) \ Open(work.book))
  /\ Rest
  /\ UNCHANGED <<price, balance, trades, rows, opened, signal, parts, torn, crashes>>

-----------------------------------------------------------------------------
\* A run reads the price once, when it begins.
PriceMoves ==
  /\ pc = "idle"
  /\ price' \in {price - 1, price + 1} \cap Price
  /\ UNCHANGED <<files, run, history, crashes>>

\* The process ends; what the run has not written is gone.
Crash ==
  /\ pc # "idle" /\ crashes < MaxCrashes
  /\ crashes' = crashes + 1
  /\ torn' = (torn \/ pc \in {"positions", "trades"})
  /\ Rest
  /\ UNCHANGED <<price, files, opened, signal, parts, dropped>>

RunGoesOn == CheckExits \/ DetectClosed \/ WriteOrders \/ WritePositions \/ WriteTrades
             \/ ManagerWrites \/ \E s \in Signals : Skips(s) \/ Fills(s)

Next == ExecutionBegins \/ RunGoesOn \/ PositionManagerRuns \/ ReversalCloses \/ PriceMoves \/ Crash

Spec == Init /\ [][Next]_vars

\* The pipeline's thread carries a run on; whether signals are approved again is open.
FairSpec == Spec /\ WF_vars(RunGoesOn)

-----------------------------------------------------------------------------
(* Properties *)

\* The ledger's variables have these types (paper_broker.py's documents).
TypeOK ==
  /\ price \in Price 
  /\ book \in [Ids -> Position \cup {None}] /\ balance \in [Ids -> Nat]
  /\ trades \in [Ids -> Nat] /\ rows \subseteq Ids
  /\ pc \in {"idle", "manage", "batch", "detect", "orders", "positions", "trades"}
  /\ batch \subseteq Signals /\ known \subseteq Signals /\ seen \in Price /\ prior \subseteq Ids
  /\ work \in [book : [Ids -> Position \cup {None}], balance : [Ids -> Nat],
               trades : [Ids -> Nat]]
  /\ opened \in 0 .. MaxFills /\ signal \in [Ids -> Signals \cup {None}]
  /\ parts \in [Ids -> Nat] /\ dropped \subseteq Ids /\ torn \in BOOLEAN /\ crashes \in 0 .. MaxCrashes

\* is_duplicate_position: a signal never has two positions at a time, though the
\* executed ids are those of before the batch and an approval is read many times.
OnePositionPerSignal ==
  \A i, j \in Open(book) : signal[i] = signal[j] => i = j

\* A lot's result enters the cash once: what is booked and what is still open
\* never exceed what was bought.
BankedEver ==
  \A i \in Ids : pc \in {"idle", "manage", "batch"} =>
    balance[i] + (IF book[i] = None THEN 0 ELSE book[i].size) <= Size

\* The same, unless a crash separated the two files.
BankedOnce == ~torn => BankedEver

\* A position that the broker closed is in the trade history, unless a crash
\* separated the files.
ClosesRecorded ==
  ~torn /\ pc = "idle" =>
    \A i \in 1 .. opened : balance[i] = Size => trades[i] > 0

\* _check_exits: a position does not stay open with the price under
\* its stop for good.
StopCloses == \A i \in Ids : []<>(book[i] = None \/ price > book[i].stop)

\* The same, as long as signals keep being approved and the pipeline runs.
StopHonoured == []<>(pc = "batch") => StopCloses

\* merge_new_trades: "Append only trades not already recorded."
ClosedOnce == \A i \in Ids : trades[i] <= 1

\* is_duplicate_position: "block re-entry of the same signal_id".
SignalOnce == \A i, j \in 1 .. opened : signal[i] = signal[j] => i = j

\* "Partial TP1: bank half, arm runner to TP2": once for a position.
PartialOnce == \A i \in Ids : parts[i] <= 1

\* A position that leaves the book leaves a trade or a balance entry.
NothingDropped == \A i \in dropped : trades[i] > 0
=============================================================================
