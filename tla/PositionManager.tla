--------------------------- MODULE PositionManager ---------------------------
(***************************************************************************)
(* Live stops and partial take profits: core/position_manager.py as it is  *)
(* called by position_manager_loop (partial take profit, then stops) and   *)
(* by fast_position_guard (stops only). A pass holds the terminal session, *)
(* so passes do not overlap; the market, the broker and crashes come in    *)
(* between any two requests of a pass.                                     *)
(*                                                                         *)
(* Prices and stops are distances from the entry, positive in the          *)
(* direction of profit, so buys and sells are one case. ATR, dollar and    *)
(* point settings move the locks and trail distances from pass to pass:    *)
(* they are chosen from small sets. Positions carry a stop, and            *)
(* defer_trail_until.require_partial_or_rr is on (the default).            *)
(***************************************************************************)
EXTENDS Integers, FiniteSetsExt

CONSTANTS
  Tickets,
  OpenLots,     \* lots a ticket may be opened with
  Risk,         \* distance of the opening stop
  Target,       \* tp1
  Top,          \* bound: highest price
  Spread,       \* the price managed by is the better of bid and ask
  MinDist,      \* stops level, freeze level and spread of the broker
  BETrigger,    \* break_even.trigger_points / trigger_atr_mult
  PctTrigger,   \* break_even.trigger_pct
  Progress70,   \* adaptive_exit.be_trigger_pct of the way to tp1
  ArmAt,        \* defer_trail_until.min_rr
  Locks,        \* what break-even may lock
  Trails,       \* distances a trail may keep
  MinWin,       \* exits.min_r_multiple_win
  RunnerLock,   \* runner.lock_profit_rr
  TimeLock,     \* time_based_sl.target_profit_atr_mult
  PartialEnabled, \* trading.exits.partial_tp.enabled
  None,
  MaxFails,     \* bound: refused requests and empty position lists
  MaxCrashes    \* bound: crashes and exceptions within a pass

\* tp1 lies beyond the entry by at least the broker's minimum distance and the
\* spread, so that a stop at the entry is a legal one when tp1 is reached.
ASSUME ConfigAssumption ==
  /\ OpenLots \subseteq Nat \ {0} /\ PartialEnabled \in BOOLEAN
  /\ Risk \in Nat \ {0} /\ Spread \in Nat /\ MinDist \in Nat
  /\ {RunnerLock, TimeLock, Target, Top} \subseteq Nat
  /\ MinDist + Spread <= Target /\ Target <= Top
  /\ Locks \subseteq Nat /\ Trails \subseteq Nat \ {0} /\ Trails # {}
  /\ {BETrigger, PctTrigger, Progress70, ArmAt} \subseteq Nat \ {0}
  /\ MinWin \in Nat /\ None \notin Int \cup Tickets
  /\ MaxFails \in Nat /\ MaxCrashes \in Nat

VARIABLES
  price,     \* where each ticket could be closed
  stop,      \* the broker's stop of each ticket
  lots,      \* the broker's volume of each ticket, 0 when closed
  young,     \* within Blue Guardian's minimum hold
  doc,       \* position_management.json: a row per ticket
  pc,        \* where the pass is
  todo,      \* tickets the phase has not come to
  view,      \* the position list of the pass: stop and lots per ticket
  mgmt,      \* the rows of the phase, saved at its end
  fullOnly,  \* full_close_only
  splits,    \* the phase has closed a part
  runner,    \* the ticket between its partial close and its new stop
  runnerStop, \* that stop
  taken,     \* history: closes at tp1 per ticket
  wasted,    \* history: a ticket that could be split was closed at tp1
  fails, crashes

market  == <<price, young>>
book    == <<stop, lots>>
phase   == <<fullOnly, splits, runner, runnerStop>>
pass    == <<pc, todo, view, mgmt, phase>>
history == <<taken, wasted>>
vars    == <<market, book, doc, pass, history, fails, crashes>>

-----------------------------------------------------------------------------
Price == -Risk .. Top
Stops == -Risk .. (Top + Spread)

\* peak_price, break_even, trailing, partial_tp_done, last_modify_fail_sl
Row  == [peak : Stops, be : BOOLEAN, trailing : BOOLEAN, partial : BOOLEAN,
         failed : Stops \cup {None}]
NewRow == [peak |-> 0, be |-> FALSE, trailing |-> FALSE, partial |-> FALSE,
           failed |-> None]

Open      == {t \in Tickets : lots[t] > 0}
Listed(t) == [stop |-> stop[t], lots |-> lots[t]]
NoList    == [t \in Tickets |-> [stop |-> -Risk, lots |-> 0]]

\* Buys are managed by the ask, sells by the bid.
Quote(t) == price[t] + Spread

Init ==
  /\ price = [t \in Tickets |-> 0]
  /\ stop = [t \in Tickets |-> -Risk]
  /\ lots \in [Tickets -> OpenLots]
  /\ young = [t \in Tickets |-> TRUE]
  /\ doc = [t \in Tickets |-> NewRow]
  /\ pc = "idle"
  /\ todo = {}
  /\ view = NoList
  /\ mgmt = doc
  /\ fullOnly = FALSE
  /\ splits = FALSE
  /\ runner = None
  /\ runnerStop = 0
  /\ taken = [t \in Tickets |-> 0]
  /\ wasted = FALSE
  /\ fails = 0
  /\ crashes = 0

-----------------------------------------------------------------------------
(* A pass *)

\* fetch_mt5_agent_positions: a failure looks like no positions.
Fetches ==
  /\ view' = [t \in Tickets |-> Listed(t)]
  /\ \/ todo' = Open /\ UNCHANGED fails
     \/ fails < MaxFails /\ fails' = fails + 1 /\ todo' = {}

LoopBegins ==
  /\ pc = "idle"
  /\ Fetches
  /\ mgmt' = doc
  /\ fullOnly' = ~PartialEnabled
  /\ splits' = FALSE
  /\ pc' = "partial"
  /\ UNCHANGED <<market, book, doc, runner, runnerStop, history, crashes>>

GuardBegins ==
  /\ pc = "idle"
  /\ Fetches
  /\ mgmt' = doc
  /\ pc' = "manage"
  /\ UNCHANGED <<market, book, doc, phase, history, crashes>>

\* partial_close_volume with fraction 0.5: 0 when either half would be too small.
PartialVolume(size) == size \div 2

PartialSkips(t) ==
  /\ pc = "partial" /\ runner = None /\ t \in todo
  /\ mgmt[t].partial \/ Quote(t) < Target
  /\ todo' = todo \ {t}
  /\ UNCHANGED <<market, book, doc, pc, view, mgmt, phase,
                 history, fails, crashes>>

\* No tick, or the close is refused: the ticket is left for the next pass.
PartialFails(t) ==
  /\ pc = "partial" /\ runner = None /\ t \in todo
  /\ ~mgmt[t].partial
  /\ \/ lots[t] = 0 /\ UNCHANGED fails
     \/ fails < MaxFails /\ fails' = fails + 1
  /\ todo' = todo \ {t}
  /\ UNCHANGED <<market, book, doc, pc, view, mgmt, phase,
                 history, crashes>>

\* _clamp_sl_to_stops_level
Clamped(level, t) == Min({level, price[t] - MinDist})

\* Mutant: The lock is laid on the wrong side of the entry.
PostPartialStop_BelowEntry(t) == Clamped(-RunnerLock, t)

\* post_partial_sl, clamped to the tick by which tp1 is reached; there is no look
\* at the stop that the runner has.
PostPartialStop(t) == Clamped(RunnerLock, t)

\* full_close_only, once set for a ticket that cannot be split, stays for the rest.
PartialCloses(t) ==
  LET size  == view[t].lots
      whole == fullOnly \/ PartialVolume(size) = 0
  IN  /\ pc = "partial" /\ runner = None /\ t \in todo
      /\ ~mgmt[t].partial /\ Quote(t) >= Target /\ lots[t] > 0
      /\ lots' = [lots EXCEPT ![t] = IF whole THEN 0 ELSE @ - PartialVolume(size)]
      /\ fullOnly' = whole
      /\ splits' = (splits \/ ~whole)
      /\ runner' = t /\ runnerStop' = PostPartialStop(t)
      /\ taken' = [taken EXCEPT ![t] = @ + 1]
      /\ wasted' = (wasted \/ (whole /\ PartialEnabled /\ PartialVolume(size) > 0))
      /\ UNCHANGED <<market, stop, doc, pc, todo, view, mgmt, fails, crashes>>

\* The broker refuses a stop too near the price of now or on a closed position; the
\* row says partial_tp_done and break_even either way.
PartialLocks(t) ==
  /\ runner = t
  /\ \/ /\ lots[t] > 0 /\ runnerStop <= price[t] - MinDist
        /\ stop' = [stop EXCEPT ![t] = runnerStop]
        /\ UNCHANGED fails
     \/ /\ lots[t] = 0 \/ runnerStop > price[t] - MinDist
        /\ UNCHANGED <<stop, fails>>
     \/ /\ fails < MaxFails /\ fails' = fails + 1
        /\ UNCHANGED stop
  /\ mgmt' = [mgmt EXCEPT ![t].partial = TRUE, ![t].be = TRUE]
  /\ runner' = None /\ runnerStop' = 0
  /\ todo' = todo \ {t}
  /\ UNCHANGED <<market, lots, doc, pc, view, fullOnly, splits, history, crashes>>

\* Mutant: The positions are not listed again after a part was closed.
PartialEnds_OldList ==
  /\ pc = "partial" /\ runner = None /\ todo = {}
  /\ doc' = mgmt
  /\ todo' = {t \in Tickets : view[t].lots > 0}
  /\ pc' = "manage"
  /\ UNCHANGED <<market, book, view, mgmt, phase, history, fails,
                 crashes>>

\* Mutant: The rows of the partial phase are not saved before the stops are managed.
PartialEnds_RowsLost ==
  /\ pc = "partial" /\ runner = None /\ todo = {}
  /\ IF splits
     THEN Fetches
     ELSE todo' = {t \in Tickets : view[t].lots > 0} /\ UNCHANGED <<view, fails>>
  /\ pc' = "manage"
  /\ mgmt' = doc
  /\ UNCHANGED <<market, book, doc, phase, history, crashes>>

\* Saves the rows; the stops are then managed on positions listed again if a
\* part was closed, on the old list otherwise.
PartialEnds ==
  /\ pc = "partial" /\ runner = None /\ todo = {}
  /\ doc' = mgmt
  /\ IF splits
     THEN Fetches
     ELSE todo' = {t \in Tickets : view[t].lots > 0} /\ UNCHANGED <<view, fails>>
  /\ pc' = "manage"
  /\ UNCHANGED <<market, book, mgmt, phase, history, crashes>>

-----------------------------------------------------------------------------
(* compute_managed_sl: m holds the row and the stop computed so far *)

Peaked(m, cur) == [m EXCEPT !.row.peak = Max({@, cur})]

\* Break-even: a lock under the win floor is not set on a winner, unless the
\* percentage trigger asks for it.
BreakEven(m, cur, lock) ==
  LET byPct == cur >= PctTrigger
      hit   == m.row.be \/ cur >= BETrigger \/ byPct
      floor == lock < MinWin /\ cur > 0 /\ ~byPct
  IN  IF hit /\ ~floor /\ lock > m.stop
      THEN [m EXCEPT !.stop = lock, !.row.be = TRUE]
      ELSE m

\* adaptive_exit: at 70% of the way to tp1 the stop goes to entry and trails.
Progressed(m, cur, d) ==
  IF ~m.row.be /\ cur >= Progress70
  THEN [m EXCEPT !.stop = Max({@, 0, m.row.peak - d}),
                 !.row.be = TRUE, !.row.trailing = TRUE]
  ELSE m

\* A trail on a winner is not under entry.
Trailed(m, cur, d) ==
  LET atEntry == cur > 0 /\ m.row.peak - d < 0
      level   == IF atEntry THEN 0 ELSE m.row.peak - d
  IN  IF m.row.trailing \/ m.row.partial \/ cur >= ArmAt
      THEN [m EXCEPT !.stop = Max({@, level}),
                     !.row.be = @ \/ atEntry, !.row.trailing = TRUE]
      ELSE m

\* time_based_sl: how far it has come from the opening stop to its target, entry
\* or beyond, is left open.
Aged(m, level) == [m EXCEPT !.stop = Max({@, level})]

ComputeManagedSl(m, cur) ==
  {Aged(Trailed(Progressed(BreakEven(Peaked(m, cur), cur, lock), cur, d70), cur, d), level) :
     lock \in Locks, d70 \in Trails, d \in Trails, level \in -Risk .. TimeLock}

-----------------------------------------------------------------------------
(* manage_mt5_positions *)

Computed(t) == ComputeManagedSl([row |-> mgmt[t], stop |-> view[t].stop], Quote(t))

ManageStep(t) ==
  /\ pc = "manage" /\ t \in todo
  /\ UNCHANGED <<market, doc, pc, view, phase, history, crashes>>

\* Mutant: A runner is left to the stop the partial phase has sent.
Moves_NoRunner(m, t) ==
  LET new == Clamped(m.stop, t)
  IN  /\ ~young[t] /\ ~m.row.partial /\ m.stop > view[t].stop
      /\ new # m.row.failed /\ new > view[t].stop

\* Wanted, old enough, not the stop that was refused last, better than the list's.
Moves(m, t) ==
  LET new == Clamped(m.stop, t)
  IN  ~young[t] /\ m.stop > view[t].stop /\ new # m.row.failed /\ new > view[t].stop

ManageKeeps(t) ==
  /\ ManageStep(t)
  /\ \E m \in Computed(t) :
       /\ ~Moves(m, t)
       /\ mgmt' = [mgmt EXCEPT ![t] = m.row]
  /\ todo' = todo \ {t}
  /\ UNCHANGED <<book, fails>>

ManageMoves(t) ==
  /\ ManageStep(t)
  /\ lots[t] > 0
  /\ \E m \in Computed(t) :
       /\ Moves(m, t)
       /\ stop' = [stop EXCEPT ![t] = Clamped(m.stop, t)]
       /\ mgmt' = [mgmt EXCEPT ![t] = [m.row EXCEPT !.failed = None]]
  /\ todo' = todo \ {t}
  /\ UNCHANGED <<lots, fails>>

ManageFails(t) ==
  /\ ManageStep(t)
  /\ \/ lots[t] = 0 /\ UNCHANGED fails
     \/ fails < MaxFails /\ fails' = fails + 1
  /\ \E m \in Computed(t) :
       /\ Moves(m, t)
       /\ mgmt' = [mgmt EXCEPT ![t] = [m.row EXCEPT !.failed = Clamped(m.stop, t)]]
  /\ todo' = todo \ {t}
  /\ UNCHANGED book

\* The time stop closes a loser; the name error after it lets the ticket go on.
TimeStops(t) ==
  /\ ManageStep(t)
  /\ lots[t] > 0 /\ ~young[t] /\ price[t] < 0
  /\ lots' = [lots EXCEPT ![t] = 0]
  /\ UNCHANGED <<stop, todo, mgmt, fails>>

\* signal_reversal_early_close has a minimum hold of its own.
SignalReverses(t) ==
  /\ ManageStep(t)
  /\ lots[t] > 0
  /\ \E m \in Computed(t) : mgmt' = [mgmt EXCEPT ![t] = m.row]
  /\ lots' = [lots EXCEPT ![t] = 0]
  /\ todo' = todo \ {t}
  /\ UNCHANGED <<stop, fails>>

ManageEnds ==
  /\ pc = "manage" /\ todo = {}
  /\ doc' = mgmt
  /\ pc' = "idle" /\ view' = NoList /\ fullOnly' = FALSE /\ splits' = FALSE
  /\ UNCHANGED <<market, book, todo, mgmt, runner, runnerStop, history, fails, crashes>>

-----------------------------------------------------------------------------
(* Outside a pass *)

\* The process ends, or an exception leaves the phase before it saves its rows.
Crash ==
  /\ pc # "idle" /\ crashes < MaxCrashes
  /\ crashes' = crashes + 1
  /\ pc' = "idle" /\ todo' = {} /\ runner' = None /\ runnerStop' = 0 /\ view' = NoList
  /\ mgmt' = doc /\ fullOnly' = FALSE /\ splits' = FALSE
  /\ UNCHANGED <<market, book, doc, history, fails>>

\* The broker closes a position whose stop the price has reached.
PriceMoves(t) ==
  /\ lots[t] > 0
  /\ \E p \in {price[t] - 1, price[t] + 1} \cap Price :
       /\ price' = [price EXCEPT ![t] = p]
       /\ lots' = [lots EXCEPT ![t] = IF p <= stop[t] THEN 0 ELSE @]
  /\ UNCHANGED <<young, stop, doc, pass, history, fails, crashes>>

GrowsOld(t) ==
  /\ lots[t] > 0 /\ young[t]
  /\ young' = [young EXCEPT ![t] = FALSE]
  /\ UNCHANGED <<price, book, doc, pass, history, fails, crashes>>

PassStep ==
  \/ LoopBegins \/ GuardBegins \/ PartialEnds \/ ManageEnds
  \/ \E t \in Tickets : \/ PartialSkips(t) \/ PartialFails(t) \/ PartialCloses(t)
                        \/ PartialLocks(t) \/ ManageKeeps(t) \/ ManageMoves(t)
                        \/ ManageFails(t) \/ TimeStops(t) \/ SignalReverses(t)

Next == PassStep \/ Crash \/ \E t \in Tickets : PriceMoves(t) \/ GrowsOld(t)

Spec == Init /\ [][Next]_vars

\* The pipeline and the guard's thread keep passing, and a position ages.
Fairness == WF_vars(PassStep) /\ \A t \in Tickets : WF_vars(GrowsOld(t))

FairSpec == Spec /\ Fairness

-----------------------------------------------------------------------------
(* Properties *)

\* The position manager's variables have these types (all of position_manager.py).
TypeOK ==
  /\ price \in [Tickets -> Price] /\ stop \in [Tickets -> Stops]
  /\ lots \in [Tickets -> Nat] /\ young \in [Tickets -> BOOLEAN]
  /\ doc \in [Tickets -> Row] /\ mgmt \in [Tickets -> Row]
  /\ pc \in {"idle", "partial", "manage"} /\ todo \subseteq Tickets
  /\ view \in [Tickets -> [stop : Stops, lots : Nat]]
  /\ fullOnly \in BOOLEAN /\ splits \in BOOLEAN
  /\ runner \in Tickets \cup {None} /\ runnerStop \in 0 .. Top
  /\ taken \in [Tickets -> Nat] /\ wasted \in BOOLEAN
  /\ fails \in 0 .. MaxFails /\ crashes \in 0 .. MaxCrashes

\* manage_mt5_positions compares with the stop of its position list: as long as
\* that list is not older than the last stop sent, the stop only tightens.
ManagedRatchet ==
  [][pc = "manage" => \A t \in Tickets : stop'[t] >= stop[t]]_vars

\* "The trade is free": once the stop of an open position is at entry or better,
\* neither phase and no failure in between puts it under entry again.
FreeStaysFree ==
  [][\A t \in Tickets : stop[t] >= 0 => stop'[t] >= 0]_vars

\* Between crashes a ticket is closed at tp1 once: the row that remembers it is
\* written by one phase and carried through the other's.
PartialOnce == crashes = 0 => \A t \in Tickets : taken[t] <= 1

\* A runner whose post-partial stop was refused is not left behind: while it
\* stays beyond tp1, a later pass moves its stop to entry or better. A stop
\* that was refused in manage_mt5_positions is not sent again (last_modify_fail_sl),
\* so a row with such a memory is excepted.
RunnerProtected ==
  \A t \in Tickets :
    <>[](/\ doc[t].partial /\ doc[t].failed = None
         /\ lots[t] > 0 /\ price[t] >= Target) => <>(stop[t] >= 0)

\* Docstring of manage_partial_tp_mt5: with partial_tp enabled a position is
\* scaled out at tp1; the full close is for one that cannot be split.
SplitStaysSplit == ~wasted

\* _update_peak_price calls itself a ratchet, and compute_managed_sl "only ever
\* tightens (never loosens)"; the stop after a partial close need not.
StopNeverLoosens == [][\A t \in Tickets : stop'[t] >= stop[t]]_vars

\* partial_tp_done is to make the close at tp1 happen once.
PartialOnceEver == \A t \in Tickets : taken[t] <= 1

=============================================================================
