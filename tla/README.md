# Verification of Quant OS: the MT5 trading agent

Quant OS is a Python agent that trades through a MetaTrader 5 terminal. One
process runs several service threads; they share one terminal session and some
forty JSON documents under `state/`, and most of what can go wrong happens
between a document that was read and an order that is sent. This directory
holds TLA+ modules of that part of the program, the TLC configurations that
check them on small instances, and TLAPS proofs for all values of the constants.

Paths below are relative to `src/`. `PROJECT.json` names, for every definition,
the lines it models, and lists runs, mutants, findings, hazards and theorems.

Contents: [1 Inventory](#1-inventory) · [2 Modules](#2-modules-and-the-code)
· [3 Runs](#3-runs) · [4 Fairness](#4-fairness) · [5 Proofs](#5-proofs)
· [6 Findings](#6-where-the-code-and-its-words-disagree)
· [7 Not modelled](#7-what-is-not-modelled) · [8 Plan](#8-plan)

## 1 Inventory

### Threads and how they meet

`start.py` registers services with `core/supervisor.py`; each `ManagedService`
is a daemon thread that calls its runner, catches what it raises, sleeps at
least a second and calls it again (`supervisor.py:65-100`).

| service | what it runs | reaches the broker |
| --- | --- | --- |
| trading_pipeline | `core/pipeline.py`: data, feature, market_context, risk, signal, evaluation, policy_detection, verifier, execution, blue_guardian, position_manager, memory, adaptation, trade_log, ... in this order, an exception ends one loop only | yes |
| fast_mode | `fast_tick_loop`, then `fast_position_guard`, about once a second | yes |
| thesis_review | `thesis_review_loop` | if `live_close_enabled` |
| research, history, learning, self-learning | reports, archives, proposals | no |
| dashboard | HTTP server of its own process or thread | no, but it clears halts |

They interact through

- the **terminal**: `MT5ConnectionManager.connect/disconnect` attach and detach
  the whole process and hold `_MT5_SESSION_LOCK` in between;
  `MT5TerminalManager._shared_trade_lock` is taken by the public methods of
  `MT5Broker`, but not by the position manager;
- the **intent queue** of `MT5TerminalManager`, pushed by the fast tick and
  drained by `execution_loop`;
- **documents**, each written atomically by `write_json_state`, but read,
  changed and written back without a lock over the two;
- a **SQLite store** that most documents are written to a second time.

### Components, their state, what makes them correct

| component | state | operations | hard because | correct if |
| --- | --- | --- | --- | --- |
| order execution (`execution_loop`, `fast_live_executor`, `mt5_broker`, `trade_limits`) | `paper_orders/positions/trades.json`, executed ids, approvals | verify, gate, drain, batch of orders, reversal closes, save | two order paths decide on documents read before the locks | no position over the cap or stacked, a signal is ordered once, no order is lost from the ledger |
| session and terminal (`mt5_connection_manager`, `mt5_terminal_manager`) | session lock, trade lock, attachment, queue | connect, disconnect, push, drain | every user of the terminal waits for one session lock, some of them for the trade lock inside it; detaching is process-wide | one mutator, nobody is detached, the session is always given back |
| kill switch (`risk_loop`, `risk_manager`, `execution_loop` gate, `verifier_loop`, `dashboard`) | `kill_switch.json`, `risk_state.json`, `blue_guardian.json` | evaluate, gate, halt, roll over, unblock, hold | five writers, each on a copy it read earlier; a document that cannot be read says "not blocked" | a saved verdict blocks unless its documents fail together, a reached target blocks, halts end and only they are cleared |
| daily limits and Blue Guardian (`daily_growth`, `blue_guardian`, `blue_guardian_loop`) | `daily_growth.json`, `blue_guardian.json`, high watermark, `mt5_baseline.json`, `account.json` | evaluate, rebaseline, count breaches, close | baselines must survive days, restarts, account switches and other writers; the account is read at start-up only | the base of a limit does not drift, what is found reaches the verdict |
| open times and holds (`blue_guardian`, `position_sync`, `position_manager`, `thesis_review_loop`) | `position_open_times.json` | record, prune, measure age, close | the prune works on a list that may be old; unknown ages | no open position loses its time, no early close |
| position manager (`position_manager`) | `position_mgmt.json`, archive | break even, trail, partial, time stop, reversal | several callers, one stop | a stop never moves back |
| paper broker, exits, trade tracker | paper documents | fill, exit, partial, detect closed | the ledger is fed from two sides | a close is booked once, a stop never moves back |
| signal path: signal, evaluation, verifier loops, fast cache and rate limits, entry staging | candidate, evaluated, approved documents, `fast_signal_cache.json`, `fast_mode_state.json`, `entry_staging.json` | propose, evaluate, stage, approve, order, count | a loop that raises is skipped, the fast thread reads in between | no stale order, limits hold, only what was seen long enough is confirmed |
| state store, archive | SQLite, `.jsonl` archives | double write, append, prune | two stores of one truth | file and table agree when they are read |
| supervisor and processes | `supervisor.json`, `agent_lock.json`, `runtime_mode.json` | start, run again, report, stop, kill | two processes, two heartbeat writers | one process owns the report, a service runs again |
| canary (`core/canary.py`) | `canary_state.json` | pick, continue, promote, demote, switch, disable | runs repeat, overlap, are cut off | a trial lasts its days, a verdict stays, switching off ends it |
| trade history and memory (`trade_tracker`, `memory_loop`, `trade_log_loop`) | `paper_trades.json`, `memory.json`, edge documents, `trade_log.json` | merge deals, add context, learn, rebuild the log | three writers put old copies over one file, four documents are written one by one | every deal is recorded in the end and learned from once |
| learning, overrides | proposals, overrides | propose, apply at start | few shared documents | nothing unreviewed goes live |
| data, features, signals, strategies, verifier scores, research, reports | many documents | numeric analysis | numbers, not order | (left to tests) |

`PROJECT.json` lists them all under "components" with what is modelled, and
under "hazards" what can go wrong at which line and which property looks at it.

## 2 Modules and the code

| module | extends | subject |
| --- | --- | --- |
| `OrderExecution` | | both order paths, locks, queue, terminal, ledger |
| `OrderGate` | | what they promise the account: the abstract specification |
| `MCOrderExecution` | `OrderExecution` | signals, symbols and sides for TLC |
| `OrderExecution_proofs` | `OrderExecution` | its theorems |
| `KillSwitch` | | the kill switch and the documents behind it |
| `MCKillSwitch` | `KillSwitch` | two agents: switch free, and held by the configuration |
| `KillSwitch_proofs` | `KillSwitch` | its theorems |
| `DailyLimits` | | what a kill verdict is measured against |
| `MCDailyLimits` | `DailyLimits` | two accounts: Blue Guardian, and a growth plan |
| `DailyLimits_proofs` | `DailyLimits` | its theorems |
| `OpenTimes` | | `position_open_times.json` and minimum holds |
| `OpenTimes_proofs` | `OpenTimes` | its theorems |
| `SignalPath` | | a signal from proposal to order, in files and store |
| `SignalPath_proofs` | `SignalPath` | its theorems |
| `PositionManager` | | stops and partial closes of live positions |
| `PositionManager_proofs` | `PositionManager` | its theorems |
| `PaperLedger` | | the simulated book, its balance and its history |
| `PaperLedger_proofs` | `PaperLedger` | its theorems |
| `TradeHistory` | | live: the closed trades, what is learned from them, the trade log |
| `MCTrades` | `PaperLedger` | for TLC: the paper or the live side, by `execution.mode` |
| `Canary` | | the trial of a symbol |
| `Agents` | | start.py processes, services, heartbeats, the agent lock |
| `Operations_proofs` | `Agents`, `Canary` | the theorems of both |

`OrderExecution` implements `OrderGate`: there `holder` is the thread with the
trade lock inside a batch, `book` the open positions, and everything else of
`OrderExecution` is a stutter. `MCKillSwitch` and `MCDailyLimits`
instantiate their module a second time on the same variables with other
constants; a variable fixed at the start says whose constants a behaviour has.

The modules divide the system by the documents they are about. What one module
decides is a free choice in the others: in `OrderExecution` a gate may refuse at
any time, in `KillSwitch` the market exceeds a limit at any time. So what a
module shows holds whatever the others do.

Every module has one program counter per thread, one action per stretch of code
between two reads or writes of shared state, and the copies a thread works on as
variables. Reads and writes of one document are single steps since
`write_json_state` replaces the file. A definition named `X_Y` after a comment
"Mutation:" is a faulty variant of `X` for the mutants of `PROJECT.json`; no
specification uses it.

### OrderExecution

Threads `pipeline`, `fast`, `review`.

- `session`, `trade`, `attached` are `_MT5_SESSION_LOCK`, `_shared_trade_lock`
  and whether the process is attached. `Connect` … `Disconnect` is
  `MT5ConnectionManager`; `ConnectFails` its failure after all attempts.
- `positions`, `pending`, `issued` are the broker's book: open positions, resting
  limit orders, everything that was ever accepted. `PendingFills` and `StopHit` are
  the market.
- `ordersDoc`, `posDoc`, `fastDone`, `approved` are the documents; `orders`,
  `executed`, `todo`, `view` the copies a batch works on: the order list read
  *before* connect (`ReadDocs`, `FastRead`), the executed ids computed from it,
  and the positions read from the terminal inside the batch (`BatchBegins`).
- `VerifySkips` | `VerifyConnects` → `VerifySyncs` → `Verify` → `GateRefuses` | `DrainIntents` → `ReadDocs` → `Connect` →
  `ReversalSend` … → `BatchBegins` → `SkipSignal` | `SendOrder` … → `WriteOrders` →
  `WritePositions` → `Disconnect` is `execution_loop.run` with
  `MT5Broker.process_approved_signals`. `FastTick` → `FastAllowed` → `FastRead` →
  the same broker steps is the fast path. The verifier has a session of its own, in
  which it writes the positions document; `FastMaxOpen` is `fast_mode.max_open_positions`.
- `Admissible` is the conjunction of capacity, executed-id and duplicate gates of
  `_process_approved_signals_unsafe`; sizing, exposure and Blue Guardian entry
  gates are the free choice of `SkipSignal`.
- `OrderAnswerLost`, `BatchBeginsBlind`, `RegimeFlipAborts`, `BatchRefused` and
  `Crash` are the failures the code has paths for.
- `GuardianSend`, `ManageSend`, `ReviewStarts` are the other users of
  `order_send`.

### KillSwitch

The pipeline's `risk_loop` → `verifier_loop` → gate and orders of
`execution_loop` → `blue_guardian_loop`, one action per read or write of the three
documents; fast mode's two tests; the dashboard's unblock, a hold written by
hand, a restart. Every read answers its default for a file it cannot read, as
`read_json_state` does: `ReadsInto(default)` for the switch, `GateReadsDoc` for
the gate's reads of `risk_state.json`, `blue_guardian.json` and the trades,
`FastFinds` for the fast path, the choice in `Restart` for the practice session. All
these defaults let orders pass. `unread` remembers what a pass of the gate could not
read, `apart` that the switch no longer says what was saved with `risk_state.json`. `market` says what the loops would measure:
a limit exceeded, a pause due, the profit at its target. `day` is the UTC
day, `stamp` the day the gate took once.

### DailyLimits

A process starts with `Probe` (`probe_logged_in_account`, the only place where
`account.json` is written: `data_loop.run` and `health_loop` do not) and
`PracticeSession`. A cycle is `risk_loop` (rebaseline, `RiskManager.evaluate`, Blue
Guardian's second evaluation, verdict) → `execution_loop` → `blue_guardian_loop`, with
`EvaluatedGrowth` for `core/daily_growth.py` and `EvaluateBlue` for
`evaluate_daily_state` with its four reasons to pause. `terminal` is what the account really holds,
`account` what the last start-up saw of it. `growth.of` is not in the file: it remembers
whose equity opened the day. `BrokerSetsBaseline` is
`MT5Broker._account_balance`, which either thread calls.

### OpenTimes

`PlaceOrder` → `LoadsTimes` → `RecordsOpen` is `_process_approved_signals_unsafe`
with `record_position_open`, `PruneLoads` → `PruneStores` the prune of
`blue_guardian_loop` after it has given the session back. `Closes` is
`MT5Broker.close_position` with its hold rule, `MeasuredHeld` what the position
manager takes a position's age for. `held` says which tickets have been open for
the minimum hold; `early` remembers closes before it.

### SignalPath

One action per write of a document or its table (`SignalLoop`, `SignalSyncs`,
`Evaluates`, `EvaluateSyncs`, `RefreshesCache`, `CacheSyncs`, `Verifies`, `VerifierSaves`,
`VerifierSyncs`), `Execution…` for the order path, `Fast…` for the tick's reads,
order, persist and record. `mirror` is the JSON file, `table` the SQLite rows.
A signal is the number of the cycle that proposed it, since `signal_id` is
new in every cycle; the fingerprint `entry_staging` goes by is the same in all.
Paper mode differs only in `ExecutionPlaces`, which may clear the symbol's staging row.
What strategies propose, the policy keeps and the other checks of the verifier
reject is free. `LoopRaises` cuts a loop off at any step (`pipeline.py:104`).
`touched`, `failed`, `dirty`, `lost` are history for the properties.

### PositionManager

A pass (`position_manager_loop` or `fast_position_guard`) takes a position list,
loads `position_management.json`, goes through the tickets of each phase
(partial, then stops) and saves the rows. Prices and stops are distances from
the entry in the direction of profit. The market moves, the broker's stop
closes, requests are refused and crashes happen between any two requests.
Which lock and which trail distance indicators ask for is free within `Locks`
and `Trails`; time tightens a stop up to `TimeLock`. The stop after a partial close is
`RunnerLock` put back to where the market allows a stop (`PostPartialStop`), computed
when the close is sent and asked for after its answer. `TimeStops` models the `NameError` of `position_manager.py:1184`: the
position is closed and the pass goes on with it.

### PaperLedger

`execution_loop` in paper mode (`ExecutionBegins` … `WriteTrades`): fills of the
batch, then exits, then three files one after the other, with a crash between any
two. `position_manager_loop` (`Manages`, `ManagerWrites`) takes its own partial
profits and lifts stops, also beyond the price: first it saves `rows`, then the
positions. A position too small to be halved makes it close the later ones of the pass
whole too, as the code's `full_close_only` does; what it closes whole stays in the
file with nothing left.

- `book`, `balance`, `trades`, `rows` are the documents: positions, the lots
  of each position whose result is in the cash, closing trades, and
  `position_management.json`.
- `pc`, `batch`, `known`, `seen`, `prior`, `work` are the run in progress; `work` is
  what it has computed and not yet written.
- `opened`, `signal`, `parts`, `dropped`, `torn` are history: fills, the signal each
  was for, partial profits taken, positions that left without a trade, and whether a
  crash came between two of the files.

### TradeHistory

In live mode nobody adds a trade to `paper_trades.json`; every batch merges the
closing deals of the last thirty days into a copy that was read before the wait for
the session and writes the copy back (`Syncs`, `WritesTrades`). `memory_loop` puts
its own copy over it with context added, and carries trades that `memory.json` has
not got to four documents, one write after the other (`Remembers`, `Scores`,
`Ingests`, `Awards`). A document that cannot be read is its default. A trade is its
deal: what context and result it has is left out, so that a copy without context
counts like one with it. `trade_log_loop` compares file times taken before it
reads. `shaken` names the deals a fault has hit while they were learned from.
`MCTrades` runs it beside `PaperLedger`, one of the two by `execution.mode`. In
paper mode `memory_loop` does the same with the trades of `PaperLedger`; that is not
repeated there.

### Canary

Each run of `scripts/run_canary_pick.py` is `Tick…` on a loaded copy and
`SavesState`; two runs may overlap. Which symbol leads, by how much, and whether
the canary beat its control is free. `Boosted` is what `lot_multiplier_for`
answers the entry sizing. Specification, assumption and type invariant are called `TrialSpec`,
`TrialAssumption` and `TrialTypeOK` there, so that `Operations_proofs` can extend `Canary` beside `Agents`.

### Agents

`main` is where the main thread of a process is between `_write_agent_lock` and
the end of `stop_all`; `thread` and `status` are its `ManagedService`s; `due` the
threads between the test of the lock and the write of `supervisor.json`. The lock
is tested twice before a heartbeat is written; as a lost lock is never won back
(each process writes it once), the second test is the one that counts and the two
are one step. An agent lock that cannot be read, or
has no pid, lets a process write (`Unreadable`); `misread` counts the heartbeats that
came of it. `--once` registers every service but those in `OnceSkips` (history and research).

## 3 Runs

Most runs use 2 or 3 tickets, 1 or 2 signals and few failures. Two tickets are
what stacking, double execution and an overfull symbol need; a third one, where
it is used, leaves room for a close in between. Pairs of threads suffice for the
races of the documents, all three are there where they can act. One crash or
failure reaches every place it can happen at, and what follows from one is what
the properties are about. Days go to 2, so that one midnight passes with
everything before and after it. The bounds are the constants whose
comment says so (`MaxTickets`, `QueueBound`, `MaxCrashes`, `MaxDay`, `MaxCycles`,
`MaxFaults`, …); actions stop at them, nothing else depends on them.

| run | shows | states |
| --- | --- | --- |
| exec_reversal | both paths, Blue Guardian and manager on opposite signals, a crash: the cap; the abstract gate is implemented | 3.7 M |
| exec_paths | both paths with every closer, the reviewer and a failing terminal: nothing is stacked, one thread at a time in order_send, the terminal is never lost, and the session is always given back | 0.6 M |
| exec_single | the pipeline alone with two signals, pyramiding and limit entries: a signal is ordered once, the ledger is complete | 0.1 M |
| kill_gate | everybody at work over two days with a hold, an unblock and two faults (any document may be unreadable at any read), switch free or held: a saved verdict reaches the orders only if two documents fail together, a reached target only if the trades cannot be read; the gate clears only old halts, an old halt does not stay, and unheld trading resumes when no limit is exceeded any more | 2.0 M |
| limits_plans | a Blue Guardian account: its evaluations agree, what either found is in the verdict, a static loss the start-up found counts from the starting cash; a growth account with practice sessions and fast mode. For both, over two days, restarts and an account switch, baseline and opening equity are written once | 16.5 M |
| times_pruned | one order path, Blue Guardian, manager and reviewer, a crash and an empty position list: the prune drops nothing that is open before the first failure, no close comes before the minimum hold, and the times of closed positions leave the file | 0.1 M |
| signal_path | five cycles, two failures anywhere, one fast order an hour: files and store agree before orders, no stale order without a failed stage, the fast thread's three reads are as good as one, the hourly limit, the confirmation time | 13 M |
| stops_one | one position of one or two lots, both kinds of pass, a refused request and a crash: a managed stop only tightens, a free trade stays free, tp1 is taken once, a runner gets its stop | 0.07 M |
| trades_modes | paper: two signals approved again and again, partials, a crash between any two files: one open position per signal, a lot is banked once, a close is recorded, a stop that was passed closes. Live: two deals, both order paths, one fault: every deal stays in history and log in the end and is learned from once | 1.4 M |
| canary_trial | overlapping runs over four days, an operator, a run that is cut off: history counts days, promotion is earned, a disabled feature stops | |
| agents | two processes, one with --once, each with the fast mode beside its pipeline, killed, failing to boot, to write or to read the lock: a demoted process falls silent, the report becomes the owner's | 0.6 M |
| exec_duplicate | a statement of the repository the code does not keep, see section 6 | |

Five cycles are what a signal needs to be proposed, to fall out of sight for
longer than staging rows are kept while a failed prune keeps its row, and to be
approved afterwards; four suffice to confirm, order and meet it again by a stale reader. Two failures reach a
failed stage together with the failure of the loop that would repair it. Four
days are a window of two days, its verdict and the day after. Two processes are
what the lock arbitrates between; a third starts from the same states as the second.

More configurations lie beside them and are run by hand. `exec_sameside` (two
signals and a crash) and `times_hold` are larger instances of `exec_paths` and
`times_pruned` that pass. So does `RunsAgain` (a service runs again after it
has raised) when it is left alone in `agents_living`. Each of the others ends in the counterexamples section 6 tells of; where
one names several properties, TLC stops at the first, and the next is seen when
that name is taken out.

What the passing runs do *not* show, because the code does not give it:

- `CapRespected`, `NoStacking` and `ImplementsGate` need entries that never rest as
  pending orders and a terminal that answers (`exec_limit_cap`, `exec_blind`). A
  crash does no harm to them: `exec_reversal` has one, and for `NoStacking` the
  theorem `NothingStacked` and `exec_sameside` do.
- `AtMostOnce` and `LedgerComplete` need the pipeline as the only writer
  (`exec_duplicate`: no live fast mode), no crash, a terminal that answers, and the
  regime-flip replacement off: when it is met, the batch ends before the orders it has
  placed are saved (`RegimeFlipAborts`). Under these conditions, `SingleWriter`, both
  are proved.
- The passing runs of `CapRespected` have no terminal failure and those of `AtMostOnce`
  one writer; the hazards of a blind position list and of an overwritten order list
  are those of `exec_blind` and `exec_duplicate`.
- `VerdictBlocks` does not claim that one document is enough: after an unblock, a
  rollover, a restart or a loop that raised between the two writes the verdict is in
  `risk_state.json` alone, and one read of it that fails lets orders pass. That
  takes two faults of `kill_gate`, so its bound is two.
- `ClearsOldHaltsOnly` speaks of the time before a hold is written by hand: a hold that
  is overwritten is `kill_hold`.
- `TradesAgain` needs a configuration that does not hold the switch.
- `StaticKill` is about a loss that the start-up of the process found. A loss
  that comes while the process runs is in no document: no cycle reads the account
  again (`limits_stale`).
- `EvaluationsAgree` and `StaticKill` run without fast mode: the broker code of the
  fast thread may write the baseline between two steps of the risk loop. Without it both
  are proved. The growth account of `limits_plans` has fast mode. `GuardianEnforced`
  is proved with fast mode too.
- `TimesKept` speaks of the time until the first crash or empty position list. `times_pruned`
  runs without live fast mode: with it and Blue Guardian, `times_lost` finds a lost time. With fast mode and without Blue Guardian
  nothing is lost; that is proved (`NoTimeLost`), not run. `HoldRespected` with fast
  mode is proved (`HoldHolds`) and run by hand (`times_hold`).
- `HoldRespected` with the live reviewer needs Blue Guardian (`times_reviewer`).
- `BankedOnce` and `ClosesRecorded` speak of files no crash has come between, and
  `StopHonoured` has as its premise that signals are approved again and again. Without
  those, `BankedEver` and `StopCloses` fail (`paper_exits`).
- `PartialOnce` speaks of passes that were not cut off (`stops_crash`).
- `ManagedRatchet` is about the stops phase. The stop after a partial close is
  set without comparison (`stops_crash`). `RunnerProtected` leaves out rows
  whose stop was refused: the same value is not sent again while it is the one
  that failed (`last_modify_fail_sl`).
- `FreshOrders` and `FastChecked` except cycles in which a stage failed: then the
  documents of the cycle before are ordered from, by design of the pipeline.
- `RateKept` counts what was recorded: an order whose record a crash prevented
  is not known to the limit.
- `DemotedFallsSilent` allows one heartbeat per writing thread, those begun
  before the lock was lost, and one for each time the process could not read the lock.

Deadlock is checked except where the system may stop: where a bound on days,
cycles or fills ends the behaviour, and in `agents`, whose processes end. Each property of a passing run has a
mutant in `PROJECT.json`: a faulty variant of a definition under which TLC finds the
property violated.

## 4 Fairness

- `OrderExecution`: weak fairness of each service thread. A service calls
  its runner again after every return and every exception, and no lock is
  assumed to be fair. Nothing is assumed about which branch is taken, the market,
  the terminal or crashes. `SessionReleased` says that whoever has the session
  gives it back, also where it waits for the trade lock inside. No thread takes
  the locks the other way round: the drain holds the trade lock alone.
- `KillSwitch`: weak fairness of the pipeline thread, which waits for nobody
  in the steps that are modelled. Fast mode, the operator and the market may stop for ever.
- `OpenTimes`: weak fairness of the steps between `connect` and `disconnect` and
  of the prune. Strong fairness of the guardian's connect: the terminal does not
  fail for ever (`GuardSkips`). Strong fairness of the pipeline's way into a session: the
  session lock is not queued fairly, but its competitors sleep for at least a second
  after every pass (`supervisor.py:96`) and the pipeline only has to come through
  once in a while.
- `PositionManager`, `PaperLedger`: weak fairness of the pipeline's pass, which
  waits for nobody in what is modelled; the market and the broker are free.
- `TradeHistory`: weak fairness of the pipeline (each loop is followed by the next,
  and the cycle begins again) and of what the fast thread has begun. That batches run
  at all is not assumed: `DealsLearnedOnce` says in its own words "as long as the
  pipeline comes to its merge again and again", which it does while signals are approved.
- `Canary` (`TrialFairness`): weak fairness of each run, of its start too. Nothing in
  the repository starts `scripts/run_canary_pick.py`, so this assumes somebody who does so again
  and again; `DisableTakesEffect` needs it. When a run starts and what it finds is free.
- `Agents`: weak fairness of every thread of a living process (main, each
  service, each heartbeat writer), and a service's run ends. Nothing about starts,
  signals, kills and failures.
- `DailyLimits` and `SignalPath` state no liveness.

## 5 Proofs

All theorems hold for every value of the constants that satisfies the module's
`ConfigAssumption`, so for any number of signals, symbols, tickets, logins,
amounts, failures and days. An assumption beyond that is in the theorem's
`ASSUME`.

| theorem | says | argument |
| --- | --- | --- |
| `OrderExecution_proofs!TypeCorrect` | `[]TypeOK` | with `CurKnown`: a thread that processes a signal has one |
| `TerminalKept`, `OneMutator` | `[]SessionKeepsTerminal`, `[]SingleMutator` | a thread inside a session or a request holds the session lock and is attached; only the holder detaches. For the drain phase it is used that its intents never reach `order_send` |
| `CapHolds`, `NothingStacked` | `[]CapRespected`, `[]NoStacking`, if nothing rests and the terminal answers | `PlacingInv`: inside a batch the view contains every open position, since others can only close; so room in the view is room in the book when the order is accepted. Stale documents play no role in it |
| `GateImplemented` | `ImplementsGate` (`OrderGate!Spec` under the refinement mapping), if nothing rests and the terminal answers | `PlacingInv` again: an accepted order maps to `Open`, since room in the view is room in the book; taking and giving back the trade lock to `Take` and `Release`; a close to `Close`; the rest to stutters |
| `KillSwitch_proofs!TypeCorrect` | `[]TypeOK` | |
| `VerdictHolds`, `TargetHolds` | `[]VerdictBlocks`, `[]OrdersBelowTarget` | `VerdictGuard`: outside the risk loop's two writes a verdict is in the switch too unless they are `apart`; so a gate that goes on has not read the switch, or they are apart, and past the test of `risk_state.json` it has not read that either. `ProfitGuard`: a profit at the target since the gate's first read is there when it is summed up |
| `GateClearsOldHalts` | no step clears a halt of the day before a hold was written by hand | `GateCopy`: no stamp is of a later day, and what the gate has read is the file unless it was switched off |
| `DailyLimits_proofs!TypeCorrect` | `[]TypeOK` | |
| `BaselineOnce`, `DayStartFixed` | `BaselineKept`, `DayStartKept` | `BaselineWhole`, `GrowthWhole`: a login on a file comes with its amount and is the account's that opened the day |
| `LossPauseHolds` | `[]LossPauseEnforced` without Blue Guardian | the pause that was found is on its way to the verdict |
| `GuardianHolds` | `[]GuardianEnforced` | what the floor said is in the document the verdict is made from |
| `StaticKillHolds` | `StaticKill` without fast mode | `LossFound`: between evaluation and save nobody else writes account or baseline, and a baseline with a login has cash to measure from. The loss is the one in `account.json`, which is the last start-up's |
| `EvaluationsHold` | `EvaluationsAgree` without fast mode | `Settled`: the document an evaluation leaves has no login, so that the next starts from the same anchor; its watermark is a fixed point |
| `OpenTimes_proofs!TypeCorrect` | `[]TypeOK` | a thread has a ticket in hand from its order to its record |
| `NoTimeLost` | `[]TimesKept`, if fast mode and Blue Guardian are not both on | `SessionHeld`, `Idle` and `Fresh`: between reading the file and writing it nobody else writes, and while the guardian is between its list and its prune nothing is opened |
| `HoldHolds` | `[]HoldRespected` with Blue Guardian or without the live reviewer | a ticket is closed only when measured and held |
| `OrderedOnce`, `NothingUnrecorded` | `[]AtMostOnce`, `[]LedgerComplete`, if `SingleWriter` | `LedgerInv`: nobody else writes, so the list read before connect is still the file; what was ordered since is in the batch's list, and the executed ids cover both |
| `PositionManager_proofs!TypeCorrect` | `[]TypeOK` | a row's peak and refused stop are prices a stop can have |
| `RatchetHolds` | `ManagedRatchet` | `ListedStops`: in the stops phase the list's stop of a ticket to come is at least the broker's, since a phase that has split a position takes a new list, and one that has closed it whole leaves no stop to move |
| `FreeHolds` | `FreeStaysFree` | with `RatchetHolds` for the stops phase; the stop after a partial close is at entry or better |
| `ClosedAtTargetOnce` | `[]PartialOnce` | `Remembered`: a close at tp1 is in the row of the document or of the pass, or its ticket is the runner |
| `PaperLedger_proofs!TypeCorrect` | `[]TypeOK` | with the same type for the copy the batch works on |
| `OneEach` | `[]OnePositionPerSignal` | `Distinct`, of the file and of the copy: a fill looks at the copy, which is what the file becomes |
| `LotsBankedOnce`, `ClosesKept` | `[]BankedOnce`, `[]ClosesRecorded` | `Accounts`, `Written`: what a position has brought and what is left of it make its size in the copy, and which of the files have the copy is known at every step |
| `Operations_proofs!TypeCorrect` | `[]TypeOK` | late heartbeats are counted up to one more than the writers and the faults allow |
| `DemotedSilent` | `[]DemotedFallsSilent` | `Spent`: once the lock is lost it is never won back, so that the late heartbeats and those still due are at most the two that may have been begun and those begun on a lock that could not be read |
| `OnceHasRun` | `[]OnceRuns` | `OnceOf`: services are told to stop only on the way out, so a pipeline that has ended before has run |
| `SignalPath_proofs!TypeCorrect` | `[]TypeOK` | with `HandsFilled`: a thread in a stage that needs a signal has one |
| `RateHolds` | `[]RateKept` | `Counted`: an order of the window is recorded, known to be lost, or the one in hand, which was let through with room for it |
| `MirrorsHold` | `[]MirrorsAgree` | `Agree`: each document's table is its file from the stage that synchronises it on, unless that stage failed; no stage writes another's |
| `OrdersFresh` | `FreshOrders` | `Whole`: without a failed stage, what is stored after a stage is of this cycle or empty |
| `FastHolds` | `FastChecked` | `Asked`: since its approval was read, the signal is approved or no longer the evaluated one, because evaluations are replaced before approvals |
| `ConfirmationHolds` | `[]ConfirmedSteadily` | `Rows`: between first and last sight the gaps are at most `Keep`, or end in a cycle without a prune; `Timely`: what is to be approved has its first sight `Confirm` cycles back |
| `TrialTyped`, `TrialCountsDays`, `TrialEarnsPromotion` | `[]TrialTypeOK`, `[]HistoryPerDay`, `[]PromotionEarned` | `Sound`, of the file and of what every run holds: row `i` is at least `i - 1` days after the pick and no row is after today, so that a full window of rows takes a window of days; a run that saves what it computed days ago saves a sound state |
| `TrialEndsForGood` | `OutStaysOut`: a symbol that was demoted or has decayed is not sized up again unless replaced | case by case over the transitions |

Only model-checked: the liveness properties (`SessionReleased`,
`HaltEndsWithDay`, `TradesAgain`, `ClosedForgotten`, `DisableTakesEffect`,
`RunnerProtected`, `StopHonoured`, `DealsLearnedOnce`, `OwnerReports`, `RunsAgain`), which are beyond the
prover, and with `DealsLearnedOnce` the whole of `TradeHistory`, whose
promises are all of that kind: no single state of its documents is safe (section 6).
Every invariant and every action property of the passing runs is proved.

## 6 Where the code and its words disagree

Each is a configuration that TLC ends with a counterexample. The first is
a run of `PROJECT.json`, with quotation and line; the property of the others is
in the module named by the configuration, with the statement it is taken from above it.

| configuration | in short |
| --- | --- |
| exec_duplicate | executed ids come from an order list read before the lock: the same signal can be ordered by both paths, one after the other |
| kill_halt_entries | every risk loop clears the daily profit halt, until the gate writes it again fast mode passes |
| exec_limit_cap | resting limit orders do not count as positions: they can fill over the cap |
| exec_blind | a failed `positions_get` looks like an empty account |
| exec_trade_lock | the position manager sends without the trade lock the comment names (the session lock still excludes others) |
| exec_drain | the loop returns early although the drain placed nothing |
| kill_hold | the profit halt can overwrite a hold written by hand |
| kill_unblock | an unblock leaves two other documents blocking |
| limits_until_tomorrow | "paused until tomorrow" ends with the floating loss |
| limits_guardian: `LossPauseEnforced` | the pause "enforced in EVERY mode" is not with Blue Guardian |
| `WatermarkKept` | the high watermark restarts with every evaluation |
| `BreachesKept` | shield breaches are forgotten by the next evaluation |
| limits_stale | a loss that comes while the process runs reaches no verdict: `account.json` is written by the start-up alone |
| limits_login: `RebaselinesForward` | after an account switch the risk loop takes the baseline back to the account of the start-up |
| `DayOfAccount` | the day is measured from the opening equity of another account when the broker code sees the switch first |
| times_lost | a prune with an old list drops the time of a new position, which then can never be closed by a rule with a hold |
| times_reviewer | the reviewer closes a position of unknown age at once |
| canary_sticky | the protection of a promoted canary looks at `promoted_at`, but only while its status is promoted: it can be given up for any other symbol that leads |
| stops_whole | `full_close_only` is set for one ticket and never reset: a later ticket that could be split is closed whole at tp1 |
| stops_crash: `StopNeverLoosens` | the stop after a partial close replaces a better one |
| `PartialOnceEver` | `partial_tp_done` is saved after the loop: a crash after the close makes the next pass close half of the rest |
| paper_exits: `ClosedOnce` | a paper position that exits is recorded by the broker and found again as disappeared: the history counts it twice |
| `SignalOnce` | a signal that is still approved is filled again after its exit |
| `PartialOnce` | the broker and the position manager each take a partial profit of one position |
| `NothingDropped` | a paper position closed by a reversal leaves no trade and no cash |
| `BankedEver` | a crash between balance and positions leaves a result in the cash whose position is still open: it comes in again |
| `StopCloses` | while no signal is approved nobody looks at the stops of paper positions |
| history_faults: `HistoryGrows` | a recorded trade leaves the history until the next merge, without any fault: an older copy is written over it, and the day's realised profit is its sum |
| `ScoredOnce` | when `memory.json` cannot be read, every trade moves the edge scores again |
| `RecordedIngested` | a crash after `memory.json` keeps a trade out of edge database and arena for good |
| `OldTradesKept` | when `paper_trades.json` cannot be read, trades older than thirty days are gone |
| signal_once: `ContinuouslyValid` | a confirmation timer survives cycles without the signal ("continuously valid") |
| `EntryStillValid` | a signal is entered although the verifier has withdrawn it while the fast thread waited for the session |
| agents_docs: `OneWorker` | every pipeline cycle starts another event worker ("already returns False on subsequent calls": the terminal manager is a new one) |
| `ModeOfOwner` | `runtime_mode.json` is written by a process that has just lost the lock ("Only the canonical start.py PID may write") |
| agents_living | the owner ends or is killed; the older process goes on trading and nobody reports it |

Seen while reading, not behind a run:

- `core/position_sizing.py:100` asks for the canary's multiplier with a variable that
  is assigned only later; the exception is swallowed and the multiplier never applied there.
- `config.yaml:86` gives `pinned_symbol` the text `<UNSET>`, which is taken for a pin.
- A canary switched off and on again keeps the status `disabled` as long as
  the same symbol leads.
- `core/position_manager.py:1184` names a variable that does not exist, so that a
  time stop that worked is taken for one that failed.
- The reversal exit has a minimum hold of its own, shorter than Blue Guardian's.
- In paper mode exits are looked at only in cycles with approved signals; a stop
  is booked at its level however far below the price is; limit orders that wait
  are not taken up again.
- `core/supervisor.py:124` shows the analytic loops that were skipped as errors, four
  cycles of five; the pipeline itself catches what its loops raise, so that its
  service is hardly ever degraded.
- Nothing reads the consecutive losses the last fast rate limit asks for, because
  nothing writes them.

## 7 What is not modelled

- Numbers: prices, indicators, scores, sizes. Their outcomes are free choices or
  small whole numbers.
- Strategies, feature and context loops, evaluation and verifier scores, policy
  detection and optimisation: pure functions of the market; `SignalPath` lets them
  answer anything.
- The SQLite tables other than the four signal documents: they mirror documents
  that are modelled where they are used, and no order path reads them.
  `write_trades` only inserts or replaces, and `position_manager_loop` writes positions
  without their table; readers of these tables are reports.
- The JSONL archive, trade journal and enrichment; scripts that repair or reset the
  trade documents by hand; the caps of edge database and arena log; ghost trades (`core/trade_manager.py`).
- The event worker's polls and its subscribers: in production nothing subscribes
  that changes state. How many workers there are is in `Agents`.
- In `SignalPath`: gold may be approved without the confirmation
  (`core/gold_policy.py`); evaluation switched off.
- In `PaperLedger`: the bar replay (`bar_highlow`), the sell side (a mirror image)
  and the reversal exits of one strategy.
- Adaptation, culturing and the learning reports: what they do with what `TradeHistory` says is learned.
- Dashboard pages, research, replay, scripts, profiles, reports: no state an
  order decision shares with another thread.
- Half-written documents: `write_json_state` writes in place after nine failed
  attempts; a reader that meets one gets its default. `KillSwitch` models that for
  every read of a document that blocks orders, `TradeHistory` for the documents of
  the trades, `Agents` for the lock. Elsewhere reads succeed.
- `scripts/run_growth_campaign.py`, run by hand, which writes `account.json` and resets the growth day.
- Orders of two agents on one terminal: `Agents` has their documents. Their
  orders are not covered by `OrderExecution`, whose locks live in one process.

## 8 Plan

1. Done: `OrderExecution`, `KillSwitch`, `DailyLimits`, `OpenTimes`, `SignalPath`,
   `PositionManager`, `PaperLedger`, `TradeHistory`, `Canary`, `Agents`; `OrderGate` and the
   refinement; theorems of all but `TradeHistory`.
2. Proofs: what order execution promises beside crashes (`NothingStacked` has
   them, `OrderedOnce` not yet); how far `StaticKill` is true with fast mode, as a
   property with the evaluated baseline in it. A kill for a loss during the run can be
   stated (`LossReachesVerdict`), and becomes a theorem when a cycle reads the account.
3. Models: the management archive (append, prune, index);
   two agents sending orders to one terminal.
