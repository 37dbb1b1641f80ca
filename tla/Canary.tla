------------------------------- MODULE Canary -------------------------------
(***************************************************************************)
(* The symbol canary (core/canary.py, scripts/run_canary_pick.py): each    *)
(* run loads canary_state.json, advances the state machine by one tick,    *)
(* appends the audit row and saves the state. The entry sizing of the      *)
(* trading process reads the file at any time. Several runs may overlap;   *)
(* the operator pins, vetoes, switches the feature off or deletes the      *)
(* file.                                                                   *)
(*                                                                         *)
(* Projections and realised profits are free: which trusted symbol leads,  *)
(* whether it leads by 1.25, whether the canary beat its control, decayed, *)
(* or had no closed trade at all.                                          *)
(***************************************************************************)
EXTENDS Naturals, Sequences

CONSTANTS
  Symbols,     \* symbols a projection can rank
  Runs,        \* processes that run run_canary_pick
  Window,      \* canary.promotion_window_days
  HistoryCap,  \* rows kept of the history (90)
  None,        \* no symbol, no file, no pin
  Veto,        \* canary.pinned_symbol = ""
  MaxDay,      \* bound: UTC days of a behaviour
  MaxOps       \* bound: operator actions, crashes and overlapping runs

ASSUME TrialAssumption ==
  /\ Window \in Nat \ {0} /\ HistoryCap \in Nat /\ HistoryCap >= Window
  /\ None \notin Symbols /\ Veto \notin Symbols /\ None # Veto
  /\ MaxDay \in Nat \ {0} /\ MaxOps \in Nat

VARIABLES
  day,      \* the UTC day
  enabled,  \* canary.enabled
  pin,      \* canary.pinned_symbol
  file,     \* canary_state.json, or None
  pc,       \* where each run is
  held,     \* the state each run has computed
  ops

config == <<enabled, pin>>
locals == <<pc, held>>
trial  == <<day, config, file, locals, ops>>

-----------------------------------------------------------------------------
Active   == {"picked", "promoted"}
Out      == {"demoted", "decayed"}
Verdicts == {"init", "disabled", "no_trusted"} \cup Active \cup Out

\* "history" holds the day of each row; "promoted" is the day of promoted_at.
CanaryState ==
  [status : Verdicts, symbol : Symbols \cup {None}, picked : 0..MaxDay,
   promoted : 0..MaxDay, history : Seq(1..MaxDay)]

FreshState ==
  [status |-> "init", symbol |-> None, picked |-> 0, promoted |-> 0, history |-> <<>>]

\* A missing file is a fresh state, and so is one that cannot be parsed.
Loaded == IF file = None THEN FreshState ELSE file

\* pick_canary: the pinned symbol if it is trusted, else the best trusted one.
Picks ==
  CASE pin = Veto      -> {None}
    [] pin \in Symbols -> {None, pin}
    [] OTHER           -> {None} \cup Symbols

TrialInit ==
  /\ day = 1
  /\ enabled = TRUE
  /\ pin = None
  /\ file = None
  /\ pc = [r \in Runs |-> "idle"]
  /\ held = [r \in Runs |-> FreshState]
  /\ ops = 0

-----------------------------------------------------------------------------
(* tick: what each decision makes of the state *)

Ticks(r, state) ==
  /\ pc[r] = "idle"
  /\ pc' = [pc EXCEPT ![r] = "ticked"]
  /\ held' = [held EXCEPT ![r] = state]
  /\ IF \E q \in Runs : pc[q] = "ticked"
     THEN ops < MaxOps /\ ops' = ops + 1
     ELSE UNCHANGED ops
  /\ UNCHANGED <<day, config, file>>

\* Mutation: the state is left as it was.
TickDisabled_Preserves(r) ==
  /\ ~enabled \/ pin = Veto
  /\ Ticks(r, Loaded)

\* The feature flag first, then the operator's veto; both keep the rest.
TickDisabled(r) ==
  /\ ~enabled \/ pin = Veto
  /\ Ticks(r, [Loaded EXCEPT !.status = "disabled"])

TickNoPick(r) ==
  /\ enabled /\ pin # Veto
  /\ Ticks(r, [Loaded EXCEPT !.status = IF Loaded.symbol = None THEN "no_trusted" ELSE @])

Chosen(symbol) ==
  [status |-> "picked", symbol |-> symbol, picked |-> day, promoted |-> 0,
   history |-> <<>>]

TickFirstPick(r) ==
  /\ enabled
  /\ Loaded.status = "init" \/ Loaded.symbol = None
  /\ \E symbol \in Picks \ {None} : Ticks(r, Chosen(symbol))

\* A promoted canary is kept if it has been promoted for long and the new
\* symbol is not much better; without a history nothing is known to be better.
\* "part" is 1 if the last calendar day is not a whole one yet.
Sticky(uplift, part) ==
  /\ Loaded.status = "promoted"
  /\ Loaded.promoted + Window + part <= day
  /\ ~uplift \/ Loaded.history = <<>>

\* Another symbol than the current one leads.
Challenger(symbol) ==
  /\ enabled
  /\ Loaded.status # "init" /\ Loaded.symbol # None
  /\ symbol \in Picks \ {None, Loaded.symbol}

TickSticky(r) ==
  /\ \E symbol \in Symbols : Challenger(symbol)
  /\ \E part \in {0, 1} : Sticky(FALSE, part)
  /\ Ticks(r, Loaded)

TickSwitches(r) ==
  /\ \E uplift \in BOOLEAN, part \in {0, 1} : ~Sticky(uplift, part)
  /\ \E symbol \in Symbols : Challenger(symbol) /\ Ticks(r, Chosen(symbol))

\* The current symbol leads: it is judged.
Judged ==
  /\ enabled
  /\ Loaded.status # "init"
  /\ Loaded.symbol \in Picks \ {None}

\* Mutation: a day too early.
Eligible_Early ==
  Loaded.status \in Active /\ Len(Loaded.history) + 1 >= Window

Eligible == Loaded.status \in Active /\ Len(Loaded.history) >= Window

\* Mutation: a second run on a day adds a second row.
Upserted_Appends(h) == Append(h, day)

\* A run on the same day replaces the row of that day.
Upserted(h) == IF h # <<>> /\ h[Len(h)] = day THEN h ELSE Append(h, day)

Capped(h) == IF Len(h) <= HistoryCap THEN h ELSE Tail(h)

Judge(r, status, promoted) ==
  /\ Judged
  /\ Ticks(r, [Loaded EXCEPT !.status = status, !.promoted = promoted,
                                   !.history = Capped(Upserted(@))])

TickDecays(r) == Judge(r, "decayed", Loaded.promoted)

TickPromotes(r) == Eligible /\ Judge(r, "promoted", day)

TickDemotes(r) == Eligible /\ Judge(r, "demoted", Loaded.promoted)

\* Not eligible yet, or nothing was traded.
TickContinues(r) == Judge(r, Loaded.status, Loaded.promoted)

-----------------------------------------------------------------------------
(* run_canary_pick after the tick *)

\* The audit row is appended before; nothing reads it.
SavesState(r) ==
  /\ pc[r] = "ticked"
  /\ file' = held[r]
  /\ pc' = [pc EXCEPT ![r] = "idle"]
  /\ held' = [held EXCEPT ![r] = FreshState]
  /\ UNCHANGED <<day, config, ops>>

\* The process ends between the tick and the save, or --dry-run.
RunEnds(r) ==
  /\ ops < MaxOps /\ ops' = ops + 1
  /\ pc[r] # "idle"
  /\ pc' = [pc EXCEPT ![r] = "idle"]
  /\ held' = [held EXCEPT ![r] = FreshState]
  /\ UNCHANGED <<day, config, file>>

-----------------------------------------------------------------------------
(* The operator and the calendar *)

SetsFlag ==
  /\ ops < MaxOps /\ ops' = ops + 1
  /\ enabled' = ~enabled
  /\ UNCHANGED <<day, pin, file, locals>>

Pins ==
  /\ ops < MaxOps /\ ops' = ops + 1
  /\ \E p \in (Symbols \cup {None, Veto}) \ {pin} : pin' = p
  /\ UNCHANGED <<day, enabled, file, locals>>

\* The documented veto: the next run picks afresh.
DeletesFile ==
  /\ ops < MaxOps /\ ops' = ops + 1
  /\ file # None
  /\ file' = None
  /\ UNCHANGED <<day, config, locals>>

NextDay ==
  /\ day < MaxDay
  /\ day' = day + 1
  /\ UNCHANGED <<config, file, locals, ops>>

Run(r) ==
  \/ TickDisabled(r) \/ TickNoPick(r) \/ TickFirstPick(r) \/ TickSticky(r)
  \/ TickSwitches(r) \/ TickDecays(r) \/ TickPromotes(r) \/ TickDemotes(r)
  \/ TickContinues(r) \/ SavesState(r)

TrialNext ==
  \/ \E r \in Runs : Run(r) \/ RunEnds(r)
  \/ SetsFlag \/ Pins \/ DeletesFile \/ NextDay

TrialSpec == TrialInit /\ [][TrialNext]_trial

\* The script is started again and again (from outside the repository), and one that was
\* started comes to its end.
TrialFairness == \A r \in Runs : WF_trial(Run(r))

TrialFairSpec == TrialSpec /\ TrialFairness

-----------------------------------------------------------------------------
(* lot_multiplier_for *)

\* The symbol whose entries are sized up: the veto is looked up in the
\* configuration, everything else in the file.
Boosted(symbol) ==
  /\ pin # Veto
  /\ file # None
  /\ file.status \in Active
  /\ file.symbol = symbol

-----------------------------------------------------------------------------
(* Properties *)

TrialTypeOK ==
  /\ day \in 1..MaxDay /\ ops \in 0..MaxOps
  /\ enabled \in BOOLEAN /\ pin \in Symbols \cup {None, Veto}
  /\ file \in CanaryState \cup {None}
  /\ pc \in [Runs -> {"idle", "ticked"}]
  /\ held \in [Runs -> CanaryState]

\* A history row stands for a day on which the current symbol was watched:
\* however often the script runs, however runs overlap, there is one row per
\* day and none from before the pick.
HistoryPerDay ==
  file # None =>
    /\ \A i, j \in DOMAIN file.history : i < j => file.history[i] < file.history[j]
    /\ \A i \in DOMAIN file.history : file.history[i] >= file.picked

\* The multiplier is kept beyond the trial only after a trial: a promoted
\* canary was watched on a full window of days since it was picked.
PromotionEarned ==
  (file # None /\ file.status = "promoted") =>
    /\ Len(file.history) >= Window
    /\ file.promoted - file.picked >= Window - 1

\* A canary that was judged and found wanting is not sized up again by a run
\* that loaded that verdict, unless it has been replaced.
OutStaysOut ==
  [][\A r \in Runs :
       (pc[r] = "idle" /\ pc'[r] = "ticked" /\ Loaded.status \in Out
          /\ held'[r].status \in Active)
       => held'[r].symbol # Loaded.symbol]_trial

\* Once the operator has switched the feature off for good, and the runs
\* started before are over, no symbol is sized up.
DisableTakesEffect ==
  []<>(enabled /\ pin # Veto) \/ <>[](\A s \in Symbols : ~Boosted(s))

\* "A STATUS_PROMOTED canary may only be abandoned when (a) the new pick is at
\* least 1.25x ... AND (b) the canary has been promoted for at LEAST
\* promotion_window_days".
PromotedKept ==
  [][\A r \in Runs :
       (pc[r] = "idle" /\ pc'[r] = "ticked" /\ Loaded.status = "promoted"
          /\ held'[r].symbol # Loaded.symbol)
       => Loaded.promoted + Window <= day]_trial
=============================================================================
