----------------------------- MODULE OpenTimes -----------------------------
(***************************************************************************)
(* position_open_times.json: when each position was opened, in true UTC.   *)
(* Both order paths add to it, Blue Guardian prunes it, and every rule     *)
(* that closes a position only after a minimum hold looks a ticket up in   *)
(* it; the broker's own open time is in the broker's clock.                *)
(*                                                                         *)
(* Opening and managing happen inside a session of the terminal, which one *)
(* thread has at a time (OrderExecution); pruning happens after the        *)
(* session was given back.                                                 *)
(***************************************************************************)
EXTENDS Integers, FiniteSets

CONSTANTS
  GuardEnabled,  \* blue_guardian.enabled
  FastLive,      \* fast mode places orders and manages positions
  ReviewLive,    \* thesis_reviewer.live_close_enabled
  ClockAhead,    \* the broker's clock is ahead of UTC
  MaxTickets,    \* bound: positions opened
  MaxCrashes,    \* bound: exceptions and crashes
  MaxGlitches    \* bound: position lists that come back empty

ASSUME ConfigAssumption ==
  /\ GuardEnabled \in BOOLEAN /\ FastLive \in BOOLEAN
  /\ ReviewLive \in BOOLEAN /\ ClockAhead \in BOOLEAN
  /\ MaxTickets \in Nat /\ MaxCrashes \in Nat /\ MaxGlitches \in Nat

VARIABLES
  pc,        \* where each thread is
  session,   \* holder of the terminal session
  issued,    \* tickets handed out so far, 1..issued
  open,      \* tickets open at the broker
  held,      \* tickets that have been open for the minimum hold
  times,     \* tickets in position_open_times.json
  doc,       \* tickets in paper_positions.json
  mine,      \* per thread: the ticket it is about to record, or 0
  loaded,    \* per thread: position_open_times.json as it read it
  view,      \* per thread: the positions it looks at
  early,     \* history: tickets a hold rule let the agent close too early
  crashes, glitches

book   == <<issued, open, held>>
docs   == <<times, doc>>
locals == <<mine, loaded, view>>
counts == <<crashes, glitches>>
vars   == <<pc, session, book, docs, locals, early, counts>>

Threads == {"pipeline", "fast", "reviewer"}
None    == "none"
Ticket  == 1..MaxTickets

PCs == {"idle", "orders", "load", "store", "guard", "guarding", "pruneLoad",
        "pruneStore", "manage", "managing", "connect", "reviewing"}

\* Between connect() and disconnect()
SessionPCs == {"orders", "load", "store", "guarding", "managing", "reviewing"}

TypeOK ==
  /\ pc \in [Threads -> PCs]
  /\ session \in Threads \cup {None}
  /\ issued \in 0..MaxTickets
  /\ open \subseteq 1..issued /\ held \subseteq 1..issued
  /\ times \subseteq 1..issued /\ doc \subseteq 1..issued
  /\ mine \in [Threads -> 0..issued]
  /\ loaded \in [Threads -> SUBSET (1..issued)]
  /\ view \in [Threads -> SUBSET (1..issued)]
  /\ early \subseteq 1..issued
  /\ crashes \in 0..MaxCrashes /\ glitches \in 0..MaxGlitches

Init ==
  /\ pc = [p \in Threads |-> "idle"]
  /\ session = None
  /\ issued = 0 /\ open = {} /\ held = {}
  /\ times = {} /\ doc = {}
  /\ mine = [p \in Threads |-> 0]
  /\ loaded = [p \in Threads |-> {}] /\ view = [p \in Threads |-> {}]
  /\ early = {}
  /\ crashes = 0 /\ glitches = 0

Goto(p, l) == pc' = [pc EXCEPT ![p] = l]

Connects(p, from, to) ==
  /\ pc[p] = from
  /\ session = None
  /\ session' = p
  /\ Goto(p, to)

\* fetch_mt5_agent_positions: a failed positions_get looks like no positions.
Fetches(p) ==
  \/ view' = [view EXCEPT ![p] = open] /\ UNCHANGED glitches
  \/ /\ glitches < MaxGlitches
     /\ glitches' = glitches + 1
     /\ view' = [view EXCEPT ![p] = {}]

-----------------------------------------------------------------------------
(* Opening *)

OrdersConnect(p) ==
  /\ p = "fast" => FastLive
  /\ p # "reviewer"
  /\ Connects(p, "idle", "orders")
  /\ UNCHANGED <<book, docs, locals, early, counts>>

\* The execution loop has nothing to place, or a gate is closed.
OrdersSkipped ==
  /\ pc["pipeline"] = "idle"
  /\ Goto("pipeline", "guard")
  /\ UNCHANGED <<session, book, docs, locals, early, counts>>

PlaceOrder(p) ==
  /\ pc[p] = "orders"
  /\ issued < MaxTickets
  /\ issued' = issued + 1
  /\ open' = open \cup {issued + 1}
  /\ mine' = [mine EXCEPT ![p] = issued + 1]
  /\ Goto(p, "load")
  /\ UNCHANGED <<session, held, docs, loaded, view, early, counts>>

\* record_position_open reads the file and writes it with the ticket added.
LoadsTimes(p) ==
  /\ pc[p] = "load"
  /\ loaded' = [loaded EXCEPT ![p] = times]
  /\ Goto(p, "store")
  /\ UNCHANGED <<session, book, docs, mine, view, early, counts>>

RecordsOpen(p) ==
  /\ pc[p] = "store"
  /\ times' = loaded[p] \cup {mine[p]}
  /\ mine' = [mine EXCEPT ![p] = 0]
  /\ Goto(p, "orders")
  /\ UNCHANGED <<session, book, doc, loaded, view, early, counts>>

\* The batch's positions are saved, the session is given back.
OrdersEnd(p) ==
  /\ pc[p] = "orders"
  /\ doc' = open
  /\ session' = None
  /\ Goto(p, IF p = "pipeline" THEN "guard" ELSE "idle")
  /\ UNCHANGED <<book, times, locals, early, counts>>

-----------------------------------------------------------------------------
(* blue_guardian_loop *)

\* Switched off, or connect fails under the session lock, which ends the loop.
GuardSkips ==
  /\ GuardEnabled => session = None
  /\ pc["pipeline"] = "guard"
  /\ Goto("pipeline", "manage")
  /\ UNCHANGED <<session, book, docs, locals, early, counts>>

GuardConnects ==
  /\ GuardEnabled
  /\ Connects("pipeline", "guard", "guarding")
  /\ Fetches("pipeline")
  /\ UNCHANGED <<book, docs, mine, loaded, early, crashes>>

\* Mutation: after a flatten nothing is taken to be open.
GuardCloses_Flat ==
  /\ pc["pipeline"] = "guarding"
  /\ \E t \in view["pipeline"] \cap open : open' = open \ {t}
  /\ view' = [view EXCEPT !["pipeline"] = {}]
  /\ UNCHANGED <<pc, session, issued, held, docs, mine, loaded, early, counts>>

\* Risk closes are exempt from the hold. The positions are fetched again after
\* a flatten and after excess closes, not after per-trade closes.
GuardCloses ==
  /\ pc["pipeline"] = "guarding"
  /\ \E t \in view["pipeline"] \cap open : open' = open \ {t}
  /\ \/ view' = [view EXCEPT !["pipeline"] = open'] /\ UNCHANGED glitches
     \/ /\ glitches < MaxGlitches
        /\ glitches' = glitches + 1
        /\ view' = [view EXCEPT !["pipeline"] = {}]
     \/ UNCHANGED <<view, glitches>>
  /\ UNCHANGED <<pc, session, issued, held, docs, mine, loaded, early, crashes>>

GuardDisconnects ==
  /\ pc["pipeline"] = "guarding"
  /\ session' = None
  /\ Goto("pipeline", "pruneLoad")
  /\ UNCHANGED <<book, docs, locals, early, counts>>

\* prune_open_times, without the session
PruneLoads ==
  /\ pc["pipeline"] = "pruneLoad"
  /\ loaded' = [loaded EXCEPT !["pipeline"] = times]
  /\ Goto("pipeline", "pruneStore")
  /\ UNCHANGED <<session, book, docs, mine, view, early, counts>>

\* Mutation: nothing is pruned when no position is open.
PruneStores_Some ==
  /\ pc["pipeline"] = "pruneStore"
  /\ LET kept == loaded["pipeline"] \cap view["pipeline"]
     IN  times' = IF view["pipeline"] = {} \/ kept = loaded["pipeline"] THEN times ELSE kept
  /\ Goto("pipeline", "manage")
  /\ UNCHANGED <<session, book, doc, locals, early, counts>>

PruneStores ==
  /\ pc["pipeline"] = "pruneStore"
  /\ LET kept == loaded["pipeline"] \cap view["pipeline"]
     IN  times' = IF kept = loaded["pipeline"] THEN times ELSE kept
  /\ Goto("pipeline", "manage")
  /\ UNCHANGED <<session, book, doc, locals, early, counts>>

-----------------------------------------------------------------------------
(* Closing after a minimum hold. The rules have holds of their own, 60 s   *)
(* to 30 min; "held" stands for the one that is tested.                    *)

\* The position's age as the position manager measures it: from the file it
\* loaded, else from the broker's time, which a clock ahead of UTC keeps at 0.
MeasuredHeld(p, t) == t \in held /\ (t \in loaded[p] \/ ~ClockAhead)

\* Mutation: an unknown age does not block.
CloseAllowed_Unknown(t) == GuardEnabled => t \notin times \/ t \in held

\* MT5Broker.close_position: with Blue Guardian the file is looked at once
\* more, and an unknown age is no age.
CloseAllowed(t) == GuardEnabled => t \in times /\ t \in held

Closes(p, t) ==
  /\ CloseAllowed(t)
  /\ open' = open \ {t}
  /\ early' = IF t \in held THEN early ELSE early \cup {t}

\* position_manager_loop and the live fast guard
ManageConnects(p) ==
  /\ \/ p = "pipeline" /\ Connects(p, "manage", "managing")
     \/ p = "fast" /\ FastLive /\ Connects(p, "idle", "managing")
  /\ Fetches(p)
  /\ loaded' = [loaded EXCEPT ![p] = times]
  /\ UNCHANGED <<book, docs, mine, early, crashes>>

\* Time stop or signal reversal
ManagerCloses(p) ==
  /\ pc[p] = "managing"
  /\ \E t \in view[p] \cap open : MeasuredHeld(p, t) /\ Closes(p, t)
  /\ UNCHANGED <<pc, session, issued, held, docs, locals, counts>>

ManageEnds(p) ==
  /\ pc[p] = "managing"
  /\ doc' = IF p = "pipeline" /\ view[p] # {} THEN view[p] ELSE doc
  /\ session' = None
  /\ Goto(p, "idle")
  /\ UNCHANGED <<book, times, locals, early, counts>>

\* The thesis reviewer reads the saved positions, then waits for the session.
ReviewReads ==
  /\ ReviewLive
  /\ pc["reviewer"] = "idle"
  /\ view' = [view EXCEPT !["reviewer"] = doc]
  /\ Goto("reviewer", "connect")
  /\ UNCHANGED <<session, book, docs, mine, loaded, early, counts>>

ReviewConnects ==
  /\ Connects("reviewer", "connect", "reviewing")
  /\ UNCHANGED <<book, docs, locals, early, counts>>

\* An unknown open time does not hold the reviewer back.
ReviewerCloses ==
  /\ pc["reviewer"] = "reviewing"
  /\ \E t \in view["reviewer"] \cap open :
       (t \in times => t \in held) /\ Closes("reviewer", t)
  /\ UNCHANGED <<pc, session, issued, held, docs, locals, counts>>

ReviewEnds ==
  /\ pc["reviewer"] = "reviewing"
  /\ session' = None
  /\ Goto("reviewer", "idle")
  /\ UNCHANGED <<book, docs, locals, early, counts>>

-----------------------------------------------------------------------------
(* Failures and the world *)

NextLoop(l) ==
  CASE l \in {"orders", "load", "store"} -> "guard"
    [] l \in {"guarding", "pruneLoad", "pruneStore"} -> "manage"
    [] OTHER -> "idle"

\* A loop ends with an exception: disconnect() in its finally clause, and the
\* pipeline goes on with the next loop.
LoopRaises(p) ==
  /\ crashes < MaxCrashes
  /\ crashes' = crashes + 1
  /\ pc[p] \in SessionPCs \cup {"pruneLoad", "pruneStore"}
  /\ session' = IF session = p THEN None ELSE session
  /\ mine' = [mine EXCEPT ![p] = 0]
  /\ Goto(p, IF p = "pipeline" THEN NextLoop(pc[p]) ELSE "idle")
  /\ UNCHANGED <<book, docs, loaded, view, early, glitches>>

\* The process is killed and started again.
Crash ==
  /\ crashes < MaxCrashes
  /\ crashes' = crashes + 1
  /\ pc' = [p \in Threads |-> "idle"]
  /\ session' = None
  /\ mine' = [p \in Threads |-> 0]
  /\ UNCHANGED <<book, docs, loaded, view, early, glitches>>

\* Stop loss, take profit or a manual close
BrokerCloses ==
  /\ \E t \in open : open' = open \ {t}
  /\ UNCHANGED <<pc, session, issued, held, docs, locals, early, counts>>

TimePasses ==
  /\ \E t \in open \ held : held' = held \cup {t}
  /\ UNCHANGED <<pc, session, issued, open, docs, locals, early, counts>>

Entries(p)  == PlaceOrder(p) \/ LoadsTimes(p) \/ RecordsOpen(p) \/ OrdersEnd(p)
Guardian    == GuardSkips \/ GuardCloses \/ GuardDisconnects \/ PruneLoads
                 \/ PruneStores
Manager(p)  == ManagerCloses(p) \/ ManageEnds(p)
Reviewer    == ReviewReads \/ ReviewerCloses \/ ReviewEnds
Sessions(p) == OrdersConnect(p) \/ ManageConnects(p)

Next ==
  \/ \E p \in Threads : Sessions(p) \/ Entries(p) \/ Manager(p) \/ LoopRaises(p)
  \/ OrdersSkipped \/ GuardConnects \/ Guardian \/ ReviewConnects \/ Reviewer
  \/ Crash \/ BrokerCloses \/ TimePasses

Spec == Init /\ [][Next]_vars

\* Every loop is run again by its service, a batch ends, and the session lock
\* does not pass over the pipeline for ever.
Fairness ==
  /\ \A p \in Threads : WF_vars(LoadsTimes(p) \/ RecordsOpen(p) \/ OrdersEnd(p)
                                  \/ ManageEnds(p))
  /\ WF_vars(ReviewEnds)
  /\ WF_vars(GuardSkips \/ GuardDisconnects \/ PruneLoads \/ PruneStores)
  /\ SF_vars(OrdersSkipped \/ Sessions("pipeline")) /\ SF_vars(GuardConnects)

FairSpec == Spec /\ Fairness

-----------------------------------------------------------------------------
(* Properties *)

\* "Agent-recorded UTC open time is authoritative": every position the agent
\* opened has its time in the file, or the time is just being written, unless an
\* exception, a crash or an empty position list has come between.
TimesKept ==
  crashes + glitches = 0 =>
    \A t \in open : t \in times \/ \E p \in Threads : mine[p] = t

\* No rule with a minimum hold closes a position before the hold is over. The
\* Blue Guardian risk closes are exempt.
HoldRespected == early = {}

\* The time of a closed position does not stay in the file.
ClosedForgotten == \A t \in Ticket : (t \in times /\ t \notin open) ~> (t \notin times)
=============================================================================
