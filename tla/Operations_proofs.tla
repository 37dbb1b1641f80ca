------------------------- MODULE Operations_proofs -------------------------
(***************************************************************************)
(* Theorems about what runs beside the order paths: the processes of       *)
(* start.py, for any number of processes, services, kills and failures,    *)
(* and the trial of a symbol, for any number of overlapping runs, days and *)
(* symbols, any window and history, whatever the operator does.            *)
(***************************************************************************)
EXTENDS Agents, Canary, FiniteSetTheorems, SequenceTheorems, TLAPS

USE ConfigAssumption DEF MainGoes, Alive, Writers

LEMMA TwoWriters == Cardinality(Writers) = 2 /\ LateCap = MaxFaults + 3
<1>1. IsFiniteSet({"main"}) /\ Cardinality({"main"}) = 1
  BY FS_Singleton
<1>2. Writers = {"main"} \cup {"heartbeat"} /\ "heartbeat" \notin {"main"}
  BY DEF Writers
<1>3. Cardinality({"main"} \cup {"heartbeat"}) = Cardinality({"main"}) + 1
  BY <1>1, <1>2, FS_AddElement
<1>4. Cardinality(Writers) = 2
  BY <1>1, <1>2, <1>3
<1> QED BY <1>4 DEF LateCap

-----------------------------------------------------------------------------
(* Types *)

LEMMA DiesTyped ==
  ASSUME TypeOK, NEW a \in Agents, Dies(a)
  PROVE  /\ main' \in [Agents -> MainPCs]
         /\ stop' \in [Agents -> {"no", "once", "signal"}]
         /\ thread' \in [Agents -> [Services -> {"off", "run", "wait"}]]
         /\ status' \in [Agents -> Statuses]
         /\ due' \in [Agents -> SUBSET Writers]
         /\ workers' \in [Agents -> 0..MaxWorkers]
BY DEF Dies, TypeOK, MainPCs, Statuses

LEMMA LeavesTyped ==
  ASSUME TypeOK, NEW a \in Agents, NEW w \in Writers, Leaves(a, w)
  PROVE  /\ main' \in [Agents -> MainPCs] /\ ran' = ran
         /\ stop' \in [Agents -> {"no", "once", "signal"}]
         /\ thread' \in [Agents -> [Services -> {"off", "run", "wait"}]]
         /\ status' \in [Agents -> Statuses]
         /\ due' \in [Agents -> SUBSET Writers]
         /\ workers' \in [Agents -> 0..MaxWorkers]
<1>1. CASE w = "main" /\ main[a] = "last"
  BY <1>1, DiesTyped DEF Leaves
<1>2. CASE ~(w = "main" /\ main[a] = "last")
  <2>1. due' = [due EXCEPT ![a] = @ \ {w}]
    BY <1>2 DEF Leaves
  <2>2. main' \in [Agents -> MainPCs]
    BY <1>2 DEF Leaves, TypeOK, MainPCs
  <2> QED BY <1>2, <2>1, <2>2 DEF Leaves, TypeOK, services
<1> QED BY <1>1, <1>2

LEMMA MovesTyped ==
  ASSUME TypeOK, NEW a \in Agents, NEW s \in Services,
         NEW next \in {"off", "run", "wait"}, NEW st \in Statuses,
         Moves(a, s, next, st)
  PROVE  /\ thread' \in [Agents -> [Services -> {"off", "run", "wait"}]]
         /\ status' \in [Agents -> Statuses]
BY DEF Moves, TypeOK

LEMMA TypeStep == TypeOK /\ [Next]_vars => TypeOK'
<1> SUFFICES ASSUME TypeOK, [Next]_vars PROVE TypeOK'
  OBVIOUS
<1>1. ASSUME NEW a \in Agents, Starts(a) \/ Main(a)
      PROVE  TypeOK'
  <2>1. CASE Starts(a) \/ WritesMode(a)
    BY <2>1 DEF Starts, WritesMode, TypeOK, MainPCs, services, beats, files
  <2>4. CASE GuardsMode(a)
    BY <2>4 DEF GuardsMode, Unreadable, TypeOK, MainPCs, services, beats, files
  <2>2. CASE StartsAll(a)
    BY <2>2 DEF StartsAll, TypeOK, MainPCs, beats, files
  <2>3. CASE Over(a)
    BY <2>3 DEF Over, StopsAll, TypeOK, MainPCs, services, beats, files
  <2> QED BY <1>1, <2>1, <2>2, <2>3, <2>4 DEF Main
<1>2. ASSUME NEW a \in Agents, BootFails(a) \/ Kill(a)
      PROVE  TypeOK'
  BY <1>2, DiesTyped DEF BootFails, Kill, TypeOK, files
<1>3. ASSUME NEW a \in Agents, NEW s \in Services, Service(a, s)
      PROVE  TypeOK'
  <2>1. CASE ServiceBegins(a, s)
    <3>1. workers' \in [Agents -> 0..MaxWorkers]
      BY <2>1 DEF ServiceBegins, NewWorkers, TypeOK
    <3> QED
      BY <2>1, <3>1, MovesTyped DEF ServiceBegins, TypeOK, Statuses, beats, files
  <2>2. CASE ServiceEnds(a, s)
    <3>1. ran' \subseteq Once
      BY <2>2 DEF ServiceEnds, RunOnce, TypeOK
    <3> QED
      BY <2>2, <3>1, MovesTyped DEF ServiceEnds, TypeOK, Statuses, beats, files
  <2>3. CASE ServiceStops(a, s)
    BY <2>3, MovesTyped DEF ServiceStops, TypeOK, Statuses, beats, files
  <2> QED BY <1>3, <2>1, <2>2, <2>3 DEF Service
<1>4. ASSUME NEW a \in Agents, NEW w \in Writers, Beat(a, w)
      PROVE  TypeOK'
  <2>1. CASE BeatBegins(a, w) /\ OwnsLock(a)
    BY <2>1 DEF BeatBegins, Enters, TypeOK, services, files
  <2>2. CASE BeatBegins(a, w) /\ ~OwnsLock(a)
    BY <2>2, LeavesTyped DEF BeatBegins, TypeOK, files
  <2>3. CASE BeatWrites(a, w)
    <3>1. late' \in [Agents -> 0..LateCap]
      <4>1. late \in [Agents -> 0..MaxFaults + 3] /\ LateCap = MaxFaults + 3
        BY TwoWriters DEF TypeOK
      <4>2. late' = late \/ (late[a] # MaxFaults + 3 /\ late' = [late EXCEPT ![a] = @ + 1])
        BY <2>3, <4>1 DEF BeatWrites
      <4> QED BY <4>1, <4>2
    <3> QED BY <2>3, <3>1, LeavesTyped DEF BeatWrites, TypeOK
  <2> QED BY <1>4, <2>1, <2>2, <2>3 DEF Beat
<1>5. ASSUME NEW a \in Agents, BeatFails(a)
      PROVE  TypeOK'
  BY <1>5, LeavesTyped DEF BeatFails, TypeOK, files
<1>6. ASSUME NEW a \in Agents, Interrupted(a)
      PROVE  TypeOK'
  BY <1>6 DEF Interrupted, StopsAll, TypeOK, MainPCs, services, beats, files
<1>7. CASE UNCHANGED vars
  BY <1>7 DEF TypeOK, vars, services, beats, files
<1>8. ASSUME NEW a \in Agents, NEW w \in Writers, BeatMisreads(a, w)
      PROVE  TypeOK'
  BY <1>8 DEF BeatMisreads, Unreadable, Enters, TypeOK, services, files
<1> QED BY <1>1, <1>2, <1>3, <1>4, <1>5, <1>6, <1>7, <1>8 DEF Next

\* The variables keep their types for any number of processes and failures.
THEOREM TypeCorrect == Spec => []TypeOK
<1>1. Init => TypeOK
  BY TwoWriters DEF Init, TypeOK, MainPCs, Statuses
<1> QED BY <1>1, TypeStep, PTL DEF Spec

-----------------------------------------------------------------------------
(* Heartbeats of a demoted process *)

\* How many of its two writers have passed the test of the lock.
Due(a) == (IF "main" \in due[a] THEN 1 ELSE 0) + (IF "heartbeat" \in due[a] THEN 1 ELSE 0)

\* A process that has not started or owns the lock has written nothing late; of
\* the heartbeats begun before it lost the lock, or since in spite of it, each is
\* still due or written.
Spent(a) ==
  IF lock = a \/ main[a] = "off"
  THEN late[a] = 0
  ELSE late[a] + Due(a) <= 2 + misread[a]

LEMMA DueBounds ==
  ASSUME TypeOK, NEW a \in Agents
  PROVE  Due(a) \in 0..2 /\ late[a] \in Nat /\ misread[a] \in Nat
BY TwoWriters DEF Due, TypeOK

\* What Dies and Leaves do to the writers of a process and of the others.
LEMMA DueShrinks ==
  ASSUME TypeOK, NEW a \in Agents, NEW b \in Agents,
         \/ Dies(a)
         \/ \E w \in Writers : Leaves(a, w)
  PROVE  Due(b)' <= Due(b) /\ (main[a] # "off" => (main'[b] = "off" <=> main[b] = "off"))
<1>1. CASE Dies(a)
  BY <1>1 DEF Dies, Due, TypeOK, MainPCs
<1>2. ASSUME NEW w \in Writers, Leaves(a, w), ~Dies(a)
      PROVE  Due(b)' <= Due(b) /\ (main[a] # "off" => (main'[b] = "off" <=> main[b] = "off"))
  <2>1. due' = [due EXCEPT ![a] = @ \ {w}]
          /\ main' = (IF w = "main" THEN [main EXCEPT ![a] = "up"] ELSE main)
    BY <1>2 DEF Leaves
  <2> QED BY <2>1 DEF Due, TypeOK, MainPCs
<1> QED BY <1>1, <1>2

LEMMA SpentKept ==
  ASSUME TypeOK, NEW b \in Agents, Spent(b),
         lock' = lock, late' = late, misread' = misread, Due(b)' <= Due(b), TypeOK',
         main'[b] = "off" <=> main[b] = "off"
  PROVE  Spent(b)'
<1>1. Due(b) \in Int /\ Due(b)' \in Int /\ late[b] \in Int /\ misread[b] \in Int
  BY DueBounds DEF Due
<1> QED BY <1>1 DEF Spent

LEMMA SpentStep ==
  ASSUME TypeOK, TypeOK', [Next]_vars, NEW b \in Agents, Spent(b)
  PROVE  Spent(b)'
<1>1. ASSUME NEW a \in Agents, Starts(a)
      PROVE  Spent(b)'
  <2>1. UNCHANGED <<late, misread, due>> /\ lock' = a /\ main[a] = "off"
          /\ main' = [main EXCEPT ![a] = "guard"]
    BY <1>1 DEF Starts, beats
  <2>2. Due(b)' = Due(b)
    BY <2>1 DEF Due
  <2>3. CASE a = b
    BY <2>1, <2>3 DEF Spent, TypeOK
  <2>4. CASE a # b
    <3>1. main'[b] = main[b]
      BY <2>1, <2>4 DEF TypeOK
    <3> QED BY <2>1, <2>2, <2>4, <3>1, DueBounds DEF Spent
  <2> QED BY <2>3, <2>4
<1>2. CASE \/ UNCHANGED vars
           \/ \E a \in Agents :
                \/ Main(a) \/ Interrupted(a)
                \/ \E s \in Services : Service(a, s)
  <2>1. UNCHANGED <<lock, late, misread, due>>
    BY <1>2
    DEF vars, Main, GuardsMode, WritesMode, StartsAll, Over, Interrupted, StopsAll,
        Service, ServiceBegins, ServiceEnds, ServiceStops, beats, files
  <2>2. main'[b] = "off" <=> main[b] = "off"
    BY <1>2
    DEF vars, Main, GuardsMode, WritesMode, StartsAll, Over, Interrupted, StopsAll,
        Service, ServiceBegins, ServiceEnds, ServiceStops, TypeOK
  <2> QED BY <2>1, <2>2 DEF Spent, Due
<1>3. ASSUME NEW a \in Agents, BootFails(a) \/ Kill(a) \/ BeatFails(a)
      PROVE  Spent(b)'
  <2>1. UNCHANGED <<lock, late, misread>> /\ main[a] # "off"
    BY <1>3 DEF BootFails, Kill, BeatFails, files
  <2>2. Dies(a) \/ \E w \in Writers : Leaves(a, w)
    BY <1>3 DEF BootFails, Kill, BeatFails
  <2> QED BY <2>1, <2>2, DueShrinks, SpentKept
<1>4. ASSUME NEW a \in Agents, NEW w \in Writers, BeatBegins(a, w)
      PROVE  Spent(b)'
  <2>1. UNCHANGED <<lock, late, misread>> /\ main[a] # "off"
    BY <1>4 DEF BeatBegins, Begins, files
  <2>2. CASE OwnsLock(a)
    <3>1. main' = main /\ due' = [due EXCEPT ![a] = @ \cup {w}] /\ lock = a
      BY <1>4, <2>2 DEF BeatBegins, Enters, OwnsLock
    <3>2. a # b => Due(b)' = Due(b)
      BY <3>1 DEF Due, TypeOK
    <3> QED BY <2>1, <3>1, <3>2 DEF Spent
  <2>3. CASE ~OwnsLock(a)
    BY <1>4, <2>1, <2>3, DueShrinks, SpentKept DEF BeatBegins
  <2> QED BY <2>2, <2>3
<1>5. ASSUME NEW a \in Agents, NEW w \in Writers, BeatWrites(a, w)
      PROVE  Spent(b)'
  <2>1. UNCHANGED <<lock, misread>> /\ main[a] # "off" /\ w \in due[a] /\ Leaves(a, w)
    BY <1>5 DEF BeatWrites
  <2>2. Due(b)' <= Due(b) /\ (main'[b] = "off" <=> main[b] = "off")
    BY <2>1, DueShrinks
  <2>3. CASE late' = late
    BY <2>1, <2>2, <2>3, SpentKept
  <2>4. CASE late' # late
    <3>1. lock # a /\ late' = [late EXCEPT ![a] = @ + 1]
      BY <1>5, <2>4 DEF BeatWrites
    <3>2. CASE a # b
      <4>1. late'[b] = late[b] /\ late[b] \in Int
        BY <3>1, <3>2, DueBounds DEF TypeOK
      <4>2. Due(b) \in Int /\ Due(b)' \in Int
        BY DEF Due
      <4>3. misread[b] \in Int
        BY DueBounds
      <4> QED BY <2>1, <2>2, <4>1, <4>2, <4>3 DEF Spent
    <3>3. CASE a = b
      <4>1. w \notin due'[a]
        BY <2>1 DEF Leaves, Dies, TypeOK
      <4>2. Due(a)' + 1 <= Due(a)
        <5>1. due'[a] \subseteq due[a]
          BY <2>1 DEF Leaves, Dies, TypeOK
        <5>2. w = "main" \/ w = "heartbeat"
          OBVIOUS
        <5> QED BY <2>1, <4>1, <5>1, <5>2 DEF Due
      <4>3. late'[a] = late[a] + 1
        BY <3>1 DEF TypeOK
      <4>4. Due(a) \in Int /\ Due(a)' \in Int /\ late[a] \in Int /\ misread[a] \in Int
        BY DueBounds DEF Due
      <4>5. lock' # a /\ late[a] + Due(a) <= 2 + misread[a]
        BY <2>1, <3>1, <3>3 DEF Spent
      <4>6. late'[a] + Due(a)' <= 2 + misread'[a]
        BY <2>1, <4>2, <4>3, <4>4, <4>5
      <4>7. main'[a] # "off"
        BY <2>1, <2>2, <3>3
      <4> QED BY <3>3, <4>5, <4>6, <4>7 DEF Spent
    <3> QED BY <3>2, <3>3
  <2> QED BY <2>3, <2>4
<1>6. ASSUME NEW a \in Agents, NEW w \in Writers, BeatMisreads(a, w)
      PROVE  Spent(b)'
  <2>1. /\ UNCHANGED <<lock, late, main>> /\ lock # a /\ main[a] # "off"
        /\ due' = [due EXCEPT ![a] = @ \cup {w}] /\ w \notin due[a]
        /\ misread' = [misread EXCEPT ![a] = @ + 1]
    BY <1>6 DEF BeatMisreads, Begins, Enters, OwnsLock, files
  <2>2. CASE a # b
    <3>1. Due(b)' = Due(b) /\ misread'[b] = misread[b]
      BY <2>1, <2>2 DEF Due, TypeOK
    <3> QED BY <2>1, <3>1 DEF Spent
  <2>3. CASE a = b
    <3>1. Due(b)' <= Due(b) + 1
      <4>1. w = "main" \/ w = "heartbeat"
        OBVIOUS
      <4>2. due'[b] = due[b] \cup {w}
        BY <2>1, <2>3 DEF TypeOK
      <4> QED BY <4>1, <4>2 DEF Due
    <3>2. misread'[b] = misread[b] + 1
      BY <2>1, <2>3 DEF TypeOK
    <3>3. /\ Due(b) \in Int /\ Due(b)' \in Int
          /\ late[b] \in Int /\ misread[b] \in Int
      BY DueBounds DEF Due
    <3>4. late[b] + Due(b) <= 2 + misread[b]
      BY <2>1, <2>3 DEF Spent
    <3>5. late'[b] + Due(b)' <= 2 + misread'[b] /\ lock' # b /\ main'[b] # "off"
      BY <2>1, <2>3, <3>1, <3>2, <3>3, <3>4
    <3> QED BY <3>5 DEF Spent
  <2> QED BY <2>2, <2>3
<1> QED BY <1>1, <1>2, <1>3, <1>4, <1>5, <1>6 DEF Next, Beat

\* However many processes follow one another, each writes at most one heartbeat
\* of each of its two threads, and one for each lock it cannot read, into the
\* report of the process that followed it.
THEOREM DemotedSilent == Spec => []DemotedFallsSilent
<1> DEFINE Inv == \A a \in Agents : Spent(a)
<1>1. Init => Inv
  BY DEF Init, Spent
<1>2. TypeOK /\ TypeOK' /\ Inv /\ [Next]_vars => Inv'
  BY SpentStep
<1>3. TypeOK /\ Inv => DemotedFallsSilent
  BY DueBounds, TwoWriters DEF Spent, DemotedFallsSilent
<1> QED BY <1>1, <1>2, <1>3, TypeCorrect, PTL DEF Spec

-----------------------------------------------------------------------------
(* --once *)

Ended == {"ok", "error", "stopped"}

\* Only a process on its way out has been told to stop, and only its main thread
\* writes the first and the last heartbeat; a pipeline that is to run once and has
\* ended before the way out has run.
OnceOf(a) ==
  /\ stop[a] # "no" => main[a] = "last"
  /\ "main" \in due[a] => main[a] \in {"first", "last"}
  /\ a \in Once /\ main[a] # "last" /\ status[a] \in Ended => a \in ran
  /\ stop[a] = "once" => a \in ran

LEMMA OnceDies ==
  ASSUME TypeOK, NEW a \in Agents, NEW b \in Agents, OnceOf(b), Dies(a), ran' = ran
  PROVE  OnceOf(b)'
BY DEF Dies, Ended, OnceOf, TypeOK

LEMMA OnceLeaves ==
  ASSUME TypeOK, NEW a \in Agents, NEW b \in Agents, OnceOf(b), NEW w \in Writers,
         Leaves(a, w), w = "main" => main[a] \in {"first", "last"}
  PROVE  OnceOf(b)'
<1>1. CASE w = "main" /\ main[a] = "last"
  BY <1>1, OnceDies DEF Leaves
<1>2. CASE ~(w = "main" /\ main[a] = "last")
  <2>1. /\ due' = [due EXCEPT ![a] = @ \ {w}]
        /\ main' = (IF w = "main" THEN [main EXCEPT ![a] = "up"] ELSE main)
        /\ UNCHANGED <<stop, thread, status, ran, workers>>
    BY <1>2 DEF Leaves, services
  <2>2. CASE a # b
    BY <2>1, <2>2 DEF OnceOf, TypeOK
  <2>3. CASE a = b /\ w = "main"
    BY <1>2, <2>1, <2>3 DEF OnceOf, TypeOK, MainPCs
  <2>4. CASE a = b /\ w # "main"
    BY <2>1, <2>4 DEF OnceOf, TypeOK
  <2> QED BY <2>2, <2>3, <2>4
<1> QED BY <1>1, <1>2

LEMMA OnceStep ==
  ASSUME TypeOK, [Next]_vars, NEW b \in Agents, \A a \in Agents : OnceOf(a)
  PROVE  OnceOf(b)'
<1> USE DEF OnceOf, TypeOK
<1>1. ASSUME NEW a \in Agents, Starts(a) \/ GuardsMode(a) \/ WritesMode(a) \/ StartsAll(a)
      PROVE  OnceOf(b)'
  BY <1>1 DEF Starts, GuardsMode, Unreadable, WritesMode, StartsAll, services, beats, MainPCs
<1>2. ASSUME NEW a \in Agents, Over(a) \/ Interrupted(a)
      PROVE  OnceOf(b)'
  BY <1>2 DEF Over, OnceOver, Interrupted, StopsAll, services, beats, Ended
<1>3. ASSUME NEW a \in Agents, BootFails(a) \/ Kill(a)
      PROVE  OnceOf(b)'
  BY <1>3, OnceDies DEF BootFails, Kill
<1>4. ASSUME NEW a \in Agents, NEW s \in Services, Service(a, s)
      PROVE  OnceOf(b)'
  <2>1. CASE ServiceBegins(a, s)
    BY <2>1 DEF ServiceBegins, Moves, Ended, beats
  <2>2. CASE ServiceEnds(a, s)
    BY <2>2 DEF ServiceEnds, Moves, RunOnce, Ended, beats
  <2>3. CASE ServiceStops(a, s)
    BY <2>3 DEF ServiceStops, Moves, RunOnce, Ended, beats
  <2> QED BY <1>4, <2>1, <2>2, <2>3 DEF Service
<1>5. ASSUME NEW a \in Agents, NEW w \in Writers, BeatBegins(a, w)
      PROVE  OnceOf(b)'
  <2>1. w = "main" => main[a] \in {"first", "last"}
    BY <1>5 DEF BeatBegins, Begins
  <2>2. CASE OwnsLock(a)
    <3>1. /\ due' = [due EXCEPT ![a] = @ \cup {w}]
          /\ UNCHANGED <<main, stop, thread, status, ran>>
      BY <1>5, <2>2 DEF BeatBegins, Enters, services
    <3>2. CASE a = b
      BY <2>1, <3>1, <3>2
    <3>3. CASE a # b
      BY <3>1, <3>3
    <3> QED BY <3>2, <3>3
  <2>3. CASE ~OwnsLock(a)
    BY <1>5, <2>1, <2>3, OnceLeaves DEF BeatBegins
  <2> QED BY <2>2, <2>3
<1>6. ASSUME NEW a \in Agents, NEW w \in Writers, BeatWrites(a, w)
      PROVE  OnceOf(b)'
  BY <1>6, OnceLeaves DEF BeatWrites
<1>7. ASSUME NEW a \in Agents, BeatFails(a)
      PROVE  OnceOf(b)'
  BY <1>7, OnceLeaves DEF BeatFails
<1>8. CASE UNCHANGED vars
  BY <1>8 DEF vars, services, beats
<1>9. ASSUME NEW a \in Agents, NEW w \in Writers, BeatMisreads(a, w)
      PROVE  OnceOf(b)'
  <2>1. /\ due' = [due EXCEPT ![a] = @ \cup {w}]
        /\ UNCHANGED <<main, stop, thread, status, ran>>
        /\ w = "main" => main[a] \in {"first", "last"}
    BY <1>9 DEF BeatMisreads, Begins, Enters, services
  <2>2. CASE a = b
    BY <2>1, <2>2
  <2>3. CASE a # b
    BY <2>1, <2>3
  <2> QED BY <2>2, <2>3
<1> QED BY <1>1, <1>2, <1>3, <1>4, <1>5, <1>6, <1>7, <1>8, <1>9 DEF Next, Main, Beat

\* A process started with --once that ends by itself, not by a signal, has had a
\* whole run of its pipeline, whatever other processes and failures there are.
THEOREM OnceHasRun == Spec => []OnceRuns
<1> DEFINE Inv == \A a \in Agents : OnceOf(a)
<1>1. Init => Inv
  BY DEF Init, OnceOf, Ended
<1>2. TypeOK /\ Inv /\ [Next]_vars => Inv'
  BY OnceStep
<1>3. Inv => OnceRuns
  BY DEF OnceOf, OnceRuns
<1> QED BY <1>1, <1>2, <1>3, TypeCorrect, PTL DEF Spec

-----------------------------------------------------------------------------
(* The trial of a symbol *)

Day == 1..MaxDay

\* A history that has a row for different days up to this one, none of them from
\* before the pick.
Daily(h, picked) ==
  /\ \A i \in 1..Len(h) : h[i] <= day /\ h[i] >= picked + i - 1
  /\ \A i, j \in 1..Len(h) : i < j => h[i] < h[j]

\* What is true of every state of the canary, on file or in a run's hand.
Sound(c) ==
  /\ c \in CanaryState
  /\ c.picked <= day
  /\ Daily(c.history, c.picked)
  /\ c.status = "promoted" =>
       Len(c.history) >= Window /\ c.promoted >= c.picked + Window - 1

CanaryInv ==
  /\ TrialTypeOK
  /\ file # None => Sound(file)
  /\ \A r \in Runs : Sound(held[r])

LEMMA DayTyped == TrialTypeOK => day \in Nat \ {0} /\ day \in Day /\ day \in 0..MaxDay /\ 0 \in 0..MaxDay
BY TrialAssumption DEF TrialTypeOK, Day

LEMMA DaysCounted ==
  ASSUME NEW h \in Seq(Day)
  PROVE  Len(h) \in Nat /\ \A i \in 1..Len(h) : h[i] \in Nat
<1>1. Len(h) \in Nat
  BY LenProperties
<1>2. ASSUME NEW i \in 1..Len(h) PROVE h[i] \in Nat
  <2>1. h[i] \in Day
    BY ElementOfSeq
  <2> QED BY <2>1 DEF Day
<1> QED BY <1>1, <1>2

LEMMA HistoryUpserted ==
  ASSUME TrialTypeOK, NEW h \in Seq(Day), NEW picked \in Nat, picked <= day, Daily(h, picked)
  PROVE  /\ Upserted(h) \in Seq(Day)
         /\ Daily(Upserted(h), picked)
         /\ Len(Upserted(h)) >= Len(h)
<1>1. Len(h) \in Nat /\ \A i \in 1..Len(h) : h[i] \in Nat
  BY DaysCounted
<1>2. day \in Nat /\ day \in Day
  BY DayTyped
<1>3. CASE h # <<>> /\ h[Len(h)] = day
  BY <1>1, <1>3 DEF Upserted
<1>4. CASE h = <<>> \/ h[Len(h)] # day
  <2> DEFINE a == Append(h, day)
  <2>1. Upserted(h) = a
    BY <1>4 DEF Upserted
  <2>2. /\ a \in Seq(Day) /\ Len(a) = Len(h) + 1 /\ a[Len(h) + 1] = day
        /\ \A i \in 1..Len(h) : a[i] = h[i]
    BY <1>2, AppendProperties
  <2>3. h = <<>> => Len(h) = 0
    BY EmptySeq
  <2>4. Len(h) > 0 => h[Len(h)] < day
    <3> SUFFICES ASSUME Len(h) > 0 PROVE h[Len(h)] < day
      OBVIOUS
    <3>1. Len(h) \in 1..Len(h)
      BY <1>1
    <3>2. h[Len(h)] <= day /\ h[Len(h)] # day
      BY <1>4, <2>3, <3>1 DEF Daily
    <3> QED BY <1>1, <1>2, <3>1, <3>2
  <2> HIDE DEF a
  <2>5. \A i \in 1..Len(h) : h[i] < day
    <3> SUFFICES ASSUME NEW i \in 1..Len(h) PROVE h[i] < day
      OBVIOUS
    <3>1. Len(h) \in 1..Len(h) /\ i <= Len(h) /\ i \in Nat /\ Len(h) > 0
      BY <1>1
    <3>2. i < Len(h) => h[i] < h[Len(h)]
      BY <3>1 DEF Daily
    <3>3. h[i] \in Nat /\ h[Len(h)] \in Nat
      BY <1>1, <3>1
    <3> QED BY <1>2, <2>4, <3>1, <3>2, <3>3
  <2>6. day >= picked + Len(h)
    <3>1. CASE Len(h) = 0
      BY <1>2, <3>1
    <3>2. CASE Len(h) > 0
      <4>1. Len(h) \in 1..Len(h)
        BY <1>1, <3>2
      <4>2. h[Len(h)] \in Nat /\ h[Len(h)] >= picked + Len(h) - 1 /\ h[Len(h)] < day
        BY <1>1, <2>4, <3>2, <4>1 DEF Daily
      <4> QED BY <1>1, <1>2, <4>2
    <3> QED BY <1>1, <3>1, <3>2
  <2>7. \A i \in 1..Len(a) : a[i] <= day /\ a[i] >= picked + i - 1
    <3> SUFFICES ASSUME NEW i \in 1..Len(a) PROVE a[i] <= day /\ a[i] >= picked + i - 1
      OBVIOUS
    <3>1. CASE i = Len(h) + 1
      BY <1>1, <1>2, <2>2, <2>6, <3>1
    <3>2. CASE i \in 1..Len(h)
      BY <2>2, <3>2 DEF Daily
    <3> QED BY <1>1, <2>2, <3>1, <3>2
  <2>8. ASSUME NEW i \in 1..Len(a), NEW j \in 1..Len(a), i < j
        PROVE  a[i] < a[j]
    <3>1. i \in 1..Len(h)
      BY <1>1, <2>2, <2>8
    <3>2. CASE j = Len(h) + 1
      BY <2>2, <2>5, <3>1, <3>2
    <3>3. CASE j \in 1..Len(h)
      BY <2>2, <2>8, <3>1, <3>3 DEF Daily
    <3> QED BY <1>1, <2>2, <3>2, <3>3
  <2>9. Daily(a, picked)
    BY <2>7, <2>8 DEF Daily
  <2> QED BY <1>1, <2>1, <2>2, <2>9
<1> QED BY <1>3, <1>4

LEMMA HistoryCapped ==
  ASSUME TrialTypeOK, NEW h \in Seq(Day), NEW picked \in Nat, Daily(h, picked)
  PROVE  /\ Capped(h) \in Seq(Day)
         /\ Daily(Capped(h), picked)
         /\ Len(h) >= Window => Len(Capped(h)) >= Window
<1>1. Len(h) \in Nat /\ \A i \in 1..Len(h) : h[i] \in Nat
  BY DaysCounted
<1>2. HistoryCap \in Nat /\ Window \in Nat /\ HistoryCap >= Window
  BY TrialAssumption
<1>3. CASE Len(h) <= HistoryCap
  BY <1>3 DEF Capped
<1>4. CASE ~(Len(h) <= HistoryCap)
  <2>1. Capped(h) = Tail(h)
    BY <1>4 DEF Capped
  <2>2. Len(h) > HistoryCap
    BY <1>1, <1>2, <1>4
  <2>3. h # <<>>
    BY <1>2, <2>2, EmptySeq
  <2> DEFINE t == Tail(h)
  <2>4. t \in Seq(Day) /\ Len(t) = Len(h) - 1 /\ \A i \in 1..Len(t) : t[i] = h[i+1]
    BY <2>3, HeadTailProperties
  <2> HIDE DEF t
  <2>5. \A i \in 1..Len(t) : i + 1 \in 1..Len(h)
    BY <1>1, <2>4
  <2>6. day \in Nat
    BY DayTyped
  <2>7. \A i \in 1..Len(t) : t[i] <= day /\ t[i] >= picked + i - 1
    <3> SUFFICES ASSUME NEW i \in 1..Len(t) PROVE t[i] <= day /\ t[i] >= picked + i - 1
      OBVIOUS
    <3>1. h[i+1] <= day /\ h[i+1] >= picked + (i+1) - 1 /\ h[i+1] \in Nat
      BY <1>1, <2>5 DEF Daily
    <3> QED BY <2>4, <3>1
  <2>8. ASSUME NEW i \in 1..Len(t), NEW j \in 1..Len(t), i < j
        PROVE  t[i] < t[j]
    <3>1. i + 1 < j + 1 /\ i + 1 \in 1..Len(h) /\ j + 1 \in 1..Len(h)
      BY <2>5, <2>8
    <3> QED BY <2>4, <3>1 DEF Daily
  <2>9. Daily(t, picked)
    BY <2>7, <2>8 DEF Daily
  <2> QED BY <1>1, <1>2, <2>1, <2>2, <2>4, <2>9 DEF t
<1> QED BY <1>3, <1>4

LEMMA FreshSound == TrialTypeOK => Sound(FreshState)
<1> SUFFICES ASSUME TrialTypeOK PROVE Sound(FreshState)
  OBVIOUS
<1>1. FreshState \in CanaryState
  BY EmptySeq, DayTyped DEF FreshState, CanaryState, Verdicts, Day
<1>2. Len(FreshState.history) = 0 /\ FreshState.picked = 0 /\ FreshState.status = "init"
  BY EmptySeq DEF FreshState
<1>3. day \in Nat
  BY DayTyped
<1> QED BY <1>1, <1>2, <1>3 DEF Sound, Daily

\* What a tick computes is computed from a sound state.
LEMMA LoadedSound ==
  ASSUME CanaryInv
  PROVE  Sound(Loaded)
<1>1. CASE file = None
  BY <1>1, FreshSound DEF Loaded, CanaryInv
<1>2. CASE file # None
  BY <1>2 DEF Loaded, CanaryInv
<1> QED BY <1>1, <1>2

LEMMA ChosenSound ==
  ASSUME CanaryInv, NEW symbol \in Symbols
  PROVE  Sound(Chosen(symbol))
<1>1. Chosen(symbol) \in CanaryState
  BY EmptySeq, DayTyped DEF Chosen, CanaryState, Verdicts, Active, CanaryInv, Day
<1>2. Len(Chosen(symbol).history) = 0 /\ Chosen(symbol).picked = day
        /\ Chosen(symbol).status = "picked"
  BY EmptySeq DEF Chosen
<1>3. day \in Nat
  BY DayTyped DEF CanaryInv
<1> QED BY <1>1, <1>2, <1>3 DEF Sound, Daily

\* A judgement adds at most today's row; it promotes only after a full window.
LEMMA JudgedSound ==
  ASSUME NEW c, Sound(c), TrialTypeOK, NEW verdict \in Verdicts, NEW promoted \in 0..MaxDay,
         verdict = "promoted" =>
           \/ Len(c.history) >= Window /\ promoted = day
           \/ c.status = "promoted" /\ promoted = c.promoted
  PROVE  Sound([c EXCEPT !.status = verdict, !.promoted = promoted,
                         !.history = Capped(Upserted(@))])
<1> DEFINE h == Capped(Upserted(c.history))
           d == [c EXCEPT !.status = verdict, !.promoted = promoted, !.history = h]
<1>1. /\ c.picked \in Nat /\ c.picked <= day /\ c.history \in Seq(Day)
      /\ Daily(c.history, c.picked) /\ c \in CanaryState
  BY DEF Sound, CanaryState, Day
<1>2. /\ Upserted(c.history) \in Seq(Day) /\ Daily(Upserted(c.history), c.picked)
      /\ Len(Upserted(c.history)) >= Len(c.history)
  BY <1>1, HistoryUpserted
<1>3. /\ h \in Seq(Day) /\ Daily(h, c.picked)
      /\ Len(Upserted(c.history)) >= Window => Len(h) >= Window
  BY <1>1, <1>2, HistoryCapped
<1>4. Len(c.history) \in Nat /\ Len(Upserted(c.history)) \in Nat /\ Window \in Nat \ {0}
  BY <1>1, <1>2, LenProperties, TrialAssumption
<1>5. Len(c.history) >= Window => Len(h) >= Window
  BY <1>2, <1>3, <1>4
<1>6. Len(c.history) >= Window => day >= c.picked + Window - 1
  <2> SUFFICES ASSUME Len(c.history) >= Window PROVE day >= c.picked + Window - 1
    OBVIOUS
  <2>1. Window \in 1..Len(c.history)
    BY <1>4
  <2>2. c.history[Window] <= day /\ c.history[Window] >= c.picked + Window - 1
    BY <1>1, <2>1 DEF Daily
  <2>3. c.history[Window] \in Nat /\ day \in Nat
    BY <1>1, <2>1, DaysCounted, DayTyped
  <2> QED BY <1>1, <1>4, <2>2, <2>3
<1> HIDE DEF h
<1>7. /\ d \in CanaryState /\ d.status = verdict /\ d.promoted = promoted
      /\ d.history = h /\ d.picked = c.picked
  BY <1>1, <1>3 DEF CanaryState, Day
<1> HIDE DEF d
<1>8. Sound(d)
  BY <1>1, <1>3, <1>5, <1>6, <1>7 DEF Sound
<1> QED BY <1>8 DEF d, h

\* A status that is not a promotion is as sound as the state it replaces.
LEMMA RestatedSound ==
  ASSUME NEW c, Sound(c), NEW verdict \in Verdicts \ {"promoted"}
  PROVE  Sound([c EXCEPT !.status = verdict])
<1> DEFINE d == [c EXCEPT !.status = verdict]
<1>1. /\ d \in CanaryState /\ d.status = verdict /\ d.history = c.history
      /\ d.picked = c.picked
  BY DEF Sound, CanaryState
<1> HIDE DEF d
<1>2. Sound(d)
  BY <1>1 DEF Sound
<1> QED BY <1>2 DEF d

\* Time does not make a state unsound.
LEMMA LaterSound ==
  ASSUME NEW c, Sound(c), TrialTypeOK, NEW later \in Nat, later >= day
  PROVE  /\ c.picked <= later
         /\ \A i \in 1..Len(c.history) : c.history[i] <= later
<1>1. c.picked \in Nat /\ c.history \in Seq(Day) /\ day \in Nat
  BY DayTyped DEF Sound, CanaryState, Day
<1>2. \A i \in 1..Len(c.history) : c.history[i] \in Nat /\ c.history[i] <= day
  BY <1>1, DaysCounted DEF Sound, Daily
<1> QED BY <1>1, <1>2 DEF Sound

LEMMA TickKeeps ==
  ASSUME CanaryInv, NEW r \in Runs, NEW state, Sound(state), Ticks(r, state)
  PROVE  CanaryInv'
<1>1. /\ UNCHANGED <<day, file, enabled, pin>> /\ held' = [held EXCEPT ![r] = state]
      /\ pc' = [pc EXCEPT ![r] = "ticked"] /\ ops' \in {ops, ops + 1}
      /\ ops' # ops => ops < MaxOps
  BY DEF Ticks, config
<1>2. state \in CanaryState
  BY DEF Sound
<1>3. TrialTypeOK'
  BY <1>1, <1>2, TrialAssumption DEF CanaryInv, TrialTypeOK
<1>4. held \in [Runs -> CanaryState]
  BY DEF CanaryInv, TrialTypeOK
<1>5. \A q \in Runs : Sound(held[q])'
  BY <1>1, <1>4 DEF CanaryInv, Sound, Daily
<1>6. (file # None => Sound(file))'
  BY <1>1 DEF CanaryInv, Sound, Daily
<1> QED BY <1>3, <1>5, <1>6 DEF CanaryInv

LEMMA JudgeKeeps ==
  ASSUME CanaryInv, NEW r \in Runs, NEW verdict \in Verdicts, NEW promoted \in 0..MaxDay,
         Judge(r, verdict, promoted),
         verdict = "promoted" =>
           \/ Len(Loaded.history) >= Window /\ promoted = day
           \/ Loaded.status = "promoted" /\ promoted = Loaded.promoted
  PROVE  CanaryInv'
<1> DEFINE c == Loaded
           d == [c EXCEPT !.status = verdict, !.promoted = promoted,
                          !.history = Capped(Upserted(@))]
<1>1. Ticks(r, d)
  BY DEF Judge
<1>2. Sound(c) /\ TrialTypeOK
  BY LoadedSound DEF CanaryInv
<1>3. verdict = "promoted" =>
        \/ Len(c.history) >= Window /\ promoted = day
        \/ c.status = "promoted" /\ promoted = c.promoted
  OBVIOUS
<1> HIDE DEF c
<1>4. Sound(d)
  BY <1>2, <1>3, JudgedSound
<1> HIDE DEF d
<1> QED BY <1>1, <1>4, TickKeeps

\* A run that ends holds nothing; what it may have saved is what it held.
LEMMA EndKeeps ==
  ASSUME CanaryInv, NEW r \in Runs, file' \in {file, held[r]},
         UNCHANGED <<day, enabled, pin>>, ops' \in {ops, ops + 1}, ops' # ops => ops < MaxOps,
         pc' = [pc EXCEPT ![r] = "idle"], held' = [held EXCEPT ![r] = FreshState]
  PROVE  CanaryInv'
<1>1. Sound(FreshState) /\ FreshState \in CanaryState
  BY FreshSound DEF CanaryInv, Sound
<1>2. TrialTypeOK'
  BY <1>1, TrialAssumption DEF CanaryInv, TrialTypeOK
<1>3. held \in [Runs -> CanaryState]
  BY DEF CanaryInv, TrialTypeOK
<1>4. \A q \in Runs : Sound(held[q])'
  BY <1>1, <1>3 DEF CanaryInv, Sound, Daily
<1>5. (file # None => Sound(file))'
  BY DEF CanaryInv, Sound, Daily
<1> QED BY <1>2, <1>4, <1>5 DEF CanaryInv

LEMMA RunKeeps ==
  ASSUME CanaryInv, NEW r \in Runs, Run(r)
  PROVE  CanaryInv'
<1>1. Sound(Loaded) /\ Loaded.status \in Verdicts /\ Loaded.promoted \in 0..MaxDay
  BY LoadedSound DEF Sound, CanaryState
<1>2. CASE TickDisabled(r)
  <2>1. Sound([Loaded EXCEPT !.status = "disabled"])
    BY <1>1, RestatedSound DEF Verdicts
  <2> QED BY <1>2, <2>1, TickKeeps DEF TickDisabled
<1>3. CASE TickNoPick(r)
  <2> DEFINE verdict == IF Loaded.symbol = None THEN "no_trusted" ELSE Loaded.status
             state == [Loaded EXCEPT !.status = verdict]
  <2>1. Ticks(r, state)
    BY <1>3 DEF TickNoPick
  <2>2. Sound(state)
    <3>1. CASE verdict = "promoted"
      <4>1. verdict = Loaded.status
        BY <3>1
      <4>2. state = Loaded
        BY <1>1, <4>1 DEF Sound, CanaryState
      <4> QED BY <1>1, <4>2
    <3>2. CASE verdict # "promoted"
      <4>1. verdict \in Verdicts \ {"promoted"}
        BY <1>1, <3>2 DEF Verdicts
      <4> HIDE DEF verdict
      <4> QED BY <1>1, <4>1, RestatedSound
    <3> QED BY <3>1, <3>2
  <2> HIDE DEF state
  <2> QED BY <2>1, <2>2, TickKeeps
<1>4. CASE TickFirstPick(r)
  <2>1. PICK symbol \in Symbols : Ticks(r, Chosen(symbol))
    BY <1>4 DEF TickFirstPick, Picks
  <2> QED BY <2>1, ChosenSound, TickKeeps
<1>5. CASE TickSticky(r)
  BY <1>1, <1>5, TickKeeps DEF TickSticky
<1>6. CASE TickSwitches(r)
  <2>1. PICK symbol \in Symbols : Ticks(r, Chosen(symbol))
    BY <1>6 DEF TickSwitches
  <2> QED BY <2>1, ChosenSound, TickKeeps
<1>7. CASE TickDecays(r)
  BY <1>1, <1>7, JudgeKeeps DEF TickDecays, Verdicts, Out
<1>8. CASE TickPromotes(r)
  <2>1. day \in 0..MaxDay
    BY DayTyped DEF CanaryInv
  <2>2. Len(Loaded.history) >= Window /\ Judge(r, "promoted", day)
    BY <1>8 DEF TickPromotes, Eligible
  <2> QED BY <2>1, <2>2, JudgeKeeps DEF Verdicts, Active
<1>9. CASE TickDemotes(r)
  BY <1>1, <1>9, JudgeKeeps DEF TickDemotes, Verdicts, Out
<1>10. CASE TickContinues(r)
  BY <1>1, <1>10, JudgeKeeps DEF TickContinues
<1>11. CASE SavesState(r)
  <2>1. /\ UNCHANGED <<day, enabled, pin, ops>> /\ file' = held[r]
        /\ pc' = [pc EXCEPT ![r] = "idle"] /\ held' = [held EXCEPT ![r] = FreshState]
    BY <1>11 DEF SavesState, config
  <2> QED BY <2>1, EndKeeps
<1> QED
  BY <1>2, <1>3, <1>4, <1>5, <1>6, <1>7, <1>8, <1>9, <1>10, <1>11 DEF Run

LEMMA CanaryStep == CanaryInv /\ [TrialNext]_trial => CanaryInv'
<1> SUFFICES ASSUME CanaryInv, [TrialNext]_trial PROVE CanaryInv'
  OBVIOUS
<1>1. ASSUME NEW r \in Runs, Run(r) PROVE CanaryInv'
  BY <1>1, RunKeeps
<1>2. ASSUME NEW r \in Runs, RunEnds(r) PROVE CanaryInv'
  BY <1>2, EndKeeps DEF RunEnds, config
<1>3. CASE SetsFlag \/ Pins \/ UNCHANGED trial
  <2>1. UNCHANGED <<day, file, pc, held>> /\ ops' \in {ops, ops + 1}
          /\ (ops' # ops => ops < MaxOps) /\ enabled' \in {enabled, ~enabled}
          /\ pin' \in {pin} \cup Symbols \cup {None, Veto}
    BY <1>3 DEF SetsFlag, Pins, trial, locals, config
  <2>2. TrialTypeOK'
    <3>1. enabled' \in BOOLEAN
      BY <2>1 DEF CanaryInv, TrialTypeOK
    <3>2. pin' \in Symbols \cup {None, Veto}
      BY <2>1 DEF CanaryInv, TrialTypeOK
    <3>3. ops' \in 0..MaxOps
      BY <2>1, TrialAssumption DEF CanaryInv, TrialTypeOK
    <3> QED BY <2>1, <3>1, <3>2, <3>3 DEF CanaryInv, TrialTypeOK
  <2>3. \A q \in Runs : Sound(held[q])'
    BY <2>1 DEF CanaryInv, Sound, Daily
  <2>4. (file # None => Sound(file))'
    BY <2>1 DEF CanaryInv, Sound, Daily
  <2> QED BY <2>2, <2>3, <2>4 DEF CanaryInv
<1>4. CASE DeletesFile
  BY <1>4, TrialAssumption DEF DeletesFile, CanaryInv, TrialTypeOK, Sound, Daily, locals, config
<1>5. CASE NextDay
  <2>1. day' = day + 1 /\ day' \in 1..MaxDay /\ UNCHANGED <<file, pc, held, enabled, pin, ops>>
    BY <1>5, TrialAssumption DEF NextDay, locals, config, CanaryInv, TrialTypeOK
  <2>2. day \in Nat /\ day + 1 \in Nat /\ day + 1 >= day /\ TrialTypeOK
    BY DayTyped DEF CanaryInv
  <2>3. TrialTypeOK'
    BY <2>1 DEF CanaryInv, TrialTypeOK
  <2>4. ASSUME NEW c, Sound(c)
        PROVE  /\ c \in CanaryState /\ c.picked <= day + 1
               /\ \A i \in 1..Len(c.history) :
                    c.history[i] <= day + 1 /\ c.history[i] >= c.picked + i - 1
               /\ \A i, j \in 1..Len(c.history) : i < j => c.history[i] < c.history[j]
               /\ c.status = "promoted" =>
                    Len(c.history) >= Window /\ c.promoted >= c.picked + Window - 1
    BY <2>2, <2>4, LaterSound DEF Sound, Daily
  <2>5. \A q \in Runs : Sound(held[q])'
    BY <2>1, <2>4 DEF CanaryInv, Sound, Daily
  <2>6. (file # None => Sound(file))'
    BY <2>1, <2>4 DEF CanaryInv, Sound, Daily
  <2> QED BY <2>3, <2>5, <2>6 DEF CanaryInv
<1> QED BY <1>1, <1>2, <1>3, <1>4, <1>5 DEF TrialNext

LEMMA CanaryInit == TrialInit => CanaryInv
<1> SUFFICES ASSUME TrialInit PROVE CanaryInv
  OBVIOUS
<1>1. FreshState \in CanaryState
  BY EmptySeq, TrialAssumption DEF FreshState, CanaryState, Verdicts
<1>2. TrialTypeOK
  BY <1>1, TrialAssumption DEF TrialInit, TrialTypeOK
<1>3. \A r \in Runs : Sound(held[r])
  BY <1>2, FreshSound DEF TrialInit
<1> QED BY <1>2, <1>3 DEF TrialInit, CanaryInv

LEMMA CanaryInvariant == TrialSpec => []CanaryInv
BY CanaryInit, CanaryStep, PTL DEF TrialSpec

\* The file and what a run holds of it keep their types.
THEOREM TrialTyped == TrialSpec => []TrialTypeOK
<1>1. CanaryInv => TrialTypeOK
  BY DEF CanaryInv
<1> QED BY <1>1, CanaryInvariant, PTL

\* However often the script runs, however its runs overlap or are cut off, and
\* whatever the operator does: one row per day, none from before the pick.
THEOREM TrialCountsDays == TrialSpec => []HistoryPerDay
<1>1. CanaryInv => HistoryPerDay
  <2> SUFFICES ASSUME CanaryInv, file # None
               PROVE  /\ \A i, j \in DOMAIN file.history :
                           i < j => file.history[i] < file.history[j]
                      /\ \A i \in DOMAIN file.history : file.history[i] >= file.picked
    BY DEF HistoryPerDay
  <2> DEFINE h == file.history
             p == file.picked
  <2>1. h \in Seq(Day) /\ p \in Nat /\ Daily(h, p)
    BY DEF CanaryInv, Sound, CanaryState, Day
  <2> HIDE DEF h, p
  <2>2. DOMAIN h = 1..Len(h)
    BY <2>1, LenProperties
  <2>3. \A i \in 1..Len(h) : h[i] \in Nat /\ h[i] >= p + i - 1 /\ i \in Nat /\ i >= 1
    BY <2>1, DaysCounted DEF Daily
  <2>4. \A i \in 1..Len(h) : h[i] >= p
    BY <2>1, <2>3
  <2> QED BY <2>1, <2>2, <2>4 DEF Daily, h, p
<1> QED BY <1>1, CanaryInvariant, PTL

\* A canary is promoted only after it was watched for the whole window of days.
THEOREM TrialEarnsPromotion == TrialSpec => []PromotionEarned
<1>1. CanaryInv => PromotionEarned
  <2> SUFFICES ASSUME CanaryInv, file # None, file.status = "promoted"
               PROVE  Len(file.history) >= Window
                        /\ file.promoted - file.picked >= Window - 1
    BY DEF PromotionEarned
  <2>1. Sound(file)
    BY DEF CanaryInv
  <2>2. file.promoted \in Nat /\ file.picked \in Nat /\ Window \in Nat
    BY <2>1, TrialAssumption DEF Sound, CanaryState
  <2> QED BY <2>1, <2>2 DEF Sound
<1> QED BY <1>1, CanaryInvariant, PTL

\* No transition of the state machine brings a symbol that was found wanting back.
LEMMA OutStep ==
  ASSUME TrialTypeOK, [TrialNext]_trial, NEW r \in Runs, pc[r] = "idle", pc'[r] = "ticked",
         Loaded.status \in Out, held'[r].status \in Active
  PROVE  held'[r].symbol # Loaded.symbol
<1>1. \A q \in Runs : (UNCHANGED pc \/ SavesState(q) \/ RunEnds(q)) => pc'[r] = pc[r] \/ pc'[r] = "idle"
  BY DEF SavesState, RunEnds, TrialTypeOK
<1>2. \A q \in Runs : \A state : Ticks(q, state) => q = r /\ held'[r] = state
  BY DEF Ticks, TrialTypeOK
<1>3. Loaded.status \notin Active \cup {"init", "promoted", "disabled", "no_trusted"}
  BY DEF Active, Out
<1>4. PICK q \in Runs : Run(q)
  BY <1>1 DEF TrialNext, SetsFlag, Pins, DeletesFile, NextDay, trial, locals
<1>5. held'[r].status # Loaded.status /\ held'[r].status \notin {"disabled", "decayed", "demoted", "no_trusted"}
  BY <1>3 DEF Active
<1>6. CASE TickDisabled(q) \/ TickNoPick(q)
  <2>1. \A verdict : [Loaded EXCEPT !.status = verdict].status \in {verdict, Loaded.status}
    OBVIOUS
  <2> QED BY <1>2, <1>5, <1>6, <2>1 DEF TickDisabled, TickNoPick
<1>7. CASE TickFirstPick(q)
  <2>1. PICK symbol \in Symbols : Ticks(q, Chosen(symbol)) /\ symbol # None
    BY <1>7 DEF TickFirstPick, Picks
  <2>2. Loaded.symbol = None
    BY <1>3, <1>7 DEF TickFirstPick
  <2> QED BY <1>2, <2>1, <2>2 DEF Chosen
<1>8. CASE TickSticky(q)
  BY <1>3, <1>8 DEF TickSticky, Sticky
<1>9. CASE TickSwitches(q)
  <2>1. PICK symbol \in Symbols : Ticks(q, Chosen(symbol)) /\ symbol # Loaded.symbol
    BY <1>9 DEF TickSwitches, Challenger
  <2> QED BY <1>2, <2>1 DEF Chosen
<1>10. CASE TickDecays(q) \/ TickDemotes(q) \/ TickPromotes(q) \/ TickContinues(q)
  <2>1. ~Eligible
    BY <1>3 DEF Eligible
  <2>2. PICK verdict, promoted :
          verdict \in {"decayed", Loaded.status} /\ Judge(q, verdict, promoted)
    BY <1>10, <2>1 DEF TickDecays, TickDemotes, TickPromotes, TickContinues
  <2>3. held'[r] = [Loaded EXCEPT !.status = verdict, !.promoted = promoted,
                                  !.history = Capped(Upserted(@))]
    BY <1>2, <2>2 DEF Judge
  <2>4. Loaded \in CanaryState
    BY FreshSound DEF TrialTypeOK, Loaded, Sound
  <2>5. held'[r].status = verdict
    BY <2>3, <2>4 DEF CanaryState
  <2>6. held'[r].status \in {"decayed", Loaded.status}
    BY <2>2, <2>5
  <2> QED BY <1>5, <2>6
<1>11. CASE SavesState(q)
  BY <1>1, <1>11
<1> QED
  BY <1>4, <1>6, <1>7, <1>8, <1>9, <1>10, <1>11 DEF Run

\* A canary that was demoted or has decayed is not sized up again unless another
\* symbol has replaced it.
THEOREM TrialEndsForGood == TrialSpec => OutStaysOut
<1>1. TrialTypeOK /\ [TrialNext]_trial
        => [\A r \in Runs :
              (pc[r] = "idle" /\ pc'[r] = "ticked" /\ Loaded.status \in Out
                 /\ held'[r].status \in Active)
              => held'[r].symbol # Loaded.symbol]_trial
  BY OutStep
<1> QED BY <1>1, TrialTyped, PTL DEF TrialSpec, OutStaysOut
=============================================================================
