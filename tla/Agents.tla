------------------------------- MODULE Agents -------------------------------
(***************************************************************************)
(* The processes of start.py. Each writes its pid into agent_lock.json,    *)
(* starts its services under a supervisor and reports them in              *)
(* supervisor.json until it ends or is killed. Nothing keeps a second      *)
(* process from starting: the last one to start owns the lock, and only    *)
(* the owner may write the contested documents.                            *)
(*                                                                         *)
(* The lock is read, not held: between a test and the write that follows   *)
(* it another process may start, and a lock that cannot be read lets       *)
(* everybody write. A heartbeat is written by two threads of a process,    *)
(* its own and, at start and end, the main thread. Services are daemon     *)
(* threads and end with their process wherever they are.                   *)
(***************************************************************************)
EXTENDS Integers, FiniteSets

CONSTANTS
  Agents,      \* the processes, each started once; an agent is its pid
  Once,        \* those started with --once
  Services,    \* the services of the configuration
  Pipeline,    \* the trading pipeline
  OnceSkips,   \* those that --once leaves out: history and research
  MaxWorkers,  \* bound: event workers counted per process
  MaxFaults    \* bound: processes killed, starts, reads and writes that fail

ASSUME ConfigAssumption ==
  /\ Once \subseteq Agents
  /\ Pipeline \in Services \ OnceSkips
  /\ MaxWorkers \in Nat \ {0} /\ MaxFaults \in Nat

VARIABLES
  main,      \* per process: where its main thread is
  stop,      \* per process: why services and heartbeat were told to stop
  thread,    \* per process and service: where its thread is
  status,    \* per process: the ServiceState.status of its pipeline
  due,       \* per process: the writers about to write a heartbeat
  lock,      \* agent_lock.json
  sup,       \* supervisor.json: its agent_pid
  mode,      \* the process that wrote runtime_mode.json
  workers,   \* per process: event workers of its terminal managers
  ran,       \* history: those of Once whose pipeline has finished a run
  late,      \* history: heartbeats a process wrote after it lost the lock
  misread,   \* history: heartbeats it began although it had lost the lock
  faults

services == <<thread, status, ran, workers>>
beats    == <<due, late, misread>>
files    == <<lock, sup, mode>>
vars     == <<main, stop, services, beats, files, faults>>

Nobody   == "nobody"
Writers  == {"main", "heartbeat"}
MainPCs  == {"off", "guard", "mode", "boot", "first", "up", "last", "down"}
Statuses == {"idle", "running", "ok", "error", "stopped"}
LateCap  == Cardinality(Writers) + MaxFaults + 1   \* bound: late heartbeats counted

TypeOK ==
  /\ main \in [Agents -> MainPCs]
  /\ stop \in [Agents -> {"no", "once", "signal"}] /\ ran \subseteq Once
  /\ thread \in [Agents -> [Services -> {"off", "run", "wait"}]]
  /\ status \in [Agents -> Statuses]
  /\ due \in [Agents -> SUBSET Writers]
  /\ lock \in Agents \cup {Nobody} /\ mode \in Agents \cup {Nobody}
  /\ sup \in Agents \cup {Nobody}
  /\ workers \in [Agents -> 0..MaxWorkers]
  /\ late \in [Agents -> 0..LateCap] /\ misread \in [Agents -> Nat]
  /\ faults \in 0..MaxFaults

Init ==
  /\ main = [a \in Agents |-> "off"]
  /\ stop = [a \in Agents |-> "no"] /\ ran = {}
  /\ thread = [a \in Agents |-> [s \in Services |-> "off"]]
  /\ status = [a \in Agents |-> "idle"]
  /\ due = [a \in Agents |-> {}]
  /\ lock = Nobody /\ mode = Nobody
  /\ sup = Nobody
  /\ workers = [a \in Agents |-> 0]
  /\ late = [a \in Agents |-> 0] /\ misread = [a \in Agents |-> 0]
  /\ faults = 0

Registered(a) == IF a \in Once THEN Services \ OnceSkips ELSE Services

RunOnce(a, s) == s = Pipeline /\ a \in Once

Alive(a) == main[a] \notin {"off", "down"}

MainGoes(a, next) == main' = [main EXCEPT ![a] = next]

\* The process ends and its daemon threads with it, wherever they are.
Dies(a) ==
  /\ MainGoes(a, "down")
  /\ thread' = [thread EXCEPT ![a] = [s \in Services |-> "off"]]
  /\ status' = [status EXCEPT ![a] = "idle"]
  /\ due' = [due EXCEPT ![a] = {}]
  /\ stop' = [stop EXCEPT ![a] = "no"]
  /\ workers' = [workers EXCEPT ![a] = 0]

\* Mutation: the lock is not looked at.
OwnsLock_Always(a) == TRUE

\* _owns_agent_lock, and _agent_lock_allows_write in write_json_state. Every
\* agent has written the lock before it asks, and none removes it.
OwnsLock(a) == lock = a

\* The lock cannot be read and counts as nobody's.
Unreadable ==
  /\ faults < MaxFaults
  /\ faults' = faults + 1

-----------------------------------------------------------------------------
(* start() *)

\* _write_agent_lock: whoever owned the lock before.
Starts(a) ==
  /\ main[a] = "off"
  /\ lock' = a
  /\ MainGoes(a, "guard")
  /\ UNCHANGED <<stop, services, beats, sup, mode, faults>>

\* write_json_state of runtime_mode.json: without the lock nothing is written.
GuardsMode(a) ==
  /\ main[a] = "guard"
  /\ \/ MainGoes(a, IF OwnsLock(a) THEN "mode" ELSE "boot") /\ UNCHANGED faults
     \/ Unreadable /\ MainGoes(a, "mode")
  /\ UNCHANGED <<stop, services, beats, files>>

WritesMode(a) ==
  /\ main[a] = "mode"
  /\ mode' = a
  /\ MainGoes(a, "boot")
  /\ UNCHANGED <<stop, services, beats, lock, sup, faults>>

\* start_all: every service thread and the heartbeat thread; the main thread
\* goes on to a heartbeat of its own.
StartsAll(a) ==
  /\ main[a] = "boot"
  /\ thread' = [thread EXCEPT ![a] =
                   [s \in Services |-> IF s \in Registered(a) THEN "wait" ELSE "off"]]
  /\ MainGoes(a, "first")
  /\ UNCHANGED <<stop, status, ran, workers, beats, files, faults>>

\* A profile that must not be booted, or a first heartbeat that cannot be
\* written: the exception ends the process, the lock stays.
BootFails(a) ==
  /\ faults < MaxFaults
  /\ faults' = faults + 1
  /\ main[a] \in {"guard", "mode", "boot", "first"}
  /\ Dies(a)
  /\ UNCHANGED <<ran, late, misread, files>>

OnceOver(a) == a \in Once /\ status[a] \in {"ok", "error", "stopped"}

\* The main thread looks twice a second whether it is over: stop_all, and on
\* to a last heartbeat.
StopsAll(a, why) ==
  /\ main[a] = "up"
  /\ stop' = [stop EXCEPT ![a] = why]
  /\ MainGoes(a, "last")
  /\ UNCHANGED <<services, beats, files, faults>>

Over(a) == OnceOver(a) /\ StopsAll(a, "once")

\* SIGINT or SIGTERM, however early it came.
Interrupted(a) == StopsAll(a, "signal")

-----------------------------------------------------------------------------
(* ManagedService._loop *)

Moves(a, s, next, st) ==
  /\ Alive(a)
  /\ thread' = [thread EXCEPT ![a][s] = next]
  /\ status' = IF s = Pipeline THEN [status EXCEPT ![a] = st] ELSE status

\* run_pipeline's first stage, data_loop.run, makes a terminal manager of its
\* own: it knows no worker yet and starts one.
NewWorkers(a) == [workers EXCEPT ![a] = IF @ < MaxWorkers THEN @ + 1 ELSE @]

\* The thread has been started, or the interval has passed.
ServiceBegins(a, s) ==
  /\ thread[a][s] = "wait"
  /\ stop[a] = "no" /\ ~(a \in ran /\ RunOnce(a, s))
  /\ Moves(a, s, "run", "running")
  /\ workers' = IF s = Pipeline THEN NewWorkers(a) ELSE workers
  /\ UNCHANGED <<main, stop, ran, beats, files, faults>>

\* The runner returns or raises; either way the service goes on.
ServiceEnds(a, s) ==
  /\ thread[a][s] = "run"
  /\ \E st \in {"ok", "error"} : Moves(a, s, "wait", st)
  /\ ran' = IF RunOnce(a, s) THEN ran \cup {a} ELSE ran
  /\ UNCHANGED <<main, stop, workers, beats, files, faults>>

\* The service is told to stop, or it was to run once and has.
ServiceStops(a, s) ==
  /\ thread[a][s] = "wait"
  /\ stop[a] # "no" \/ (a \in ran /\ RunOnce(a, s))
  /\ Moves(a, s, "off", "stopped")
  /\ UNCHANGED <<main, stop, ran, workers, beats, files, faults>>

-----------------------------------------------------------------------------
(* Supervisor.write_heartbeat *)

\* Mutation: the heartbeat thread ends as soon as the main thread is up.
Begins_FirstOnly(a, w) ==
  /\ Alive(a) /\ w \notin due[a]
  /\ main[a] \in IF w = "main" THEN {"first", "last"} ELSE {"first"}

\* The heartbeat thread may begin every interval until it is told to stop,
\* the main thread at the end of start_all and of stop_all.
Begins(a, w) ==
  /\ Alive(a) /\ w \notin due[a]
  /\ main[a] \in IF w = "main" THEN {"first", "last"} ELSE {"first", "up"}

\* The main thread is up after its first heartbeat, the process over after its
\* last.
Leaves(a, w) ==
  IF w = "main" /\ main[a] = "last" THEN Dies(a) /\ UNCHANGED ran
  ELSE /\ due' = [due EXCEPT ![a] = @ \ {w}]
       /\ main' = IF w = "main" THEN [main EXCEPT ![a] = "up"] ELSE main
       /\ UNCHANGED <<stop, services>>

Enters(a, w) ==
  /\ due' = [due EXCEPT ![a] = @ \cup {w}]
  /\ UNCHANGED <<main, stop, services>>

\* The lock is tested before the services are looked at and again before the
\* write; it is never won back, so that the later test decides.
BeatBegins(a, w) ==
  /\ Begins(a, w)
  /\ IF OwnsLock(a) THEN Enters(a, w) ELSE Leaves(a, w)
  /\ UNCHANGED <<late, misread, files, faults>>

\* Each test of a lock that was lost has found it unreadable.
BeatMisreads(a, w) ==
  /\ Unreadable
  /\ Begins(a, w) /\ ~OwnsLock(a)
  /\ Enters(a, w)
  /\ misread' = [misread EXCEPT ![a] = @ + 1]
  /\ UNCHANGED <<late, files>>

BeatWrites(a, w) ==
  /\ Alive(a) /\ w \in due[a]
  /\ sup' = a
  /\ Leaves(a, w)
  /\ late' = IF lock = a \/ late[a] = LateCap THEN late
             ELSE [late EXCEPT ![a] = @ + 1]
  /\ UNCHANGED <<misread, lock, mode, faults>>

\* The heartbeat thread reports a failed write and goes on.
BeatFails(a) ==
  /\ faults < MaxFaults
  /\ faults' = faults + 1
  /\ Alive(a) /\ "heartbeat" \in due[a]
  /\ Leaves(a, "heartbeat")
  /\ UNCHANGED <<late, misread, files>>

-----------------------------------------------------------------------------
\* kill_agent.bat, or the machine goes down.
Kill(a) ==
  /\ faults < MaxFaults
  /\ faults' = faults + 1
  /\ Alive(a)
  /\ Dies(a)
  /\ UNCHANGED <<ran, late, misread, files>>

Main(a)       == GuardsMode(a) \/ WritesMode(a) \/ StartsAll(a) \/ Over(a)
Service(a, s) == ServiceBegins(a, s) \/ ServiceEnds(a, s) \/ ServiceStops(a, s)
Beat(a, w)    == BeatBegins(a, w) \/ BeatWrites(a, w)

Next ==
  \E a \in Agents :
    \/ Starts(a) \/ Main(a) \/ BootFails(a)
    \/ \E s \in Services : Service(a, s)
    \/ \E w \in Writers : Beat(a, w)
    \/ BeatFails(a) \/ \E w \in Writers : BeatMisreads(a, w)
    \/ Interrupted(a) \/ Kill(a)

Spec == Init /\ [][Next]_vars

\* Each thread of a living process goes on, and a run of a service ends.
Fairness ==
  \A a \in Agents :
    /\ WF_vars(Main(a))
    /\ \A s \in Services : WF_vars(Service(a, s))
    /\ \A w \in Writers : WF_vars(Beat(a, w))

FairSpec == Spec /\ Fairness

-----------------------------------------------------------------------------
(* Properties *)

\* An agent that ends by itself has had a whole run of its pipeline.
OnceRuns ==
  \A a \in Agents : stop[a] = "once" => a \in ran

\* An agent that another has followed writes at most the heartbeats that it
\* had begun, one of each thread, and one for each time that it cannot read the
\* lock: the two do not take turns in the document.
DemotedFallsSilent ==
  \A a \in Agents : late[a] <= Cardinality(Writers) + misread[a]

\* The report is the owner's in the end: as long as the agent that owns the
\* lock is up, whatever older agents still do.
OwnerReports ==
  \A a \in Agents :
    <>[](lock = a /\ main[a] = "up") => <>[](sup = a)

\* A service of an agent that stays up runs again and again, also after it has
\* raised ("crash recovery").
RunsAgain ==
  \A a \in Agents : \A s \in Registered(a) :
    ~(s = Pipeline /\ a \in Once)
      => []<>(thread[a][s] = "run" \/ main[a] # "up")

\* "start_event_loop already returns False on subsequent calls": one worker.
OneWorker == \A a \in Agents : workers[a] <= 1

\* "Only the canonical start.py PID may write": once the owner is up,
\* runtime_mode.json is its own.
ModeOfOwner ==
  \A a \in Agents : main[a] = "up" /\ lock = a => mode = a

\* A living agent is reported.
LivingReported ==
  \A a \in Agents : <>[](main[a] = "up") => <>[](sup # Nobody /\ main[sup] = "up")
=============================================================================
