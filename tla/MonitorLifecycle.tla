--------------------------- MODULE MonitorLifecycle ---------------------------
(***************************************************************************)
(* The lifecycle of host monitoring and of the threat simulator:           *)
(* ThreatStreamManager (app/security/stream.py), the cancellation state    *)
(* and the audits of HostSecuritySensor with real_host_monitor_loop        *)
(* (app/security/host_sensor.py), the preference file (app/config.py) and  *)
(* the application's lifespan (app/main.py).                               *)
(*                                                                         *)
(* Who runs concurrently:                                                  *)
(*  - lifecycle calls, coroutines of the owner event loop, serialized by   *)
(*    the FIFO asyncio.Lock of _get_owner_lock; a call gives the loop up   *)
(*    only where it awaits, so what lies between two awaits is one step;   *)
(*  - the monitor and simulator loops, asyncio tasks of the same loop;     *)
(*  - audit workers, threads of asyncio.to_thread: cancelling the loop     *)
(*    that started one does not stop it;                                   *)
(*  - manual scans and drills, in the threads that serve their requests;   *)
(*  - status readers: get_status runs in the server's thread pool without  *)
(*    the lock, and it writes.                                             *)
(*                                                                         *)
(* Bounds: MaxCalls lifecycle calls and MaxBoots process starts in a       *)
(* behaviour; the finite sets Tasks and Workers limit how many loops and   *)
(* audit threads exist at one time.                                        *)
(***************************************************************************)
EXTENDS Naturals, Sequences, FiniteSets

CONSTANTS
  Requests,          \* clients that issue lifecycle calls, one at a time each
  Ops,               \* the calls they issue
  Tasks,             \* identities for asyncio tasks
  Workers,           \* identities for audit threads
  Manual,            \* clients that run manual scans and drills
  Pollers,           \* clients that ask for the status
  None,              \* Python's None, where a task or a worker is expected
  MaxCalls,          \* bound: lifecycle calls in a behaviour
  MaxBoots,          \* bound: starts of the process in a behaviour
  CancelMayTimeOut,  \* may a cancelled loop outlive the wait for it?
  SaveMayFail        \* may writing the preference file fail?

Operations == {"startHost", "stopHost", "startSim", "stopSim"}

ASSUME ConstantsOK ==
  /\ Ops \subseteq Operations
  /\ IsFiniteSet(Workers)
  /\ IsFiniteSet(Manual)
  /\ None \notin Tasks \cup Workers
  /\ MaxCalls \in Nat /\ MaxBoots \in Nat
  /\ CancelMayTimeOut \in BOOLEAN /\ SaveMayFail \in BOOLEAN

VARIABLES
  \* The process, and the bounds.
  proc,              \* "down" | "up" | "stopping" (shutdown awaits the loops) | "exiting"
  calls, boots,
  \* The preference file, whether the last save reached it, and (history) what the calls
  \* since the last start asked for.
  pref, persisted, choice,
  \* The owner lock: the calls that hold or await it, and how far each has come.
  queue, pc,
  \* ThreatStreamManager.
  hostActive, simActive, transition, timedOut, quiescent, cancelResult,
  monitorTask, simTask,
  \* HostSecuritySensor.
  cancelEvent, scanGeneration, activeWorkers, autoWorkers,
  \* The tasks: kind, where each is, and the worker it awaits.
  kind, task, awaits,
  \* The audit threads: where each is, its generation, and whether it has new alerts.
  worker, gen, found,
  \* Manual scans, alerts committed but not yet linked to an incident, and status readers.
  manual, unlinked, sample

procVars    == <<proc, calls, boots>>
prefVars    == <<pref, persisted, choice>>
lockVars    == <<queue, pc>>
managerVars == <<hostActive, simActive, transition, timedOut, quiescent, cancelResult,
                 monitorTask, simTask>>
signalVars  == <<cancelEvent, scanGeneration>>
countVars   == <<activeWorkers, autoWorkers>>
loopVars    == <<kind, task, awaits>>
workerVars  == <<worker, gen, found>>
otherVars   == <<manual, unlinked, sample>>

vars == <<procVars, prefVars, lockVars, managerVars, signalVars, countVars, loopVars,
          workerVars, otherVars>>

Flags  == [host : BOOLEAN, sim : BOOLEAN]
Sample == [taken : BOOLEAN, auto : BOOLEAN, scan : BOOLEAN]
NoSample == [taken |-> FALSE, auto |-> FALSE, scan |-> FALSE]

\* Where a call is: awaiting the lock to do an operation, or inside one at an await.
InsideLock == {"cancelHost", "quiesce", "cancelSim"}
CallStates == {"idle"} \cup Operations \cup InsideLock

TaskStates == {"done", "sleep", "scan", "broadcast", "cancelling"}

\* Between Register and Leave a worker is counted in the sensor's counters.
Counted      == {"collect", "ingest", "commit", "leave"}
WorkerStates == {"idle", "queued", "register", "recheck", "correlate", "finished"} \cup Counted

TypeOK ==
  /\ proc \in {"down", "up", "stopping", "exiting"}
  /\ calls \in Nat /\ boots \in Nat
  /\ pref \in Flags /\ persisted \in BOOLEAN /\ choice \in Flags
  /\ queue \in Seq(Requests) /\ pc \in [Requests -> CallStates]
  /\ hostActive \in BOOLEAN /\ simActive \in BOOLEAN
  /\ transition \in {"none", "PAUSING"}
  /\ timedOut \in BOOLEAN /\ quiescent \in BOOLEAN
  /\ cancelResult \in {"ALREADY_COMPLETED", "TERMINATED", "TIMED_OUT"}
  /\ monitorTask \in Tasks \cup {None} /\ simTask \in Tasks \cup {None}
  /\ cancelEvent \in BOOLEAN /\ scanGeneration \in Nat
  /\ activeWorkers \in Nat /\ autoWorkers \in Nat
  /\ kind \in [Tasks -> {"monitor", "simulator"}]
  /\ task \in [Tasks -> TaskStates]
  /\ awaits \in [Tasks -> Workers \cup {None}]
  /\ worker \in [Workers -> WorkerStates]
  /\ gen \in [Workers -> Nat]
  /\ found \in [Workers -> BOOLEAN]
  /\ manual \in [Manual -> {"idle", "audit", "linking"}]
  /\ unlinked \in BOOLEAN
  /\ sample \in [Pollers -> Sample]

\* Mutant: both finally clauses lower the counter, and nothing keeps it above zero.
LoweredTwice(n) == n - 2

\* Mutant: the end of one scan resets the counter that another is counted in.
LoweredToZero(n) == 0

\* max(0, n - 1), as the counters are lowered.
Lowered(n) == IF n > 0 THEN n - 1 ELSE 0

\* A task that has been created and is not done().
Live(t) == t \in Tasks /\ task[t] # "done"

\* is_scan_cancelled for an automatic audit of generation g.  The code reads the three in
\* this order without a lock.  The calls write the flag last and the generation never comes
\* back, so it answers as it would have at one moment between its first and last read.
Cancelled(g) == cancelEvent \/ g # scanGeneration \/ ~hostActive

-----------------------------------------------------------------------------
(* The process. *)

\* Before the first start nothing is in memory; the file may hold any earlier choice, or
\* stand for the defaults that the environment gives when there is none.
Init ==
  /\ proc = "down" /\ calls = 0 /\ boots = 0
  /\ pref \in Flags /\ persisted = TRUE /\ choice = pref
  /\ unlinked = FALSE
  /\ queue = <<>> /\ pc = [r \in Requests |-> "idle"]
  /\ hostActive = FALSE /\ simActive = FALSE
  /\ transition = "none" /\ timedOut = FALSE /\ quiescent = TRUE
  /\ cancelResult = "ALREADY_COMPLETED"
  /\ monitorTask = None /\ simTask = None
  /\ cancelEvent = FALSE /\ scanGeneration = 0
  /\ activeWorkers = 0 /\ autoWorkers = 0
  /\ kind = [t \in Tasks |-> "monitor"]
  /\ task = [t \in Tasks |-> "done"]
  /\ awaits = [t \in Tasks |-> None]
  /\ worker = [w \in Workers |-> "idle"]
  /\ gen = [w \in Workers |-> 0]
  /\ found = [w \in Workers |-> FALSE]
  /\ manual = [m \in Manual |-> "idle"]
  /\ sample = [p \in Pollers |-> NoSample]

\* Lifespan startup: the flags come from the file; start_host_monitoring(persist=False)
\* and start_simulation(persist=False) run before any request is served, or their stop_
\* counterparts, which find nothing to do.
Boot ==
  /\ proc = "down" /\ boots < MaxBoots
  /\ proc' = "up" /\ boots' = boots + 1
  /\ hostActive' = pref.host /\ simActive' = pref.sim
  /\ persisted' = TRUE /\ choice' = pref
  /\ \E t, u \in Tasks :
       /\ t # u
       /\ monitorTask' = IF pref.host THEN t ELSE None
       /\ simTask' = IF pref.sim THEN u ELSE None
       /\ kind' = [kind EXCEPT ![t] = "monitor", ![u] = "simulator"]
       /\ task' = [task EXCEPT ![t] = IF pref.host THEN "sleep" ELSE "done",
                               ![u] = IF pref.sim THEN "sleep" ELSE "done"]
  /\ UNCHANGED <<calls, pref, lockVars, transition, timedOut, quiescent, cancelResult,
                 signalVars, countVars, awaits, workerVars, otherVars>>

\* The process dies at any point, or has exited: memory is lost, the file stays.
Vanish ==
  /\ proc' = "down"
  /\ UNCHANGED <<calls, boots, prefVars, unlinked>>
  /\ queue' = <<>> /\ pc' = [r \in Requests |-> "idle"]
  /\ hostActive' = FALSE /\ simActive' = FALSE
  /\ transition' = "none" /\ timedOut' = FALSE /\ quiescent' = TRUE
  /\ cancelResult' = "ALREADY_COMPLETED"
  /\ monitorTask' = None /\ simTask' = None
  /\ cancelEvent' = FALSE /\ scanGeneration' = 0
  /\ activeWorkers' = 0 /\ autoWorkers' = 0
  /\ kind' = [t \in Tasks |-> "monitor"]
  /\ task' = [t \in Tasks |-> "done"]
  /\ awaits' = [t \in Tasks |-> None]
  /\ worker' = [w \in Workers |-> "idle"]
  /\ gen' = [w \in Workers |-> 0]
  /\ found' = [w \in Workers |-> FALSE]
  /\ manual' = [m \in Manual |-> "idle"]
  /\ sample' = [p \in Pollers |-> NoSample]

Crash == proc # "down" /\ Vanish

\* The server drains its requests before it runs the lifespan's shutdown.
Drained ==
  /\ queue = <<>>
  /\ \A m \in Manual : manual[m] = "idle"
  /\ \A p \in Pollers : ~sample[p].taken

\* Mutant: the loops are left to notice the flag by themselves.
CancellingNothing(T) == task

\* The task is told to stop: CancelledError is thrown in at its next await.
Cancelling(T) == [t \in Tasks |-> IF t \in T /\ Live(t) THEN "cancelling" ELSE task[t]]

RequestCancellation ==
  /\ cancelEvent' = TRUE
  /\ scanGeneration' = scanGeneration + 1

\* Mutant: the signal of the last pause survives.
KeepCancellation == UNCHANGED cancelEvent

ResetCancellation == cancelEvent' = FALSE

\* shutdown: flags off without saving them, both loops cancelled and awaited.
Shutdown ==
  /\ proc = "up" /\ Drained
  /\ proc' = "stopping"
  /\ RequestCancellation
  /\ hostActive' = FALSE /\ simActive' = FALSE
  /\ task' = Cancelling({monitorTask, simTask})
  /\ UNCHANGED <<calls, boots, prefVars, lockVars, transition, timedOut, quiescent,
                 cancelResult, monitorTask, simTask, countVars, kind, awaits,
                 workerVars, otherVars>>

\* The gather in shutdown has returned; the references and the lock are dropped.
ShutdownGathered ==
  /\ proc = "stopping"
  /\ ~Live(monitorTask) /\ ~Live(simTask)
  /\ proc' = "exiting"
  /\ monitorTask' = None /\ simTask' = None
  /\ UNCHANGED <<calls, boots, prefVars, lockVars, hostActive, simActive, transition,
                 timedOut, quiescent, cancelResult, signalVars, countVars, loopVars,
                 workerVars, otherVars>>

\* The interpreter joins the audit threads before it ends, whatever wait_quiescence said.
Exit ==
  /\ proc = "exiting"
  /\ \A w \in Workers : worker[w] = "idle"
  /\ Vanish

-----------------------------------------------------------------------------
(* The owner lock.  A call is served in the order in which it asked for it. *)

Call(r, op) ==
  /\ proc = "up" /\ calls < MaxCalls
  /\ pc[r] = "idle"
  /\ calls' = calls + 1
  /\ queue' = Append(queue, r)
  /\ pc' = [pc EXCEPT ![r] = op]
  /\ UNCHANGED <<proc, boots, prefVars, managerVars, signalVars, countVars, loopVars,
                 workerVars, otherVars>>

Serves(r, state) == queue # <<>> /\ Head(queue) = r /\ pc[r] = state

Goto(r, state) == pc' = [pc EXCEPT ![r] = state] /\ UNCHANGED queue

\* Mutant: the call returns without releasing the lock.
ReturnLocked(r) == pc' = [pc EXCEPT ![r] = "idle"] /\ UNCHANGED queue

\* The call returns and the lock passes on.
Return(r) == pc' = [pc EXCEPT ![r] = "idle"] /\ queue' = Tail(queue)

\* Mutant: a failed save is reported as a save.
SaveSilently(host, sim) ==
  /\ persisted' = TRUE
  /\ pref' = [host |-> host, sim |-> sim] \/ (SaveMayFail /\ UNCHANGED pref)

\* save_monitoring_preferences: a temporary file replaces the old one, or nothing changes.
Save(host, sim) ==
  \/ pref' = [host |-> host, sim |-> sim] /\ persisted' = TRUE
  \/ SaveMayFail /\ UNCHANGED pref /\ persisted' = FALSE

\* Mutant: the reference goes whether or not the loop has ended.
Forgotten(t) == None

\* What is left of a reference to a loop that was told to stop.
StillRunning(t) == IF Live(t) THEN t ELSE None

\* A task not in use is created for a loop; other is the task of the other loop.
Spawn(t, k, other) ==
  /\ ~Live(t) /\ t # other
  /\ kind' = [kind EXCEPT ![t] = k]
  /\ task' = [task EXCEPT ![t] = "sleep"]
  /\ UNCHANGED awaits

-----------------------------------------------------------------------------
(* start_host_monitoring. *)

\* Mutant: a start does not wait for the audits of an earlier generation.
NothingWaitedFor == TRUE

\* "Prevent starting a new scan generation while previous worker remains active".
ScansQuiesced == autoWorkers = 0

StartHostRefused(r) ==
  /\ Serves(r, "startHost")
  /\ ~ScansQuiesced
  /\ Return(r)
  /\ UNCHANGED <<procVars, prefVars, managerVars, signalVars, countVars, loopVars,
                 workerVars, otherVars>>

StartHostNoop(r) ==
  /\ Serves(r, "startHost")
  /\ ScansQuiesced
  /\ hostActive /\ Live(monitorTask)
  /\ Return(r)
  /\ UNCHANGED <<procVars, prefVars, managerVars, signalVars, countVars, loopVars,
                 workerVars, otherVars>>

StartHost(r) ==
  /\ Serves(r, "startHost")
  /\ ScansQuiesced
  /\ ~(hostActive /\ Live(monitorTask))
  /\ ResetCancellation
  /\ hostActive' = TRUE
  /\ timedOut' = FALSE /\ quiescent' = TRUE
  /\ Save(TRUE, simActive)
  /\ choice' = [choice EXCEPT !.host = TRUE]
  /\ IF Live(monitorTask)
     THEN UNCHANGED <<monitorTask, loopVars>>
     ELSE \E t \in Tasks : Spawn(t, "monitor", simTask) /\ monitorTask' = t
  /\ Return(r)
  /\ UNCHANGED <<procVars, simActive, transition, cancelResult, simTask, scanGeneration,
                 countVars, workerVars, otherVars>>

-----------------------------------------------------------------------------
(* stop_host_monitoring. *)

AlreadyPaused ==
  ~hostActive /\ ~Live(monitorTask) /\ autoWorkers = 0 /\ quiescent /\ ~timedOut

StopHostNoop(r) ==
  /\ Serves(r, "stopHost")
  /\ AlreadyPaused
  /\ monitorTask' = None
  /\ Return(r)
  /\ UNCHANGED <<procVars, prefVars, hostActive, simActive, transition, timedOut, quiescent,
                 cancelResult, simTask, signalVars, countVars, loopVars, workerVars,
                 otherVars>>

\* Everything up to the first await: the signal, the flag, the file, task.cancel().
StopHost(r) ==
  /\ Serves(r, "stopHost")
  /\ ~AlreadyPaused
  /\ transition' = "PAUSING"
  /\ RequestCancellation
  /\ hostActive' = FALSE
  /\ Save(FALSE, simActive)
  /\ choice' = [choice EXCEPT !.host = FALSE]
  /\ task' = Cancelling({monitorTask})
  /\ cancelResult' = "ALREADY_COMPLETED"
  /\ Goto(r, IF Live(monitorTask) THEN "cancelHost" ELSE "quiesce")
  /\ UNCHANGED <<procVars, simActive, timedOut, quiescent, monitorTask, simTask, countVars,
                 kind, awaits, workerVars, otherVars>>

\* _cancel_and_await_task comes back: the loop has ended, or the wait for it has.
StopHostTaskEnded(r) ==
  /\ Serves(r, "cancelHost")
  /\ \/ ~Live(monitorTask) /\ cancelResult' = "TERMINATED"
     \/ Live(monitorTask) /\ CancelMayTimeOut /\ cancelResult' = "TIMED_OUT"
  /\ Goto(r, "quiesce")
  /\ UNCHANGED <<procVars, prefVars, hostActive, simActive, transition, timedOut, quiescent,
                 monitorTask, simTask, signalVars, countVars, loopVars, workerVars,
                 otherVars>>

\* wait_quiescence comes back: the automatic counter is zero, or the wait ran out.
StopHostSettled(r) ==
  /\ Serves(r, "quiesce")
  /\ LET late == cancelResult = "TIMED_OUT" \/ autoWorkers > 0 \/ Live(monitorTask) IN
       /\ timedOut' = late
       /\ quiescent' = ~late
  /\ monitorTask' = StillRunning(monitorTask)
  /\ transition' = "none"
  /\ Return(r)
  /\ UNCHANGED <<procVars, prefVars, hostActive, simActive, cancelResult, simTask,
                 signalVars, countVars, loopVars, workerVars, otherVars>>

-----------------------------------------------------------------------------
(* start_simulation and stop_simulation. *)

StartSimNoop(r) ==
  /\ Serves(r, "startSim")
  /\ simActive /\ Live(simTask)
  /\ Return(r)
  /\ UNCHANGED <<procVars, prefVars, managerVars, signalVars, countVars, loopVars,
                 workerVars, otherVars>>

StartSim(r) ==
  /\ Serves(r, "startSim")
  /\ ~(simActive /\ Live(simTask))
  /\ simActive' = TRUE
  /\ Save(hostActive, TRUE)
  /\ choice' = [choice EXCEPT !.sim = TRUE]
  /\ IF Live(simTask)
     THEN UNCHANGED <<simTask, loopVars>>
     ELSE \E t \in Tasks : Spawn(t, "simulator", monitorTask) /\ simTask' = t
  /\ Return(r)
  /\ UNCHANGED <<procVars, hostActive, transition, timedOut, quiescent, cancelResult,
                 monitorTask, signalVars, countVars, workerVars, otherVars>>

StopSimNoop(r) ==
  /\ Serves(r, "stopSim")
  /\ ~simActive /\ ~Live(simTask)
  /\ simTask' = None
  /\ Return(r)
  /\ UNCHANGED <<procVars, prefVars, hostActive, simActive, transition, timedOut, quiescent,
                 cancelResult, monitorTask, signalVars, countVars, loopVars, workerVars,
                 otherVars>>

StopSim(r) ==
  /\ Serves(r, "stopSim")
  /\ simActive \/ Live(simTask)
  /\ simActive' = FALSE
  /\ Save(hostActive, FALSE)
  /\ choice' = [choice EXCEPT !.sim = FALSE]
  /\ task' = Cancelling({simTask})
  /\ IF Live(simTask) THEN Goto(r, "cancelSim") ELSE Return(r)
  /\ simTask' = StillRunning(simTask)
  /\ UNCHANGED <<procVars, hostActive, transition, timedOut, quiescent, cancelResult,
                 monitorTask, signalVars, countVars, kind, awaits, workerVars, otherVars>>

\* The result of the cancellation is not looked at: the reference goes either way.
StopSimTaskEnded(r) ==
  /\ Serves(r, "cancelSim")
  /\ ~Live(simTask) \/ CancelMayTimeOut
  /\ simTask' = None
  /\ Return(r)
  /\ UNCHANGED <<procVars, prefVars, hostActive, simActive, transition, timedOut, quiescent,
                 cancelResult, monitorTask, signalVars, countVars, loopVars, workerVars,
                 otherVars>>

-----------------------------------------------------------------------------
(* real_host_monitor_loop, on the event loop. *)

\* A tick with monitoring on: the generation is read and a thread is asked for.
Tick(t, w) ==
  /\ task[t] = "sleep" /\ kind[t] = "monitor"
  /\ hostActive
  /\ worker[w] = "idle"
  /\ task' = [task EXCEPT ![t] = "scan"]
  /\ awaits' = [awaits EXCEPT ![t] = w]
  /\ worker' = [worker EXCEPT ![w] = "queued"]
  /\ gen' = [gen EXCEPT ![w] = scanGeneration]
  /\ UNCHANGED <<procVars, prefVars, lockVars, managerVars, signalVars, countVars, kind,
                 found, otherVars>>

\* The thread has returned: its findings are broadcast unless monitoring was paused.
Resume(t) ==
  /\ task[t] = "scan" /\ worker[awaits[t]] = "finished"
  /\ task' = [task EXCEPT ![t] =
                IF found[awaits[t]] /\ ~Cancelled(gen[awaits[t]]) THEN "broadcast"
                                                                  ELSE "sleep"]
  /\ IF task'[t] = "broadcast"
     THEN UNCHANGED <<awaits, worker, found>>
     ELSE /\ awaits' = [awaits EXCEPT ![t] = None]
          /\ worker' = [worker EXCEPT ![awaits[t]] = "idle"]
          /\ found' = [found EXCEPT ![awaits[t]] = FALSE]
  /\ UNCHANGED <<procVars, prefVars, lockVars, managerVars, signalVars, countVars, kind,
                 gen, otherVars>>

\* The worker a task awaits is let go: a thread that has not begun is withdrawn with the
\* future it was queued for, a finished one is forgotten, a running one runs on.
Forget(t) ==
  /\ awaits' = [awaits EXCEPT ![t] = None]
  /\ IF awaits[t] # None /\ worker[awaits[t]] \in {"queued", "finished"}
     THEN /\ worker' = [worker EXCEPT ![awaits[t]] = "idle"]
          /\ found' = [found EXCEPT ![awaits[t]] = FALSE]
     ELSE UNCHANGED <<worker, found>>

BroadcastEnded(t) ==
  /\ task[t] = "broadcast"
  /\ task' = [task EXCEPT ![t] = "sleep"]
  /\ Forget(t)
  /\ UNCHANGED <<procVars, prefVars, lockVars, managerVars, signalVars, countVars, kind,
                 gen, otherVars>>

\* CancelledError reaches the loop, which re-raises it.
TaskDies(t) ==
  /\ task[t] = "cancelling"
  /\ task' = [task EXCEPT ![t] = "done"]
  /\ Forget(t)
  /\ UNCHANGED <<procVars, prefVars, lockVars, managerVars, signalVars, countVars, kind,
                 gen, otherVars>>

-----------------------------------------------------------------------------
(* _audit_worker, run_fast_audit, run_full_audit and _ingest_events, in a thread. *)

Awaited(w) == \E t \in Tasks : awaits[t] = w

\* The thread returns; nobody keeps its result when the loop is gone.
Finish(w, payload) ==
  /\ worker' = [worker EXCEPT ![w] = IF Awaited(w) THEN "finished" ELSE "idle"]
  /\ found' = [found EXCEPT ![w] = IF Awaited(w) THEN payload ELSE FALSE]

\* The thread starts: an audit cancelled before it began returns no alerts.
Enter(w) ==
  /\ worker[w] = "queued"
  /\ IF Cancelled(gen[w])
     THEN Finish(w, FALSE)
     ELSE worker' = [worker EXCEPT ![w] = "register"] /\ UNCHANGED found
  /\ UNCHANGED <<procVars, prefVars, lockVars, managerVars, signalVars, countVars, loopVars,
                 gen, otherVars>>

\* The counters are raised some time after the check above.
Register(w) ==
  /\ worker[w] = "register"
  /\ worker' = [worker EXCEPT ![w] = "collect"]
  /\ activeWorkers' = activeWorkers + 1
  /\ autoWorkers' = autoWorkers + 1
  /\ UNCHANGED <<procVars, prefVars, lockVars, managerVars, signalVars, loopVars, gen, found,
                 otherVars>>

\* Mutant: a check whose answer is not looked at.
Unchecked(w, next) == worker' = [worker EXCEPT ![w] = next]

\* A check that is passed leads to next, one that is not to a rollback.
Checked(w, next) ==
  worker' = [worker EXCEPT ![w] = IF Cancelled(gen[w]) THEN "leave" ELSE next]

\* The collectors, and the check after each; any of them may raise an exception.
Collect(w) ==
  /\ worker[w] = "collect"
  /\ Checked(w, "ingest") \/ worker' = [worker EXCEPT ![w] = "leave"]
  /\ UNCHANGED <<procVars, prefVars, lockVars, managerVars, signalVars, countVars, loopVars,
                 gen, found, otherVars>>

\* Deduplication, and correlation in the same transaction, up to the last check before
\* the commit.  No events: no commit.  Known events only: a commit but no alerts.
Ingest(w) ==
  /\ worker[w] = "ingest"
  /\ \/ worker' = [worker EXCEPT ![w] = "leave"] /\ UNCHANGED found
     \/ /\ Checked(w, "commit")
        /\ \E new \in BOOLEAN : found' = [found EXCEPT ![w] = new /\ ~Cancelled(gen[w])]
  /\ UNCHANGED <<procVars, prefVars, lockVars, managerVars, signalVars, countVars, loopVars,
                 gen, otherVars>>

\* The commit, or the failure of it.  With new alerts there was a correlation before it,
\* which may have linked waiting alerts too.
Commit(w) ==
  /\ worker[w] = "commit"
  /\ worker' = [worker EXCEPT ![w] = "leave"]
  /\ \/ UNCHANGED <<found, unlinked>>
     \/ found[w] /\ unlinked' = FALSE /\ UNCHANGED found
     \/ found' = [found EXCEPT ![w] = FALSE] /\ UNCHANGED unlinked
  /\ UNCHANGED <<procVars, prefVars, lockVars, managerVars, signalVars, countVars, loopVars,
                 gen, manual, sample>>

\* The finally clause of the audit lowers the counters.
Leave(w) ==
  /\ worker[w] = "leave"
  /\ activeWorkers' = Lowered(activeWorkers)
  /\ autoWorkers' = Lowered(autoWorkers)
  /\ IF found[w]
     THEN worker' = [worker EXCEPT ![w] = "recheck"] /\ UNCHANGED found
     ELSE Finish(w, FALSE)
  /\ UNCHANGED <<procVars, prefVars, lockVars, managerVars, signalVars, loopVars, gen,
                 otherVars>>

\* Back in _audit_worker, no longer counted: one more check.
Recheck(w) ==
  /\ worker[w] = "recheck"
  /\ IF Cancelled(gen[w])
     THEN Finish(w, FALSE)
     ELSE worker' = [worker EXCEPT ![w] = "correlate"] /\ UNCHANGED found
  /\ UNCHANGED <<procVars, prefVars, lockVars, managerVars, signalVars, countVars, loopVars,
                 gen, otherVars>>

\* correlate_alerts commits by itself what it links; then the statistics are read.
Correlate(w) ==
  /\ worker[w] = "correlate"
  /\ \/ unlinked' = FALSE /\ Finish(w, TRUE)
     \/ UNCHANGED unlinked /\ Finish(w, FALSE)
  /\ UNCHANGED <<procVars, prefVars, lockVars, managerVars, signalVars, countVars, loopVars,
                 gen, manual, sample>>

WorkerStep(w) ==
  \/ Enter(w) \/ Register(w) \/ Collect(w) \/ Ingest(w) \/ Commit(w) \/ Leave(w)
  \/ Recheck(w) \/ Correlate(w)

-----------------------------------------------------------------------------
(* Manual scans and drills: never cancelled, counted apart. *)

\* POST /host/audit: run_full_audit without check_active.
ManualAudit(m) ==
  /\ proc = "up" /\ manual[m] = "idle"
  /\ manual' = [manual EXCEPT ![m] = "audit"]
  /\ activeWorkers' = activeWorkers + 1
  /\ UNCHANGED <<procVars, prefVars, lockVars, managerVars, signalVars, autoWorkers,
                 loopVars, workerVars, unlinked, sample>>

ManualAuditEnded(m) ==
  /\ manual[m] = "audit"
  /\ manual' = [manual EXCEPT ![m] = "idle"]
  /\ activeWorkers' = Lowered(activeWorkers)
  /\ unlinked' \in {FALSE, unlinked}
  /\ UNCHANGED <<procVars, prefVars, lockVars, managerVars, signalVars, autoWorkers,
                 loopVars, workerVars, sample>>

\* POST /host/drill: the alert is committed first and linked in a second transaction,
\* which may fail.
Drill(m) ==
  /\ proc = "up" /\ manual[m] = "idle"
  /\ manual' = [manual EXCEPT ![m] = "linking"]
  /\ unlinked' = TRUE
  /\ UNCHANGED <<procVars, prefVars, lockVars, managerVars, signalVars, countVars,
                 loopVars, workerVars, sample>>

DrillLinked(m) ==
  /\ manual[m] = "linking"
  /\ manual' = [manual EXCEPT ![m] = "idle"]
  /\ unlinked' \in {FALSE, unlinked}
  /\ UNCHANGED <<procVars, prefVars, lockVars, managerVars, signalVars, countVars,
                 loopVars, workerVars, sample>>

-----------------------------------------------------------------------------
(* get_status, in a thread of the server's pool. *)

\* monitoring_state, given what the reader knows of the automatic workers, and the error
\* and the confirmation as it leaves them.
MonitoringState(auto, late, quiet) ==
  IF transition # "none" THEN transition
  ELSE IF late \/ (~hostActive /\ (~quiet \/ auto)) THEN "PAUSING_TIMED_OUT"
  ELSE IF ~hostActive THEN "PAUSED"
  ELSE IF Live(monitorTask) THEN "ACTIVE" ELSE "STOPPED"

StatusSample(p) ==
  /\ proc = "up" /\ ~sample[p].taken
  /\ sample' = [sample EXCEPT ![p] =
                  [taken |-> TRUE, auto |-> autoWorkers > 0, scan |-> activeWorkers > 0]]
  /\ UNCHANGED <<procVars, prefVars, lockVars, managerVars, signalVars, countVars, loopVars,
                 workerVars, manual, unlinked>>

\* Mutant: the loop is not asked about.
HealsBehindLoop(p) == timedOut /\ ~sample[p].auto /\ ~sample[p].scan

\* Mutant: only a confirmed pause can be confirmed.
HealsIfConfirmed(p) ==
  timedOut /\ quiescent /\ ~sample[p].auto /\ ~sample[p].scan /\ ~Live(monitorTask)

\* A timed-out pause is over once nothing was seen running.
Heals(p) == timedOut /\ ~sample[p].auto /\ ~sample[p].scan /\ ~Live(monitorTask)

StatusReport(p) ==
  /\ sample[p].taken
  /\ timedOut' = (timedOut /\ ~Heals(p))
  /\ quiescent' = (quiescent \/ Heals(p))
  /\ sample' = [sample EXCEPT ![p] = NoSample]
  /\ UNCHANGED <<procVars, prefVars, lockVars, hostActive, simActive, transition,
                 cancelResult, monitorTask, simTask, signalVars, countVars, loopVars,
                 workerVars, manual, unlinked>>

\* What the reader is told by StatusReport(p).
Reports(p, state) ==
  StatusReport(p) /\ MonitoringState(sample[p].auto, timedOut', quiescent') = state

-----------------------------------------------------------------------------

Serve(r) ==
  \/ StartHostRefused(r) \/ StartHostNoop(r) \/ StartHost(r)
  \/ StopHostNoop(r) \/ StopHost(r) \/ StopHostTaskEnded(r) \/ StopHostSettled(r)
  \/ StartSimNoop(r) \/ StartSim(r)
  \/ StopSimNoop(r) \/ StopSim(r) \/ StopSimTaskEnded(r)

Next ==
  \/ Boot \/ Crash \/ Shutdown \/ ShutdownGathered \/ Exit
  \/ \E r \in Requests : Serve(r) \/ \E op \in Ops : Call(r, op)
  \/ \E t \in Tasks : Resume(t) \/ BroadcastEnded(t) \/ TaskDies(t)
                      \/ \E w \in Workers : Tick(t, w)
  \/ \E w \in Workers : WorkerStep(w)
  \/ \E m \in Manual : ManualAudit(m) \/ ManualAuditEnded(m) \/ Drill(m) \/ DrillLinked(m)
  \/ \E p \in Pollers : StatusSample(p) \/ StatusReport(p)

Spec == Init /\ [][Next]_vars

\* The event loop serves what is ready, the operating system runs the threads, and a send
\* to a dead client fails.  Clients owe nothing: no call, poll, scan, boot or crash is fair.
Fairness ==
  /\ \A r \in Requests : WF_vars(Serve(r))
  /\ \A t \in Tasks :
       /\ WF_vars(\E w \in Workers : Tick(t, w))
       /\ WF_vars(Resume(t)) /\ WF_vars(BroadcastEnded(t)) /\ WF_vars(TaskDies(t))
  /\ \A w \in Workers : WF_vars(WorkerStep(w))
  /\ \A m \in Manual : WF_vars(ManualAuditEnded(m)) /\ WF_vars(DrillLinked(m))
  /\ \A p \in Pollers : WF_vars(StatusReport(p))

FairSpec == Spec /\ Fairness

-----------------------------------------------------------------------------
(* Safety. *)

\* Every monitor loop that is alive is the one the manager refers to, so a pause reaches
\* it and there is never a second one (stop_host_monitoring forgets a loop only when done).
MonitorLoopIsOwned ==
  \A t \in Tasks : Live(t) /\ kind[t] = "monitor" => t = monitorTask

\* The same for the simulator.  It holds only while a cancelled loop ends within the wait.
SimulatorLoopIsOwned ==
  \A t \in Tasks : Live(t) /\ kind[t] = "simulator" => t = simTask

\* An audit that has passed its last check and was then cut off by a pause keeps monitoring
\* from being resumed until it has committed: start_host_monitoring refuses meanwhile.
\* So alerts gathered before a pause are never committed after the resume that ends it.
NoCommitAcrossResume ==
  \A w \in Workers : worker[w] = "commit" /\ gen[w] # scanGeneration => ~hostActive

InAudit       == {w \in Workers : worker[w] \in Counted}
InManualAudit == {m \in Manual : manual[m] = "audit"}

\* The sensor's counters equal the scans that are running, on every path through an
\* audit: early returns, rollbacks and exceptions included.
CountersAreExact ==
  /\ autoWorkers = Cardinality(InAudit)
  /\ activeWorkers = Cardinality(InAudit) + Cardinality(InManualAudit)

\* While the process runs, a preference reported as persisted is what the file says, for
\* both flags: neither the other toggle, nor shutdown, nor a restart may revert it.
ChoiceIsDurable ==
  proc # "down" /\ persisted => pref = choice

\* "PAUSING" is shown exactly while a stop holds the lock, whichever way it ends.
PausingIsHeld ==
  transition = "PAUSING" <=> \E r \in Requests : pc[r] \in {"cancelHost", "quiesce"}

\* A loop broadcasts findings of an earlier generation only while it is being stopped.
BroadcastIsCurrent ==
  \A t \in Tasks : task[t] = "broadcast" => ~Cancelled(gen[awaits[t]])

\* When a reader is told PAUSED, no monitor loop is left and no call is half way, however
\* old the reader's sample of the counters.
PausedReportIsQuiet ==
  [][\A p \in Pollers : Reports(p, "PAUSED") =>
       /\ \A t \in Tasks : Live(t) => kind[t] = "simulator"
       /\ \A r \in Requests : pc[r] \notin {"cancelHost", "quiesce"}]_vars

-----------------------------------------------------------------------------
(* What the documentation says and the code does not do. *)

\* "reports PAUSED only after active automatic audit workers verify full quiescence":
\* no automatic audit writes to the database while the state shown is PAUSED.
NoAutomaticWriteWhilePaused ==
  [][\A w \in Workers :
       Correlate(w) /\ unlinked' # unlinked
         => MonitoringState(autoWorkers > 0, timedOut, quiescent) # "PAUSED"]_vars

\* "Prevent starting a new scan generation while previous worker remains active".
OneAutomaticWorker ==
  \A v, w \in Workers : worker[v] \in Counted /\ worker[w] \in Counted => v = w

-----------------------------------------------------------------------------
(* Liveness. *)

\* Every lifecycle call returns and releases the lock, whatever the loops and workers do.
CallsReturn ==
  \A r \in Requests : pc[r] # "idle" ~> pc[r] = "idle"

\* If monitoring stays switched on, audits keep being run.
MonitoringKeepsScanning ==
  <>[](proc = "up" /\ hostActive) => []<>(\E w \in Workers : worker[w] = "collect")

\* A pause that timed out does not stay timed out, if the status keeps being asked for and
\* manual scans come to an end (get_status waits for those too).
TimedOutPauseResolves ==
  /\ []<>(\E p \in Pollers : sample[p].taken)
  /\ <>[](\A m \in Manual : manual[m] # "audit")
  => (timedOut ~> ~timedOut)

-----------------------------------------------------------------------------
(* The lifecycle implements AuditAuthority. *)

AuthorityOf(w) ==
  CASE worker[w] \in {"queued", "register", "collect", "ingest"} ->
         [state |-> "gathering", epoch |-> gen[w]]
    [] worker[w] = "commit" -> [state |-> "sealed", epoch |-> gen[w]]
    [] OTHER -> [state |-> "none", epoch |-> 0]

Authority == INSTANCE AuditAuthority
  WITH on <- hostActive, epoch <- scanGeneration,
       audit <- [w \in Workers |-> AuthorityOf(w)]

\* Audits, pauses and resumes follow AuditAuthority.
ImplementsAuthority == Authority!ASpec
=============================================================================
