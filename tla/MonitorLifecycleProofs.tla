------------------------ MODULE MonitorLifecycleProofs ------------------------
(***************************************************************************)
(* Proofs about MonitorLifecycle for every number of clients, tasks,       *)
(* threads, calls and restarts, whether or not saves may fail and          *)
(* cancelled loops may outlive the wait for them: its types, its safety    *)
(* properties, from one inductive invariant, and that it implements        *)
(* AuditAuthority.                                                         *)
(***************************************************************************)
EXTENDS MonitorLifecycle, FiniteSetTheorems, TLAPS

USE DEF vars, procVars, prefVars, lockVars, managerVars, signalVars, countVars, loopVars,
        workerVars, otherVars

-----------------------------------------------------------------------------
(* Types. *)

LEMMA InitType == Init => TypeOK
<1> SUFFICES ASSUME Init PROVE TypeOK
  OBVIOUS
<1>1. pref \in Flags /\ choice \in Flags /\ persisted \in BOOLEAN
  BY DEF Init
<1>2. queue \in Seq(Requests) /\ pc \in [Requests -> CallStates]
  BY DEF Init, CallStates
<1>3. /\ kind \in [Tasks -> {"monitor", "simulator"}]
      /\ task \in [Tasks -> TaskStates]
      /\ awaits \in [Tasks -> Workers \cup {None}]
  BY DEF Init, TaskStates
<1>4. /\ worker \in [Workers -> WorkerStates]
      /\ gen \in [Workers -> Nat]
      /\ found \in [Workers -> BOOLEAN]
  BY DEF Init, WorkerStates
<1>5. /\ manual \in [Manual -> {"idle", "audit", "linking"}]
      /\ sample \in [Pollers -> Sample]
  BY DEF Init, Sample, NoSample
<1> QED
  BY <1>1, <1>2, <1>3, <1>4, <1>5 DEF Init, TypeOK

LEMMA FinishType ==
  ASSUME NEW w \in Workers, NEW payload \in BOOLEAN, Finish(w, payload),
         worker \in [Workers -> WorkerStates], found \in [Workers -> BOOLEAN]
  PROVE  worker' \in [Workers -> WorkerStates] /\ found' \in [Workers -> BOOLEAN]
BY DEF Finish, WorkerStates

LEMMA ForgetType ==
  ASSUME NEW t \in Tasks, Forget(t), awaits \in [Tasks -> Workers \cup {None}],
         worker \in [Workers -> WorkerStates], found \in [Workers -> BOOLEAN]
  PROVE  /\ awaits' \in [Tasks -> Workers \cup {None}]
         /\ worker' \in [Workers -> WorkerStates]
         /\ found' \in [Workers -> BOOLEAN]
BY DEF Forget, WorkerStates

LEMMA SaveType ==
  ASSUME NEW h \in BOOLEAN, NEW s \in BOOLEAN, Save(h, s), pref \in Flags
  PROVE  pref' \in Flags /\ persisted' \in BOOLEAN
<1>1. CASE pref' = [host |-> h, sim |-> s] /\ persisted' = TRUE
  <2>1. [host |-> h, sim |-> s] \in Flags
    BY DEF Flags
  <2> QED
    BY <1>1, <2>1
<1>2. CASE UNCHANGED pref /\ persisted' = FALSE
  BY <1>2
<1> QED
  BY <1>1, <1>2, Zenon DEF Save

LEMMA SpawnType ==
  ASSUME NEW t \in Tasks, NEW k \in {"monitor", "simulator"}, NEW other, Spawn(t, k, other),
         task \in [Tasks -> TaskStates], kind \in [Tasks -> {"monitor", "simulator"}],
         awaits \in [Tasks -> Workers \cup {None}]
  PROVE  /\ task' \in [Tasks -> TaskStates]
         /\ kind' \in [Tasks -> {"monitor", "simulator"}]
         /\ awaits' \in [Tasks -> Workers \cup {None}]
BY DEF Spawn, TaskStates

LEMMA CancellingType ==
  ASSUME NEW S, task \in [Tasks -> TaskStates]
  PROVE  Cancelling(S) \in [Tasks -> TaskStates]
BY DEF Cancelling, TaskStates

LEMMA ReturnType ==
  ASSUME NEW r \in Requests, NEW state, Serves(r, state), Return(r),
         queue \in Seq(Requests), pc \in [Requests -> CallStates]
  PROVE  queue' \in Seq(Requests) /\ pc' \in [Requests -> CallStates]
BY DEF Return, Serves, CallStates

\* A call that is served leaves every variable in its type.
LEMMA ServeType ==
  ASSUME NEW r \in Requests, TypeOK, Serve(r)
  PROVE  TypeOK'
<1>1. CASE StartHostRefused(r)
  <2>1. queue' \in Seq(Requests) /\ pc' \in [Requests -> CallStates]
    BY <1>1, ReturnType DEF StartHostRefused, TypeOK
  <2> QED
    BY <1>1, <2>1 DEF StartHostRefused, TypeOK
<1>2. CASE StartHostNoop(r)
  <2>1. queue' \in Seq(Requests) /\ pc' \in [Requests -> CallStates]
    BY <1>2, ReturnType DEF StartHostNoop, TypeOK
  <2> QED
    BY <1>2, <2>1 DEF StartHostNoop, TypeOK
<1>3. CASE StartHost(r)
  <2>1. queue' \in Seq(Requests) /\ pc' \in [Requests -> CallStates]
    BY <1>3, ReturnType DEF StartHost, TypeOK
  <2>2. pref' \in Flags /\ persisted' \in BOOLEAN
    BY <1>3, SaveType DEF StartHost, TypeOK
  <2>3. choice' \in Flags
    BY <1>3 DEF StartHost, TypeOK, Flags
  <2>4. 
         /\ monitorTask' \in Tasks \cup {None}
         /\ task' \in [Tasks -> TaskStates]
         /\ kind' \in [Tasks -> {"monitor", "simulator"}]
         /\ awaits' \in [Tasks -> Workers \cup {None}]
    BY <1>3, SpawnType DEF StartHost, TypeOK
  <2> QED
    BY <1>3, <2>1, <2>2, <2>3, <2>4 DEF StartHost, TypeOK, ResetCancellation
<1>4. CASE StopHostNoop(r)
  <2>1. queue' \in Seq(Requests) /\ pc' \in [Requests -> CallStates]
    BY <1>4, ReturnType DEF StopHostNoop, TypeOK
  <2> QED
    BY <1>4, <2>1 DEF StopHostNoop, TypeOK
<1>5. CASE StopHost(r)
  <2>1. queue' \in Seq(Requests) /\ pc' \in [Requests -> CallStates]
    BY <1>5 DEF StopHost, TypeOK, Goto, CallStates, InsideLock
  <2>2. pref' \in Flags /\ persisted' \in BOOLEAN
    BY <1>5, SaveType DEF StopHost, TypeOK
  <2>3. choice' \in Flags
    BY <1>5 DEF StopHost, TypeOK, Flags
  <2>4. task' \in [Tasks -> TaskStates]
    BY <1>5, CancellingType DEF StopHost, TypeOK
  <2>5. scanGeneration' \in Nat
    BY <1>5 DEF StopHost, TypeOK, RequestCancellation
  <2> QED
    BY <1>5, <2>1, <2>2, <2>3, <2>4, <2>5 DEF StopHost, TypeOK, RequestCancellation
<1>6. CASE StopHostTaskEnded(r)
  <2>1. queue' \in Seq(Requests) /\ pc' \in [Requests -> CallStates]
    BY <1>6 DEF StopHostTaskEnded, TypeOK, Goto, CallStates, InsideLock
  <2> QED
    BY <1>6, <2>1 DEF StopHostTaskEnded, TypeOK
<1>7. CASE StopHostSettled(r)
  <2>1. queue' \in Seq(Requests) /\ pc' \in [Requests -> CallStates]
    BY <1>7, ReturnType DEF StopHostSettled, TypeOK
  <2>2. 
         /\ monitorTask' \in Tasks \cup {None}
         /\ timedOut' \in BOOLEAN
         /\ quiescent' \in BOOLEAN
    BY <1>7 DEF StopHostSettled, TypeOK, StillRunning
  <2> QED
    BY <1>7, <2>1, <2>2 DEF StopHostSettled, TypeOK
<1>8. CASE StartSimNoop(r)
  <2>1. queue' \in Seq(Requests) /\ pc' \in [Requests -> CallStates]
    BY <1>8, ReturnType DEF StartSimNoop, TypeOK
  <2> QED
    BY <1>8, <2>1 DEF StartSimNoop, TypeOK
<1>9. CASE StartSim(r)
  <2>1. queue' \in Seq(Requests) /\ pc' \in [Requests -> CallStates]
    BY <1>9, ReturnType DEF StartSim, TypeOK
  <2>2. pref' \in Flags /\ persisted' \in BOOLEAN
    BY <1>9, SaveType DEF StartSim, TypeOK
  <2>3. choice' \in Flags
    BY <1>9 DEF StartSim, TypeOK, Flags
  <2>4. 
         /\ simTask' \in Tasks \cup {None}
         /\ task' \in [Tasks -> TaskStates]
         /\ kind' \in [Tasks -> {"monitor", "simulator"}]
         /\ awaits' \in [Tasks -> Workers \cup {None}]
    BY <1>9, SpawnType DEF StartSim, TypeOK
  <2> QED
    BY <1>9, <2>1, <2>2, <2>3, <2>4 DEF StartSim, TypeOK
<1>10. CASE StopSimNoop(r)
  <2>1. queue' \in Seq(Requests) /\ pc' \in [Requests -> CallStates]
    BY <1>10, ReturnType DEF StopSimNoop, TypeOK
  <2> QED
    BY <1>10, <2>1 DEF StopSimNoop, TypeOK
<1>11. CASE StopSim(r)
  <2>1. queue' \in Seq(Requests) /\ pc' \in [Requests -> CallStates]
    BY <1>11, ReturnType DEF StopSim, TypeOK, Goto, CallStates, InsideLock
  <2>2. pref' \in Flags /\ persisted' \in BOOLEAN
    BY <1>11, SaveType DEF StopSim, TypeOK
  <2>3. choice' \in Flags
    BY <1>11 DEF StopSim, TypeOK, Flags
  <2>4. task' \in [Tasks -> TaskStates]
    BY <1>11, CancellingType DEF StopSim, TypeOK
  <2>5. simTask' \in Tasks \cup {None}
    BY <1>11 DEF StopSim, TypeOK, StillRunning
  <2> QED
    BY <1>11, <2>1, <2>2, <2>3, <2>4, <2>5, ZenonT(60) DEF StopSim, TypeOK
<1>12. CASE StopSimTaskEnded(r)
  <2>1. queue' \in Seq(Requests) /\ pc' \in [Requests -> CallStates]
    BY <1>12, ReturnType DEF StopSimTaskEnded, TypeOK
  <2> QED
    BY <1>12, <2>1 DEF StopSimTaskEnded, TypeOK
<1> QED
  BY <1>1, <1>2, <1>3, <1>4, <1>5, <1>6, <1>7, <1>8, <1>9, <1>10, <1>11, <1>12 DEF Serve

\* So does a step of an audit thread.
LEMMA WorkerType ==
  ASSUME NEW w \in Workers, TypeOK, WorkerStep(w)
  PROVE  TypeOK'
<1>1. CASE Enter(w)
  <2>1. 
         /\ worker' \in [Workers -> WorkerStates]
         /\ found' \in [Workers -> BOOLEAN]
    BY <1>1, FinishType DEF Enter, TypeOK, WorkerStates, Counted
  <2> QED
    BY <1>1, <2>1 DEF Enter, TypeOK
<1>2. CASE Register(w)
  <2>1. worker' \in [Workers -> WorkerStates]
    BY <1>2 DEF Register, TypeOK, WorkerStates, Counted
  <2> QED
    BY <1>2, <2>1 DEF Register, TypeOK
<1>3. CASE Collect(w)
  <2>1. worker' \in [Workers -> WorkerStates]
    BY <1>3 DEF Collect, TypeOK, Checked, WorkerStates, Counted
  <2> QED
    BY <1>3, <2>1 DEF Collect, TypeOK
<1>4. CASE Ingest(w)
  <2>1. 
         /\ worker' \in [Workers -> WorkerStates]
         /\ found' \in [Workers -> BOOLEAN]
    BY <1>4 DEF Ingest, TypeOK, Checked, WorkerStates, Counted
  <2> QED
    BY <1>4, <2>1 DEF Ingest, TypeOK
<1>5. CASE Commit(w)
  <2>1. worker' \in [Workers -> WorkerStates]
    BY <1>5 DEF Commit, TypeOK, WorkerStates, Counted
  <2>2. found' \in [Workers -> BOOLEAN] /\ unlinked' \in BOOLEAN
    BY <1>5 DEF Commit, TypeOK
  <2> QED
    BY <1>5, <2>1, <2>2 DEF Commit, TypeOK
<1>6. CASE Leave(w)
  <2>1. 
         /\ worker' \in [Workers -> WorkerStates]
         /\ found' \in [Workers -> BOOLEAN]
    BY <1>6, FinishType DEF Leave, TypeOK, WorkerStates, Counted
  <2>2. activeWorkers' \in Nat /\ autoWorkers' \in Nat
    BY <1>6 DEF Leave, TypeOK, Lowered
  <2> QED
    BY <1>6, <2>1, <2>2 DEF Leave, TypeOK
<1>7. CASE Recheck(w)
  <2>1. 
         /\ worker' \in [Workers -> WorkerStates]
         /\ found' \in [Workers -> BOOLEAN]
    BY <1>7, FinishType DEF Recheck, TypeOK, WorkerStates, Counted
  <2> QED
    BY <1>7, <2>1 DEF Recheck, TypeOK
<1>8. CASE Correlate(w)
  <2>1. 
         /\ worker' \in [Workers -> WorkerStates]
         /\ found' \in [Workers -> BOOLEAN]
    BY <1>8, FinishType DEF Correlate, TypeOK, WorkerStates, Counted
  <2>2. unlinked' \in BOOLEAN
    BY <1>8 DEF Correlate, TypeOK
  <2> QED
    BY <1>8, <2>1, <2>2 DEF Correlate, TypeOK
<1> QED
  BY <1>1, <1>2, <1>3, <1>4, <1>5, <1>6, <1>7, <1>8 DEF WorkerStep

LEMMA TypeStep == TypeOK /\ [Next]_vars => TypeOK'
<1> SUFFICES ASSUME TypeOK, [Next]_vars PROVE TypeOK'
  OBVIOUS
<1>1. CASE Boot
  <2>1. 
         /\ hostActive' \in BOOLEAN
         /\ simActive' \in BOOLEAN
         /\ choice' \in Flags
         /\ persisted' \in BOOLEAN
         /\ boots' \in Nat
    BY <1>1 DEF Boot, TypeOK, Flags
  <2>2. 
         /\ monitorTask' \in Tasks \cup {None}
         /\ simTask' \in Tasks \cup {None}
         /\ kind' \in [Tasks -> {"monitor", "simulator"}]
         /\ task' \in [Tasks -> TaskStates]
    BY <1>1, ZenonT(60) DEF Boot, TypeOK, TaskStates
  <2> QED
    BY <1>1, <2>1, <2>2 DEF Boot, TypeOK
<1>2. CASE Vanish
  <2>1. queue' \in Seq(Requests) /\ pc' \in [Requests -> CallStates]
    BY <1>2 DEF Vanish, TypeOK, CallStates
  <2>2. 
         /\ kind' \in [Tasks -> {"monitor", "simulator"}]
         /\ task' \in [Tasks -> TaskStates]
         /\ awaits' \in [Tasks -> Workers \cup {None}]
    BY <1>2 DEF Vanish, TypeOK, TaskStates
  <2>3. 
         /\ worker' \in [Workers -> WorkerStates]
         /\ gen' \in [Workers -> Nat]
         /\ found' \in [Workers -> BOOLEAN]
    BY <1>2 DEF Vanish, TypeOK, WorkerStates
  <2>4. 
         /\ manual' \in [Manual -> {"idle", "audit", "linking"}]
         /\ sample' \in [Pollers -> Sample]
    BY <1>2 DEF Vanish, TypeOK, Sample, NoSample
  <2> QED
    BY <1>2, <2>1, <2>2, <2>3, <2>4 DEF Vanish, TypeOK
<1>3. CASE Shutdown
  <2>1. task' \in [Tasks -> TaskStates]
    BY <1>3, CancellingType DEF Shutdown, TypeOK
  <2>2. scanGeneration' \in Nat
    BY <1>3 DEF Shutdown, TypeOK, RequestCancellation
  <2> QED
    BY <1>3, <2>1, <2>2 DEF Shutdown, TypeOK, RequestCancellation
<1>4. CASE ShutdownGathered
  BY <1>4 DEF ShutdownGathered, TypeOK
<1>5. ASSUME NEW r \in Requests, Serve(r) PROVE TypeOK'
  BY <1>5, ServeType
<1>6. ASSUME NEW r \in Requests, NEW op \in Ops, Call(r, op) PROVE TypeOK'
  <2>1. queue' \in Seq(Requests)
    BY <1>6 DEF Call, TypeOK
  <2>2. pc' \in [Requests -> CallStates]
    BY <1>6, ConstantsOK DEF Call, TypeOK, CallStates
  <2> QED
    BY <1>6, <2>1, <2>2 DEF Call, TypeOK
<1>7. ASSUME NEW t \in Tasks, NEW w \in Workers, Tick(t, w) PROVE TypeOK'
  <2>1. task' \in [Tasks -> TaskStates]
    BY <1>7 DEF Tick, TypeOK, TaskStates
  <2>2. 
         /\ awaits' \in [Tasks -> Workers \cup {None}]
         /\ worker' \in [Workers -> WorkerStates]
         /\ gen' \in [Workers -> Nat]
    BY <1>7 DEF Tick, TypeOK, WorkerStates
  <2> QED
    BY <1>7, <2>1, <2>2 DEF Tick, TypeOK
<1>8. ASSUME NEW t \in Tasks, Resume(t) PROVE TypeOK'
  <2>1. task' \in [Tasks -> TaskStates]
    BY <1>8 DEF Resume, TypeOK, TaskStates
  <2>2. 
         /\ awaits' \in [Tasks -> Workers \cup {None}]
         /\ worker' \in [Workers -> WorkerStates]
         /\ found' \in [Workers -> BOOLEAN]
    BY <1>8 DEF Resume, TypeOK, WorkerStates
  <2> QED
    BY <1>8, <2>1, <2>2 DEF Resume, TypeOK
<1>9. ASSUME NEW t \in Tasks, BroadcastEnded(t) PROVE TypeOK'
  <2>1. task' \in [Tasks -> TaskStates]
    BY <1>9 DEF BroadcastEnded, TypeOK, TaskStates
  <2>2. 
         /\ awaits' \in [Tasks -> Workers \cup {None}]
         /\ worker' \in [Workers -> WorkerStates]
         /\ found' \in [Workers -> BOOLEAN]
    BY <1>9, ForgetType DEF BroadcastEnded, TypeOK
  <2> QED
    BY <1>9, <2>1, <2>2 DEF BroadcastEnded, TypeOK
<1>10. ASSUME NEW t \in Tasks, TaskDies(t) PROVE TypeOK'
  <2>1. task' \in [Tasks -> TaskStates]
    BY <1>10 DEF TaskDies, TypeOK, TaskStates
  <2>2. 
         /\ awaits' \in [Tasks -> Workers \cup {None}]
         /\ worker' \in [Workers -> WorkerStates]
         /\ found' \in [Workers -> BOOLEAN]
    BY <1>10, ForgetType DEF TaskDies, TypeOK
  <2> QED
    BY <1>10, <2>1, <2>2 DEF TaskDies, TypeOK
<1>11. ASSUME NEW w \in Workers, WorkerStep(w) PROVE TypeOK'
  BY <1>11, WorkerType
<1>12. ASSUME NEW m \in Manual, ManualAudit(m) PROVE TypeOK'
  <2>1. 
         /\ manual' \in [Manual -> {"idle", "audit", "linking"}]
         /\ unlinked' \in BOOLEAN
    BY <1>12 DEF ManualAudit, TypeOK
  <2> QED
    BY <1>12, <2>1 DEF ManualAudit, TypeOK
<1>13. ASSUME NEW m \in Manual, ManualAuditEnded(m) PROVE TypeOK'
  <2>1. 
         /\ manual' \in [Manual -> {"idle", "audit", "linking"}]
         /\ unlinked' \in BOOLEAN
    BY <1>13 DEF ManualAuditEnded, TypeOK
  <2>2. activeWorkers' \in Nat
    BY <1>13 DEF ManualAuditEnded, TypeOK, Lowered
  <2> QED
    BY <1>13, <2>1, <2>2 DEF ManualAuditEnded, TypeOK
<1>14. ASSUME NEW m \in Manual, Drill(m) PROVE TypeOK'
  <2>1. 
         /\ manual' \in [Manual -> {"idle", "audit", "linking"}]
         /\ unlinked' \in BOOLEAN
    BY <1>14 DEF Drill, TypeOK
  <2> QED
    BY <1>14, <2>1 DEF Drill, TypeOK
<1>15. ASSUME NEW m \in Manual, DrillLinked(m) PROVE TypeOK'
  <2>1. 
         /\ manual' \in [Manual -> {"idle", "audit", "linking"}]
         /\ unlinked' \in BOOLEAN
    BY <1>15 DEF DrillLinked, TypeOK
  <2> QED
    BY <1>15, <2>1 DEF DrillLinked, TypeOK
<1>16. ASSUME NEW p \in Pollers, StatusSample(p) PROVE TypeOK'
  <2>1. sample' \in [Pollers -> Sample]
    BY <1>16 DEF StatusSample, TypeOK, Sample
  <2> QED
    BY <1>16, <2>1 DEF StatusSample, TypeOK
<1>17. ASSUME NEW p \in Pollers, StatusReport(p) PROVE TypeOK'
  <2>1. sample' \in [Pollers -> Sample]
    BY <1>17 DEF StatusReport, TypeOK, Sample, NoSample
  <2>2. timedOut' \in BOOLEAN /\ quiescent' \in BOOLEAN
    BY <1>17 DEF StatusReport, TypeOK
  <2> QED
    BY <1>17, <2>1, <2>2 DEF StatusReport, TypeOK
<1>18. CASE UNCHANGED vars
  BY <1>18 DEF vars, TypeOK
<1> QED
  BY <1>1, <1>2, <1>3, <1>4, <1>5, <1>6, <1>7, <1>8, <1>9, <1>10, <1>11, <1>12, <1>13,
     <1>14, <1>15, <1>16, <1>17, <1>18 DEF Next, Crash, Exit

\* Every variable keeps its type, for every value of the constants.
THEOREM TypeCorrect == Spec => []TypeOK
BY InitType, TypeStep, PTL DEF Spec

-----------------------------------------------------------------------------
(* The inductive invariant. *)

\* With the process goes everything it held.
EmptyWhenDown ==
  proc = "down" => /\ ~hostActive
                   /\ \A t \in Tasks : task[t] = "done"
                   /\ \A w \in Workers : worker[w] = "idle"

\* Shutdown begins after the last call has been served, and no client is let in after it.
ServedOnlyWhenUp ==
  proc # "up" => /\ queue = <<>>
                 /\ \A p \in Pollers : ~sample[p].taken

\* Only the call at the head of the queue is inside the lock.
HolderIsHead ==
  \A r \in Requests : pc[r] \in InsideLock => queue # <<>> /\ Head(queue) = r

\* What the calls asked for is what the manager's flags say.
FlagsAreChoice ==
  proc = "up" => choice.host = hostActive /\ choice.sim = simActive

\* A loop that outlives its pause leaves the pause timed out.
SurvivorIsTimedOut ==
  proc = "up" /\ ~hostActive /\ transition = "none" /\ Live(monitorTask) => timedOut

\* A worker is awaited by one loop at most, and not handed to another while it is awaited.
AwaitsAreExclusive ==
  /\ \A t \in Tasks : awaits[t] \in Workers => worker[awaits[t]] # "idle"
  /\ \A t, u \in Tasks : awaits[t] \in Workers /\ awaits[t] = awaits[u] => t = u

\* Only monitor loops scan and broadcast, and they broadcast what a finished worker found.
BroadcastHasWorker ==
  \A t \in Tasks :
    /\ task[t] \in {"scan", "broadcast"} => kind[t] = "monitor" /\ awaits[t] \in Workers
    /\ task[t] = "broadcast" => worker[awaits[t]] = "finished"

IInv ==
  /\ TypeOK
  /\ EmptyWhenDown
  /\ ServedOnlyWhenUp
  /\ HolderIsHead
  /\ PausingIsHeld
  /\ FlagsAreChoice
  /\ ChoiceIsDurable
  /\ CountersAreExact
  /\ NoCommitAcrossResume
  /\ MonitorLoopIsOwned
  /\ SurvivorIsTimedOut
  /\ AwaitsAreExclusive
  /\ BroadcastHasWorker
  /\ BroadcastIsCurrent

-----------------------------------------------------------------------------
(* The groups of actions, and what each of them leaves alone. *)

LoopStep ==
  \E t \in Tasks : Resume(t) \/ BroadcastEnded(t) \/ TaskDies(t) \/ \E w \in Workers : Tick(t, w)

ClientStep ==
  \/ \E m \in Manual : ManualAudit(m) \/ ManualAuditEnded(m) \/ Drill(m) \/ DrillLinked(m)
  \/ \E p \in Pollers : StatusSample(p) \/ StatusReport(p)

LEMMA StepGroups ==
  ASSUME [Next]_vars
  PROVE  \/ Boot \/ Vanish \/ Shutdown \/ ShutdownGathered
         \/ \E r \in Requests : Serve(r) \/ \E op \in Ops : Call(r, op)
         \/ LoopStep
         \/ \E w \in Workers : WorkerStep(w)
         \/ ClientStep
         \/ UNCHANGED vars
BY DEF Next, Crash, Exit, LoopStep, ClientStep

LEMMA ServeFrame ==
  ASSUME NEW r \in Requests, Serve(r)
  PROVE  UNCHANGED <<procVars, countVars, workerVars, otherVars>>
BY DEF Serve, StartHostRefused, StartHostNoop, StartHost, StopHostNoop, StopHost,
   StopHostTaskEnded, StopHostSettled, StartSimNoop, StartSim, StopSimNoop, StopSim,
   StopSimTaskEnded

LEMMA LoopFrame ==
  ASSUME LoopStep
  PROVE  UNCHANGED <<procVars, prefVars, lockVars, managerVars, signalVars, countVars, kind,
                     otherVars>>
BY DEF LoopStep, Resume, BroadcastEnded, TaskDies, Tick

LEMMA WorkerFrame ==
  ASSUME NEW w \in Workers, WorkerStep(w)
  PROVE  UNCHANGED <<procVars, prefVars, lockVars, managerVars, signalVars, loopVars, gen,
                     manual, sample>>
BY DEF WorkerStep, Enter, Register, Collect, Ingest, Commit, Leave, Recheck, Correlate

LEMMA ClientFrame ==
  ASSUME ClientStep
  PROVE  UNCHANGED <<procVars, prefVars, lockVars, hostActive, simActive, transition,
                     cancelResult, monitorTask, simTask, signalVars, autoWorkers, loopVars,
                     workerVars>>
BY DEF ClientStep, ManualAudit, ManualAuditEnded, Drill, DrillLinked, StatusSample,
   StatusReport

-----------------------------------------------------------------------------
(* The process and the lock. *)

LEMMA EmptyWhenDownStep ==
  ASSUME TypeOK, EmptyWhenDown, ServedOnlyWhenUp, [Next]_vars
  PROVE  EmptyWhenDown'
<1>1. CASE Boot
  BY <1>1 DEF Boot, EmptyWhenDown
<1>2. CASE Vanish
  BY <1>2 DEF Vanish, EmptyWhenDown
<1>3. CASE Shutdown
  BY <1>3 DEF Shutdown, EmptyWhenDown
<1>4. CASE ShutdownGathered
  BY <1>4 DEF ShutdownGathered, EmptyWhenDown
<1>5. ASSUME NEW r \in Requests, Serve(r) PROVE EmptyWhenDown'
  <2>1. queue # <<>>
    BY <1>5 DEF Serve, Serves, StartHostRefused, StartHostNoop, StartHost, StopHostNoop,
       StopHost, StopHostTaskEnded, StopHostSettled, StartSimNoop, StartSim, StopSimNoop,
       StopSim, StopSimTaskEnded
  <2>2. proc' = "up"
    BY <1>5, <2>1, ServeFrame DEF ServedOnlyWhenUp
  <2> QED
    BY <2>2 DEF EmptyWhenDown
<1>6. ASSUME NEW r \in Requests, NEW op \in Ops, Call(r, op) PROVE EmptyWhenDown'
  BY <1>6 DEF Call, EmptyWhenDown
<1>7. CASE LoopStep
  <2>1. proc # "down"
    BY <1>7 DEF LoopStep, Resume, BroadcastEnded, TaskDies, Tick, EmptyWhenDown
  <2> QED
    BY <1>7, <2>1, LoopFrame DEF EmptyWhenDown
<1>8. ASSUME NEW w \in Workers, WorkerStep(w) PROVE EmptyWhenDown'
  <2>1. proc # "down"
    BY <1>8 DEF WorkerStep, Enter, Register, Collect, Ingest, Commit, Leave, Recheck,
       Correlate, EmptyWhenDown
  <2> QED
    BY <1>8, <2>1, WorkerFrame DEF EmptyWhenDown
<1>9. CASE ClientStep
  BY <1>9, ClientFrame DEF EmptyWhenDown
<1>10. CASE UNCHANGED vars
  BY <1>10 DEF EmptyWhenDown
<1> QED
  BY <1>1, <1>2, <1>3, <1>4, <1>5, <1>6, <1>7, <1>8, <1>9, <1>10, StepGroups

LEMMA ServedOnlyWhenUpStep ==
  ASSUME TypeOK, ServedOnlyWhenUp, [Next]_vars
  PROVE  ServedOnlyWhenUp'
<1>1. CASE Boot
  BY <1>1 DEF Boot, ServedOnlyWhenUp
<1>2. CASE Vanish
  BY <1>2 DEF Vanish, ServedOnlyWhenUp, NoSample
<1>3. CASE Shutdown
  BY <1>3 DEF Shutdown, Drained, ServedOnlyWhenUp
<1>4. CASE ShutdownGathered
  BY <1>4 DEF ShutdownGathered, ServedOnlyWhenUp
<1>5. ASSUME NEW r \in Requests, Serve(r) PROVE ServedOnlyWhenUp'
  <2>1. queue # <<>>
    BY <1>5 DEF Serve, Serves, StartHostRefused, StartHostNoop, StartHost, StopHostNoop,
       StopHost, StopHostTaskEnded, StopHostSettled, StartSimNoop, StartSim, StopSimNoop,
       StopSim, StopSimTaskEnded
  <2> QED
    BY <1>5, <2>1, ServeFrame DEF ServedOnlyWhenUp
<1>6. ASSUME NEW r \in Requests, NEW op \in Ops, Call(r, op) PROVE ServedOnlyWhenUp'
  BY <1>6 DEF Call, ServedOnlyWhenUp
<1>7. CASE LoopStep
  BY <1>7, LoopFrame DEF ServedOnlyWhenUp
<1>8. ASSUME NEW w \in Workers, WorkerStep(w) PROVE ServedOnlyWhenUp'
  BY <1>8, WorkerFrame DEF ServedOnlyWhenUp
<1>9. CASE ClientStep
  <2>1. ASSUME NEW p \in Pollers, StatusSample(p) PROVE ServedOnlyWhenUp'
    BY <2>1 DEF StatusSample, ServedOnlyWhenUp
  <2>2. ASSUME NEW p \in Pollers, StatusReport(p) PROVE ServedOnlyWhenUp'
    BY <2>2 DEF StatusReport, ServedOnlyWhenUp
  <2>3. ASSUME NEW m \in Manual,
               ManualAudit(m) \/ ManualAuditEnded(m) \/ Drill(m) \/ DrillLinked(m)
        PROVE  ServedOnlyWhenUp'
    BY <2>3 DEF ManualAudit, ManualAuditEnded, Drill, DrillLinked, ServedOnlyWhenUp
  <2> QED
    BY <1>9, <2>1, <2>2, <2>3 DEF ClientStep
<1>10. CASE UNCHANGED vars
  BY <1>10 DEF ServedOnlyWhenUp
<1> QED
  BY <1>1, <1>2, <1>3, <1>4, <1>5, <1>6, <1>7, <1>8, <1>9, <1>10, StepGroups

\* A call leaves the head of the queue only by returning, and enters the lock only there.
LEMMA HolderIsHeadStep ==
  ASSUME TypeOK, HolderIsHead, [Next]_vars
  PROVE  HolderIsHead'
<1>1. CASE Boot
  BY <1>1 DEF Boot, HolderIsHead
<1>2. CASE Vanish
  BY <1>2 DEF Vanish, HolderIsHead, InsideLock
<1>3. CASE Shutdown
  BY <1>3 DEF Shutdown, HolderIsHead
<1>4. CASE ShutdownGathered
  BY <1>4 DEF ShutdownGathered, HolderIsHead
<1>5. ASSUME NEW r \in Requests, Serve(r) PROVE HolderIsHead'
  <2>1. queue # <<>> /\ Head(queue) = r
    BY <1>5 DEF Serve, Serves, StartHostRefused, StartHostNoop, StartHost, StopHostNoop,
       StopHost, StopHostTaskEnded, StopHostSettled, StartSimNoop, StartSim, StopSimNoop,
       StopSim, StopSimTaskEnded
  <2>2. Return(r) \/ \E state \in CallStates : Goto(r, state)
    BY <1>5 DEF Serve, StartHostRefused, StartHostNoop, StartHost, StopHostNoop, StopHost,
       StopHostTaskEnded, StopHostSettled, StartSimNoop, StartSim, StopSimNoop, StopSim,
       StopSimTaskEnded, CallStates, InsideLock
  <2>3. CASE Return(r)
    BY <2>1, <2>3 DEF Return, HolderIsHead, InsideLock, TypeOK
  <2>4. ASSUME NEW state \in CallStates, Goto(r, state) PROVE HolderIsHead'
    BY <2>1, <2>4 DEF Goto, HolderIsHead, TypeOK
  <2> QED
    BY <2>2, <2>3, <2>4
<1>6. ASSUME NEW r \in Requests, NEW op \in Ops, Call(r, op) PROVE HolderIsHead'
  <2>1. op \notin InsideLock
    BY ConstantsOK DEF Operations, InsideLock
  <2>2. \A q \in Requests : pc'[q] \in InsideLock => pc[q] \in InsideLock
    BY <1>6, <2>1 DEF Call, TypeOK
  <2>3. queue # <<>> => queue' # <<>> /\ Head(queue') = Head(queue)
    BY <1>6 DEF Call, TypeOK
  <2> QED
    BY <2>2, <2>3 DEF HolderIsHead
<1>7. CASE LoopStep
  BY <1>7, LoopFrame DEF HolderIsHead
<1>8. ASSUME NEW w \in Workers, WorkerStep(w) PROVE HolderIsHead'
  BY <1>8, WorkerFrame DEF HolderIsHead
<1>9. CASE ClientStep
  BY <1>9, ClientFrame DEF HolderIsHead
<1>10. CASE UNCHANGED vars
  BY <1>10 DEF HolderIsHead
<1> QED
  BY <1>1, <1>2, <1>3, <1>4, <1>5, <1>6, <1>7, <1>8, <1>9, <1>10, StepGroups

\* A stop sets the transition when it enters the lock and clears it when it leaves; every
\* other call finds and leaves it clear, because it is at the head of the queue.
LEMMA PausingIsHeldStep ==
  ASSUME TypeOK, HolderIsHead, PausingIsHeld, [Next]_vars
  PROVE  PausingIsHeld'
<1> DEFINE Stopping(q) == pc[q] \in {"cancelHost", "quiesce"}
<1>1. CASE Boot
  BY <1>1 DEF Boot, PausingIsHeld
<1>2. CASE Vanish
  BY <1>2 DEF Vanish, PausingIsHeld
<1>3. CASE Shutdown
  BY <1>3 DEF Shutdown, PausingIsHeld
<1>4. CASE ShutdownGathered
  BY <1>4 DEF ShutdownGathered, PausingIsHeld
<1>5. ASSUME NEW r \in Requests, Serve(r) PROVE PausingIsHeld'
  <2>1. \A q \in Requests : Stopping(q) => Head(queue) = q
    BY DEF HolderIsHead, InsideLock
  <2>2. CASE StopHost(r)
    BY <2>2 DEF StopHost, Goto, PausingIsHeld, TypeOK
  <2>3. CASE StopHostTaskEnded(r)
    BY <2>3 DEF StopHostTaskEnded, Serves, Goto, PausingIsHeld, TypeOK
  <2>4. CASE StopHostSettled(r)
    BY <2>1, <2>4 DEF StopHostSettled, Serves, Return, PausingIsHeld, TypeOK
  <2>5. CASE StartHostRefused(r) \/ StartHostNoop(r) \/ StartHost(r) \/ StopHostNoop(r)
             \/ StartSimNoop(r) \/ StartSim(r) \/ StopSimNoop(r) \/ StopSim(r)
             \/ StopSimTaskEnded(r)
    <3>1. UNCHANGED transition
      BY <2>5 DEF StartHostRefused, StartHostNoop, StartHost, StopHostNoop, StartSimNoop,
         StartSim, StopSimNoop, StopSim, StopSimTaskEnded
    <3>2. /\ ~Stopping(r)
          /\ Return(r) \/ Goto(r, "cancelSim")
      BY <2>5 DEF StartHostRefused, StartHostNoop, StartHost, StopHostNoop, StartSimNoop,
         StartSim, StopSimNoop, StopSim, StopSimTaskEnded, Serves
    <3>3. \A q \in Requests : (pc'[q] \in {"cancelHost", "quiesce"}) <=> Stopping(q)
      BY <3>2 DEF Return, Goto, TypeOK
    <3> QED
      BY <3>1, <3>3 DEF PausingIsHeld
  <2> QED
    BY <1>5, <2>2, <2>3, <2>4, <2>5 DEF Serve
<1>6. ASSUME NEW r \in Requests, NEW op \in Ops, Call(r, op) PROVE PausingIsHeld'
  <2>1. op \notin {"cancelHost", "quiesce"}
    BY ConstantsOK DEF Operations
  <2>2. \A q \in Requests : (pc'[q] \in {"cancelHost", "quiesce"}) <=> Stopping(q)
    BY <1>6, <2>1 DEF Call, TypeOK
  <2> QED
    BY <1>6, <2>2 DEF Call, PausingIsHeld
<1>7. CASE LoopStep
  BY <1>7, LoopFrame DEF PausingIsHeld
<1>8. ASSUME NEW w \in Workers, WorkerStep(w) PROVE PausingIsHeld'
  BY <1>8, WorkerFrame DEF PausingIsHeld
<1>9. CASE ClientStep
  BY <1>9, ClientFrame DEF PausingIsHeld
<1>10. CASE UNCHANGED vars
  BY <1>10 DEF PausingIsHeld
<1> QED
  BY <1>1, <1>2, <1>3, <1>4, <1>5, <1>6, <1>7, <1>8, <1>9, <1>10, StepGroups

-----------------------------------------------------------------------------
(* Preferences. *)

LEMMA SaveEffect ==
  ASSUME NEW h, NEW s, Save(h, s)
  PROVE  persisted' => pref' = [host |-> h, sim |-> s]
BY Zenon DEF Save

\* What the calls asked for is what the flags say, and what a save that worked has written.
LEMMA ChoiceStep ==
  ASSUME TypeOK, TypeOK', ServedOnlyWhenUp, FlagsAreChoice, ChoiceIsDurable, [Next]_vars
  PROVE  FlagsAreChoice' /\ ChoiceIsDurable'
<1>1. CASE Boot
  BY <1>1 DEF Boot, FlagsAreChoice, ChoiceIsDurable
<1>2. CASE Vanish
  BY <1>2 DEF Vanish, FlagsAreChoice, ChoiceIsDurable
<1>3. CASE Shutdown
  BY <1>3 DEF Shutdown, FlagsAreChoice, ChoiceIsDurable
<1>4. CASE ShutdownGathered
  BY <1>4 DEF ShutdownGathered, FlagsAreChoice, ChoiceIsDurable
<1>5. ASSUME NEW r \in Requests, Serve(r) PROVE FlagsAreChoice' /\ ChoiceIsDurable'
  <2>1. queue # <<>>
    BY <1>5 DEF Serve, Serves, StartHostRefused, StartHostNoop, StartHost, StopHostNoop,
       StopHost, StopHostTaskEnded, StopHostSettled, StartSimNoop, StartSim, StopSimNoop,
       StopSim, StopSimTaskEnded
  <2>2. proc = "up" /\ proc' = "up"
    BY <1>5, <2>1, ServeFrame DEF ServedOnlyWhenUp
  <2>3. choice = [host |-> hostActive, sim |-> simActive]
    BY <2>2 DEF FlagsAreChoice, TypeOK, Flags
  <2>4. choice' = [host |-> hostActive', sim |-> simActive']
        /\ (persisted' => pref' = choice' \/ (persisted /\ UNCHANGED <<pref, choice>>))
    <3>1. CASE StartHost(r)
      <4>1. persisted' => pref' = [host |-> TRUE, sim |-> simActive]
        BY <3>1, SaveEffect DEF StartHost
      <4>2. choice' = [host |-> TRUE, sim |-> simActive]
        <5>1. choice' = [choice EXCEPT !.host = TRUE]
          BY <3>1 DEF StartHost
        <5> QED
          BY <2>3, <5>1
      <4>3. hostActive' = TRUE /\ simActive' = simActive
        BY <3>1 DEF StartHost
      <4> QED
        BY <4>1, <4>2, <4>3
    <3>2. CASE StopHost(r)
      <4>1. persisted' => pref' = [host |-> FALSE, sim |-> simActive]
        BY <3>2, SaveEffect DEF StopHost
      <4>2. choice' = [host |-> FALSE, sim |-> simActive]
        <5>1. choice' = [choice EXCEPT !.host = FALSE]
          BY <3>2 DEF StopHost
        <5> QED
          BY <2>3, <5>1
      <4>3. hostActive' = FALSE /\ simActive' = simActive
        BY <3>2 DEF StopHost
      <4> QED
        BY <4>1, <4>2, <4>3
    <3>3. CASE StartSim(r)
      <4>1. persisted' => pref' = [host |-> hostActive, sim |-> TRUE]
        BY <3>3, SaveEffect DEF StartSim
      <4>2. choice' = [host |-> hostActive, sim |-> TRUE]
        <5>1. choice' = [choice EXCEPT !.sim = TRUE]
          BY <3>3 DEF StartSim
        <5> QED
          BY <2>3, <5>1
      <4>3. hostActive' = hostActive /\ simActive' = TRUE
        BY <3>3 DEF StartSim
      <4> QED
        BY <4>1, <4>2, <4>3
    <3>4. CASE StopSim(r)
      <4>1. persisted' => pref' = [host |-> hostActive, sim |-> FALSE]
        BY <3>4, SaveEffect DEF StopSim
      <4>2. choice' = [host |-> hostActive, sim |-> FALSE]
        <5>1. choice' = [choice EXCEPT !.sim = FALSE]
          BY <3>4 DEF StopSim
        <5> QED
          BY <2>3, <5>1
      <4>3. hostActive' = hostActive /\ simActive' = FALSE
        BY <3>4 DEF StopSim
      <4> QED
        BY <4>1, <4>2, <4>3
    <3>5. CASE StartHostRefused(r) \/ StartHostNoop(r) \/ StopHostNoop(r)
               \/ StopHostTaskEnded(r) \/ StopHostSettled(r) \/ StartSimNoop(r)
               \/ StopSimNoop(r) \/ StopSimTaskEnded(r)
      <4>1. UNCHANGED <<prefVars, hostActive, simActive>>
        BY <3>5 DEF StartHostRefused, StartHostNoop, StopHostNoop, StopHostTaskEnded,
           StopHostSettled, StartSimNoop, StopSimNoop, StopSimTaskEnded
      <4> QED
        BY <2>3, <4>1
    <3> QED
      BY <1>5, <3>1, <3>2, <3>3, <3>4, <3>5 DEF Serve
  <2> QED
    BY <2>2, <2>4 DEF FlagsAreChoice, ChoiceIsDurable
<1>6. ASSUME NEW r \in Requests, NEW op \in Ops, Call(r, op)
      PROVE  FlagsAreChoice' /\ ChoiceIsDurable'
  BY <1>6 DEF Call, FlagsAreChoice, ChoiceIsDurable
<1>7. CASE LoopStep
  BY <1>7, LoopFrame DEF FlagsAreChoice, ChoiceIsDurable
<1>8. ASSUME NEW w \in Workers, WorkerStep(w) PROVE FlagsAreChoice' /\ ChoiceIsDurable'
  BY <1>8, WorkerFrame DEF FlagsAreChoice, ChoiceIsDurable
<1>9. CASE ClientStep
  BY <1>9, ClientFrame DEF FlagsAreChoice, ChoiceIsDurable
<1>10. CASE UNCHANGED vars
  BY <1>10 DEF FlagsAreChoice, ChoiceIsDurable
<1> QED
  BY <1>1, <1>2, <1>3, <1>4, <1>5, <1>6, <1>7, <1>8, <1>9, <1>10, StepGroups

-----------------------------------------------------------------------------
(* The sensor's counters. *)

LEMMA AuditsAreFinite ==
  /\ IsFiniteSet(InAudit) /\ Cardinality(InAudit) \in Nat
  /\ IsFiniteSet(InManualAudit) /\ Cardinality(InManualAudit) \in Nat
<1>1. InAudit \subseteq Workers /\ InManualAudit \subseteq Manual
  BY DEF InAudit, InManualAudit
<1> QED
  BY <1>1, ConstantsOK, FS_Subset, FS_CardinalityType

LEMMA AuditBegins ==
  ASSUME NEW w, w \notin InAudit, InAudit' = InAudit \cup {w}
  PROVE  Cardinality(InAudit)' = Cardinality(InAudit) + 1
BY AuditsAreFinite, FS_AddElement

LEMMA AuditEnds ==
  ASSUME NEW w, w \in InAudit, InAudit' = InAudit \ {w}
  PROVE  Cardinality(InAudit)' = Cardinality(InAudit) - 1 /\ Cardinality(InAudit)' \in Nat
BY AuditsAreFinite, FS_RemoveElement, FS_CardinalityType

\* A worker is counted from Register to Leave, and nothing else moves it in or out.
LEMMA WorkerCounts ==
  ASSUME NEW w \in Workers, TypeOK, CountersAreExact, WorkerStep(w)
  PROVE  CountersAreExact'
<1> USE AuditsAreFinite
<1>1. InManualAudit' = InManualAudit
  BY WorkerFrame DEF InManualAudit
<1>2. CASE Register(w)
  <2>1. w \notin InAudit /\ InAudit' = InAudit \cup {w}
    BY <1>2 DEF Register, InAudit, Counted, TypeOK
  <2> QED
    BY <1>1, <1>2, <2>1, AuditBegins DEF Register, CountersAreExact
<1>3. CASE Leave(w)
  <2>1. worker'[w] \notin Counted /\ \A v \in Workers \ {w} : worker'[v] = worker[v]
    BY <1>3 DEF Leave, Finish, Counted, TypeOK
  <2>2. w \in InAudit /\ InAudit' = InAudit \ {w}
    BY <1>3, <2>1 DEF Leave, InAudit, Counted
  <2>3. Cardinality(InAudit)' = Cardinality(InAudit) - 1 /\ Cardinality(InAudit)' \in Nat
    BY <2>2, AuditEnds
  <2>4. Cardinality(InAudit) > 0 /\ Cardinality(InManualAudit)' = Cardinality(InManualAudit)
    BY <1>1, <2>3
  <2> QED
    BY <1>3, <2>3, <2>4 DEF Leave, Lowered, CountersAreExact
<1>4. CASE Enter(w) \/ Collect(w) \/ Ingest(w) \/ Commit(w) \/ Recheck(w) \/ Correlate(w)
  <2>1. \A v \in Workers \ {w} : worker'[v] = worker[v]
    BY <1>4 DEF Enter, Collect, Ingest, Commit, Recheck, Correlate, Finish, Checked, TypeOK
  <2>2. worker[w] \in Counted <=> worker'[w] \in Counted
    BY <1>4 DEF Enter, Collect, Ingest, Commit, Recheck, Correlate, Finish, Checked,
       TypeOK, Counted
  <2>3. InAudit' = InAudit
    BY <2>1, <2>2 DEF InAudit
  <2>4. UNCHANGED countVars
    BY <1>4 DEF Enter, Collect, Ingest, Commit, Recheck, Correlate
  <2> QED
    BY <1>1, <2>3, <2>4 DEF CountersAreExact
<1> QED
  BY <1>2, <1>3, <1>4 DEF WorkerStep

LEMMA CountersAreExactStep ==
  ASSUME TypeOK, EmptyWhenDown, CountersAreExact, [Next]_vars
  PROVE  CountersAreExact'
<1> USE AuditsAreFinite
<1>1. CASE Boot \/ Shutdown \/ ShutdownGathered \/ UNCHANGED vars
  BY <1>1 DEF Boot, Shutdown, ShutdownGathered, CountersAreExact, InAudit, InManualAudit
<1>2. CASE Vanish
  <2>1. InAudit' = {} /\ InManualAudit' = {}
    BY <1>2 DEF Vanish, InAudit, InManualAudit, Counted
  <2>2. Cardinality(InAudit)' = 0 /\ Cardinality(InManualAudit)' = 0
    BY <2>1, FS_EmptySet
  <2> QED
    BY <1>2, <2>2 DEF Vanish, CountersAreExact
<1>3. ASSUME NEW r \in Requests, Serve(r) PROVE CountersAreExact'
  BY <1>3, ServeFrame DEF CountersAreExact, InAudit, InManualAudit
<1>4. ASSUME NEW r \in Requests, NEW op \in Ops, Call(r, op) PROVE CountersAreExact'
  BY <1>4 DEF Call, CountersAreExact, InAudit, InManualAudit
<1>5. CASE LoopStep
  <2>1. \A v \in Workers : worker[v] \in Counted <=> worker'[v] \in Counted
    BY <1>5 DEF LoopStep, Resume, BroadcastEnded, TaskDies, Tick, Forget, Counted, TypeOK
  <2>2. InAudit' = InAudit /\ InManualAudit' = InManualAudit
    BY <1>5, <2>1, LoopFrame DEF InAudit, InManualAudit
  <2> QED
    BY <1>5, <2>2, LoopFrame DEF CountersAreExact
<1>6. ASSUME NEW w \in Workers, WorkerStep(w) PROVE CountersAreExact'
  BY <1>6, WorkerCounts
<1>7. CASE ClientStep
  <2>1. InAudit' = InAudit /\ autoWorkers' = autoWorkers
    BY <1>7, ClientFrame DEF InAudit
  <2>2. ASSUME NEW m \in Manual, ManualAudit(m) PROVE CountersAreExact'
    <3>1. m \notin InManualAudit /\ InManualAudit' = InManualAudit \cup {m}
      BY <2>2 DEF ManualAudit, InManualAudit, TypeOK
    <3>2. Cardinality(InManualAudit)' = Cardinality(InManualAudit) + 1
      BY <3>1, FS_AddElement
    <3> QED
      BY <2>1, <2>2, <3>2 DEF ManualAudit, CountersAreExact
  <2>3. ASSUME NEW m \in Manual, ManualAuditEnded(m) PROVE CountersAreExact'
    <3>1. m \in InManualAudit /\ InManualAudit' = InManualAudit \ {m}
      BY <2>3 DEF ManualAuditEnded, InManualAudit, TypeOK
    <3>2. /\ Cardinality(InManualAudit)' = Cardinality(InManualAudit) - 1
          /\ Cardinality(InManualAudit)' \in Nat
      BY <3>1, FS_RemoveElement, FS_CardinalityType
    <3>3. Cardinality(InManualAudit) > 0 /\ Cardinality(InAudit)' = Cardinality(InAudit)
      BY <2>1, <3>2
    <3> QED
      BY <2>1, <2>3, <3>2, <3>3 DEF ManualAuditEnded, Lowered, CountersAreExact
  <2>4. ASSUME NEW m \in Manual, Drill(m) \/ DrillLinked(m) PROVE CountersAreExact'
    <3>1. InManualAudit' = InManualAudit /\ activeWorkers' = activeWorkers
      BY <2>4 DEF Drill, DrillLinked, InManualAudit, TypeOK
    <3> QED
      BY <2>1, <3>1 DEF CountersAreExact
  <2>5. ASSUME NEW p \in Pollers, StatusSample(p) \/ StatusReport(p) PROVE CountersAreExact'
    <3>1. InManualAudit' = InManualAudit /\ activeWorkers' = activeWorkers
      BY <2>5 DEF StatusSample, StatusReport, InManualAudit
    <3> QED
      BY <2>1, <3>1 DEF CountersAreExact
  <2> QED
    BY <1>7, <2>2, <2>3, <2>4, <2>5 DEF ClientStep
<1> QED
  BY <1>1, <1>2, <1>3, <1>4, <1>5, <1>6, <1>7, StepGroups

-----------------------------------------------------------------------------
(* Commits and resumes. *)

\* A start that finds no automatic audit counted finds none about to commit.
LEMMA NoCommitAcrossResumeStep ==
  ASSUME TypeOK, EmptyWhenDown, CountersAreExact, NoCommitAcrossResume, [Next]_vars
  PROVE  NoCommitAcrossResume'
<1>1. CASE Boot
  BY <1>1 DEF Boot, EmptyWhenDown, NoCommitAcrossResume
<1>2. CASE Vanish
  BY <1>2 DEF Vanish, NoCommitAcrossResume
<1>3. CASE Shutdown
  BY <1>3 DEF Shutdown, NoCommitAcrossResume
<1>4. CASE ShutdownGathered
  BY <1>4 DEF ShutdownGathered, NoCommitAcrossResume
<1>5. ASSUME NEW r \in Requests, Serve(r) PROVE NoCommitAcrossResume'
  <2>1. CASE StartHost(r)
    <3>1. InAudit = {}
      BY <2>1, AuditsAreFinite, FS_EmptySet DEF StartHost, ScansQuiesced, CountersAreExact
    <3>2. \A w \in Workers : worker'[w] # "commit"
      BY <1>5, <3>1, ServeFrame DEF InAudit, Counted
    <3> QED
      BY <3>2 DEF NoCommitAcrossResume
  <2>2. CASE StopHost(r)
    BY <2>2 DEF StopHost, NoCommitAcrossResume
  <2>3. CASE StartHostRefused(r) \/ StartHostNoop(r) \/ StopHostNoop(r)
             \/ StopHostTaskEnded(r) \/ StopHostSettled(r) \/ StartSimNoop(r)
             \/ StartSim(r) \/ StopSimNoop(r) \/ StopSim(r) \/ StopSimTaskEnded(r)
    BY <2>3 DEF StartHostRefused, StartHostNoop, StopHostNoop, StopHostTaskEnded,
       StopHostSettled, StartSimNoop, StartSim, StopSimNoop, StopSim, StopSimTaskEnded,
       NoCommitAcrossResume
  <2> QED
    BY <1>5, <2>1, <2>2, <2>3 DEF Serve
<1>6. ASSUME NEW r \in Requests, NEW op \in Ops, Call(r, op) PROVE NoCommitAcrossResume'
  BY <1>6 DEF Call, NoCommitAcrossResume
<1>7. CASE LoopStep
  <2>1. \A w \in Workers : worker'[w] = "commit" => worker[w] = "commit" /\ gen'[w] = gen[w]
    BY <1>7 DEF LoopStep, Resume, BroadcastEnded, TaskDies, Tick, Forget, TypeOK
  <2> QED
    BY <1>7, <2>1, LoopFrame DEF NoCommitAcrossResume
<1>8. ASSUME NEW w \in Workers, WorkerStep(w) PROVE NoCommitAcrossResume'
  <2>1. \A v \in Workers :
          worker'[v] = "commit" => worker[v] = "commit" \/ ~Cancelled(gen[v])
    BY <1>8 DEF WorkerStep, Enter, Register, Collect, Ingest, Commit, Leave, Recheck,
       Correlate, Finish, Checked, TypeOK
  <2> QED
    BY <1>8, <2>1, WorkerFrame DEF NoCommitAcrossResume, Cancelled
<1>9. CASE ClientStep
  BY <1>9, ClientFrame DEF NoCommitAcrossResume
<1>10. CASE UNCHANGED vars
  BY <1>10 DEF NoCommitAcrossResume
<1> QED
  BY <1>1, <1>2, <1>3, <1>4, <1>5, <1>6, <1>7, <1>8, <1>9, <1>10, StepGroups

-----------------------------------------------------------------------------
(* The monitor loop. *)

\* A monitor loop is created only when the one referred to is done, and the reference
\* goes only when it is.
LEMMA MonitorLoopIsOwnedStep ==
  ASSUME TypeOK, EmptyWhenDown, MonitorLoopIsOwned, [Next]_vars
  PROVE  MonitorLoopIsOwned'
<1>1. CASE Boot
  BY <1>1 DEF Boot, EmptyWhenDown, MonitorLoopIsOwned, Live, TypeOK
<1>2. CASE Vanish
  BY <1>2 DEF Vanish, MonitorLoopIsOwned, Live
<1>3. CASE Shutdown
  BY <1>3 DEF Shutdown, Cancelling, MonitorLoopIsOwned, Live, TypeOK
<1>4. CASE ShutdownGathered
  BY <1>4 DEF ShutdownGathered, MonitorLoopIsOwned, Live
<1>5. ASSUME NEW r \in Requests, Serve(r) PROVE MonitorLoopIsOwned'
  <2>1. CASE StartHost(r)
    <3>1. CASE Live(monitorTask)
      BY <2>1, <3>1 DEF StartHost, MonitorLoopIsOwned, Live
    <3>2. CASE ~Live(monitorTask)
      BY <2>1, <3>2 DEF StartHost, Spawn, MonitorLoopIsOwned, Live, TypeOK
    <3> QED
      BY <3>1, <3>2
  <2>2. CASE StartSim(r)
    <3>1. CASE Live(simTask)
      BY <2>2, <3>1 DEF StartSim, MonitorLoopIsOwned, Live
    <3>2. CASE ~Live(simTask)
      BY <2>2, <3>2 DEF StartSim, Spawn, MonitorLoopIsOwned, Live, TypeOK
    <3> QED
      BY <3>1, <3>2
  <2>3. CASE StopHost(r)
    BY <2>3 DEF StopHost, Cancelling, MonitorLoopIsOwned, Live, TypeOK
  <2>4. CASE StopSim(r)
    BY <2>4 DEF StopSim, Cancelling, MonitorLoopIsOwned, Live, TypeOK
  <2>5. CASE StopHostSettled(r)
    BY <2>5 DEF StopHostSettled, StillRunning, MonitorLoopIsOwned, Live
  <2>6. CASE StopHostNoop(r)
    BY <2>6 DEF StopHostNoop, AlreadyPaused, MonitorLoopIsOwned, Live
  <2>7. CASE StartHostRefused(r) \/ StartHostNoop(r) \/ StopHostTaskEnded(r)
             \/ StartSimNoop(r) \/ StopSimNoop(r) \/ StopSimTaskEnded(r)
    BY <2>7 DEF StartHostRefused, StartHostNoop, StopHostTaskEnded, StartSimNoop,
       StopSimNoop, StopSimTaskEnded, MonitorLoopIsOwned, Live
  <2> QED
    BY <1>5, <2>1, <2>2, <2>3, <2>4, <2>5, <2>6, <2>7 DEF Serve
<1>6. ASSUME NEW r \in Requests, NEW op \in Ops, Call(r, op) PROVE MonitorLoopIsOwned'
  BY <1>6 DEF Call, MonitorLoopIsOwned, Live
<1>7. CASE LoopStep
  <2>1. \A t \in Tasks : task'[t] # "done" => task[t] # "done"
    BY <1>7 DEF LoopStep, Resume, BroadcastEnded, TaskDies, Tick, TypeOK
  <2> QED
    BY <1>7, <2>1, LoopFrame DEF MonitorLoopIsOwned, Live
<1>8. ASSUME NEW w \in Workers, WorkerStep(w) PROVE MonitorLoopIsOwned'
  BY <1>8, WorkerFrame DEF MonitorLoopIsOwned, Live
<1>9. CASE ClientStep
  BY <1>9, ClientFrame DEF MonitorLoopIsOwned, Live
<1>10. CASE UNCHANGED vars
  BY <1>10 DEF MonitorLoopIsOwned, Live
<1> QED
  BY <1>1, <1>2, <1>3, <1>4, <1>5, <1>6, <1>7, <1>8, <1>9, <1>10, StepGroups

\* stop_simulation drops its reference whether or not the loop has ended: it loses no loop as
\* long as cancelled loops end within the wait for them.
LEMMA SimulatorLoopIsOwnedStep ==
  ASSUME ~CancelMayTimeOut, TypeOK, EmptyWhenDown, SimulatorLoopIsOwned, [Next]_vars
  PROVE  SimulatorLoopIsOwned'
<1>1. CASE Boot
  BY <1>1 DEF Boot, EmptyWhenDown, SimulatorLoopIsOwned, Live, TypeOK
<1>2. CASE Vanish
  BY <1>2 DEF Vanish, SimulatorLoopIsOwned, Live
<1>3. CASE Shutdown
  BY <1>3 DEF Shutdown, Cancelling, SimulatorLoopIsOwned, Live, TypeOK
<1>4. CASE ShutdownGathered
  BY <1>4 DEF ShutdownGathered, SimulatorLoopIsOwned, Live
<1>5. ASSUME NEW r \in Requests, Serve(r) PROVE SimulatorLoopIsOwned'
  <2>1. CASE StartHost(r)
    <3>1. CASE Live(monitorTask)
      BY <2>1, <3>1 DEF StartHost, SimulatorLoopIsOwned, Live
    <3>2. CASE ~Live(monitorTask)
      BY <2>1, <3>2 DEF StartHost, Spawn, SimulatorLoopIsOwned, Live, TypeOK
    <3> QED
      BY <3>1, <3>2
  <2>2. CASE StartSim(r)
    <3>1. CASE Live(simTask)
      BY <2>2, <3>1 DEF StartSim, SimulatorLoopIsOwned, Live
    <3>2. CASE ~Live(simTask)
      BY <2>2, <3>2 DEF StartSim, Spawn, SimulatorLoopIsOwned, Live, TypeOK
    <3> QED
      BY <3>1, <3>2
  <2>3. CASE StopHost(r)
    BY <2>3 DEF StopHost, Cancelling, SimulatorLoopIsOwned, Live, TypeOK
  <2>4. CASE StopSim(r)
    BY <2>4 DEF StopSim, StillRunning, Cancelling, SimulatorLoopIsOwned, Live, TypeOK
  <2>5. CASE StopSimNoop(r) \/ StopSimTaskEnded(r)
    BY <2>5 DEF StopSimNoop, StopSimTaskEnded, SimulatorLoopIsOwned, Live
  <2>6. CASE StartHostRefused(r) \/ StartHostNoop(r) \/ StopHostNoop(r) \/ StopHostTaskEnded(r)
             \/ StopHostSettled(r) \/ StartSimNoop(r)
    BY <2>6 DEF StartHostRefused, StartHostNoop, StopHostNoop, StopHostTaskEnded,
       StopHostSettled, StartSimNoop, SimulatorLoopIsOwned, Live
  <2> QED
    BY <1>5, <2>1, <2>2, <2>3, <2>4, <2>5, <2>6 DEF Serve
<1>6. ASSUME NEW r \in Requests, NEW op \in Ops, Call(r, op) PROVE SimulatorLoopIsOwned'
  BY <1>6 DEF Call, SimulatorLoopIsOwned, Live
<1>7. CASE LoopStep
  <2>1. \A t \in Tasks : task'[t] # "done" => task[t] # "done"
    BY <1>7 DEF LoopStep, Resume, BroadcastEnded, TaskDies, Tick, TypeOK
  <2> QED
    BY <1>7, <2>1, LoopFrame DEF SimulatorLoopIsOwned, Live
<1>8. ASSUME NEW w \in Workers, WorkerStep(w) PROVE SimulatorLoopIsOwned'
  BY <1>8, WorkerFrame DEF SimulatorLoopIsOwned, Live
<1>9. CASE ClientStep
  BY <1>9, ClientFrame DEF SimulatorLoopIsOwned, Live
<1>10. CASE UNCHANGED vars
  BY <1>10 DEF SimulatorLoopIsOwned, Live
<1> QED
  BY <1>1, <1>2, <1>3, <1>4, <1>5, <1>6, <1>7, <1>8, <1>9, <1>10, StepGroups

\* A stop that leaves its loop alive says so, and a reader unsays it only once it is dead.
LEMMA SurvivorIsTimedOutStep ==
  ASSUME TypeOK, SurvivorIsTimedOut, ServedOnlyWhenUp, [Next]_vars
  PROVE  SurvivorIsTimedOut'
<1>1. CASE Boot
  BY <1>1, ConstantsOK DEF Boot, SurvivorIsTimedOut, Live, TypeOK
<1>2. CASE Vanish
  BY <1>2 DEF Vanish, SurvivorIsTimedOut
<1>3. CASE Shutdown
  BY <1>3 DEF Shutdown, SurvivorIsTimedOut
<1>4. CASE ShutdownGathered
  BY <1>4 DEF ShutdownGathered, SurvivorIsTimedOut
<1>5. ASSUME NEW r \in Requests, Serve(r) PROVE SurvivorIsTimedOut'
  <2>1. CASE StartHost(r)
    BY <2>1 DEF StartHost, SurvivorIsTimedOut
  <2>2. CASE StartSim(r)
    <3>1. CASE Live(simTask)
      BY <2>2, <3>1 DEF StartSim, SurvivorIsTimedOut, Live
    <3>2. CASE ~Live(simTask)
      BY <2>2, <3>2 DEF StartSim, Spawn, SurvivorIsTimedOut, Live, TypeOK
    <3> QED
      BY <3>1, <3>2
  <2>3. CASE StopHost(r)
    BY <2>3 DEF StopHost, SurvivorIsTimedOut
  <2>4. CASE StopSim(r)
    BY <2>4 DEF StopSim, Cancelling, SurvivorIsTimedOut, Live, TypeOK
  <2>5. CASE StopHostSettled(r)
    BY <2>5, ConstantsOK DEF StopHostSettled, StillRunning, SurvivorIsTimedOut, Live
  <2>6. CASE StopHostNoop(r)
    BY <2>6, ConstantsOK DEF StopHostNoop, SurvivorIsTimedOut, Live
  <2>7. CASE StartHostRefused(r) \/ StartHostNoop(r) \/ StopHostTaskEnded(r)
             \/ StartSimNoop(r) \/ StopSimNoop(r) \/ StopSimTaskEnded(r)
    BY <2>7 DEF StartHostRefused, StartHostNoop, StopHostTaskEnded, StartSimNoop,
       StopSimNoop, StopSimTaskEnded, SurvivorIsTimedOut, Live
  <2> QED
    BY <1>5, <2>1, <2>2, <2>3, <2>4, <2>5, <2>6, <2>7 DEF Serve
<1>6. ASSUME NEW r \in Requests, NEW op \in Ops, Call(r, op) PROVE SurvivorIsTimedOut'
  BY <1>6 DEF Call, SurvivorIsTimedOut, Live
<1>7. CASE LoopStep
  <2>1. \A t \in Tasks : task'[t] # "done" => task[t] # "done"
    BY <1>7 DEF LoopStep, Resume, BroadcastEnded, TaskDies, Tick, TypeOK
  <2> QED
    BY <1>7, <2>1, LoopFrame DEF SurvivorIsTimedOut, Live
<1>8. ASSUME NEW w \in Workers, WorkerStep(w) PROVE SurvivorIsTimedOut'
  BY <1>8, WorkerFrame DEF SurvivorIsTimedOut, Live
<1>9. CASE ClientStep
  <2>1. timedOut' = timedOut \/ ~Live(monitorTask)
    BY <1>9 DEF ClientStep, ManualAudit, ManualAuditEnded, Drill, DrillLinked, StatusSample,
       StatusReport, Heals, TypeOK
  <2> QED
    BY <1>9, <2>1, ClientFrame DEF SurvivorIsTimedOut, Live
<1>10. CASE UNCHANGED vars
  BY <1>10 DEF SurvivorIsTimedOut, Live
<1> QED
  BY <1>1, <1>2, <1>3, <1>4, <1>5, <1>6, <1>7, <1>8, <1>9, <1>10, StepGroups

-----------------------------------------------------------------------------
(* Loops and the workers they await. *)

\* A loop that lets its worker go disturbs no other.
LEMMA OthersStay ==
  ASSUME NEW t \in Tasks, AwaitsAreExclusive, BroadcastHasWorker,
         awaits'[t] = None, task'[t] \in {"sleep", "done"},
         \A u \in Tasks \ {t} :
           /\ task'[u] = task[u] /\ awaits'[u] = awaits[u] /\ kind'[u] = kind[u]
           /\ awaits[u] \in Workers => worker'[awaits[u]] = worker[awaits[u]]
  PROVE  AwaitsAreExclusive' /\ BroadcastHasWorker'
<1>1. \A u \in Tasks : awaits'[u] \in Workers => u # t /\ awaits[u] \in Workers
  BY ConstantsOK
<1>2. AwaitsAreExclusive'
  BY <1>1 DEF AwaitsAreExclusive
<1>3. BroadcastHasWorker'
  BY <1>1 DEF BroadcastHasWorker
<1> QED
  BY <1>2, <1>3

LEMMA LoopsAndWorkersStep ==
  ASSUME TypeOK, AwaitsAreExclusive, BroadcastHasWorker, [Next]_vars
  PROVE  AwaitsAreExclusive' /\ BroadcastHasWorker'
<1> USE ConstantsOK
<1>1. CASE Boot
  BY <1>1 DEF Boot, AwaitsAreExclusive, BroadcastHasWorker, TypeOK
<1>2. CASE Vanish
  BY <1>2 DEF Vanish, AwaitsAreExclusive, BroadcastHasWorker
<1>3. CASE Shutdown
  BY <1>3 DEF Shutdown, Cancelling, AwaitsAreExclusive, BroadcastHasWorker, TypeOK
<1>4. CASE ShutdownGathered
  BY <1>4 DEF ShutdownGathered, AwaitsAreExclusive, BroadcastHasWorker
<1>5. ASSUME NEW r \in Requests, Serve(r)
      PROVE  AwaitsAreExclusive' /\ BroadcastHasWorker'
  <2>1. UNCHANGED <<awaits, worker>>
    BY <1>5, ServeFrame DEF Serve, StartHostRefused, StartHostNoop, StartHost, StopHostNoop,
       StopHost, StopHostTaskEnded, StopHostSettled, StartSimNoop, StartSim, StopSimNoop,
       StopSim, StopSimTaskEnded, Spawn
  <2>2. \A t \in Tasks : task'[t] \in {"scan", "broadcast"}
                           => task'[t] = task[t] /\ kind'[t] = kind[t]
    BY <1>5 DEF Serve, StartHostRefused, StartHostNoop, StartHost, StopHostNoop,
       StopHost, StopHostTaskEnded, StopHostSettled, StartSimNoop, StartSim, StopSimNoop,
       StopSim, StopSimTaskEnded, Spawn, Cancelling, TypeOK
  <2> QED
    BY <2>1, <2>2 DEF AwaitsAreExclusive, BroadcastHasWorker
<1>6. ASSUME NEW r \in Requests, NEW op \in Ops, Call(r, op)
      PROVE  AwaitsAreExclusive' /\ BroadcastHasWorker'
  BY <1>6 DEF Call, AwaitsAreExclusive, BroadcastHasWorker
<1>7. ASSUME NEW t \in Tasks, NEW w \in Workers, Tick(t, w)
      PROVE  AwaitsAreExclusive' /\ BroadcastHasWorker'
  <2>1. \A u \in Tasks : awaits[u] # w
    BY <1>7 DEF Tick, AwaitsAreExclusive
  <2> QED
    BY <1>7, <2>1 DEF Tick, AwaitsAreExclusive, BroadcastHasWorker, TypeOK
<1>8. ASSUME NEW t \in Tasks, Resume(t)
      PROVE  AwaitsAreExclusive' /\ BroadcastHasWorker'
  <2>1. kind[t] = "monitor" /\ awaits[t] \in Workers
    BY <1>8 DEF Resume, BroadcastHasWorker
  <2>2. CASE task'[t] = "broadcast"
    BY <1>8, <2>1, <2>2 DEF Resume, AwaitsAreExclusive, BroadcastHasWorker, TypeOK
  <2>3. CASE task'[t] # "broadcast"
    <3>1. \A u \in Tasks \ {t} :
            /\ task'[u] = task[u] /\ awaits'[u] = awaits[u] /\ kind'[u] = kind[u]
            /\ awaits[u] \in Workers => worker'[awaits[u]] = worker[awaits[u]]
      BY <1>8, <2>1, <2>3 DEF Resume, AwaitsAreExclusive, TypeOK
    <3>2. awaits'[t] = None /\ task'[t] = "sleep"
      BY <1>8, <2>3 DEF Resume, TypeOK
    <3> QED
      BY <3>1, <3>2, OthersStay
  <2> QED
    BY <2>2, <2>3
<1>9. ASSUME NEW t \in Tasks, BroadcastEnded(t) \/ TaskDies(t)
      PROVE  AwaitsAreExclusive' /\ BroadcastHasWorker'
  <2>1. Forget(t) /\ UNCHANGED kind
    BY <1>9 DEF BroadcastEnded, TaskDies
  <2>2. \A u \in Tasks \ {t} :
          /\ task'[u] = task[u] /\ awaits'[u] = awaits[u] /\ kind'[u] = kind[u]
          /\ awaits[u] \in Workers => worker'[awaits[u]] = worker[awaits[u]]
    BY <1>9, <2>1 DEF BroadcastEnded, TaskDies, Forget, AwaitsAreExclusive, TypeOK
  <2>3. awaits'[t] = None /\ task'[t] \in {"sleep", "done"}
    BY <1>9, <2>1 DEF BroadcastEnded, TaskDies, Forget, TypeOK
  <2> QED
    BY <2>2, <2>3, OthersStay
<1>10. ASSUME NEW w \in Workers, WorkerStep(w)
       PROVE  AwaitsAreExclusive' /\ BroadcastHasWorker'
  <2>1. \A v \in Workers \ {w} : worker'[v] = worker[v]
    BY <1>10 DEF WorkerStep, Enter, Register, Collect, Ingest, Commit, Leave, Recheck,
       Correlate, Finish, Checked, TypeOK
  <2>2. worker[w] # "finished" /\ (worker'[w] = "idle" => ~Awaited(w))
    BY <1>10 DEF WorkerStep, Enter, Register, Collect, Ingest, Commit, Leave, Recheck,
       Correlate, Finish, Checked, TypeOK
  <2>3. UNCHANGED <<awaits, task, kind>>
    BY <1>10, WorkerFrame
  <2> QED
    BY <2>1, <2>2, <2>3 DEF AwaitsAreExclusive, BroadcastHasWorker, Awaited
<1>11. CASE ClientStep
  BY <1>11, ClientFrame DEF AwaitsAreExclusive, BroadcastHasWorker
<1>12. CASE UNCHANGED vars
  BY <1>12 DEF AwaitsAreExclusive, BroadcastHasWorker
<1> QED
  BY <1>1, <1>2, <1>3, <1>4, <1>5, <1>6, <1>7, <1>8, <1>9, <1>10, <1>11, <1>12, StepGroups
  DEF LoopStep

\* A broadcast begins only after the check, and whoever would make it stale cancels the
\* one loop there is.
LEMMA BroadcastIsCurrentStep ==
  ASSUME TypeOK, EmptyWhenDown, MonitorLoopIsOwned, AwaitsAreExclusive,
         BroadcastHasWorker, BroadcastIsCurrent, [Next]_vars
  PROVE  BroadcastIsCurrent'
<1> USE ConstantsOK
<1>1. CASE Boot
  BY <1>1 DEF Boot, EmptyWhenDown, BroadcastIsCurrent, TypeOK
<1>2. CASE Vanish
  BY <1>2 DEF Vanish, BroadcastIsCurrent
<1>3. \A t \in Tasks : task[t] = "broadcast" => t = monitorTask
  BY DEF BroadcastHasWorker, MonitorLoopIsOwned, Live
<1>4. CASE Shutdown
  BY <1>3, <1>4 DEF Shutdown, Cancelling, Live, BroadcastIsCurrent, TypeOK
<1>5. CASE ShutdownGathered
  BY <1>5 DEF ShutdownGathered, BroadcastIsCurrent, Cancelled
<1>6. ASSUME NEW r \in Requests, Serve(r) PROVE BroadcastIsCurrent'
  <2>1. CASE StopHost(r)
    BY <1>3, <2>1 DEF StopHost, Cancelling, Live, BroadcastIsCurrent, TypeOK
  <2>2. CASE ~StopHost(r)
    <3>1. /\ \/ hostActive' = TRUE /\ cancelEvent' = FALSE
             \/ UNCHANGED <<hostActive, cancelEvent>>
          /\ UNCHANGED <<scanGeneration, awaits, gen>>
      <4>1. CASE StartHost(r)
        BY <1>6, <4>1, ServeFrame DEF StartHost, Spawn, ResetCancellation
      <4>2. CASE ~StartHost(r)
        BY <1>6, <2>2, <4>2, ServeFrame DEF Serve, StartHostRefused, StartHostNoop,
           StopHostNoop, StopHostTaskEnded, StopHostSettled, StartSimNoop, StartSim,
           StopSimNoop, StopSim, StopSimTaskEnded, Spawn
      <4> QED
        BY <4>1, <4>2
    <3>2. \A t \in Tasks : task'[t] = "broadcast" => task[t] = "broadcast"
      BY <1>6 DEF Serve, StartHostRefused, StartHostNoop, StartHost, StopHostNoop,
         StopHost, StopHostTaskEnded, StopHostSettled, StartSimNoop, StartSim, StopSimNoop,
         StopSim, StopSimTaskEnded, Spawn, Cancelling, TypeOK
    <3> QED
      BY <3>1, <3>2 DEF BroadcastIsCurrent, Cancelled
  <2> QED
    BY <2>1, <2>2
<1>7. ASSUME NEW r \in Requests, NEW op \in Ops, Call(r, op) PROVE BroadcastIsCurrent'
  BY <1>7 DEF Call, BroadcastIsCurrent, Cancelled
<1>8. ASSUME NEW t \in Tasks, NEW w \in Workers, Tick(t, w) PROVE BroadcastIsCurrent'
  <2>1. \A u \in Tasks : awaits[u] # w
    BY <1>8 DEF Tick, AwaitsAreExclusive
  <2> QED
    BY <1>8, <2>1 DEF Tick, BroadcastIsCurrent, BroadcastHasWorker, Cancelled, TypeOK
<1>9. ASSUME NEW t \in Tasks, Resume(t) PROVE BroadcastIsCurrent'
  BY <1>9 DEF Resume, BroadcastIsCurrent, Cancelled, TypeOK
<1>10. ASSUME NEW t \in Tasks, BroadcastEnded(t) \/ TaskDies(t) PROVE BroadcastIsCurrent'
  BY <1>10 DEF BroadcastEnded, TaskDies, Forget, BroadcastIsCurrent, Cancelled, TypeOK
<1>11. ASSUME NEW w \in Workers, WorkerStep(w) PROVE BroadcastIsCurrent'
  BY <1>11, WorkerFrame DEF BroadcastIsCurrent, Cancelled
<1>12. CASE ClientStep
  BY <1>12, ClientFrame DEF BroadcastIsCurrent, Cancelled
<1>13. CASE UNCHANGED vars
  BY <1>13 DEF BroadcastIsCurrent, Cancelled
<1> QED
  BY <1>1, <1>2, <1>4, <1>5, <1>6, <1>7, <1>8, <1>9, <1>10, <1>11, <1>12, <1>13, StepGroups
  DEF LoopStep

-----------------------------------------------------------------------------
(* Theorems. *)

LEMMA IInvInit == Init => IInv
<1> SUFFICES ASSUME Init PROVE IInv
  OBVIOUS
<1>1. TypeOK
  BY InitType
<1>2. EmptyWhenDown /\ FlagsAreChoice /\ ChoiceIsDurable /\ SurvivorIsTimedOut
  BY DEF Init, EmptyWhenDown, FlagsAreChoice, ChoiceIsDurable, SurvivorIsTimedOut
<1>3. ServedOnlyWhenUp /\ HolderIsHead /\ PausingIsHeld
  BY DEF Init, ServedOnlyWhenUp, HolderIsHead, PausingIsHeld, NoSample, InsideLock
<1>4. CountersAreExact
  <2>1. InAudit = {} /\ InManualAudit = {}
    BY DEF Init, InAudit, InManualAudit, Counted
  <2>2. Cardinality(InAudit) = 0 /\ Cardinality(InManualAudit) = 0
    BY <2>1, FS_EmptySet
  <2> QED
    BY <2>2 DEF Init, CountersAreExact
<1>5. NoCommitAcrossResume /\ MonitorLoopIsOwned /\ BroadcastIsCurrent
  BY DEF Init, NoCommitAcrossResume, MonitorLoopIsOwned, BroadcastIsCurrent, Live
<1>6. AwaitsAreExclusive /\ BroadcastHasWorker
  BY ConstantsOK DEF Init, AwaitsAreExclusive, BroadcastHasWorker
<1> QED
  BY <1>1, <1>2, <1>3, <1>4, <1>5, <1>6 DEF IInv

LEMMA IInvStep == IInv /\ [Next]_vars => IInv'
<1> SUFFICES ASSUME IInv, [Next]_vars PROVE IInv'
  OBVIOUS
<1>1. TypeOK'
  BY TypeStep DEF IInv
<1>2. EmptyWhenDown' /\ ServedOnlyWhenUp'
  BY EmptyWhenDownStep, ServedOnlyWhenUpStep DEF IInv
<1>3. HolderIsHead' /\ PausingIsHeld'
  BY HolderIsHeadStep, PausingIsHeldStep DEF IInv
<1>4. FlagsAreChoice' /\ ChoiceIsDurable'
  BY <1>1, ChoiceStep DEF IInv
<1>5. CountersAreExact' /\ NoCommitAcrossResume'
  BY CountersAreExactStep, NoCommitAcrossResumeStep DEF IInv
<1>6. MonitorLoopIsOwned' /\ SurvivorIsTimedOut'
  BY MonitorLoopIsOwnedStep, SurvivorIsTimedOutStep DEF IInv
<1>7. AwaitsAreExclusive' /\ BroadcastHasWorker' /\ BroadcastIsCurrent'
  BY LoopsAndWorkersStep, BroadcastIsCurrentStep DEF IInv
<1> QED
  BY <1>1, <1>2, <1>3, <1>4, <1>5, <1>6, <1>7 DEF IInv

LEMMA Invariance == Spec => []IInv
BY IInvInit, IInvStep, PTL DEF Spec

\* Alerts gathered before a pause are never committed after the resume that ends it,
\* however many audits, calls, time-outs and restarts there are.
THEOREM NoCommitAcrossResumeHolds == Spec => []NoCommitAcrossResume
<1>1. IInv => NoCommitAcrossResume
  BY DEF IInv
<1> QED
  BY <1>1, Invariance, PTL

\* The sensor's counters equal the scans that are running, on every path through an audit.
THEOREM CountersExact == Spec => []CountersAreExact
<1>1. IInv => CountersAreExact
  BY DEF IInv
<1> QED
  BY <1>1, Invariance, PTL

\* There is never a monitor loop that the manager has lost, even if cancelled loops
\* outlive the wait for them.
THEOREM MonitorLoopOwned == Spec => []MonitorLoopIsOwned
<1>1. IInv => MonitorLoopIsOwned
  BY DEF IInv
<1> QED
  BY <1>1, Invariance, PTL

\* Nor is there a simulator loop that the manager has lost, if cancelled loops end within the
\* wait for them (_cancel_and_await_task, app/security/stream.py): stop_simulation does not look.
THEOREM SimulatorLoopOwned ==
  ASSUME ~CancelMayTimeOut
  PROVE  Spec => []SimulatorLoopIsOwned
<1>1. Init => SimulatorLoopIsOwned
  BY DEF Init, SimulatorLoopIsOwned, Live
<1>2. IInv /\ SimulatorLoopIsOwned /\ [Next]_vars => SimulatorLoopIsOwned'
  BY SimulatorLoopIsOwnedStep DEF IInv
<1> QED
  BY <1>1, <1>2, Invariance, PTL DEF Spec

\* PAUSING is shown exactly while a stop holds the lock.
THEOREM PausingHeld == Spec => []PausingIsHeld
<1>1. IInv => PausingIsHeld
  BY DEF IInv
<1> QED
  BY <1>1, Invariance, PTL

\* A preference reported as persisted is what the file says, across toggles, failed
\* saves, shutdowns, crashes and restarts.
THEOREM ChoiceDurable == Spec => []ChoiceIsDurable
<1>1. IInv => ChoiceIsDurable
  BY DEF IInv
<1> QED
  BY <1>1, Invariance, PTL

\* No loop broadcasts findings of a generation that is over.
THEOREM BroadcastCurrent == Spec => []BroadcastIsCurrent
<1>1. IInv => BroadcastIsCurrent
  BY DEF IInv
<1> QED
  BY <1>1, Invariance, PTL

\* A reader that is told PAUSED is told so when no monitor loop is left and no stop is
\* half way, whatever the reader saw of the counters and however long ago.
THEOREM PausedReportQuiet == Spec => PausedReportIsQuiet
<1>1. ASSUME IInv, [Next]_vars
      PROVE  [\A p \in Pollers : Reports(p, "PAUSED") =>
                /\ \A t \in Tasks : Live(t) => kind[t] = "simulator"
                /\ \A r \in Requests : pc[r] \notin {"cancelHost", "quiesce"}]_vars
  <2> SUFFICES ASSUME NEW p \in Pollers, Reports(p, "PAUSED")
               PROVE  /\ \A t \in Tasks : Live(t) => kind[t] = "simulator"
                      /\ \A r \in Requests : pc[r] \notin {"cancelHost", "quiesce"}
    OBVIOUS
  <2> USE <1>1
  <2>1. transition = "none" /\ ~hostActive /\ ~timedOut'
    BY DEF Reports, MonitoringState, IInv, TypeOK
  <2>2. proc = "up" /\ (~timedOut \/ ~Live(monitorTask))
    BY <2>1 DEF Reports, StatusReport, Heals, IInv, ServedOnlyWhenUp
  <2>3. ~Live(monitorTask)
    BY <2>1, <2>2 DEF IInv, SurvivorIsTimedOut
  <2>4. \A t \in Tasks : Live(t) => kind[t] = "simulator"
    BY <2>3 DEF IInv, MonitorLoopIsOwned, TypeOK
  <2>5. \A r \in Requests : pc[r] \notin {"cancelHost", "quiesce"}
    BY <2>1 DEF IInv, PausingIsHeld
  <2> QED
    BY <2>4, <2>5
<1> QED
  BY <1>1, Invariance, PTL DEF Spec, PausedReportIsQuiet

-----------------------------------------------------------------------------
(* The refinement: where each action of a worker leads in AuditAuthority.  *)

Gathering == {"queued", "register", "collect", "ingest"}

LEMMA AuthorityIs ==
  ASSUME NEW w \in Workers
  PROVE  /\ worker[w] \in Gathering
              => AuthorityOf(w) = [state |-> "gathering", epoch |-> gen[w]]
         /\ worker[w] = "commit" => AuthorityOf(w) = [state |-> "sealed", epoch |-> gen[w]]
         /\ worker[w] \notin Gathering \cup {"commit"}
              => AuthorityOf(w) = [state |-> "none", epoch |-> 0]
BY DEF AuthorityOf, Gathering

LEMMA AuthorityBecomes ==
  ASSUME NEW w \in Workers
  PROVE  /\ worker'[w] \in Gathering
              => AuthorityOf(w)' = [state |-> "gathering", epoch |-> gen'[w]]
         /\ worker'[w] = "commit"
              => AuthorityOf(w)' = [state |-> "sealed", epoch |-> gen'[w]]
         /\ worker'[w] \notin Gathering \cup {"commit"}
              => AuthorityOf(w)' = [state |-> "none", epoch |-> 0]
BY DEF AuthorityOf, Gathering

\* Nothing is sealed when no worker is about to commit.
LEMMA NothingSealed ==
  ASSUME \A w \in Workers : worker[w] # "commit"
  PROVE  \A w \in Workers : [v \in Workers |-> AuthorityOf(v)][w].state # "sealed"
<1> TAKE w \in Workers
<1>1. AuthorityOf(w).state # "sealed"
  BY AuthorityIs DEF Gathering
<1> QED
  BY <1>1

LEMMA Stutters ==
  ASSUME UNCHANGED <<hostActive, scanGeneration>>,
         \A w \in Workers : AuthorityOf(w)' = AuthorityOf(w)
  PROVE  UNCHANGED Authority!avars
BY DEF Authority!avars

LEMMA Concludes ==
  ASSUME NEW w \in Workers,
         UNCHANGED <<hostActive, scanGeneration, gen>>,
         \A v \in Workers \ {w} : worker'[v] = worker[v],
         worker[w] \in Gathering \cup {"commit"},
         worker'[w] \notin Gathering \cup {"commit"}
  PROVE  Authority!Conclude(w)
<1>1. \A v \in Workers \ {w} : AuthorityOf(v)' = AuthorityOf(v)
  BY DEF AuthorityOf
<1>2. AuthorityOf(w).state # "none" /\ AuthorityOf(w)' = [state |-> "none", epoch |-> 0]
  BY AuthorityIs, AuthorityBecomes
<1> QED
  BY <1>1, <1>2 DEF Authority!Conclude, Authority!NoAudit

\* A worker that is let go before its thread began has concluded; a finished one had.
LEMMA ForgetConcludes ==
  ASSUME TypeOK, NEW t \in Tasks, Forget(t), UNCHANGED <<hostActive, scanGeneration, gen>>
  PROVE  [Authority!ANext]_Authority!avars
<1>1. CASE awaits[t] \in Workers /\ worker[awaits[t]] = "queued"
  <2>1. /\ worker'[awaits[t]] = "idle"
        /\ \A v \in Workers \ {awaits[t]} : worker'[v] = worker[v]
    BY <1>1, ConstantsOK DEF Forget, TypeOK
  <2>2. Authority!Conclude(awaits[t])
    BY <1>1, <2>1, Concludes DEF Gathering
  <2> QED
    BY <1>1, <2>2 DEF Authority!ANext
<1>2. CASE ~(awaits[t] \in Workers /\ worker[awaits[t]] = "queued")
  <2>1. \A v \in Workers : \/ worker'[v] = worker[v]
                           \/ worker[v] = "finished" /\ worker'[v] = "idle"
    BY <1>2, ConstantsOK DEF Forget, TypeOK
  <2>2. \A v \in Workers : AuthorityOf(v)' = AuthorityOf(v)
    BY <2>1 DEF AuthorityOf
  <2> QED
    BY <2>2, Stutters
<1> QED
  BY <1>1, <1>2

\* Every step of an audit thread seals, concludes or is of no account.
LEMMA WorkerImplements ==
  ASSUME TypeOK, NEW w \in Workers, WorkerStep(w)
  PROVE  [Authority!ANext]_Authority!avars
<1>1. UNCHANGED <<hostActive, scanGeneration, gen>>
  BY WorkerFrame
<1>2. \A v \in Workers \ {w} : worker'[v] = worker[v]
  BY DEF WorkerStep, Enter, Register, Collect, Ingest, Commit, Leave, Recheck, Correlate,
     Finish, Checked, TypeOK
<1>3. \/ worker[w] \in Gathering /\ worker'[w] \in Gathering
      \/ worker[w] \notin Gathering \cup {"commit"}
         /\ worker'[w] \notin Gathering \cup {"commit"}
      \/ worker[w] \in Gathering \cup {"commit"}
         /\ worker'[w] \notin Gathering \cup {"commit"}
      \/ worker[w] \in Gathering /\ worker'[w] = "commit" /\ ~Cancelled(gen[w])
  <2>1. CASE Enter(w) \/ Register(w) \/ Collect(w)
    BY <2>1 DEF Enter, Register, Collect, Finish, Checked, Gathering, TypeOK
  <2>2. CASE Ingest(w)
    BY <2>2 DEF Ingest, Checked, Gathering, TypeOK
  <2>3. CASE Commit(w) \/ Leave(w) \/ Recheck(w) \/ Correlate(w)
    BY <2>3 DEF Commit, Leave, Recheck, Correlate, Finish, Gathering, TypeOK
  <2> QED
    BY <2>1, <2>2, <2>3 DEF WorkerStep
<1>4. CASE \/ worker[w] \in Gathering /\ worker'[w] \in Gathering
           \/ worker[w] \notin Gathering \cup {"commit"}
              /\ worker'[w] \notin Gathering \cup {"commit"}
  <2>1. AuthorityOf(w)' = AuthorityOf(w)
    <3>1. CASE worker[w] \in Gathering /\ worker'[w] \in Gathering
      <4>1. /\ AuthorityOf(w) = [state |-> "gathering", epoch |-> gen[w]]
            /\ AuthorityOf(w)' = [state |-> "gathering", epoch |-> gen'[w]]
        BY <3>1, AuthorityIs, AuthorityBecomes
      <4> QED
        BY <1>1, <4>1
    <3>2. CASE /\ worker[w] \notin Gathering \cup {"commit"}
               /\ worker'[w] \notin Gathering \cup {"commit"}
      BY <3>2, AuthorityIs, AuthorityBecomes
    <3> QED
      BY <1>4, <3>1, <3>2
  <2>2. \A v \in Workers \ {w} : AuthorityOf(v)' = AuthorityOf(v)
    BY <1>1, <1>2 DEF AuthorityOf
  <2> QED
    BY <1>1, <2>1, <2>2, Stutters
<1>5. CASE worker[w] \in Gathering \cup {"commit"} /\ worker'[w] \notin Gathering \cup {"commit"}
  BY <1>1, <1>2, <1>5, Concludes DEF Authority!ANext
<1>6. CASE worker[w] \in Gathering /\ worker'[w] = "commit" /\ ~Cancelled(gen[w])
  <2>1. hostActive /\ gen[w] = scanGeneration
    BY <1>6 DEF Cancelled
  <2>2. \A v \in Workers \ {w} : AuthorityOf(v)' = AuthorityOf(v)
    BY <1>1, <1>2 DEF AuthorityOf
  <2>3. /\ AuthorityOf(w) = [state |-> "gathering", epoch |-> scanGeneration]
        /\ AuthorityOf(w)' = [state |-> "sealed", epoch |-> scanGeneration]
    BY <1>1, <1>6, <2>1, AuthorityIs, AuthorityBecomes
  <2>4. Authority!Seal(w)
    <3>1. AuthorityOf(w)' = [AuthorityOf(w) EXCEPT !.state = "sealed"]
      BY <2>3
    <3>2. [v \in Workers |-> AuthorityOf(v)]'
            = [[v \in Workers |-> AuthorityOf(v)] EXCEPT ![w].state = "sealed"]
      BY <2>2, <3>1
    <3> QED
      BY <1>1, <2>1, <2>3, <3>2 DEF Authority!Seal
  <2> QED
    BY <2>4 DEF Authority!ANext
<1> QED
  BY <1>3, <1>4, <1>5, <1>6

-----------------------------------------------------------------------------

LEMMA ImplementsInit == Init => Authority!AInit
<1> SUFFICES ASSUME Init PROVE Authority!AInit
  OBVIOUS
<1>1. \A w \in Workers : AuthorityOf(w) = [state |-> "none", epoch |-> 0]
  BY AuthorityIs DEF Init, Gathering
<1> QED
  BY <1>1 DEF Init, Authority!AInit, Authority!NoAudit

\* Each group of actions, in turn, as a step of AuditAuthority or as none.
LEMMA ImplementsStep ==
  ASSUME IInv, [Next]_vars
  PROVE  [Authority!ANext]_Authority!avars
<1>1. CASE Boot
  <2>1. \A w \in Workers : AuthorityOf(w)' = AuthorityOf(w)
    BY <1>1 DEF Boot, AuthorityOf
  <2>2. (\A w \in Workers : worker[w] # "commit") /\ hostActive = FALSE
    BY <1>1 DEF Boot, IInv, EmptyWhenDown, TypeOK
  <2>3. CASE pref.host
    <3>1. hostActive' = TRUE /\ UNCHANGED scanGeneration
      BY <1>1, <2>3 DEF Boot, IInv, TypeOK, Flags
    <3>2. Authority!TurnOn
      BY <2>1, <2>2, <3>1, NothingSealed DEF Authority!TurnOn
    <3> QED
      BY <3>2 DEF Authority!ANext
  <2>4. CASE ~pref.host
    <3>1. UNCHANGED <<hostActive, scanGeneration>>
      BY <1>1, <2>2, <2>4 DEF Boot, IInv, TypeOK, Flags
    <3> QED
      BY <2>1, <3>1, Stutters
  <2> QED
    BY <2>3, <2>4
<1>2. CASE Vanish
  <2>1. \A w \in Workers : AuthorityOf(w)' = [state |-> "none", epoch |-> 0]
    BY <1>2, AuthorityBecomes DEF Vanish, Gathering
  <2>2. Authority!Vanish
    BY <1>2, <2>1 DEF Vanish, Authority!Vanish, Authority!NoAudit
  <2> QED
    BY <2>2 DEF Authority!ANext
<1>3. CASE Shutdown
  <2>1. \A w \in Workers : AuthorityOf(w)' = AuthorityOf(w)
    BY <1>3 DEF Shutdown, AuthorityOf
  <2>2. Authority!TurnOff
    BY <1>3, <2>1 DEF Shutdown, RequestCancellation, Authority!TurnOff
  <2> QED
    BY <2>2 DEF Authority!ANext
<1>4. CASE ShutdownGathered
  <2>1. \A w \in Workers : AuthorityOf(w)' = AuthorityOf(w)
    BY <1>4 DEF ShutdownGathered, AuthorityOf
  <2> QED
    BY <1>4, <2>1, Stutters DEF ShutdownGathered
<1>5. ASSUME NEW r \in Requests, Serve(r) PROVE [Authority!ANext]_Authority!avars
  <2>1. \A w \in Workers : AuthorityOf(w)' = AuthorityOf(w)
    BY <1>5, ServeFrame DEF AuthorityOf
  <2>2. CASE StartHost(r)
    <3>1. InAudit = {}
      BY <2>2, AuditsAreFinite, FS_EmptySet
      DEF StartHost, ScansQuiesced, IInv, CountersAreExact
    <3>2. \A w \in Workers : worker[w] # "commit"
      BY <3>1 DEF InAudit, Counted
    <3>3. Authority!TurnOn
      BY <2>1, <2>2, <3>2, NothingSealed DEF StartHost, Authority!TurnOn
    <3> QED
      BY <3>3 DEF Authority!ANext
  <2>3. CASE StopHost(r)
    <3>1. Authority!TurnOff
      BY <2>1, <2>3 DEF StopHost, RequestCancellation, Authority!TurnOff
    <3> QED
      BY <3>1 DEF Authority!ANext
  <2>4. CASE StartHostRefused(r) \/ StartHostNoop(r) \/ StopHostNoop(r)
             \/ StopHostTaskEnded(r) \/ StopHostSettled(r) \/ StartSimNoop(r)
             \/ StartSim(r) \/ StopSimNoop(r) \/ StopSim(r) \/ StopSimTaskEnded(r)
    <3>1. UNCHANGED <<hostActive, scanGeneration>>
      BY <2>4 DEF StartHostRefused, StartHostNoop, StopHostNoop, StopHostTaskEnded,
         StopHostSettled, StartSimNoop, StartSim, StopSimNoop, StopSim, StopSimTaskEnded
    <3> QED
      BY <2>1, <3>1, Stutters
  <2> QED
    BY <1>5, <2>2, <2>3, <2>4 DEF Serve
<1>6. ASSUME NEW r \in Requests, NEW op \in Ops, Call(r, op)
      PROVE  [Authority!ANext]_Authority!avars
  BY <1>6, Stutters DEF Call, AuthorityOf
<1>7. ASSUME NEW t \in Tasks, NEW w \in Workers, Tick(t, w)
      PROVE  [Authority!ANext]_Authority!avars
  <2>1. \A v \in Workers \ {w} : AuthorityOf(v)' = AuthorityOf(v)
    BY <1>7 DEF Tick, AuthorityOf, IInv, TypeOK
  <2>2. /\ AuthorityOf(w).state = "none"
        /\ AuthorityOf(w)' = [state |-> "gathering", epoch |-> scanGeneration]
    <3>1. /\ worker[w] \notin Gathering \cup {"commit"}
          /\ worker'[w] \in Gathering
          /\ gen'[w] = scanGeneration
      BY <1>7 DEF Tick, Gathering, IInv, TypeOK
    <3> QED
      BY <3>1, AuthorityIs, AuthorityBecomes
  <2>3. Authority!BeginAudit(w)
    BY <1>7, <2>1, <2>2 DEF Tick, Authority!BeginAudit
  <2> QED
    BY <2>3 DEF Authority!ANext
<1>8. ASSUME NEW t \in Tasks, Resume(t) PROVE [Authority!ANext]_Authority!avars
  <2>1. \A v \in Workers : \/ worker'[v] = worker[v]
                           \/ worker[v] = "finished" /\ worker'[v] = "idle"
    BY <1>8 DEF Resume, IInv, TypeOK
  <2>2. \A v \in Workers : AuthorityOf(v)' = AuthorityOf(v)
    BY <1>8, <2>1 DEF Resume, AuthorityOf
  <2> QED
    BY <1>8, <2>2, Stutters DEF Resume
<1>9. ASSUME NEW t \in Tasks, BroadcastEnded(t) \/ TaskDies(t)
      PROVE  [Authority!ANext]_Authority!avars
  <2>1. Forget(t) /\ UNCHANGED <<hostActive, scanGeneration, gen>>
    BY <1>9 DEF BroadcastEnded, TaskDies
  <2> QED
    BY <2>1, ForgetConcludes DEF IInv
<1>10. ASSUME NEW w \in Workers, WorkerStep(w) PROVE [Authority!ANext]_Authority!avars
  BY <1>10, WorkerImplements DEF IInv
<1>11. CASE ClientStep
  BY <1>11, ClientFrame, Stutters DEF AuthorityOf
<1>12. CASE UNCHANGED vars
  BY <1>12, Stutters DEF AuthorityOf
<1> QED
  BY <1>1, <1>2, <1>3, <1>4, <1>5, <1>6, <1>7, <1>8, <1>9, <1>10, <1>11, <1>12, StepGroups
  DEF LoopStep

\* Audits, pauses and resumes follow AuditAuthority: every step of the lifecycle is one of
\* its steps or none.
THEOREM Refinement == Spec => ImplementsAuthority
BY ImplementsInit, ImplementsStep, Invariance, PTL
DEF Spec, ImplementsAuthority, Authority!ASpec

-----------------------------------------------------------------------------
(* What AuditAuthority promises of itself, and so of the lifecycle.        *)

\* What each audit is allowed to do, under the refinement.
Audits == [w \in Workers |-> AuthorityOf(w)]
NoAudits == [w \in Workers |-> Authority!NoAudit]

AuthorityInv ==
  /\ hostActive \in BOOLEAN /\ scanGeneration \in Nat /\ Audits \in [Workers -> Authority!Audit]
  /\ \A w \in Workers : hostActive /\ Audits[w].state = "sealed" => Audits[w].epoch = scanGeneration

LEMMA AuthorityInvIs ==
  /\ AuthorityInv <=> Authority!ATypeOK /\ Authority!SealedIsCurrent
  /\ AuthorityInv' <=> Authority!ATypeOK' /\ Authority!SealedIsCurrent'
BY DEF AuthorityInv, Authority!ATypeOK, Authority!SealedIsCurrent, Audits

LEMMA AuthorityActions ==
  /\ Authority!TurnOn => hostActive' = TRUE /\ scanGeneration' = scanGeneration /\ Audits' = Audits
                         /\ \A w \in Workers : Audits[w].state # "sealed"
  /\ Authority!TurnOff => hostActive' = FALSE /\ scanGeneration' = scanGeneration + 1 /\ Audits' = Audits
  /\ Authority!Vanish => hostActive' = FALSE /\ scanGeneration' = 0 /\ Audits' = NoAudits
BY DEF Authority!TurnOn, Authority!TurnOff, Authority!Vanish, Audits, NoAudits

LEMMA AuditActions ==
  ASSUME NEW w \in Workers
  PROVE  /\ \/ Authority!BeginAudit(w) \/ Authority!Seal(w) \/ Authority!Conclude(w)
              => hostActive' = hostActive /\ scanGeneration' = scanGeneration
         /\ Authority!BeginAudit(w)
              => Audits' = [Audits EXCEPT ![w] = [state |-> "gathering", epoch |-> scanGeneration]]
         /\ Authority!Seal(w)
              => /\ Audits[w] = [state |-> "gathering", epoch |-> scanGeneration]
                 /\ Audits' = [Audits EXCEPT ![w].state = "sealed"]
         /\ Authority!Conclude(w) => Audits' = [Audits EXCEPT ![w] = Authority!NoAudit]
BY DEF Authority!BeginAudit, Authority!Seal, Authority!Conclude, Audits

LEMMA NoAuditIs == Authority!NoAudit \in Authority!Audit /\ Authority!NoAudit.state = "none"
BY DEF Authority!NoAudit, Authority!Audit

LEMMA AuthorityInit == Authority!AInit => AuthorityInv
<1> SUFFICES ASSUME Authority!AInit PROVE AuthorityInv
  OBVIOUS
<1>1. hostActive = FALSE /\ scanGeneration = 0 /\ Audits = NoAudits
  BY DEF Authority!AInit, Audits, NoAudits
<1>2. NoAudits \in [Workers -> Authority!Audit]
  BY NoAuditIs DEF NoAudits
<1> QED BY <1>1, <1>2 DEF AuthorityInv

\* The steps that touch no single audit, and then those of one.
LEMMA AuthorityStep ==
  ASSUME AuthorityInv, [Authority!ANext]_Authority!avars
  PROVE  AuthorityInv'
<1> DEFINE Current(on, epoch, audit) == \A w \in Workers : on /\ audit[w].state = "sealed" => audit[w].epoch = epoch
<1>1. /\ hostActive \in BOOLEAN /\ scanGeneration \in Nat /\ scanGeneration + 1 \in Nat
      /\ Audits \in [Workers -> Authority!Audit] /\ Current(hostActive, scanGeneration, Audits)
  BY DEF AuthorityInv
<1>2. SUFFICES /\ hostActive' \in BOOLEAN /\ scanGeneration' \in Nat /\ Audits' \in [Workers -> Authority!Audit]
               /\ Current(hostActive', scanGeneration', Audits')
  BY DEF AuthorityInv
<1>3. CASE Authority!TurnOn \/ Authority!TurnOff
  BY <1>1, <1>3, AuthorityActions
<1>4. CASE Authority!Vanish
  <2>1. NoAudits \in [Workers -> Authority!Audit]
    BY NoAuditIs DEF NoAudits
  <2>2. hostActive' = FALSE /\ scanGeneration' = 0 /\ Audits' = NoAudits
    BY <1>4, AuthorityActions, Zenon
  <2> HIDE DEF Current
  <2>3. Current(FALSE, 0, NoAudits)
    BY DEF Current
  <2> QED BY <2>1, <2>2, <2>3, Zenon
<1>5. ASSUME NEW w \in Workers, Authority!BeginAudit(w)
      PROVE  /\ hostActive' \in BOOLEAN /\ scanGeneration' \in Nat /\ Audits' \in [Workers -> Authority!Audit]
             /\ Current(hostActive', scanGeneration', Audits')
  <2> DEFINE new == [state |-> "gathering", epoch |-> scanGeneration]
  <2>1. new \in Authority!Audit /\ new.state = "gathering"
    BY <1>1 DEF Authority!Audit
  <2>2. Audits' = [Audits EXCEPT ![w] = new] /\ hostActive' = hostActive /\ scanGeneration' = scanGeneration
    BY <1>5, AuditActions
  <2> HIDE DEF new
  <2> QED BY <1>1, <2>1, <2>2
<1>6. ASSUME NEW w \in Workers, Authority!Seal(w)
      PROVE  /\ hostActive' \in BOOLEAN /\ scanGeneration' \in Nat /\ Audits' \in [Workers -> Authority!Audit]
             /\ Current(hostActive', scanGeneration', Audits')
  <2> DEFINE new == [state |-> "sealed", epoch |-> scanGeneration]
  <2>1. new \in Authority!Audit /\ new.epoch = scanGeneration
    BY <1>1 DEF Authority!Audit
  <2>2. hostActive' = hostActive /\ scanGeneration' = scanGeneration
    BY <1>6, AuditActions
  <2>3. Audits' = [Audits EXCEPT ![w] = new]
    BY <1>6, AuditActions
  <2> HIDE DEF new
  <2> QED BY <1>1, <2>1, <2>2, <2>3
<1>7. ASSUME NEW w \in Workers, Authority!Conclude(w)
      PROVE  /\ hostActive' \in BOOLEAN /\ scanGeneration' \in Nat /\ Audits' \in [Workers -> Authority!Audit]
             /\ Current(hostActive', scanGeneration', Audits')
  <2>1. Audits' = [Audits EXCEPT ![w] = Authority!NoAudit] /\ hostActive' = hostActive /\ scanGeneration' = scanGeneration
    BY <1>7, AuditActions
  <2> QED BY <1>1, <2>1, NoAuditIs
<1>8. CASE UNCHANGED Authority!avars
  <2>1. hostActive' = hostActive /\ scanGeneration' = scanGeneration /\ Audits' = Audits
    BY <1>8 DEF Authority!avars, Audits
  <2> QED BY <1>1, <2>1
<1> QED BY <1>3, <1>4, <1>5, <1>6, <1>7, <1>8 DEF Authority!ANext

\* AuditAuthority, over the lifecycle's audits: as long as only its actions happen, an audit that
\* may still commit while monitoring is on belongs to the current epoch.
THEOREM AuthorityIsCurrent == Authority!ASpec => []Authority!SealedIsCurrent
<1>1. Authority!AInit => Authority!ATypeOK /\ Authority!SealedIsCurrent
  BY AuthorityInit, AuthorityInvIs
<1>2. /\ Authority!ATypeOK /\ Authority!SealedIsCurrent /\ [Authority!ANext]_Authority!avars
      => Authority!ATypeOK' /\ Authority!SealedIsCurrent'
  BY AuthorityStep, AuthorityInvIs
<1> QED BY <1>1, <1>2, PTL DEF Authority!ASpec

\* So it is in ThreatStreamManager (app/security/stream.py), because that implements AuditAuthority.
THEOREM SealedStaysCurrent == Spec => []Authority!SealedIsCurrent
BY AuthorityIsCurrent, Refinement, PTL DEF ImplementsAuthority
=============================================================================
