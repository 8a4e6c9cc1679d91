-------------------------- MODULE ControllerProofs --------------------------
(***************************************************************************)
(* Theorems about Controller: the process around the runs takes no step    *)
(* that ImageProcessing does not allow them, so that what is proved of the *)
(* runs holds of the whole controller, and an orderly shutdown waits for   *)
(* the runs it has to wait for, with two waiters, crashes and restarts.    *)
(***************************************************************************)
EXTENDS Controller, ExpiryProofs

----------------------------------------------------------------------------
(* Every step of the controller is one of the runs, or none.               *)

LEMMA StepsOfRuns == ControllerNext => Next \/ UNCHANGED vars
<1> SUFFICES ASSUME ControllerNext PROVE Next \/ UNCHANGED vars
  OBVIOUS
<1>1. ASSUME NEW r \in Runs, CheckShutDown(r) PROVE UNCHANGED vars
  BY <1>1 DEF CheckShutDown
<1>2. ASSUME NEW r \in Runs, LaunchRun(r) PROVE Next
  BY <1>2 DEF LaunchRun, Next
<1>3. ASSUME NEW r \in Runs, RunStep(r) PROVE Next
  BY <1>3 DEF RunStep, Next, Step
<1>4. ASSUME NEW r \in Runs, FatalRestart(r) PROVE Next
  BY <1>4 DEF FatalRestart, Next, Step
<1>5. CASE Signal
  BY <1>5 DEF Signal
<1>6. CASE Main
  <2>1. CASE ExitMain
    BY <2>1 DEF ExitMain, Crash, Next
  <2>2. CASE WaitForProcesses \/ MainDeletesFinalizer
    BY <2>2 DEF WaitForProcesses, MainDeletesFinalizer
  <2> QED BY <1>6, <2>1, <2>2 DEF Main
<1>7. CASE Watcher
  BY <1>7 DEF Watcher, WatchDeletion, WatchStops, WatcherDrains,
              WatcherDeletesFinalizer
<1>8. CASE CrashRestart
  BY <1>8 DEF CrashRestart, Crash, Next
<1>9. CASE DeleteOperator
  BY <1>9 DEF DeleteOperator
<1>10. CASE ClusterStep
  BY <1>10 DEF ClusterStep, Next
<1> QED BY <1>1, <1>2, <1>3, <1>4, <1>5, <1>6, <1>7, <1>8, <1>9, <1>10
        DEF ControllerNext

(* The controller implements the specification of its runs: admission,     *)
(* shutdown, the watcher and restarts leave the runs the behaviours they   *)
(* have on their own, and what is proved of those carries over.            *)
THEOREM ControllerRuns == ControllerSpec => Spec
<1>1. ControllerInit => Init
  BY DEF ControllerInit
<1>2. [ControllerNext]_cvars => [Next]_vars
  BY StepsOfRuns DEF cvars
<1> QED BY <1>1, <1>2, PTL DEF ControllerSpec, Spec

(* What POST /run starts is executed as Cascade promises, restarts and     *)
(* shutdowns included, by jobs that are the run's own: where jobs do not   *)
(* expire, where callers keep one run in flight, or where nobody deletes   *)
(* the CascadeRun of a run that is underway.                               *)
THEOREM ControllerKeepsPromise ==
    /\ ControllerSpec
    /\ \/ ~TTLSet
       \/ Concurrency = 1
       \/ []RecordsKept
    => Implements /\ []OwnJobIfAny
<1> DEFINE Goal == Implements /\ []OwnJobIfAny
<1>1. ASSUME ~TTLSet PROVE ControllerSpec => Goal
  <2>1. OwnJob => OwnJobIfAny
    BY DEF OwnJob, OwnJobIfAny
  <2> QED BY <1>1, <2>1, ControllerRuns, KeepsPromise, RunsOwnTheirJobs, PTL
<1>2. ASSUME Concurrency = 1 PROVE ControllerSpec => Goal
  BY <1>2, ControllerRuns, AloneKeepsPromise, PTL
<1>3. ControllerSpec /\ []RecordsKept => Goal
  BY ControllerRuns, RecordsKeepPromise, PTL
<1> QED BY <1>1, <1>2, <1>3

(* What shutdown waits for, and what a reported success is worth, hold of  *)
(* the whole controller too.                                               *)
THEOREM ControllerDelivers ==
    /\ ControllerSpec => []Drained
    /\ Concurrency = 1 => (ControllerSpec => []DeliveredResult)
<1>1. ControllerSpec => []Drained
  BY ControllerRuns, ShutdownDrains, PTL
<1>2. ASSUME Concurrency = 1 PROVE ControllerSpec => []DeliveredResult
  BY <1>2, ControllerRuns, SuccessIsDelivered, PTL
<1> QED BY <1>1, <1>2

----------------------------------------------------------------------------
(* Types.                                                                  *)

LocalTypes ==
    /\ isShutDown \in BOOLEAN
    /\ handler \in [Runs -> {"none", "checked", "answered", "rejected"}]
    /\ main \in {"serving", "draining", "finalizer", "closing", "exited"}
    /\ watcher \in {"watching", "draining", "finalizer", "done"}
    /\ awaited \in [Waiters -> SUBSET Runs]
    /\ deleting \in BOOLEAN
    /\ finalizer \in BOOLEAN
    /\ unremoved \in BOOLEAN
    /\ crashes \in 0 .. MaxCrashes

LEMMA LocalTypesInit == ControllerInit => LocalTypes
<1>1. 0 \in 0 .. MaxCrashes
  BY CrashesAssumption
<1>2. [w \in Waiters |-> {}] \in [Waiters -> SUBSET Runs]
  OBVIOUS
<1> QED BY <1>1, <1>2 DEF ControllerInit, LocalTypes

LEMMA LocalTypesNext == LocalTypes /\ [ControllerNext]_cvars => LocalTypes'
<1> SUFFICES ASSUME LocalTypes, [ControllerNext]_cvars PROVE LocalTypes'
  OBVIOUS
<1> USE DEF LocalTypes, local, operator
<1>1. ASSUME NEW r \in Runs, CheckShutDown(r) \/ LaunchRun(r)
      PROVE  LocalTypes'
  BY <1>1 DEF CheckShutDown, LaunchRun
<1>2. ASSUME NEW r \in Runs, RunStep(r) PROVE LocalTypes'
  BY <1>2 DEF RunStep
<1>3. Restart => LocalTypes' \/ crashes' # crashes
  BY DEF Restart, Waiters
<1>4. ASSUME NEW r \in Runs, FatalRestart(r) PROVE LocalTypes'
  BY <1>3, <1>4 DEF FatalRestart
<1>5. CASE Signal
  <2>1. Counted \in SUBSET Runs
    BY DEF Counted
  <2> QED BY <1>5, <2>1 DEF Signal, SetShutDown
<1>6. CASE WatchDeletion
  <2>1. Counted \in SUBSET Runs
    BY DEF Counted
  <2> QED BY <1>6, <2>1 DEF WatchDeletion, SetShutDown
<1>7. CASE Main
  BY <1>7 DEF Main, WaitForProcesses, MainDeletesFinalizer, ExitMain,
              DeleteFinalizer
<1>8. CASE WatchStops \/ WatcherDrains \/ WatcherDeletesFinalizer
  BY <1>8 DEF WatchStops, WatcherDrains, WatcherDeletesFinalizer,
              DeleteFinalizer
<1>9. CASE CrashRestart
  <2>1. crashes' \in 0 .. MaxCrashes
    BY <1>9, CrashesAssumption DEF CrashRestart
  <2>2. [w \in Waiters |-> {}] \in [Waiters -> SUBSET Runs]
    OBVIOUS
  <2>3. /\ handler' \in [Runs -> {"none", "checked", "answered", "rejected"}]
        /\ UNCHANGED operator
    BY <1>9 DEF CrashRestart, Restart
  <2> QED BY <1>9, <2>1, <2>2, <2>3 DEF CrashRestart, Restart
<1>10. CASE DeleteOperator
  BY <1>10 DEF DeleteOperator
<1>11. CASE ClusterStep
  BY <1>11 DEF ClusterStep
<1>12. CASE UNCHANGED cvars
  BY <1>12 DEF cvars
<1> QED BY <1>1, <1>2, <1>4, <1>5, <1>6, <1>7, <1>8, <1>9, <1>10, <1>11, <1>12
        DEF ControllerNext, Watcher

LEMMA LocalTypesAlways == ControllerSpec => []LocalTypes
<1> QED BY LocalTypesInit, LocalTypesNext, PTL DEF ControllerSpec

(* Every variable of the controller keeps its type, those of its runs      *)
(* included: the process count that shutdown waits on stays a natural      *)
(* number through every restart.                                           *)
THEOREM ControllerTyped == ControllerSpec => []ControllerTypeOK
<1>1. TypeOK /\ LocalTypes => ControllerTypeOK
  BY DEF ControllerTypeOK, LocalTypes
<1> QED BY <1>1, ControllerRuns, TypeCorrect, LocalTypesAlways, PTL

----------------------------------------------------------------------------
(* Shutdown.                                                               *)

(* The runs a waiter waits for have been counted since it began: while it  *)
(* waits each is still counted or is done, and then all of them are done.  *)
Settled(r) == pc[r] \in Working \cup Deciding \cup {"done"}
Waiting ==
    /\ main = "draining" => \A r \in awaited["main"] : Settled(r)
    /\ main \notin {"serving", "draining"} =>
          \A r \in awaited["main"] : pc[r] = "done"
    /\ watcher = "draining" => \A r \in awaited["watcher"] : Settled(r)
    /\ watcher = "finalizer" => \A r \in awaited["watcher"] : pc[r] = "done"

LEMMA DoneStaysDone ==
    ASSUME TypeOK, Die, NEW r \in Runs, pc[r] = "done"
    PROVE  pc'[r] = "done"
  BY DEF Die, TypeOK, InFlight, Ended

(* A step of a run, the death of the process apart, keeps it settled.      *)
LEMMA SettledStays ==
    ASSUME TypeOK, NEW q \in Runs,
           NEW r \in Runs, StartRun(q) \/ Proceed(q)
                           \/ \E g \in Helpers : Return(q, g)
    PROVE  /\ Settled(r) => Settled(r)'
           /\ pc[r] = "done" => pc'[r] = "done"
<1> USE DEF TypeOK, Settled, Working, Deciding, Ended
<1>1. CASE StartRun(q)
  BY <1>1 DEF StartRun
<1>2. CASE CreateCascadeRun(q) \/ RefuseRun(q) \/ CountProcess(q)
  BY <1>2 DEF CreateCascadeRun, RefuseRun, CountProcess
<1>3. CASE SetJobEnv(q) \/ CreateJob(q) \/ PollSucceeded(q)
  BY <1>3 DEF SetJobEnv, CreateJob, PollSucceeded
<1>4. CASE PollFailed(q) \/ Succeed(q)
  BY <1>4 DEF PollFailed, Succeed, Decide
<1>5. CASE DeleteSuccessJob(q) \/ Stop(q) \/ Exit(q)
  BY <1>5 DEF DeleteSuccessJob, Stop, Exit
<1>6. CASE \E g \in Helpers : Return(q, g)
  BY <1>6 DEF Return
<1> QED BY <1>1, <1>2, <1>3, <1>4, <1>5, <1>6 DEF Proceed

LEMMA WaitingNext ==
    ASSUME TypeInv, LocalTypes, Waiting, [ControllerNext]_cvars
    PROVE  Waiting'
<1>1. /\ TypeOK /\ awaited["main"] \subseteq Runs
      /\ awaited["watcher"] \subseteq Runs
  BY DEF TypeInv, LocalTypes, Waiters
<1>2. currProcess = 0 => \A r \in Runs : pc[r] \notin Working \cup Deciding
  <2>1. currProcess = 0 => Counted = {}
    BY CountsFinite, FS_EmptySet DEF TypeInv, Counts
  <2> QED BY <2>1 DEF Counted
<1>3. ASSUME NEW r \in Runs, CheckShutDown(r) PROVE Waiting'
  BY <1>3 DEF CheckShutDown, Waiting, Settled, vars
<1>4. ASSUME UNCHANGED local,
             \A r \in Runs : /\ Settled(r) => Settled(r)'
                             /\ pc[r] = "done" => pc'[r] = "done"
      PROVE  Waiting'
  BY <1>1, <1>4 DEF Waiting, local
<1>5. ASSUME NEW r \in Runs, LaunchRun(r) PROVE Waiting'
  BY <1>1, <1>5, SettledStays DEF LaunchRun, Waiting
<1>6. ASSUME NEW r \in Runs, RunStep(r) PROVE Waiting'
  BY <1>1, <1>4, <1>6, SettledStays DEF RunStep
<1>7. Restart => Waiting'
  BY DEF Restart, Waiting
<1>8. CASE (\E r \in Runs : FatalRestart(r)) \/ CrashRestart
  BY <1>7, <1>8 DEF FatalRestart, CrashRestart
<1>9. ASSUME NEW r \in Counted PROVE Settled(r)
  BY <1>9 DEF Counted, Settled
<1>10. CASE Signal
  <2>1. /\ main' = "draining" /\ awaited' = [awaited EXCEPT !["main"] = Counted]
        /\ UNCHANGED <<pc, watcher>>
    BY <1>10 DEF Signal, SetShutDown, vars
  <2>2. awaited'["main"] = Counted /\ awaited'["watcher"] = awaited["watcher"]
    BY <2>1 DEF LocalTypes, Waiters
  <2> QED BY <1>9, <2>1, <2>2 DEF Waiting, Settled
<1>11. CASE WatchDeletion
  <2>1. /\ watcher' = "draining"
        /\ awaited' = [awaited EXCEPT !["watcher"] = Counted]
        /\ UNCHANGED <<pc, main>>
    BY <1>11 DEF WatchDeletion, SetShutDown, vars
  <2>2. awaited'["watcher"] = Counted /\ awaited'["main"] = awaited["main"]
    BY <2>1 DEF LocalTypes, Waiters
  <2> QED BY <1>9, <2>1, <2>2 DEF Waiting, Settled
<1>12. CASE WaitForProcesses
  BY <1>1, <1>2, <1>12 DEF WaitForProcesses, Waiting, Settled, vars
<1>13. CASE MainDeletesFinalizer
  BY <1>13 DEF MainDeletesFinalizer, Waiting, Settled, vars
<1>14. CASE ExitMain
  <2>1. \A r \in Runs : pc[r] = "done" => pc'[r] = "done"
    BY <1>1, <1>14, DoneStaysDone DEF ExitMain
  <2> QED BY <1>1, <1>14, <2>1 DEF ExitMain, Waiting
<1>15. CASE WatcherDrains
  BY <1>1, <1>2, <1>15 DEF WatcherDrains, Waiting, Settled, vars
<1>16. CASE WatchStops \/ WatcherDeletesFinalizer
  BY <1>16 DEF WatchStops, WatcherDeletesFinalizer, Waiting, Settled, vars
<1>17. CASE DeleteOperator
  BY <1>17 DEF DeleteOperator, Waiting, Settled, vars, local
<1>18. CASE ClusterStep
  BY <1>4, <1>18 DEF ClusterStep, Cluster, PodSucceeds, PodFails, Expire,
                     DeleteCascadeRun, controller, Settled
<1>19. CASE UNCHANGED cvars
  BY <1>19 DEF cvars, vars, local, Waiting, Settled
<1> QED BY <1>3, <1>5, <1>6, <1>8, <1>10, <1>11, <1>12, <1>13, <1>14, <1>15,
           <1>16, <1>17, <1>18, <1>19 DEF ControllerNext, Main, Watcher

(* An orderly shutdown, begun by a signal or by the deletion of the        *)
(* CascadeAutoOperator, goes past the wait only when every run that was    *)
(* counted at its beginning has decided, written its result and returned.  *)
THEOREM ShutdownAwaitsRuns == ControllerSpec => []AwaitedRunsFinish
<1>1. ControllerSpec => [](TypeInv /\ GoroutinesCounted)
  <2>1. TypeInv => TypeOK
    BY DEF TypeInv
  <2>2. Spec => [](TypeInv /\ GoroutinesCounted)
    BY <2>1, TypesInit, TypesNext, GoroutinesInit, GoroutinesNext, PTL DEF Spec
  <2> QED BY <2>2, ControllerRuns, PTL
<1>2. ControllerInit => Waiting
  BY DEF ControllerInit, Waiting
<1>3. ControllerSpec => []Waiting
  BY <1>1, <1>2, LocalTypesAlways, WaitingNext, PTL DEF ControllerSpec
<1>4. LocalTypes /\ GoroutinesCounted /\ Waiting => AwaitedRunsFinish
  BY DEF GoroutinesCounted, Waiting, AwaitedRunsFinish, Working, Deciding
<1> QED BY <1>1, <1>3, <1>4, LocalTypesAlways, PTL
=============================================================================
