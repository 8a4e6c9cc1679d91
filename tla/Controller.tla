----------------------------- MODULE Controller -----------------------------
(***************************************************************************)
(* The controller process around its runs: the admission of POST /run      *)
(* (handlers/handlers.go), the main goroutine, which on a signal stops     *)
(* admission, waits for the runs and ends the process (main.go:139-161),   *)
(* and the watcher, which does part of this when the CascadeAutoOperator   *)
(* is being deleted (main.go:166-208).  They meet in the flag isShutDown,  *)
(* in CurrProcess and in the finalizer of the CascadeAutoOperator object.  *)
(*                                                                         *)
(* The runs themselves are those of module ImageProcessing, whose actions  *)
(* are taken here as they are.                                             *)
(***************************************************************************)
EXTENDS ImageProcessing

CONSTANT MaxCrashes      \* bound on the crashes of the process

ASSUME CrashesAssumption == MaxCrashes \in Nat

VARIABLES
    isShutDown,  \* the server refuses POST /run
    handler,     \* the requests whose handler is past the check of the flag
    main,        \* where the main goroutine is
    watcher,     \* where the watcher is
    awaited,     \* history: the runs counted when main or watcher set the flag
    deleting,    \* the object has a deletion timestamp
    finalizer,   \* the object holds the controller's finalizer
    unremoved,   \* history: an attempt to remove it has failed
    crashes      \* the crashes so far

local == <<isShutDown, handler, main, watcher, awaited>>
operator == <<deleting, finalizer, unremoved>>
cvars == <<vars, local, operator, crashes>>

Waiters == {"main", "watcher"}

ControllerTypeOK ==
    /\ TypeOK
    /\ isShutDown \in BOOLEAN
    /\ handler \in [Runs -> {"none", "checked", "answered", "rejected"}]
    /\ main \in {"serving", "draining", "finalizer", "closing", "exited"}
    /\ watcher \in {"watching", "draining", "finalizer", "done"}
    /\ awaited \in [Waiters -> SUBSET Runs]
    /\ deleting \in BOOLEAN
    /\ finalizer \in BOOLEAN
    /\ unremoved \in BOOLEAN
    /\ crashes \in 0 .. MaxCrashes

ControllerInit ==
    /\ Init
    /\ isShutDown = FALSE
    /\ handler = [r \in Runs |-> "none"]
    /\ main = "serving"
    /\ watcher = "watching"
    /\ awaited = [w \in Waiters |-> {}]
    /\ deleting = FALSE
    /\ finalizer = TRUE
    /\ unremoved = FALSE
    /\ crashes = 0

----------------------------------------------------------------------------
(* Admission.  The flag is read first; the body is decoded and validated   *)
(* and the run started afterwards, without looking at the flag again.      *)
CheckShutDown(r) ==
    /\ main \notin {"closing", "exited"}
    /\ handler[r] = "none"
    /\ handler' = [handler EXCEPT ![r] = IF isShutDown THEN "rejected"
                                         ELSE "checked"]
    /\ UNCHANGED <<vars, isShutDown, main, watcher, awaited, operator, crashes>>

LaunchRun(r) ==
    /\ main # "exited"
    /\ handler[r] = "checked"
    /\ StartRun(r)
    /\ handler' = [handler EXCEPT ![r] = "answered"]
    /\ UNCHANGED <<store, completed, isShutDown, main, watcher, awaited,
                   operator, crashes>>

----------------------------------------------------------------------------
(* SetShutDown(true); the history records whom the caller will wait for.   *)
SetShutDown(w) ==
    /\ isShutDown' = TRUE
    /\ awaited' = [awaited EXCEPT ![w] = Counted]

(* SIGTERM or SIGINT.                                                      *)
Signal ==
    /\ main = "serving"
    /\ SetShutDown("main")
    /\ main' = "draining"
    /\ UNCHANGED <<vars, handler, watcher, operator, crashes>>

(* Mutation of WaitForProcesses: it returns at once.                       *)
WaitForNothing ==
    /\ main = "draining"
    /\ main' = "finalizer"
    /\ UNCHANGED <<vars, isShutDown, handler, watcher, awaited, operator,
                   crashes>>

WaitForProcesses ==
    /\ main = "draining"
    /\ currProcess = 0
    /\ main' = "finalizer"
    /\ UNCHANGED <<vars, isShutDown, handler, watcher, awaited, operator,
                   crashes>>

(* One attempt: it reads the object and updates it.  An error, a conflict  *)
(* among them, is only logged.                                             *)
DeleteFinalizer ==
    \/ finalizer' = FALSE /\ UNCHANGED unremoved
    \/ unremoved' = TRUE /\ UNCHANGED finalizer

MainDeletesFinalizer ==
    /\ main = "finalizer"
    /\ DeleteFinalizer
    /\ main' = "closing"
    /\ UNCHANGED <<vars, isShutDown, handler, watcher, awaited, deleting,
                   crashes>>

(* srv.Shutdown waits for the handlers, ten seconds at most; then main     *)
(* returns, and with it every goroutine of the process ends.               *)
ExitMain ==
    /\ main = "closing"
    /\ main' = "exited"
    /\ watcher' = "done"
    /\ handler' = [r \in Runs |-> IF handler[r] = "checked" THEN "none"
                                  ELSE handler[r]]
    /\ Die
    /\ UNCHANGED <<jobs, cascadeRuns, created, isShutDown, awaited, operator,
                   crashes>>

----------------------------------------------------------------------------
(* The watcher.  A read that fails is repeated; so is one of an object     *)
(* that is gone, as one being deleted is that has no finalizer any more.   *)
WatchDeletetionTimeStampCRD == deleting /\ finalizer

WatchDeletion ==
    /\ watcher = "watching"
    /\ WatchDeletetionTimeStampCRD
    /\ SetShutDown("watcher")
    /\ watcher' = "draining"
    /\ UNCHANGED <<vars, handler, main, operator, crashes>>

(* Mutation of WatchStops: the watcher returns when a read fails.          *)
WatchStopsOnError ==
    /\ watcher = "watching"
    /\ watcher' = "done"
    /\ UNCHANGED <<vars, isShutDown, handler, main, awaited, operator, crashes>>

(* Once the signal has come, the watcher stops at the top of its loop.     *)
WatchStops ==
    /\ watcher = "watching"
    /\ main # "serving"
    /\ watcher' = "done"
    /\ UNCHANGED <<vars, isShutDown, handler, main, awaited, operator, crashes>>

WatcherDrains ==
    /\ watcher = "draining"
    /\ currProcess = 0
    /\ watcher' = "finalizer"
    /\ UNCHANGED <<vars, isShutDown, handler, main, awaited, operator, crashes>>

WatcherDeletesFinalizer ==
    /\ watcher = "finalizer"
    /\ DeleteFinalizer
    /\ watcher' = "done"
    /\ UNCHANGED <<vars, isShutDown, handler, main, awaited, deleting, crashes>>

----------------------------------------------------------------------------
(* The process dies and Kubernetes starts it anew.                         *)
Restart ==
    /\ isShutDown' = FALSE
    /\ handler' = [r \in Runs |-> IF handler[r] = "checked" THEN "none"
                                  ELSE handler[r]]
    /\ main' = "serving"
    /\ watcher' = "watching"
    /\ awaited' = [w \in Waiters |-> {}]
    /\ UNCHANGED operator

FatalRestart(r) ==
    /\ Fatal(r)
    /\ Restart
    /\ UNCHANGED crashes

CrashRestart ==
    /\ main # "exited"
    /\ crashes < MaxCrashes
    /\ crashes' = crashes + 1
    /\ Die
    /\ Restart
    /\ UNCHANGED <<jobs, cascadeRuns, created>>

(* A user deletes the CascadeAutoOperator.                                 *)
DeleteOperator ==
    /\ ~deleting
    /\ deleting' = TRUE
    /\ UNCHANGED <<vars, local, finalizer, unremoved, crashes>>

RunStep(r) ==
    /\ \/ Proceed(r)
       \/ \E g \in Helpers : Return(r, g)
    /\ UNCHANGED <<local, operator, crashes>>

ClusterStep ==
    /\ \/ \E n \in JobNames : Cluster(n)
       \/ \E x \in cascadeRuns : DeleteCascadeRun(x)
    /\ UNCHANGED <<local, operator, crashes>>

Main    == WaitForProcesses \/ MainDeletesFinalizer \/ ExitMain
Watcher == \/ WatchDeletion \/ WatchStops \/ WatcherDrains
           \/ WatcherDeletesFinalizer

ControllerNext ==
    \/ \E r \in Runs : \/ CheckShutDown(r) \/ LaunchRun(r)
                       \/ RunStep(r) \/ FatalRestart(r)
    \/ Signal \/ Main \/ Watcher
    \/ CrashRestart \/ DeleteOperator \/ ClusterStep

ControllerSpec == ControllerInit /\ [][ControllerNext]_cvars

(* Main and the watcher poll and are scheduled; handlers return; runs and  *)
(* pods make progress as in ImageProcessing.                               *)
ControllerFairness ==
    /\ WF_cvars(Main)
    /\ WF_cvars(Watcher)
    /\ \A r \in Runs :
          /\ WF_cvars(LaunchRun(r))
          /\ WF_cvars((Proceed(r) /\ UNCHANGED <<local, operator, crashes>>)
                      \/ FatalRestart(r))
          /\ \A g \in Helpers :
                WF_cvars(Return(r, g) /\ UNCHANGED <<local, operator, crashes>>)
    /\ \A n \in JobNames :
          WF_cvars((PodSucceeds(n) \/ PodFails(n))
                   /\ UNCHANGED <<local, operator, crashes>>)

FairControllerSpec == ControllerSpec /\ ControllerFairness

----------------------------------------------------------------------------
(* Properties.                                                             *)

(* The runs that were being processed when shutdown began are finished     *)
(* before the finalizer is removed and the process ends, and all they had  *)
(* to write to their objects has been attempted.                           *)
AwaitedRunsFinish ==
    \A r \in Runs :
        \/ /\ main \notin {"serving", "draining"} /\ r \in awaited["main"]
        \/ /\ watcher = "finalizer" /\ r \in awaited["watcher"]
        => pc[r] = "done" /\ wg[r] = {}

(* A run polls for a job that has expired: it will not end by itself (run  *)
(* job_gone), and whoever waits for the count to be zero waits with it.    *)
HeldUp == \E r \in Runs : pc[r] = "polling" /\ jobs[MyJob(r)] = None

(* A signal ends the process in an orderly way, unless it crashes first or *)
(* a run is left polling for good.                                         *)
ShutdownCompletes ==
    main = "draining" ~> main \in {"exited", "serving"} \/ []HeldUp

(* A CascadeAutoOperator that is being deleted is let go, whatever becomes *)
(* of the process and of the runs, unless an attempt at that failed or a   *)
(* run is left polling for good.                                           *)
DeletionReleased == deleting ~> ~finalizer \/ unremoved \/ []HeldUp

(* No run that was answered with 200 is cut off by an orderly exit.        *)
NoRunCutOff == [][main = "closing" /\ main' = "exited" => InFlight = {}]_cvars

(* The deletion of the CascadeAutoOperator ends the process in the same    *)
(* orderly way as a signal.                                                *)
DeletionEndsProcess == deleting ~> main = "exited"
=============================================================================
