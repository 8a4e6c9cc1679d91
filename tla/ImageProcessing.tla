-------------------------- MODULE ImageProcessing --------------------------
(***************************************************************************)
(* The life of the cascade runs of one controller process:                 *)
(* process.ImageProcessing (process/process.go), which POST /run starts as *)
(* a goroutine per accepted request, with the Kubernetes calls it makes    *)
(* (k8sclient/k8sclient.go) and the part of the cluster that answers them. *)
(*                                                                         *)
(* One action is one API call together with the local code around it, so   *)
(* that runs interleave wherever the code waits for the API server, and    *)
(* wherever two goroutines meet on memory they share.                      *)
(*                                                                         *)
(*      accepted --> begun --> loop --> creating --> polling --> deleting  *)
(*         |                    | ^                     |           |      *)
(*      refused                 | +---------------------|-----------+      *)
(*                              +--> stopping <---------+                  *)
(*                                      |                                  *)
(*                                   draining --> done                     *)
(*                                                                         *)
(* A run in flight becomes "lost" when the process dies.                   *)
(***************************************************************************)
EXTENDS Naturals, FiniteSets

CONSTANTS
    Runs,          \* the requests of the callers, one run each
    NumStages,     \* len(cascademodules)
    ModuleName,    \* stage -> modulename of the scenario file
    Prefix,        \* run -> IUid[0:5], which names its CascadeRun and its jobs
    ShortIds,      \* the runs whose IUid has fewer than five bytes
    Concurrency,   \* how many runs the callers keep in flight at once
    BackoffLimit,  \* backoffLimit: the pod failures a job retries
    TTLSet,        \* whether ttlSecondsAfterFinished is configured
    None           \* no job, no writer

Stages   == 0 .. NumStages - 1
JobName(r, k) == <<Prefix[r], ModuleName[k]>>
JobNames == {JobName(r, k) : r \in Runs, k \in Stages}

(* A Job object: the stage of the run it was created for, the run whose    *)
(* s3path its container was given, and the pods it counted.                *)
Job == [run: Runs, stage: Stages, input: Runs,
        succeeded: BOOLEAN, failed: 0 .. BackoffLimit + 1]

ASSUME RunsAssumption    == IsFiniteSet(Runs) /\ ShortIds \subseteq Runs
ASSUME NumbersAssumption == /\ NumStages \in Nat
                            /\ BackoffLimit \in Nat
                            /\ Concurrency \in Nat
ASSUME NamesAssumption   == DOMAIN Prefix = Runs /\ DOMAIN ModuleName = Stages
ASSUME FlagAssumption    == TTLSet \in BOOLEAN
ASSUME NoneAssumption    == None \notin Job /\ None \notin Runs

VARIABLES
    pc,           \* where the goroutine of each run is
    stage,        \* i of its loop over the modules
    env,          \* stage -> whose s3path the shared Containers[0].Env holds
    wg,           \* run -> the goroutines its WaitGroup counts
    currProcess,  \* CurrProcess, what shutdown waits for
    currentRuns,  \* the gauge scenario_current_runs
    verdict,      \* what the run reports, once it has decided
    jobs,         \* job name -> the Job object of that name, or None
    cascadeRuns,  \* the name prefixes of the CascadeRun objects that exist
    store,        \* <<r, k>>: S3 holds the package that stage k of run r reads
    created,      \* history: the stages whose job was created
    completed     \* history: the stages of which a pod succeeded

vars == <<pc, stage, env, wg, currProcess, currentRuns, verdict, jobs,
          cascadeRuns, store, created, completed>>

Helpers  == {"collector", "setActive", "setOperator", "setRun"}
Ended    == {"done", "refused", "lost"}
Working  == {"loop", "creating", "polling", "deleting"}
Deciding == {"stopping", "draining"}
Counted  == {r \in Runs : pc[r] \in Working \cup Deciding}
InFlight == {r \in Runs : pc[r] \notin Ended \cup {"idle"}}
MyJob(r) == JobName(r, stage[r])

TypeOK ==
    /\ pc \in [Runs -> {"idle", "accepted", "begun"} \cup Working
                       \cup Deciding \cup Ended]
    /\ stage \in [Runs -> 0 .. NumStages]
    /\ env \in [Stages -> Runs \cup {None}]
    /\ wg \in [Runs -> SUBSET Helpers]
    /\ currProcess \in Nat
    /\ currentRuns \in Nat
    /\ verdict \in [Runs -> {"none", "Success", "Failed"}]
    /\ jobs \in [JobNames -> Job \cup {None}]
    /\ cascadeRuns \subseteq {Prefix[r] : r \in Runs}
    /\ store \subseteq Runs \X (0 .. NumStages)
    /\ created   \subseteq Runs \X Stages
    /\ completed \subseteq Runs \X Stages

(* The process starts with nothing in flight.  S3 holds the package each   *)
(* request names, and nothing that a stage has yet to produce.             *)
Init ==
    /\ pc = [r \in Runs |-> "idle"]
    /\ stage = [r \in Runs |-> 0]
    /\ env = [k \in Stages |-> None]
    /\ wg = [r \in Runs |-> {}]
    /\ currProcess = 0
    /\ currentRuns = 0
    /\ verdict = [r \in Runs |-> "none"]
    /\ jobs = [n \in JobNames |-> None]
    /\ cascadeRuns = {}
    /\ store = Runs \X {0}
    /\ created = {}
    /\ completed = {}

cluster == <<jobs, store, completed>>
history == <<created, completed>>

----------------------------------------------------------------------------
(* The run's goroutine.                                                    *)

(* POST /run answers 200 and starts the goroutine.                         *)
StartRun(r) ==
    /\ pc[r] = "idle"
    /\ Cardinality(InFlight) < Concurrency
    /\ pc' = [pc EXCEPT ![r] = "accepted"]
    /\ UNCHANGED <<stage, env, wg, currProcess, currentRuns, verdict,
                   cascadeRuns, created, cluster>>

(* The object is named for the scenario and IUid[0:5]: the name may be     *)
(* taken.                                                                  *)
StoreCascadeRun(r) ==
    /\ Prefix[r] \notin cascadeRuns
    /\ cascadeRuns' = cascadeRuns \cup {Prefix[r]}

(* Mutation of CreateCascadeRun: the gauge is not raised.                  *)
CreateCascadeRunUncounted(r) ==
    /\ pc[r] = "accepted" /\ r \notin ShortIds
    /\ StoreCascadeRun(r)
    /\ wg' = [wg EXCEPT ![r] = {"collector", "setActive"}]
    /\ pc' = [pc EXCEPT ![r] = "begun"]
    /\ UNCHANGED <<stage, env, currProcess, currentRuns, verdict, created,
                   cluster>>

(* The gauge goes up, the CascadeRun is created, and the goroutines that   *)
(* collect module results and count the run as active are started.         *)
CreateCascadeRun(r) ==
    /\ pc[r] = "accepted"
    /\ r \notin ShortIds
    /\ currentRuns' = currentRuns + 1
    /\ StoreCascadeRun(r)
    /\ wg' = [wg EXCEPT ![r] = {"collector", "setActive"}]
    /\ pc' = [pc EXCEPT ![r] = "begun"]
    /\ UNCHANGED <<stage, env, currProcess, verdict, created, cluster>>

(* The CascadeRun cannot be created, because its name is taken or because  *)
(* the call fails (it may have taken effect all the same): the goroutine   *)
(* returns, the gauge as it is.                                            *)
RefuseRun(r) ==
    /\ pc[r] = "accepted"
    /\ r \notin ShortIds
    /\ currentRuns' = currentRuns + 1
    /\ StoreCascadeRun(r) \/ UNCHANGED cascadeRuns
    /\ pc' = [pc EXCEPT ![r] = "refused"]
    /\ UNCHANGED <<stage, env, wg, currProcess, verdict, created, cluster>>

CountProcess(r) ==
    /\ pc[r] = "begun"
    /\ currProcess' = currProcess + 1
    /\ pc' = [pc EXCEPT ![r] = "loop"]
    /\ UNCHANGED <<stage, env, wg, currentRuns, verdict, cascadeRuns,
                   created, cluster>>

(* Mutation of SetJobEnv: an environment already filled in is kept.        *)
SetJobEnvOnce(r) ==
    /\ pc[r] = "loop" /\ stage[r] < NumStages
    /\ env' = [env EXCEPT ![stage[r]] = IF @ = None THEN r ELSE @]
    /\ pc' = [pc EXCEPT ![r] = "creating"]
    /\ UNCHANGED <<stage, wg, currProcess, currentRuns, verdict, cascadeRuns,
                   created, cluster>>

(* LaunchK8sJob up to the API call.  The template is copied shallowly, so  *)
(* the environment is written into the container that every run shares.    *)
SetJobEnv(r) ==
    /\ pc[r] = "loop"
    /\ stage[r] < NumStages
    /\ env' = [env EXCEPT ![stage[r]] = r]
    /\ pc' = [pc EXCEPT ![r] = "creating"]
    /\ UNCHANGED <<stage, wg, currProcess, currentRuns, verdict, cascadeRuns,
                   created, cluster>>

(* The API server stores the object as it is encoded at the call.          *)
StoreJob(r) ==
    /\ jobs[MyJob(r)] = None
    /\ jobs' = [jobs EXCEPT ![MyJob(r)] =
                  [run |-> r, stage |-> stage[r], input |-> env[stage[r]],
                   succeeded |-> FALSE, failed |-> 0]]
    /\ created' = created \cup {<<r, stage[r]>>}

(* Mutation of CreateJob: a job of that name is taken for the run's own.   *)
CreateJobTolerant(r) ==
    /\ pc[r] = "creating"
    /\ StoreJob(r) \/ (jobs[MyJob(r)] # None /\ UNCHANGED <<jobs, created>>)
    /\ pc' = [pc EXCEPT ![r] = "polling"]
    /\ UNCHANGED <<stage, env, wg, currProcess, currentRuns, verdict,
                   cascadeRuns, store, completed>>

CreateJob(r) ==
    /\ pc[r] = "creating"
    /\ StoreJob(r)
    /\ pc' = [pc EXCEPT ![r] = "polling"]
    /\ UNCHANGED <<stage, env, wg, currProcess, currentRuns, verdict,
                   cascadeRuns, store, completed>>

(* Mutation of PollSucceeded: a job without failures is taken as done.     *)
PollNotFailed(r) ==
    /\ pc[r] = "polling" /\ jobs[MyJob(r)] # None /\ jobs[MyJob(r)].failed = 0
    /\ pc' = [pc EXCEPT ![r] = "deleting"]
    /\ UNCHANGED <<stage, env, wg, currProcess, currentRuns, verdict,
                   cascadeRuns, created, cluster>>

(* GetJobStatus, as far as it ends the loop that polls it.  Any other      *)
(* answer, and every error, is polled again: the counter of errors is set  *)
(* anew in each iteration and never reaches zero.                          *)
PollSucceeded(r) ==
    /\ pc[r] = "polling"
    /\ jobs[MyJob(r)] # None
    /\ jobs[MyJob(r)].succeeded
    /\ pc' = [pc EXCEPT ![r] = "deleting"]
    /\ UNCHANGED <<stage, env, wg, currProcess, currentRuns, verdict,
                   cascadeRuns, created, cluster>>

(* The verdict of a run: two goroutines are started to record it, and the  *)
(* collector is told to stop.                                              *)
Decide(r, result) ==
    /\ verdict' = [verdict EXCEPT ![r] = result]
    /\ wg' = [wg EXCEPT ![r] = @ \cup {"setOperator", "setRun"}]
    /\ currentRuns' = currentRuns - 1
    /\ pc' = [pc EXCEPT ![r] = "stopping"]
    /\ UNCHANGED <<stage, env, currProcess, cascadeRuns, created, cluster>>

(* Mutation of PollFailed: failures are looked at before the success.      *)
PollFailedFirst(r) ==
    /\ pc[r] = "polling" /\ jobs[MyJob(r)] # None /\ jobs[MyJob(r)].failed > 0
    /\ Decide(r, "Failed")

PollFailed(r) ==
    /\ pc[r] = "polling"
    /\ jobs[MyJob(r)] # None
    /\ ~jobs[MyJob(r)].succeeded
    /\ jobs[MyJob(r)].failed > 0
    /\ Decide(r, "Failed")

(* Mutation of DeleteSuccessJob: a deletion that fails is tried again by   *)
(* way of the loop over the stages.                                        *)
DeleteUntilGone(r) ==
    /\ pc[r] = "deleting"
    /\ \/ /\ jobs' = [jobs EXCEPT ![MyJob(r)] = None]
          /\ stage' = [stage EXCEPT ![r] = @ + 1]
       \/ UNCHANGED <<jobs, stage>>
    /\ pc' = [pc EXCEPT ![r] = "loop"]
    /\ UNCHANGED <<env, wg, currProcess, currentRuns, verdict, cascadeRuns,
                   store, history>>

(* The finished job is deleted by name; an error is only logged.           *)
DeleteSuccessJob(r) ==
    /\ pc[r] = "deleting"
    /\ jobs' \in {jobs, [jobs EXCEPT ![MyJob(r)] = None]}
    /\ stage' = [stage EXCEPT ![r] = @ + 1]
    /\ pc' = [pc EXCEPT ![r] = "loop"]
    /\ UNCHANGED <<env, wg, currProcess, currentRuns, verdict, cascadeRuns,
                   store, history>>

Succeed(r) ==
    /\ pc[r] = "loop"
    /\ stage[r] = NumStages
    /\ Decide(r, "Success")

(* Mutation of Stop: the message is sent, the collector goes on.           *)
StopUnheard(r) ==
    /\ pc[r] = "stopping" /\ "collector" \in wg[r]
    /\ pc' = [pc EXCEPT ![r] = "draining"]
    /\ UNCHANGED <<stage, env, wg, currProcess, currentRuns, verdict,
                   cascadeRuns, created, cluster>>

(* stop <- true: the rendezvous with the collector, which then returns.    *)
Stop(r) ==
    /\ pc[r] = "stopping"
    /\ "collector" \in wg[r]
    /\ wg' = [wg EXCEPT ![r] = @ \ {"collector"}]
    /\ pc' = [pc EXCEPT ![r] = "draining"]
    /\ UNCHANGED <<stage, env, currProcess, currentRuns, verdict, cascadeRuns,
                   created, cluster>>

(* A goroutine that updates a status returns, its attempts used or not.    *)
Return(r, g) ==
    /\ g \in wg[r] \ {"collector"}
    /\ wg' = [wg EXCEPT ![r] = @ \ {g}]
    /\ UNCHANGED <<pc, stage, env, currProcess, currentRuns, verdict,
                   cascadeRuns, created, cluster>>

(* Mutation of Exit: the count goes down before wg.Wait().                 *)
ExitBeforeWait(r) ==
    /\ pc[r] = "draining"
    /\ currProcess' = currProcess - 1
    /\ pc' = [pc EXCEPT ![r] = "done"]
    /\ UNCHANGED <<stage, env, wg, currentRuns, verdict, cascadeRuns,
                   created, cluster>>

(* Mutation of Exit: the count does not go down.                           *)
ExitUncounted(r) ==
    /\ pc[r] = "draining" /\ wg[r] = {}
    /\ pc' = [pc EXCEPT ![r] = "done"]
    /\ UNCHANGED <<stage, env, wg, currProcess, currentRuns, verdict,
                   cascadeRuns, created, cluster>>

(* wg.Wait() returns and the process count goes down.                      *)
Exit(r) ==
    /\ pc[r] = "draining"
    /\ wg[r] = {}
    /\ currProcess' = currProcess - 1
    /\ pc' = [pc EXCEPT ![r] = "done"]
    /\ UNCHANGED <<stage, env, wg, currentRuns, verdict, cascadeRuns,
                   created, cluster>>

----------------------------------------------------------------------------
(* The end of the process, and what it takes along.  Nothing resumes a run *)
(* when Kubernetes starts the next process; its objects stay behind.       *)
Die ==
    /\ pc' = [r \in Runs |-> IF r \in InFlight THEN "lost" ELSE pc[r]]
    /\ wg' = [r \in Runs |-> {}]
    /\ env' = [k \in Stages |-> None]
    /\ currProcess' = 0
    /\ currentRuns' = 0
    /\ UNCHANGED <<stage, verdict, store, completed>>

(* IUid[0:5] panics on a shorter id, in a goroutine nobody recovers.       *)
PanicShortId(r) ==
    /\ pc[r] = "accepted"
    /\ r \in ShortIds
    /\ Die
    /\ UNCHANGED <<jobs, cascadeRuns, created>>

(* The job cannot be created, because its name is taken or because the     *)
(* call fails (it may have taken effect all the same): logger.Fatal.       *)
FatalCreateJob(r) ==
    /\ pc[r] = "creating"
    /\ Die
    /\ StoreJob(r) \/ UNCHANGED <<jobs, created>>
    /\ UNCHANGED cascadeRuns

Crash ==
    /\ Die
    /\ UNCHANGED <<jobs, cascadeRuns, created>>

----------------------------------------------------------------------------
(* The cluster.  A job starts pods until one succeeds or BackoffLimit + 1  *)
(* of them have failed.  A pod reads the package that s3path names, which  *)
(* is that of the job's input, and writes the one after it.                *)
controller == <<pc, stage, env, wg, currProcess, currentRuns, verdict,
                created>>

Unfinished(job) == ~job.succeeded /\ job.failed <= BackoffLimit

PodSucceeds(n) ==
    /\ jobs[n] # None
    /\ Unfinished(jobs[n])
    /\ <<jobs[n].input, jobs[n].stage>> \in store
    /\ jobs' = [jobs EXCEPT ![n].succeeded = TRUE]
    /\ store' = store \cup {<<jobs[n].input, jobs[n].stage + 1>>}
    /\ completed' = completed \cup {<<jobs[n].run, jobs[n].stage>>}
    /\ UNCHANGED <<controller, cascadeRuns>>

PodFails(n) ==
    /\ jobs[n] # None
    /\ Unfinished(jobs[n])
    /\ jobs' = [jobs EXCEPT ![n].failed = @ + 1]
    /\ UNCHANGED <<controller, cascadeRuns, store, completed>>

(* ttlSecondsAfterFinished: a finished job is removed.                     *)
Expire(n) ==
    /\ TTLSet
    /\ jobs[n] # None
    /\ ~Unfinished(jobs[n])
    /\ jobs' = [jobs EXCEPT ![n] = None]
    /\ UNCHANGED <<controller, cascadeRuns, store, completed>>

(* A user removes a CascadeRun; its name becomes free.                     *)
DeleteCascadeRun(p) ==
    /\ p \in cascadeRuns
    /\ cascadeRuns' = cascadeRuns \ {p}
    /\ UNCHANGED <<controller, cluster>>

----------------------------------------------------------------------------
Proceed(r) ==
    \/ CreateCascadeRun(r) \/ RefuseRun(r)     \/ CountProcess(r)
    \/ SetJobEnv(r)        \/ CreateJob(r)     \/ PollSucceeded(r)
    \/ PollFailed(r)       \/ Succeed(r)       \/ DeleteSuccessJob(r)
    \/ Stop(r)             \/ Exit(r)

Fatal(r) == PanicShortId(r) \/ FatalCreateJob(r)

Step(r) == Proceed(r) \/ Fatal(r)

Cluster(n) == PodSucceeds(n) \/ PodFails(n) \/ Expire(n)

Next == \/ \E r \in Runs : \/ StartRun(r)
                           \/ Step(r)
                           \/ \E g \in Helpers : Return(r, g)
        \/ \E n \in JobNames : Cluster(n)
        \/ \E p \in cascadeRuns : DeleteCascadeRun(p)
        \/ Crash

Spec == Init /\ [][Next]_vars

(* Goroutines are scheduled, API calls return, the attempts of a status    *)
(* update are bounded, and pods end.  Nothing says that a caller sends a   *)
(* request, or that anybody deletes an object.                             *)
Fairness == /\ \A r \in Runs : WF_vars(Step(r))
            /\ \A r \in Runs, g \in Helpers : WF_vars(Return(r, g))
            /\ \A n \in JobNames : WF_vars(PodSucceeds(n) \/ PodFails(n))

FairSpec == Spec /\ Fairness

----------------------------------------------------------------------------
(* Properties.                                                             *)

(* A run never mistakes another's job for its own: the job it polls, and   *)
(* the one it deletes as done, was created by it for the stage it is in,   *)
(* though runs may share IUid[0:5], CascadeRuns may be deleted, the        *)
(* process may die, and jobs are looked up and deleted by name alone.      *)
(* It needs jobs that nobody but the controller deletes.                   *)
OwnJob ==
    \A r \in Runs : pc[r] \in {"polling", "deleting"} =>
        LET job == jobs[MyJob(r)]
        IN  job # None /\ job.run = r /\ job.stage = stage[r]

(* No job is removed before one of its pods succeeded, however long ago    *)
(* the poll was that the deletion acts on.                                 *)
NoPrematureDelete ==
    [][\A n \in JobNames :
          jobs[n] # None /\ jobs'[n] = None => jobs[n].succeeded]_vars

(* Where jobs may expire a run can lose its job, but does not take another *)
(* for it: what it finds under the name of its job is its own.             *)
OwnJobIfAny ==
    \A r \in Runs : pc[r] \in {"polling", "deleting"} =>
        LET job == jobs[MyJob(r)]
        IN  job # None => job.run = r /\ job.stage = stage[r]

(* And no job is removed while its pods run or are still to be retried.    *)
NoUnfinishedDelete ==
    [][\A n \in JobNames :
          jobs[n] # None /\ jobs'[n] = None => ~Unfinished(jobs[n])]_vars

(* What waitForProcesses waits for: once CurrProcess is zero, no run of    *)
(* this process drives a stage, and none that has decided its result still *)
(* has a goroutine that writes it.                                         *)
Drained ==
    currProcess = 0 =>
        \A r \in Runs : /\ pc[r] \notin Working \cup Deciding
                        /\ verdict[r] # "none" => wg[r] = {}

(* The stages execute in order, each after its predecessors completed, and *)
(* the reported result is the one the stages had.                          *)
Promise == INSTANCE Cascade WITH outcome <- verdict

Implements == Promise!Spec

(* A run and the goroutines it starts keep to WaitGroup, whose helpers the *)
(* modules OperatorStatus and ModuleReports show at their work.            *)
Phase(r) == CASE pc[r] \in {"idle", "accepted", "refused"} -> "new"
              [] pc[r] \in {"begun"} \cup Working          -> "running"
              [] pc[r] \in Deciding \cup {"done", "lost"}  -> pc[r]

Group == INSTANCE WaitGroup
    WITH AtBegin    <- {"collector", "setActive"},
         AtDecision <- {"setOperator", "setRun"},
         Collector  <- "collector",
         phase      <- [r \in Runs |-> Phase(r)],
         waiting    <- wg

UsesWaitGroup == Group!Spec

(* Every step of a run uses up one of the steps it has left, whatever      *)
(* fails or is retried: it can wait for ever, but not go round for ever,   *)
(* and what it waits for is the answer of an API call, its job, the        *)
(* collector, or its helpers.                                              *)
StepsLeft(place, k) ==
    LET ahead == 4 * (NumStages - k)
    IN  CASE place = "idle"      -> 4 * NumStages + 6
          [] place = "accepted"  -> 4 * NumStages + 5
          [] place = "begun"     -> 4 * NumStages + 4
          [] place = "loop"      -> ahead + 3
          [] place = "creating"  -> ahead + 2
          [] place = "polling"   -> ahead + 1
          [] place = "deleting"  -> ahead
          [] place = "stopping"  -> 2
          [] place = "draining"  -> 1
          [] place \in Ended     -> 0

StepsRunOut ==
    [][\A r \in Runs : pc'[r] # pc[r] =>
          StepsLeft(pc'[r], stage'[r]) \in
             0 .. StepsLeft(pc[r], stage[r]) - 1]_vars

(* A run that reports success has left its own result in S3, which is      *)
(* where the result address that the run writes to its CascadeRun points.  *)
DeliveredResult ==
    \A r \in Runs : verdict[r] = "Success" => <<r, NumStages>> \in store

(* A run is only given up when its job is: backoffLimit pods were retried. *)
FailedMeansExhausted ==
    \A r \in Runs, n \in JobNames :
        verdict[r] = "Failed" /\ jobs[n] # None =>
            (jobs[n].run = r => ~Unfinished(jobs[n]))

(* Every accepted run comes to an end: it reports a result and flushes it, *)
(* or it is refused, or the process dies.                                  *)
EveryRunEnds ==
    \A r \in Runs : pc[r] = "accepted" ~> pc[r] \in Ended

(* Where jobs may expire, that is the only thing a run can be left waiting *)
(* for: short of its job being gone while it polls, every accepted run     *)
(* ends, however its calls fail and whatever its stages are called.        *)
RunEndsOrJobGone ==
    \A r \in Runs :
        pc[r] = "accepted" ~> \/ pc[r] \in Ended
                              \/ pc[r] = "polling" /\ jobs[MyJob(r)] = None
=============================================================================
