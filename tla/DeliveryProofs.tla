--------------------------- MODULE DeliveryProofs ---------------------------
(***************************************************************************)
(* What a reported success is worth, for any number of requests, stages,   *)
(* crashes and expiring jobs, as long as callers keep one run in flight at *)
(* a time.  (With two, run shared_env refutes it.)                         *)
(***************************************************************************)
EXTENDS ImageProcessingProofs

(* One run in flight has the shared containers, and its names, to itself.  *)
Alone == \A q, r \in InFlight : q = r

(* A run has the package of its stage to read, sends its own address, and  *)
(* polls, if anything, the job that it created.                            *)
RunsReadTheirOwn == \A r \in Runs :
    /\ <<r, stage[r]>> \in store
    /\ pc[r] = "creating" => env[stage[r]] = r
    /\ pc[r] = "polling" /\ jobs[MyJob(r)] # None =>
          /\ jobs[MyJob(r)].run = r
          /\ jobs[MyJob(r)].stage = stage[r]
    /\ pc[r] = "deleting" => <<r, stage[r] + 1>> \in store

(* Jobs, those that earlier processes left behind included, read and write *)
(* the packages of the run they were created for.                          *)
JobsWriteTheirOwn == \A n \in JobNames : jobs[n] # None =>
    /\ jobs[n].input = jobs[n].run
    /\ jobs[n].succeeded => <<jobs[n].run, jobs[n].stage + 1>> \in store

DeliveryInv == Alone /\ RunsReadTheirOwn /\ JobsWriteTheirOwn /\ DeliveredResult

LEMMA DeliveryInit == Init => DeliveryInv
BY NumbersAssumption
   DEF Init, DeliveryInv, Alone, InFlight, RunsReadTheirOwn,
       JobsWriteTheirOwn, DeliveredResult

(* Nobody is in flight when a run starts.                                  *)
LEMMA StartKeepsDelivery ==
    ASSUME Concurrency = 1, TypeInv, DeliveryInv, NEW r \in Runs, StartRun(r)
    PROVE  DeliveryInv'
<1>1. InFlight = {}
  <2>1. IsFiniteSet(InFlight)
    BY RunsAssumption, FS_Subset DEF InFlight
  <2>2. Cardinality(InFlight) = 0
    BY <2>1, FS_CardinalityType DEF StartRun
  <2> QED BY <2>1, <2>2, FS_EmptySet
<1>2. /\ pc' = [pc EXCEPT ![r] = "accepted"]
      /\ UNCHANGED <<stage, env, jobs, store, verdict>>
  BY DEF StartRun, cluster
<1>3. Alone'
  BY <1>1, <1>2 DEF Alone, InFlight, TypeInv, TypeOK
<1>4. RunsReadTheirOwn'
  BY <1>2 DEF DeliveryInv, RunsReadTheirOwn, TypeInv, TypeOK, MyJob
<1>5. JobsWriteTheirOwn' /\ DeliveredResult'
  BY <1>2 DEF DeliveryInv, JobsWriteTheirOwn, DeliveredResult
<1> QED BY <1>3, <1>4, <1>5 DEF DeliveryInv

(* A step that only ends runs, or moves them elsewhere than to the stages  *)
(* whose state is tied to the cluster, disturbs nothing.                   *)
LEMMA MoveKeepsDelivery ==
    ASSUME DeliveryInv, InFlight' \subseteq InFlight,
           UNCHANGED <<stage, jobs, store, verdict>>,
           \A q \in Runs : /\ pc'[q] \in {"creating", "polling", "deleting"}
                                => pc'[q] = pc[q]
                           /\ pc'[q] = "creating" => UNCHANGED env
    PROVE  DeliveryInv'
<1>1. Alone' /\ JobsWriteTheirOwn' /\ DeliveredResult'
  BY DEF DeliveryInv, Alone, JobsWriteTheirOwn, DeliveredResult
<1>2. RunsReadTheirOwn'
  BY DEF DeliveryInv, RunsReadTheirOwn, MyJob
<1> QED BY <1>1, <1>2 DEF DeliveryInv

(* The job that a run stores reads what the run was given.                 *)
LEMMA StoreKeepsDelivery ==
    ASSUME TypeInv, DeliveryInv, NEW r \in Runs, pc[r] = "creating",
           StoreJob(r), InFlight' \subseteq InFlight,
           UNCHANGED <<stage, store, verdict>>,
           \A q \in Runs : pc'[q] \in {"creating", "polling", "deleting"} =>
                              q = r /\ pc'[q] = "polling"
    PROVE  DeliveryInv'
<1>1. /\ MyJob(r) \in JobNames /\ stage[r] \in Stages /\ env[stage[r]] = r
  <2>1. stage[r] \in Stages
    BY DEF TypeInv, InStage
  <2>2. env[stage[r]] = r
    BY DEF DeliveryInv, RunsReadTheirOwn
  <2> QED BY <2>1, <2>2 DEF MyJob, JobNames
<1>2. /\ jobs'[MyJob(r)].run = r /\ jobs'[MyJob(r)].stage = stage[r]
      /\ jobs'[MyJob(r)].input = r /\ ~jobs'[MyJob(r)].succeeded
      /\ \A n \in JobNames : n # MyJob(r) => jobs'[n] = jobs[n]
  BY <1>1 DEF StoreJob, TypeInv, TypeOK
<1>3. MyJob(r)' = MyJob(r)
  BY DEF MyJob
<1>4. Alone' /\ DeliveredResult'
  BY DEF DeliveryInv, Alone, DeliveredResult
<1>5. JobsWriteTheirOwn'
  BY <1>2 DEF DeliveryInv, JobsWriteTheirOwn
<1>6. RunsReadTheirOwn'
  BY <1>2, <1>3 DEF DeliveryInv, RunsReadTheirOwn
<1> QED BY <1>4, <1>5, <1>6 DEF DeliveryInv

(* A pod reads and writes the packages of the run its job was created for. *)
LEMMA ClusterKeepsDelivery ==
    ASSUME TypeInv, DeliveryInv, NEW n \in JobNames, Cluster(n)
    PROVE  DeliveryInv'
<1>1. /\ UNCHANGED <<pc, stage, env, verdict>>
      /\ store \subseteq store'
      /\ \A m \in JobNames : m # n => jobs'[m] = jobs[m]
  BY DEF Cluster, PodSucceeds, PodFails, Expire, controller, TypeInv, TypeOK
<1>2. /\ jobs[n] # None
      /\ jobs'[n] # None =>
            /\ jobs'[n].run = jobs[n].run /\ jobs'[n].stage = jobs[n].stage
            /\ jobs'[n].input = jobs[n].input
            /\ \/ jobs'[n].succeeded = jobs[n].succeeded
               \/ <<jobs[n].input, jobs[n].stage + 1>> \in store'
  <2>0. jobs \in [JobNames -> Job \cup {None}]
    BY DEF TypeInv, TypeOK
  <2>1. CASE PodSucceeds(n)
    <3>1. jobs[n] \in Job /\ jobs[n] # None
      BY <2>0, <2>1 DEF PodSucceeds
    <3>2. /\ jobs'[n] = [jobs[n] EXCEPT !.succeeded = TRUE]
          /\ <<jobs[n].input, jobs[n].stage + 1>> \in store'
      BY <2>0, <2>1 DEF PodSucceeds
    <3> QED BY <3>1, <3>2 DEF Job
  <2>2. CASE PodFails(n)
    <3>1. jobs[n] \in Job /\ jobs[n] # None
      BY <2>0, <2>2 DEF PodFails
    <3>2. jobs'[n] = [jobs[n] EXCEPT !.failed = @ + 1]
      BY <2>0, <2>2 DEF PodFails
    <3> QED BY <3>1, <3>2 DEF Job
  <2>3. CASE Expire(n)
    BY <2>0, <2>3 DEF Expire
  <2> QED BY <2>1, <2>2, <2>3 DEF Cluster
<1>3. Alone' /\ DeliveredResult'
  BY <1>1 DEF DeliveryInv, Alone, InFlight, DeliveredResult
<1>4. JobsWriteTheirOwn'
  BY <1>1, <1>2 DEF DeliveryInv, JobsWriteTheirOwn
<1>5. RunsReadTheirOwn'
  <2> SUFFICES ASSUME NEW r \in Runs
               PROVE  /\ <<r, stage[r]>> \in store'
                      /\ pc[r] = "creating" => env[stage[r]] = r
                      /\ pc[r] = "polling" /\ jobs'[MyJob(r)] # None =>
                            /\ jobs'[MyJob(r)].run = r
                            /\ jobs'[MyJob(r)].stage = stage[r]
                      /\ pc[r] = "deleting" => <<r, stage[r] + 1>> \in store'
    BY <1>1 DEF RunsReadTheirOwn, MyJob
  <2>1. pc[r] = "polling" => MyJob(r) \in JobNames
    BY DEF TypeInv, InStage, MyJob, JobNames
  <2> QED BY <1>1, <1>2, <2>1 DEF DeliveryInv, RunsReadTheirOwn
<1> QED BY <1>3, <1>4, <1>5 DEF DeliveryInv

LEMMA StepKeepsDelivery ==
    ASSUME TypeInv, DeliveryInv, NEW r \in Runs, Step(r)
    PROVE  DeliveryInv'
<1> USE DEF InFlight, Ended
<1>0. pc \in [Runs -> PCs] /\ stage \in [Runs -> 0 .. NumStages]
  BY DEF TypeInv, TypeOK, PCs
<1>1. CASE \/ CreateCascadeRun(r) \/ RefuseRun(r) \/ CountProcess(r)
           \/ PollFailed(r) \/ Stop(r) \/ Exit(r)
  <2>1. CASE CreateCascadeRun(r)
    BY <1>0, <2>1, MoveKeepsDelivery DEF CreateCascadeRun, cluster
  <2>2. CASE RefuseRun(r)
    BY <1>0, <2>2, MoveKeepsDelivery DEF RefuseRun, cluster
  <2>3. CASE CountProcess(r)
    BY <1>0, <2>3, MoveKeepsDelivery DEF CountProcess, cluster
  <2>4. CASE PollFailed(r)
    <3>1. /\ pc[r] = "polling" /\ pc' = [pc EXCEPT ![r] = "stopping"]
          /\ verdict' = [verdict EXCEPT ![r] = "Failed"]
          /\ UNCHANGED <<stage, env, jobs, store>>
      BY <2>4 DEF PollFailed, Decide, cluster
    <3>2. Alone' /\ JobsWriteTheirOwn'
      BY <1>0, <3>1 DEF DeliveryInv, Alone, JobsWriteTheirOwn
    <3>3. RunsReadTheirOwn'
      BY <1>0, <3>1 DEF DeliveryInv, RunsReadTheirOwn, MyJob
    <3>4. DeliveredResult'
      BY <3>1 DEF DeliveryInv, DeliveredResult, TypeInv, TypeOK
    <3> QED BY <3>2, <3>3, <3>4 DEF DeliveryInv
  <2>5. CASE Stop(r)
    BY <1>0, <2>5, MoveKeepsDelivery DEF Stop, cluster
  <2>6. CASE Exit(r)
    BY <1>0, <2>6, MoveKeepsDelivery DEF Exit, cluster
  <2> QED BY <1>1, <2>1, <2>2, <2>3, <2>4, <2>5, <2>6
<1>2. CASE SetJobEnv(r)
  <2>1. /\ pc[r] = "loop" /\ pc' = [pc EXCEPT ![r] = "creating"]
        /\ stage[r] \in Stages
        /\ env' = [env EXCEPT ![stage[r]] = r]
        /\ UNCHANGED <<stage, jobs, store, verdict>>
    BY <1>0, <1>2, NumbersAssumption DEF SetJobEnv, cluster, Stages
  <2>2. Alone' /\ JobsWriteTheirOwn' /\ DeliveredResult'
    BY <1>0, <2>1 DEF DeliveryInv, Alone, JobsWriteTheirOwn, DeliveredResult
  <2>3. env'[stage[r]] = r
    BY <2>1 DEF TypeInv, TypeOK
  <2>4. \A q \in Runs : pc[q] = "creating" => q = r
    BY <2>1 DEF DeliveryInv, Alone
  <2>5. RunsReadTheirOwn'
    BY <1>0, <2>1, <2>3, <2>4 DEF DeliveryInv, RunsReadTheirOwn, MyJob
  <2> QED BY <2>2, <2>5 DEF DeliveryInv
<1>3. CASE CreateJob(r)
  <2>1. \A q \in Runs : q # r => pc'[q] \notin {"creating", "polling", "deleting"}
    BY <1>0, <1>3 DEF CreateJob, DeliveryInv, Alone
  <2> QED BY <1>0, <1>3, <2>1, StoreKeepsDelivery DEF CreateJob
<1>4. CASE PollSucceeded(r)
  <2>1. /\ pc[r] = "polling" /\ pc' = [pc EXCEPT ![r] = "deleting"]
        /\ jobs[MyJob(r)] # None /\ jobs[MyJob(r)].succeeded
        /\ UNCHANGED <<stage, env, jobs, store, verdict>>
    BY <1>4 DEF PollSucceeded, cluster
  <2>2. Alone' /\ JobsWriteTheirOwn' /\ DeliveredResult'
    BY <1>0, <2>1 DEF DeliveryInv, Alone, JobsWriteTheirOwn, DeliveredResult
  <2>3. MyJob(r) \in JobNames
    BY <2>1 DEF TypeInv, InStage, MyJob, JobNames
  <2>4. <<r, stage[r] + 1>> \in store
    BY <2>1, <2>3 DEF DeliveryInv, RunsReadTheirOwn, JobsWriteTheirOwn
  <2>5. RunsReadTheirOwn'
    BY <1>0, <2>1, <2>4 DEF DeliveryInv, RunsReadTheirOwn, MyJob
  <2> QED BY <2>2, <2>5 DEF DeliveryInv
<1>5. CASE DeleteSuccessJob(r)
  <2>1. /\ pc[r] = "deleting" /\ pc' = [pc EXCEPT ![r] = "loop"]
        /\ stage' = [stage EXCEPT ![r] = @ + 1]
        /\ jobs' = jobs \/ jobs' = [jobs EXCEPT ![MyJob(r)] = None]
        /\ UNCHANGED <<env, store, verdict>>
    BY <1>5 DEF DeleteSuccessJob
  <2>2. \A n \in JobNames : jobs'[n] = jobs[n] \/ jobs'[n] = None
    BY <2>1 DEF TypeInv, TypeOK
  <2>3. Alone' /\ JobsWriteTheirOwn' /\ DeliveredResult'
    BY <1>0, <2>1, <2>2
       DEF DeliveryInv, Alone, JobsWriteTheirOwn, DeliveredResult
  <2>4. \A q \in Runs : q # r => pc[q] \notin {"creating", "polling", "deleting"}
    BY <2>1 DEF DeliveryInv, Alone
  <2>5. RunsReadTheirOwn'
    BY <1>0, <2>1, <2>4 DEF DeliveryInv, RunsReadTheirOwn
  <2> QED BY <2>3, <2>5 DEF DeliveryInv
<1>6. CASE Succeed(r)
  <2>1. /\ pc[r] = "loop" /\ stage[r] = NumStages
        /\ pc' = [pc EXCEPT ![r] = "stopping"]
        /\ verdict' = [verdict EXCEPT ![r] = "Success"]
        /\ UNCHANGED <<stage, env, jobs, store>>
    BY <1>6 DEF Succeed, Decide, cluster
  <2>2. Alone' /\ JobsWriteTheirOwn'
    BY <1>0, <2>1 DEF DeliveryInv, Alone, JobsWriteTheirOwn
  <2>3. RunsReadTheirOwn'
    BY <1>0, <2>1 DEF DeliveryInv, RunsReadTheirOwn, MyJob
  <2>4. DeliveredResult'
    BY <2>1 DEF DeliveryInv, DeliveredResult, RunsReadTheirOwn, TypeInv, TypeOK
  <2> QED BY <2>2, <2>3, <2>4 DEF DeliveryInv
<1>7. CASE PanicShortId(r)
  BY <1>0, <1>7, MoveKeepsDelivery DEF PanicShortId, Die
<1>8. CASE FatalCreateJob(r)
  <2>1. CASE StoreJob(r)
    BY <1>0, <1>8, <2>1, StoreKeepsDelivery DEF FatalCreateJob, Die
  <2>2. CASE UNCHANGED <<jobs, created>>
    BY <1>0, <1>8, <2>2, MoveKeepsDelivery DEF FatalCreateJob, Die
  <2> QED BY <1>8, <2>1, <2>2 DEF FatalCreateJob
<1> QED BY <1>1, <1>2, <1>3, <1>4, <1>5, <1>6, <1>7, <1>8
        DEF Step, Proceed, Fatal

LEMMA DeliveryNext ==
    ASSUME Concurrency = 1
    PROVE  TypeInv /\ DeliveryInv /\ [Next]_vars => DeliveryInv'
<1> SUFFICES ASSUME TypeInv, DeliveryInv, [Next]_vars PROVE DeliveryInv'
  OBVIOUS
<1>1. ASSUME NEW r \in Runs, StartRun(r) PROVE DeliveryInv'
  BY <1>1, StartKeepsDelivery
<1>2. ASSUME NEW r \in Runs, Step(r) PROVE DeliveryInv'
  BY <1>2, StepKeepsDelivery
<1>3. ASSUME NEW r \in Runs, NEW g \in Helpers, Return(r, g) PROVE DeliveryInv'
  BY <1>3, MoveKeepsDelivery DEF Return, InFlight, cluster
<1>4. ASSUME NEW n \in JobNames, Cluster(n) PROVE DeliveryInv'
  BY <1>4, ClusterKeepsDelivery
<1>5. ASSUME NEW x \in cascadeRuns, DeleteCascadeRun(x) PROVE DeliveryInv'
  BY <1>5, MoveKeepsDelivery DEF DeleteCascadeRun, InFlight, controller, cluster
<1>6. CASE Crash
  BY <1>6, MoveKeepsDelivery DEF Crash, Die, InFlight, Ended
<1>7. CASE UNCHANGED vars
  BY <1>7, MoveKeepsDelivery DEF vars, InFlight
<1> QED BY <1>1, <1>2, <1>3, <1>4, <1>5, <1>6, <1>7 DEF Next

(* A run that reports success has left its own result in S3, as long as    *)
(* callers keep one run in flight: neither the jobs that a dead process    *)
(* left behind, nor names used again, nor jobs that expire can change it.  *)
THEOREM SuccessIsDelivered ==
    ASSUME Concurrency = 1 PROVE Spec => []DeliveredResult
<1>1. DeliveryInv => DeliveredResult
  BY DEF DeliveryInv
<1> QED BY <1>1, TypesInit, TypesNext, DeliveryInit, DeliveryNext, PTL DEF Spec
=============================================================================
