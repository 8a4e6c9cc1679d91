---------------------------- MODULE ExpiryProofs ----------------------------
(***************************************************************************)
(* Theorems about ImageProcessing where finished jobs may expire.  A name  *)
(* is then freed under the run that polls it, and what keeps another run   *)
(* from taking it is the CascadeRun, whose name has the same prefix: the   *)
(* promise holds as long as nobody deletes the CascadeRun of a run that is *)
(* underway.                                                               *)
(***************************************************************************)
EXTENDS DeliveryProofs

Underway(r) == pc[r] \in {"begun"} \cup Working \cup Deciding

NamesApart ==
    \A q, r \in Runs :
        Underway(q) /\ Underway(r) /\ Prefix[q] = Prefix[r] => q = r

RecordsKept == \A r \in Runs : Underway(r) => Prefix[r] \in cascadeRuns

----------------------------------------------------------------------------
(* A run is underway from the creation of its CascadeRun, or was before.   *)
LEMMA GetsUnderway ==
    ASSUME TypeInv, [Next]_vars
    PROVE  \/ \A r \in Runs : Underway(r)' => Underway(r)
           \/ \E r \in Runs : /\ Prefix[r] \notin cascadeRuns
                              /\ \A q \in Runs \ {r} : Underway(q)' => Underway(q)
<1> USE DEF Underway, Working, Deciding, Ended, TypeInv, TypeOK
<1>1. ASSUME NEW r \in Runs, CreateCascadeRun(r)
      PROVE  /\ Prefix[r] \notin cascadeRuns
             /\ \A q \in Runs \ {r} : Underway(q)' => Underway(q)
  BY <1>1 DEF CreateCascadeRun, StoreCascadeRun
<1>2. ASSUME NEW r \in Runs,
             \/ StartRun(r) \/ RefuseRun(r) \/ CountProcess(r) \/ SetJobEnv(r)
             \/ CreateJob(r) \/ PollSucceeded(r) \/ PollFailed(r) \/ Succeed(r)
             \/ DeleteSuccessJob(r) \/ Stop(r) \/ Exit(r)
      PROVE  \A q \in Runs : Underway(q)' => Underway(q)
  <2>1. CASE StartRun(r) \/ RefuseRun(r) \/ CountProcess(r) \/ SetJobEnv(r)
    BY <2>1 DEF StartRun, RefuseRun, CountProcess, SetJobEnv
  <2>2. CASE CreateJob(r) \/ PollSucceeded(r) \/ DeleteSuccessJob(r)
    BY <2>2 DEF CreateJob, PollSucceeded, DeleteSuccessJob
  <2>3. CASE PollFailed(r) \/ Succeed(r) \/ Stop(r) \/ Exit(r)
    BY <2>3 DEF PollFailed, Succeed, Decide, Stop, Exit
  <2> QED BY <1>2, <2>1, <2>2, <2>3
<1>3. ASSUME Die PROVE \A q \in Runs : Underway(q)' => Underway(q)
  BY <1>3 DEF Die, InFlight
<1>4. \/ UNCHANGED pc \/ Die
      \/ \E r \in Runs : \/ StartRun(r) \/ CreateCascadeRun(r) \/ RefuseRun(r)
                         \/ CountProcess(r) \/ SetJobEnv(r) \/ CreateJob(r)
                         \/ PollSucceeded(r) \/ PollFailed(r) \/ Succeed(r)
                         \/ DeleteSuccessJob(r) \/ Stop(r) \/ Exit(r)
  BY DEF Next, Step, Proceed, Fatal, PanicShortId, FatalCreateJob, Return,
         Cluster, PodSucceeds, PodFails, Expire, DeleteCascadeRun, Crash,
         controller, vars
<1>5. CASE UNCHANGED pc
  BY <1>5
<1> QED BY <1>1, <1>2, <1>3, <1>4, <1>5

(* Two runs underway have different names, since each found its own free,  *)
(* if no CascadeRun is deleted while its run is underway.                  *)
THEOREM RecordsKeepNamesApart == Spec /\ []RecordsKept => []NamesApart
<1>1. Init => NamesApart
  BY DEF Init, NamesApart, Underway, Working, Deciding
<1>2. TypeInv /\ RecordsKept /\ NamesApart /\ [Next]_vars => NamesApart'
  BY GetsUnderway DEF RecordsKept, NamesApart
<1> QED BY <1>1, <1>2, TypesInit, TypesNext, PTL DEF Spec

(* So they have if callers keep one run in flight, whatever is deleted.    *)
LEMMA AloneKeepsNamesApart ==
    ASSUME Concurrency = 1 PROVE Spec => []NamesApart
<1>1. DeliveryInv => NamesApart
  BY DEF DeliveryInv, Alone, InFlight, Ended, NamesApart, Underway, Working,
         Deciding
<1> QED BY <1>1, TypesInit, TypesNext, DeliveryInit, DeliveryNext, PTL DEF Spec

----------------------------------------------------------------------------
(* The jobs.  OwnerInv is OrderInv without what an expiry takes away.      *)
LEMMA OwnerInit == Init => OwnerInv
BY NumbersAssumption
   DEF Init, OwnerInv, StagesInOrder, JobsMatchHistory, OwnJobIfAny,
       DeletesCompleted, RunsFollowStages

(* A run that moves without touching a job, and is not past CreateJob      *)
(* afterwards.                                                             *)
LEMMA MoveKeepsOwner ==
    ASSUME OwnerInv, UNCHANGED <<jobs, created, completed, stage>>,
           \A r \in Runs :
              \/ pc'[r] = pc[r]
              \/ pc'[r] \notin Active
              \/ /\ pc[r]  \in Active \ {"polling", "deleting"}
                 /\ pc'[r] \in Active \ {"polling", "deleting"}
    PROVE  OwnerInv'
<1>1. StagesInOrder' /\ JobsMatchHistory'
  BY DEF OwnerInv, StagesInOrder, JobsMatchHistory
<1>2. \A r \in Runs : MyJob(r)' = MyJob(r)
  BY DEF MyJob
<1>3. \A r \in Runs : pc'[r] \in {"polling", "deleting"} => pc'[r] = pc[r]
  BY DEF Active, Working
<1>4. OwnJobIfAny' /\ DeletesCompleted'
  BY <1>2, <1>3 DEF OwnerInv, OwnJobIfAny, DeletesCompleted
<1>5. RunsFollowStages'
  BY DEF OwnerInv, RunsFollowStages
<1> QED BY <1>1, <1>4, <1>5 DEF OwnerInv

(* The job of a stage is stored under a name no other run underway polls.  *)
LEMMA StoreKeepsOwner ==
    ASSUME TypeInv, OwnerInv, NamesApart, NEW r \in Runs, pc[r] = "creating",
           StoreJob(r), UNCHANGED <<completed, stage>>,
           \A q \in Runs \ {r} : pc'[q] = pc[q] \/ pc'[q] \notin Active,
           pc'[r] \in {"polling", "lost"}
    PROVE  OwnerInv'
<1> DEFINE n == MyJob(r)
           new == [run |-> r, stage |-> stage[r], input |-> env[stage[r]],
                   succeeded |-> FALSE, failed |-> 0]
<1>1. /\ stage[r] \in Stages /\ n \in JobNames
      /\ jobs[n] = None /\ jobs' = [jobs EXCEPT ![n] = new]
      /\ created' = created \cup {<<r, stage[r]>>}
  BY DEF TypeInv, InStage, StoreJob, MyJob, JobNames
<1>2. jobs'[n] = new /\ \A m \in JobNames \ {n} : jobs'[m] = jobs[m]
  BY <1>1 DEF TypeInv, TypeOK
<1>3. /\ <<r, stage[r]>> \notin created
      /\ \A j \in 0 .. stage[r] - 1 : <<r, j>> \in completed
  BY <1>1, NumbersAssumption
     DEF OwnerInv, RunsFollowStages, Active, Working, Stages
<1> HIDE DEF n
<1>5. StagesInOrder'
  BY <1>1, <1>3 DEF OwnerInv, StagesInOrder
<1>6. JobsMatchHistory'
  <2> SUFFICES ASSUME NEW m \in JobNames, jobs'[m] # None
               PROVE  /\ m = JobName(jobs'[m].run, jobs'[m].stage)
                      /\ <<jobs'[m].run, jobs'[m].stage>> \in created'
                      /\ jobs'[m].succeeded
                         <=> <<jobs'[m].run, jobs'[m].stage>> \in completed'
    BY DEF JobsMatchHistory
  <2>1. CASE m = n
    <3>1. new.run = r /\ new.stage = stage[r] /\ new.succeeded = FALSE
      OBVIOUS
    <3>2. <<r, stage[r]>> \notin completed
      BY <1>3 DEF OwnerInv, StagesInOrder
    <3> QED BY <1>1, <1>2, <2>1, <3>1, <3>2 DEF n, MyJob
  <2>2. CASE m # n
    BY <1>1, <1>2, <2>2 DEF OwnerInv, JobsMatchHistory
  <2> QED BY <2>1, <2>2
<1>7. ASSUME NEW q \in Runs, pc'[q] \in {"polling", "deleting"}
      PROVE  /\ jobs'[MyJob(q)'] # None =>
                   /\ jobs'[MyJob(q)'].run = q
                   /\ jobs'[MyJob(q)'].stage = stage'[q]
             /\ pc'[q] = "deleting" => <<q, stage'[q]>> \in completed'
  <2>1. MyJob(q)' = MyJob(q)
    BY DEF MyJob
  <2>2. CASE q = r
    <3>1. pc'[q] = "polling"
      BY <1>7, <2>2
    <3> QED BY <1>2, <2>1, <2>2, <3>1 DEF n
  <2>3. CASE q # r
    <3>1. pc[q] = pc'[q]
      BY <1>7, <2>3 DEF Active, Working
    <3>2. MyJob(q) \in JobNames /\ Prefix[q] # Prefix[r]
      BY <1>7, <2>3, <3>1
         DEF NamesApart, Underway, Working, MyJob, JobNames, TypeInv, InStage
    <3>3. MyJob(q) # n
      BY <3>2 DEF n, MyJob, JobName
    <3>4. jobs'[MyJob(q)] = jobs[MyJob(q)]
      BY <1>2, <3>2, <3>3
    <3> QED BY <1>7, <2>1, <3>1, <3>4 DEF OwnerInv, OwnJobIfAny, DeletesCompleted
  <2> QED BY <2>2, <2>3
<1>8. OwnJobIfAny' /\ DeletesCompleted'
  BY <1>7 DEF OwnJobIfAny, DeletesCompleted
<1>9. RunsFollowStages'
  <2> SUFFICES ASSUME NEW q \in Runs, pc'[q] \in Active
               PROVE  /\ \A j \in 0 .. stage[q] - 1 : <<q, j>> \in completed
                      /\ \A k \in Stages : <<q, k>> \in created' =>
                           \/ k < stage[q]
                           \/ k = stage[q] /\ pc'[q] \in {"polling", "deleting"}
    BY DEF RunsFollowStages
  <2>1. CASE q = r
    BY <1>1, <2>1 DEF OwnerInv, RunsFollowStages, Active, Working
  <2>2. CASE q # r
    BY <1>1, <2>2 DEF OwnerInv, RunsFollowStages
  <2> QED BY <2>1, <2>2
<1> QED BY <1>5, <1>6, <1>8, <1>9 DEF OwnerInv

(* The deletion removes a job at most.                                     *)
LEMMA DeleteKeepsOwner ==
    ASSUME TypeInv, OwnerInv, NEW r \in Runs, DeleteSuccessJob(r)
    PROVE  OwnerInv'
<1>1. /\ stage[r] \in Stages /\ pc[r] = "deleting"
      /\ \A m \in JobNames : jobs'[m] = jobs[m] \/ jobs'[m] = None
      /\ pc' = [pc EXCEPT ![r] = "loop"]
      /\ stage' = [stage EXCEPT ![r] = @ + 1]
      /\ UNCHANGED <<created, completed>>
  BY DEF DeleteSuccessJob, TypeInv, TypeOK, InStage, history
<1>2. <<r, stage[r]>> \in completed
  BY <1>1 DEF OwnerInv, DeletesCompleted
<1>3. StagesInOrder' /\ JobsMatchHistory'
  BY <1>1 DEF OwnerInv, StagesInOrder, JobsMatchHistory
<1>4. ASSUME NEW q \in Runs, pc'[q] \in {"polling", "deleting"}
      PROVE  /\ MyJob(q)' = MyJob(q) /\ stage'[q] = stage[q] /\ pc'[q] = pc[q]
             /\ \/ jobs'[MyJob(q)] = jobs[MyJob(q)]
                \/ jobs'[MyJob(q)] = None
  <2>1. q # r /\ pc'[q] = pc[q] /\ stage'[q] = stage[q]
    BY <1>1, <1>4 DEF TypeInv, TypeOK
  <2>2. MyJob(q)' = MyJob(q) /\ MyJob(q) \in JobNames
    BY <1>4, <2>1 DEF MyJob, JobNames, TypeInv, InStage
  <2> QED BY <1>1, <2>1, <2>2
<1>5. OwnJobIfAny' /\ DeletesCompleted'
  BY <1>1, <1>4 DEF OwnerInv, OwnJobIfAny, DeletesCompleted
<1>6. RunsFollowStages'
  <2> SUFFICES ASSUME NEW q \in Runs, pc'[q] \in Active
               PROVE  /\ \A j \in 0 .. stage'[q] - 1 : <<q, j>> \in completed
                      /\ \A k \in Stages : <<q, k>> \in created =>
                           \/ k < stage'[q]
                           \/ k = stage'[q] /\ pc'[q] \in {"polling", "deleting"}
    BY <1>1 DEF RunsFollowStages
  <2>1. CASE q = r
    <3>1. stage[r] \in Nat /\ stage'[r] = stage[r] + 1
      BY <1>1 DEF TypeInv, TypeOK
    <3>2. \A k \in Stages : k \in Nat
      BY DEF Stages
    <3>3. \A j \in 0 .. stage[r] : j \in 0 .. stage[r] - 1 \/ j = stage[r]
      BY <3>1
    <3> QED BY <1>1, <1>2, <2>1, <3>1, <3>2, <3>3
            DEF OwnerInv, RunsFollowStages, Active, Working
  <2>2. CASE q # r
    BY <1>1, <2>2 DEF OwnerInv, RunsFollowStages, TypeInv, TypeOK
  <2> QED BY <2>1, <2>2
<1> QED BY <1>3, <1>5, <1>6 DEF OwnerInv

(* The cluster counts pods and removes finished jobs.                      *)
LEMMA ClusterKeepsOwner ==
    ASSUME TypeInv, OwnerInv, NEW n \in JobNames, Cluster(n)
    PROVE  OwnerInv'
<1>1. /\ UNCHANGED <<pc, stage, created>>
      /\ jobs[n] # None
      /\ \A m \in JobNames : m # n => jobs'[m] = jobs[m]
      /\ \/ jobs'[n] = None /\ completed' = completed
         \/ /\ Unfinished(jobs[n])
            /\ jobs'[n] # None /\ jobs'[n].run = jobs[n].run
            /\ jobs'[n].stage = jobs[n].stage
            /\ \/ /\ jobs'[n].succeeded
                  /\ completed' = completed \cup {<<jobs[n].run, jobs[n].stage>>}
               \/ /\ jobs'[n].succeeded = jobs[n].succeeded
                  /\ completed' = completed
  <2>1. CASE PodSucceeds(n) \/ PodFails(n)
    <3>1. /\ jobs[n] \in Job /\ jobs'[n] \in Job
          /\ jobs' = [jobs EXCEPT ![n] = jobs'[n]]
          /\ jobs'[n].run = jobs[n].run /\ jobs'[n].stage = jobs[n].stage
          /\ PodSucceeds(n) => jobs'[n].succeeded
          /\ PodFails(n) => jobs'[n].succeeded = jobs[n].succeeded
      BY <2>1, PodsKeepJob DEF TypeInv
    <3>2. \A m \in JobNames : m # n => jobs'[m] = jobs[m]
      BY <3>1 DEF TypeInv, TypeOK
    <3>3. CASE PodSucceeds(n)
      BY <3>1, <3>2, <3>3, NoneAssumption DEF PodSucceeds, controller
    <3>4. CASE PodFails(n)
      BY <3>1, <3>2, <3>4, NoneAssumption DEF PodFails, controller
    <3> QED BY <2>1, <3>3, <3>4
  <2>2. CASE Expire(n)
    BY <2>2 DEF Expire, controller, TypeInv, TypeOK
  <2> QED BY <2>1, <2>2 DEF Cluster
<1>2. /\ <<jobs[n].run, jobs[n].stage>> \in created
      /\ completed \subseteq completed'
      /\ completed' \subseteq completed \cup {<<jobs[n].run, jobs[n].stage>>}
  BY <1>1 DEF OwnerInv, JobsMatchHistory
<1>3. StagesInOrder'
  BY <1>1, <1>2 DEF OwnerInv, StagesInOrder
<1>4. JobsMatchHistory'
  <2> SUFFICES ASSUME NEW m \in JobNames, jobs'[m] # None
               PROVE  /\ m = JobName(jobs'[m].run, jobs'[m].stage)
                      /\ <<jobs'[m].run, jobs'[m].stage>> \in created'
                      /\ jobs'[m].succeeded
                         <=> <<jobs'[m].run, jobs'[m].stage>> \in completed'
    BY DEF JobsMatchHistory
  <2>1. CASE m = n
    BY <1>1, <2>1 DEF OwnerInv, JobsMatchHistory, Unfinished
  <2>2. CASE m # n
    BY <1>1, <2>2 DEF OwnerInv, JobsMatchHistory
  <2> QED BY <2>1, <2>2
<1>5. \A q \in Runs : MyJob(q)' = MyJob(q)
  BY <1>1 DEF MyJob
<1>6. \A q \in Runs : pc[q] \in {"polling", "deleting"} =>
                         MyJob(q) \in JobNames
  BY DEF TypeInv, InStage, MyJob, JobNames
<1>7. OwnJobIfAny' /\ DeletesCompleted'
  BY <1>1, <1>2, <1>5, <1>6 DEF OwnerInv, OwnJobIfAny, DeletesCompleted
<1>8. RunsFollowStages'
  BY <1>1, <1>2 DEF OwnerInv, RunsFollowStages
<1> QED BY <1>3, <1>4, <1>7, <1>8 DEF OwnerInv

LEMMA OwnerNext ==
    TypeInv /\ OwnerInv /\ NamesApart /\ [Next]_vars => OwnerInv'
<1> SUFFICES ASSUME TypeInv, OwnerInv, NamesApart, [Next]_vars PROVE OwnerInv'
  OBVIOUS
<1> USE DEF Active, Working, Deciding, Ended
<1>1. ASSUME NEW r \in Runs, StartRun(r) PROVE OwnerInv'
  BY <1>1, MoveKeepsOwner DEF StartRun, TypeInv, TypeOK, cluster
<1>2. ASSUME Die, UNCHANGED <<jobs, created>> PROVE OwnerInv'
  BY <1>2, MoveKeepsOwner DEF Die, InFlight
<1>3. ASSUME NEW r \in Runs, Step(r) PROVE OwnerInv'
  <2>1. CASE CreateCascadeRun(r) \/ RefuseRun(r) \/ CountProcess(r)
    <3>1. CASE CreateCascadeRun(r)
      BY <3>1, MoveKeepsOwner DEF CreateCascadeRun, TypeInv, TypeOK, cluster
    <3>2. CASE RefuseRun(r)
      BY <3>2, MoveKeepsOwner DEF RefuseRun, TypeInv, TypeOK, cluster
    <3>3. CASE CountProcess(r)
      BY <3>3, MoveKeepsOwner DEF CountProcess, TypeInv, TypeOK, cluster
    <3> QED BY <2>1, <3>1, <3>2, <3>3
  <2>2. CASE SetJobEnv(r)
    BY <2>2, MoveKeepsOwner DEF SetJobEnv, TypeInv, TypeOK, cluster
  <2>3. CASE CreateJob(r)
    BY <2>3, StoreKeepsOwner DEF CreateJob, TypeInv, TypeOK
  <2>4. CASE PollSucceeded(r)
    <3>1. /\ UNCHANGED <<jobs, created, completed, stage>>
          /\ pc[r] = "polling" /\ jobs[MyJob(r)] # None
          /\ jobs[MyJob(r)].succeeded
          /\ pc' = [pc EXCEPT ![r] = "deleting"]
      BY <2>4 DEF PollSucceeded, cluster
    <3>2. \A q \in Runs : MyJob(q)' = MyJob(q)
      BY <3>1 DEF MyJob
    <3>3. MyJob(r) \in JobNames
      BY <3>1 DEF TypeInv, InStage, MyJob, JobNames
    <3>4. <<r, stage[r]>> \in completed
      BY <3>1, <3>3 DEF OwnerInv, OwnJobIfAny, JobsMatchHistory
    <3>5. StagesInOrder' /\ JobsMatchHistory'
      BY <3>1 DEF OwnerInv, StagesInOrder, JobsMatchHistory
    <3>6. OwnJobIfAny' /\ DeletesCompleted'
      BY <3>1, <3>2, <3>4
         DEF OwnerInv, OwnJobIfAny, DeletesCompleted, TypeInv, TypeOK
    <3>7. RunsFollowStages'
      BY <3>1 DEF OwnerInv, RunsFollowStages, TypeInv, TypeOK
    <3> QED BY <3>5, <3>6, <3>7 DEF OwnerInv
  <2>5. CASE DeleteSuccessJob(r)
    BY <2>5, DeleteKeepsOwner
  <2>6. CASE PollFailed(r) \/ Succeed(r)
    <3>1. CASE PollFailed(r)
      BY <3>1, MoveKeepsOwner DEF PollFailed, Decide, TypeInv, TypeOK, cluster
    <3>2. CASE Succeed(r)
      BY <3>2, MoveKeepsOwner DEF Succeed, Decide, TypeInv, TypeOK, cluster
    <3> QED BY <2>6, <3>1, <3>2
  <2>7. CASE Stop(r) \/ Exit(r)
    <3>1. CASE Stop(r)
      BY <3>1, MoveKeepsOwner DEF Stop, TypeInv, TypeOK, cluster
    <3>2. CASE Exit(r)
      BY <3>2, MoveKeepsOwner DEF Exit, TypeInv, TypeOK, cluster
    <3> QED BY <2>7, <3>1, <3>2
  <2>8. CASE PanicShortId(r)
    BY <1>2, <2>8 DEF PanicShortId
  <2>9. CASE FatalCreateJob(r)
    <3>1. CASE UNCHANGED <<jobs, created>>
      BY <1>2, <2>9, <3>1 DEF FatalCreateJob
    <3>2. CASE StoreJob(r)
      BY <2>9, <3>2, StoreKeepsOwner DEF FatalCreateJob, Die, InFlight
    <3> QED BY <2>9, <3>1, <3>2 DEF FatalCreateJob
  <2> QED BY <1>3, <2>1, <2>2, <2>3, <2>4, <2>5, <2>6, <2>7, <2>8, <2>9
          DEF Step, Proceed, Fatal
<1>4. ASSUME NEW r \in Runs, NEW g \in Helpers, Return(r, g) PROVE OwnerInv'
  BY <1>4, MoveKeepsOwner DEF Return, cluster
<1>5. ASSUME NEW n \in JobNames, Cluster(n) PROVE OwnerInv'
  BY <1>5, ClusterKeepsOwner
<1>6. ASSUME NEW x \in cascadeRuns, DeleteCascadeRun(x) PROVE OwnerInv'
  BY <1>6, MoveKeepsOwner DEF DeleteCascadeRun, controller, cluster
<1>7. CASE Crash
  BY <1>2, <1>7 DEF Crash
<1>8. CASE UNCHANGED vars
  BY <1>8, MoveKeepsOwner DEF vars
<1> QED BY <1>1, <1>3, <1>4, <1>5, <1>6, <1>7, <1>8 DEF Next

LEMMA OwnerHolds ==
    Spec /\ []NamesApart => [](TypeInv /\ OwnerInv /\ GoroutinesCounted)
<1>1. TypeInv => TypeOK
  BY DEF TypeInv
<1> QED BY <1>1, TypesInit, TypesNext, OwnerInit, OwnerNext, GoroutinesInit,
           GoroutinesNext, PTL DEF Spec

(* Though jobs expire and their names are free again, a run never takes    *)
(* another's job for its own.                                              *)
THEOREM ExpiryLeavesOwnJobs == Spec /\ []NamesApart => []OwnJobIfAny
<1>1. OwnerInv => OwnJobIfAny
  BY DEF OwnerInv
<1> QED BY <1>1, OwnerHolds, PTL

----------------------------------------------------------------------------
(* What happens to a job while it exists, and when it is removed.          *)
LEMMA RemovesFinished ==
    ASSUME TypeInv, OwnerInv, [Next]_vars, NEW n \in JobNames,
           jobs[n] # None, jobs'[n] = None
    PROVE  ~Unfinished(jobs[n])
<1>1. jobs \in [JobNames -> Job \cup {None}]
  BY DEF TypeInv, TypeOK
<1>2. ASSUME NEW r \in Runs, DeleteSuccessJob(r) PROVE ~Unfinished(jobs[n])
  <2>1. jobs' = [jobs EXCEPT ![MyJob(r)] = None]
    BY <1>2 DEF DeleteSuccessJob
  <2>2. n = MyJob(r) /\ pc[r] = "deleting"
    BY <1>1, <1>2, <2>1 DEF DeleteSuccessJob
  <2>3. /\ <<r, stage[r]>> \in completed
        /\ jobs[n].run = r /\ jobs[n].stage = stage[r]
    BY <2>2 DEF OwnerInv, DeletesCompleted, OwnJobIfAny
  <2> QED BY <2>3 DEF OwnerInv, JobsMatchHistory, Unfinished
<1>3. ASSUME NEW r \in Runs, CreateJob(r) \/ FatalCreateJob(r)
      PROVE  ~Unfinished(jobs[n])
  <2>1. UNCHANGED jobs \/ StoreJob(r)
    BY <1>3 DEF CreateJob, FatalCreateJob
  <2>2. CASE StoreJob(r)
    BY <1>1, <2>2 DEF StoreJob
  <2> QED BY <2>1, <2>2
<1>4. ASSUME NEW m \in JobNames, Cluster(m) PROVE ~Unfinished(jobs[n])
  <2>1. CASE PodSucceeds(m) \/ PodFails(m)
    <3>1. jobs'[m] \in Job /\ jobs' = [jobs EXCEPT ![m] = jobs'[m]]
      BY <2>1, PodsKeepJob DEF TypeInv
    <3>2. jobs'[n] # None
      BY <1>1, <3>1, NoneAssumption
    <3> QED BY <3>2
  <2>2. CASE Expire(m)
    <3>1. n = m
      BY <1>1, <2>2 DEF Expire
    <3> QED BY <2>2, <3>1 DEF Expire
  <2> QED BY <1>4, <2>1, <2>2 DEF Cluster
<1>5. ASSUME NEW r \in Runs, Step(r)
      PROVE  \/ UNCHANGED jobs \/ DeleteSuccessJob(r)
             \/ CreateJob(r) \/ FatalCreateJob(r)
  BY <1>5 DEF Step, Proceed, Fatal, CreateCascadeRun, RefuseRun, PanicShortId,
          CountProcess, SetJobEnv, PollSucceeded, PollFailed, Succeed, Decide,
          Stop, Exit, cluster
<1>6. \/ UNCHANGED jobs
      \/ \E r \in Runs : Step(r)
      \/ \E m \in JobNames : Cluster(m)
  BY DEF Next, StartRun, Return, DeleteCascadeRun, Crash, vars, cluster
<1> QED BY <1>2, <1>3, <1>4, <1>5, <1>6

(* Neither the expiry nor a deletion, however late, takes a job whose pods *)
(* still run.                                                              *)
THEOREM ExpiryTakesFinishedJobs == Spec /\ []NamesApart => NoUnfinishedDelete
<1>1. TypeInv /\ OwnerInv /\ [Next]_vars
        => [\A n \in JobNames : jobs[n] # None /\ jobs'[n] = None
                                => ~Unfinished(jobs[n])]_vars
  BY RemovesFinished
<1> QED BY <1>1, OwnerHolds, PTL DEF Spec, NoUnfinishedDelete

----------------------------------------------------------------------------
(* The promise of Cascade is kept although jobs expire.                    *)
THEOREM KeepsPromiseIfApart == Spec /\ []NamesApart => Implements
<1>1. Init => Promise!Init
  BY DEF Init, Promise!Init
<1> QED BY <1>1, NextRefines, OwnerHolds, PTL DEF Spec, Implements, Promise!Spec

(* With one run in flight at a time all of this holds whatever is deleted  *)
(* and whatever names collide.                                             *)
THEOREM AloneKeepsPromise ==
    ASSUME Concurrency = 1
    PROVE  Spec => Implements /\ []OwnJobIfAny /\ NoUnfinishedDelete
<1> QED BY AloneKeepsNamesApart, KeepsPromiseIfApart, ExpiryLeavesOwnJobs,
           ExpiryTakesFinishedJobs, PTL

(* With several, as long as no CascadeRun is deleted under its run.        *)
THEOREM RecordsKeepPromise ==
    Spec /\ []RecordsKept => Implements /\ []OwnJobIfAny /\ NoUnfinishedDelete
<1> QED BY RecordsKeepNamesApart, KeepsPromiseIfApart, ExpiryLeavesOwnJobs,
           ExpiryTakesFinishedJobs, PTL
=============================================================================
