----------------------- MODULE ImageProcessingProofs -----------------------
(***************************************************************************)
(* Theorems about ImageProcessing, for any set of runs, any number of      *)
(* stages and any names, prefixes that collide included.                   *)
(***************************************************************************)
EXTENDS ImageProcessing, FiniteSetTheorems, TLAPS

PCs == {"idle", "accepted", "begun"} \cup Working \cup Deciding \cup Ended

----------------------------------------------------------------------------
(* Types and counters.                                                     *)

(* The runs the gauge must show: created, and not yet decided.             *)
Gauged == {r \in Runs : pc[r] \in {"begun"} \cup Working}

(* CurrProcess is the number of runs between the increment and the         *)
(* decrement.  The gauge is never below the number of undecided runs, and  *)
(* this is why its decrement leaves a natural number.                      *)
Counts == /\ currProcess = Cardinality(Counted)
          /\ currentRuns >= Cardinality(Gauged)

(* Counted and Gauged are finite, and lose or gain the run that moves.     *)
LEMMA CountsFinite ==
    /\ IsFiniteSet(Counted) /\ Cardinality(Counted) \in Nat
    /\ IsFiniteSet(Gauged) /\ Cardinality(Gauged) \in Nat
<1>1. Counted \in SUBSET Runs /\ Gauged \in SUBSET Runs
  BY DEF Counted, Gauged
<1>2. IsFiniteSet(Counted) /\ IsFiniteSet(Gauged)
  BY <1>1, RunsAssumption, FS_Subset
<1> QED BY <1>2, FS_CardinalityType

LEMMA CountsMove ==
    ASSUME NEW r \in Runs, \A q \in Runs \ {r} : pc'[q] = pc[q]
    PROVE  /\ Cardinality(Counted)' =
                IF (r \in Counted) = (r \in Counted)' THEN Cardinality(Counted)
                ELSE IF r \in Counted THEN Cardinality(Counted) - 1
                ELSE Cardinality(Counted) + 1
           /\ Cardinality(Gauged)' =
                IF (r \in Gauged) = (r \in Gauged)' THEN Cardinality(Gauged)
                ELSE IF r \in Gauged THEN Cardinality(Gauged) - 1
                ELSE Cardinality(Gauged) + 1
<1>1. Counted' = IF (r \in Counted)' THEN Counted \cup {r} ELSE Counted \ {r}
  BY DEF Counted
<1>2. Gauged' = IF (r \in Gauged)' THEN Gauged \cup {r} ELSE Gauged \ {r}
  BY DEF Gauged
<1>3. /\ Cardinality(Counted \cup {r}) = IF r \in Counted
            THEN Cardinality(Counted) ELSE Cardinality(Counted) + 1
      /\ Cardinality(Gauged \cup {r}) = IF r \in Gauged
            THEN Cardinality(Gauged) ELSE Cardinality(Gauged) + 1
  BY CountsFinite, FS_AddElement
<1>4. /\ Cardinality(Counted \ {r}) = IF r \in Counted
            THEN Cardinality(Counted) - 1 ELSE Cardinality(Counted)
      /\ Cardinality(Gauged \ {r}) = IF r \in Gauged
            THEN Cardinality(Gauged) - 1 ELSE Cardinality(Gauged)
  BY CountsFinite, FS_RemoveElement
<1> QED BY <1>1, <1>2, <1>3, <1>4

(* A run past SetJobEnv is in one of the stages, and the environment it is *)
(* about to send has been written by some run.                             *)
InStage == \A r \in Runs :
    /\ pc[r] \in {"creating", "polling", "deleting"} => stage[r] \in Stages
    /\ pc[r] = "creating" => env[stage[r]] \in Runs

TypeInv == TypeOK /\ Counts /\ InStage

LEMMA TypesInit == Init => TypeInv
<1> SUFFICES ASSUME Init PROVE TypeInv
  OBVIOUS
<1>1. TypeOK /\ InStage
  BY NumbersAssumption DEF Init, TypeOK, InStage, Stages
<1>2. Counted = {} /\ Gauged = {}
  BY DEF Init, Counted, Gauged, Working, Deciding
<1>3. Cardinality({}) = 0
  BY FS_EmptySet
<1> QED BY <1>1, <1>2, <1>3 DEF TypeInv, Counts, Init

(* The job that LaunchK8sJob stores is a Job.                              *)
LEMMA StoreJobType ==
    ASSUME TypeInv, NEW r \in Runs, pc[r] = "creating", StoreJob(r)
    PROVE  /\ jobs' \in [JobNames -> Job \cup {None}]
           /\ created' \subseteq Runs \X Stages
<1>1. 0 \in 0 .. BackoffLimit + 1
  BY NumbersAssumption
<1>2. stage[r] \in Stages /\ env[stage[r]] \in Runs
  BY DEF TypeInv, InStage
<1>3. [run |-> r, stage |-> stage[r], input |-> env[stage[r]],
       succeeded |-> FALSE, failed |-> 0] \in Job
  BY <1>1, <1>2 DEF Job
<1>4. MyJob(r) \in JobNames
  BY <1>2 DEF MyJob, JobNames
<1> QED BY <1>2, <1>3, <1>4 DEF TypeInv, TypeOK, StoreJob

(* The death of the process leaves nothing counted.                        *)
LEMMA DieTypes ==
    ASSUME TypeInv, Die, jobs' \in [JobNames -> Job \cup {None}],
           created' \subseteq Runs \X Stages, UNCHANGED cascadeRuns
    PROVE  TypeInv'
<1>1. \A r \in Runs : pc'[r] \in Ended \cup {"idle"}
  BY DEF Die, InFlight, Ended
<1>2. Counted' = {} /\ Gauged' = {}
  BY <1>1 DEF Counted, Gauged, Working, Deciding, Ended
<1>3. Counts'
  BY <1>2, FS_EmptySet DEF Counts, Die
<1>4. InStage'
  BY <1>1 DEF InStage, Ended
<1>5. TypeOK'
  BY DEF TypeInv, TypeOK, Die, Ended
<1> QED BY <1>3, <1>4, <1>5 DEF TypeInv

(* Pods leave a job a Job, of the same run and stage, and the others alone. *)
LEMMA PodsKeepJob ==
    ASSUME TypeOK, NEW n \in JobNames, PodSucceeds(n) \/ PodFails(n)
    PROVE  /\ jobs[n] \in Job /\ jobs'[n] \in Job
           /\ jobs' = [jobs EXCEPT ![n] = jobs'[n]]
           /\ jobs'[n].run = jobs[n].run /\ jobs'[n].stage = jobs[n].stage
           /\ PodSucceeds(n) => jobs'[n].succeeded
           /\ PodFails(n) => jobs'[n].succeeded = jobs[n].succeeded
<1>1. jobs \in [JobNames -> Job \cup {None}] /\ jobs[n] \in Job
  BY DEF TypeOK, PodSucceeds, PodFails
<1>2. CASE PodSucceeds(n)
  <2>1. jobs'[n] = [jobs[n] EXCEPT !.succeeded = TRUE]
    BY <1>1, <1>2 DEF PodSucceeds
  <2>2. /\ jobs'[n] \in Job /\ jobs'[n].succeeded
        /\ jobs'[n].run = jobs[n].run /\ jobs'[n].stage = jobs[n].stage
    BY <1>1, <2>1 DEF Job
  <2>3. jobs' = [jobs EXCEPT ![n] = jobs'[n]]
    BY <1>1, <1>2 DEF PodSucceeds
  <2>4. PodFails(n) => jobs'[n].succeeded = jobs[n].succeeded
    <3> SUFFICES ASSUME PodFails(n)
                 PROVE  jobs'[n].succeeded = jobs[n].succeeded
      OBVIOUS
    <3>1. jobs'[n] = [jobs[n] EXCEPT !.failed = @ + 1]
      BY <1>1 DEF PodFails
    <3> QED BY <1>1, <3>1 DEF Job
  <2> QED BY <1>1, <2>2, <2>3, <2>4
<1>3. CASE PodFails(n)
  <2>1. jobs[n].failed + 1 \in 0 .. BackoffLimit + 1
    BY <1>1, <1>3, NumbersAssumption DEF PodFails, Unfinished, Job
  <2>2. jobs'[n] = [jobs[n] EXCEPT !.failed = @ + 1]
    BY <1>1, <1>3 DEF PodFails
  <2>3. /\ jobs'[n] \in Job /\ jobs'[n].succeeded = jobs[n].succeeded
        /\ jobs'[n].run = jobs[n].run /\ jobs'[n].stage = jobs[n].stage
    BY <1>1, <2>1, <2>2 DEF Job
  <2>4. jobs' = [jobs EXCEPT ![n] = jobs'[n]]
    BY <1>1, <1>3 DEF PodFails
  <2>5. PodSucceeds(n) => jobs'[n].succeeded
    <3> SUFFICES ASSUME PodSucceeds(n) PROVE jobs'[n].succeeded
      OBVIOUS
    <3>1. jobs'[n] = [jobs[n] EXCEPT !.succeeded = TRUE]
      BY <1>1 DEF PodSucceeds
    <3> QED BY <1>1, <3>1 DEF Job
  <2> QED BY <1>1, <2>3, <2>4, <2>5
<1> QED BY <1>2, <1>3

(* A step of the cluster moves no run.                                     *)
LEMMA ClusterTypes ==
    ASSUME TypeInv, NEW n \in JobNames, Cluster(n)
    PROVE  TypeInv'
<1>1. Counts' /\ InStage'
  BY DEF TypeInv, Counts, InStage, Counted, Gauged, Cluster, PodSucceeds,
         PodFails, Expire, controller
<1>2. CASE PodSucceeds(n)
  <2>1. /\ jobs[n] \in Job /\ jobs'[n] \in Job
        /\ jobs' = [jobs EXCEPT ![n] = jobs'[n]]
    BY <1>2, PodsKeepJob DEF TypeInv
  <2>2. jobs[n].stage + 1 \in 0 .. NumStages
    BY <2>1, NumbersAssumption DEF Job, Stages
  <2>3. /\ <<jobs[n].run, jobs[n].stage>> \in Runs \X Stages
        /\ <<jobs[n].input, jobs[n].stage + 1>> \in Runs \X (0 .. NumStages)
    BY <2>1, <2>2 DEF Job
  <2> QED BY <1>1, <1>2, <2>1, <2>3 DEF PodSucceeds, controller, TypeInv, TypeOK
<1>3. CASE PodFails(n)
  <2>1. jobs'[n] \in Job /\ jobs' = [jobs EXCEPT ![n] = jobs'[n]]
    BY <1>3, PodsKeepJob DEF TypeInv
  <2> QED BY <1>1, <1>3, <2>1 DEF PodFails, controller, TypeInv, TypeOK
<1>4. CASE Expire(n)
  BY <1>1, <1>4 DEF Expire, controller, TypeInv, TypeOK
<1> QED BY <1>2, <1>3, <1>4 DEF Cluster

(* The steps of a run that only move it and touch its own records.         *)
LEMMA StepTypes ==
    ASSUME TypeInv, NEW r \in Runs, Step(r)
    PROVE  TypeInv'
<1> USE NumbersAssumption DEF TypeInv, Working, Deciding, Ended
<1>0. /\ pc \in [Runs -> PCs]
      /\ Cardinality(Counted) \in Nat /\ Cardinality(Gauged) \in Nat
      /\ currProcess \in Nat /\ currentRuns \in Nat
      /\ r \in Gauged  => Cardinality(Gauged) >= 1
      /\ r \in Counted => Cardinality(Counted) >= 1
  <2>1. /\ r \in Gauged  => Cardinality(Gauged) # 0
        /\ r \in Counted => Cardinality(Counted) # 0
    BY CountsFinite, FS_EmptySet
  <2> QED BY <2>1, CountsFinite DEF TypeOK, PCs
<1>1. CASE CreateCascadeRun(r)
  <2>1. Counts'
    <3>1. /\ r \notin Counted /\ (r \notin Counted)'
          /\ r \notin Gauged /\ (r \in Gauged)'
      BY <1>0, <1>1 DEF CreateCascadeRun, Counted, Gauged
    <3>2. \A q \in Runs \ {r} : pc'[q] = pc[q]
      BY <1>0, <1>1 DEF CreateCascadeRun
    <3>3. /\ Cardinality(Counted)' = Cardinality(Counted)
          /\ Cardinality(Gauged)' = Cardinality(Gauged) + 1
      BY <3>1, <3>2, CountsMove
    <3> QED BY <1>0, <3>1, <3>3, <1>1 DEF CreateCascadeRun, Counts
  <2> QED BY <1>1, <2>1 DEF CreateCascadeRun, StoreCascadeRun, TypeOK, InStage,
                          Helpers, cluster
<1>2. CASE RefuseRun(r)
  <2>1. Counts'
    <3>1. /\ r \notin Counted /\ (r \notin Counted)'
          /\ r \notin Gauged /\ (r \notin Gauged)'
      BY <1>0, <1>2 DEF RefuseRun, Counted, Gauged
    <3>2. \A q \in Runs \ {r} : pc'[q] = pc[q]
      BY <1>0, <1>2 DEF RefuseRun
    <3>3. /\ Cardinality(Counted)' = Cardinality(Counted)
          /\ Cardinality(Gauged)' = Cardinality(Gauged)
      BY <3>1, <3>2, CountsMove
    <3> QED BY <1>0, <3>1, <3>3, <1>2 DEF RefuseRun, Counts
  <2> QED BY <1>2, <2>1 DEF RefuseRun, StoreCascadeRun, TypeOK, InStage, cluster
<1>3. CASE PanicShortId(r)
  BY <1>3, DieTypes DEF PanicShortId, TypeOK
<1>4. CASE CountProcess(r)
  <2>1. Counts'
    <3>1. /\ r \notin Counted /\ (r \in Counted)'
          /\ r \in Gauged /\ (r \in Gauged)'
      BY <1>0, <1>4 DEF CountProcess, Counted, Gauged
    <3>2. \A q \in Runs \ {r} : pc'[q] = pc[q]
      BY <1>0, <1>4 DEF CountProcess
    <3>3. /\ Cardinality(Counted)' = Cardinality(Counted) + 1
          /\ Cardinality(Gauged)' = Cardinality(Gauged)
      BY <3>1, <3>2, CountsMove
    <3> QED BY <1>0, <3>1, <3>3, <1>4 DEF CountProcess, Counts
  <2> QED BY <1>4, <2>1 DEF CountProcess, TypeOK, InStage, cluster
<1>5. CASE SetJobEnv(r)
  <2>1. Counts'
    <3>1. /\ r \in Counted /\ (r \in Counted)'
          /\ r \in Gauged /\ (r \in Gauged)'
      BY <1>0, <1>5 DEF SetJobEnv, Counted, Gauged
    <3>2. \A q \in Runs \ {r} : pc'[q] = pc[q]
      BY <1>0, <1>5 DEF SetJobEnv
    <3>3. /\ Cardinality(Counted)' = Cardinality(Counted)
          /\ Cardinality(Gauged)' = Cardinality(Gauged)
      BY <3>1, <3>2, CountsMove
    <3> QED BY <1>0, <3>1, <3>3, <1>5 DEF SetJobEnv, Counts
  <2>2. stage[r] \in Stages
    BY <1>5 DEF SetJobEnv, TypeOK, Stages
  <2>3. TypeOK'
    BY <1>5, <2>2 DEF SetJobEnv, TypeOK, cluster
  <2>4. InStage'
    BY <1>5, <2>2 DEF SetJobEnv, TypeOK, InStage
  <2> QED BY <2>1, <2>3, <2>4
<1>6. CASE CreateJob(r)
  <2>1. Counts'
    <3>1. /\ r \in Counted /\ (r \in Counted)'
          /\ r \in Gauged /\ (r \in Gauged)'
      BY <1>0, <1>6 DEF CreateJob, Counted, Gauged
    <3>2. \A q \in Runs \ {r} : pc'[q] = pc[q]
      BY <1>0, <1>6 DEF CreateJob
    <3>3. /\ Cardinality(Counted)' = Cardinality(Counted)
          /\ Cardinality(Gauged)' = Cardinality(Gauged)
      BY <3>1, <3>2, CountsMove
    <3> QED BY <1>0, <3>1, <3>3, <1>6 DEF CreateJob, Counts
  <2>2. TypeOK'
    BY <1>6, StoreJobType DEF CreateJob, TypeOK
  <2>3. InStage'
    BY <1>6 DEF CreateJob, TypeOK, InStage
  <2> QED BY <2>1, <2>2, <2>3
<1>7. CASE FatalCreateJob(r)
  <2>1. /\ jobs' \in [JobNames -> Job \cup {None}]
        /\ created' \subseteq Runs \X Stages
    BY <1>7, StoreJobType DEF FatalCreateJob, TypeOK
  <2> QED BY <1>7, <2>1, DieTypes DEF FatalCreateJob
<1>8. CASE PollSucceeded(r)
  <2>1. Counts'
    <3>1. /\ r \in Counted /\ (r \in Counted)'
          /\ r \in Gauged /\ (r \in Gauged)'
      BY <1>0, <1>8 DEF PollSucceeded, Counted, Gauged
    <3>2. \A q \in Runs \ {r} : pc'[q] = pc[q]
      BY <1>0, <1>8 DEF PollSucceeded
    <3>3. /\ Cardinality(Counted)' = Cardinality(Counted)
          /\ Cardinality(Gauged)' = Cardinality(Gauged)
      BY <3>1, <3>2, CountsMove
    <3> QED BY <1>0, <3>1, <3>3, <1>8 DEF PollSucceeded, Counts
  <2> QED BY <1>8, <2>1 DEF PollSucceeded, TypeOK, InStage, cluster
<1>9. ASSUME NEW v \in {"Success", "Failed"}, Decide(r, v),
             pc[r] \in {"loop", "polling"}
      PROVE  TypeInv'
  <2>1. Counts'
    <3>1. /\ r \in Counted /\ (r \in Counted)'
          /\ r \in Gauged /\ (r \notin Gauged)'
      BY <1>0, <1>9 DEF Decide, Counted, Gauged
    <3>2. \A q \in Runs \ {r} : pc'[q] = pc[q]
      BY <1>0, <1>9 DEF Decide
    <3>3. /\ Cardinality(Counted)' = Cardinality(Counted)
          /\ Cardinality(Gauged)' = Cardinality(Gauged) - 1
      BY <3>1, <3>2, CountsMove
    <3> QED BY <1>0, <3>1, <3>3, <1>9 DEF Decide, Counts
  <2>2. r \in Gauged
    BY <1>9 DEF Gauged
  <2>3. currentRuns - 1 \in Nat
    BY <1>0, <2>2 DEF Counts
  <2>4. TypeOK'
    BY <1>9, <2>3 DEF Decide, TypeOK, Helpers, cluster
  <2>5. InStage'
    BY <1>9 DEF Decide, TypeOK, InStage
  <2> QED BY <2>1, <2>4, <2>5
<1>10. CASE PollFailed(r)
  BY <1>9, <1>10 DEF PollFailed
<1>11. CASE DeleteSuccessJob(r)
  <2>1. Counts'
    <3>1. /\ r \in Counted /\ (r \in Counted)'
          /\ r \in Gauged /\ (r \in Gauged)'
      BY <1>0, <1>11 DEF DeleteSuccessJob, Counted, Gauged
    <3>2. \A q \in Runs \ {r} : pc'[q] = pc[q]
      BY <1>0, <1>11 DEF DeleteSuccessJob
    <3>3. /\ Cardinality(Counted)' = Cardinality(Counted)
          /\ Cardinality(Gauged)' = Cardinality(Gauged)
      BY <3>1, <3>2, CountsMove
    <3> QED BY <1>0, <3>1, <3>3, <1>11 DEF DeleteSuccessJob, Counts
  <2>2. stage[r] \in Stages /\ stage[r] + 1 \in 0 .. NumStages
    BY <1>11 DEF DeleteSuccessJob, InStage, Stages
  <2>3. TypeOK'
    BY <1>11, <2>2 DEF DeleteSuccessJob, TypeOK, history
  <2>4. InStage'
    BY <1>11 DEF DeleteSuccessJob, TypeOK, InStage
  <2> QED BY <2>1, <2>3, <2>4
<1>12. CASE Succeed(r)
  BY <1>9, <1>12 DEF Succeed
<1>13. CASE Stop(r)
  <2>1. Counts'
    <3>1. /\ r \in Counted /\ (r \in Counted)'
          /\ r \notin Gauged /\ (r \notin Gauged)'
      BY <1>0, <1>13 DEF Stop, Counted, Gauged
    <3>2. \A q \in Runs \ {r} : pc'[q] = pc[q]
      BY <1>0, <1>13 DEF Stop
    <3>3. /\ Cardinality(Counted)' = Cardinality(Counted)
          /\ Cardinality(Gauged)' = Cardinality(Gauged)
      BY <3>1, <3>2, CountsMove
    <3> QED BY <1>0, <3>1, <3>3, <1>13 DEF Stop, Counts
  <2> QED BY <1>13, <2>1 DEF Stop, TypeOK, InStage, cluster
<1>14. CASE Exit(r)
  <2>1. Counts' /\ currProcess - 1 \in Nat
    <3>1. /\ r \in Counted /\ (r \notin Counted)'
          /\ r \notin Gauged /\ (r \notin Gauged)'
      BY <1>0, <1>14 DEF Exit, Counted, Gauged
    <3>2. \A q \in Runs \ {r} : pc'[q] = pc[q]
      BY <1>0, <1>14 DEF Exit
    <3>3. /\ Cardinality(Counted)' = Cardinality(Counted) - 1
          /\ Cardinality(Gauged)' = Cardinality(Gauged)
      BY <3>1, <3>2, CountsMove
    <3> QED BY <1>0, <3>1, <3>3, <1>14 DEF Exit, Counts
  <2> QED BY <1>14, <2>1 DEF Exit, TypeOK, InStage, cluster
<1> QED BY <1>1, <1>2, <1>3, <1>4, <1>5, <1>6, <1>7, <1>8, <1>10, <1>11,
           <1>12, <1>13, <1>14 DEF Step, Proceed, Fatal

LEMMA TypesNext == TypeInv /\ [Next]_vars => TypeInv'
<1> SUFFICES ASSUME TypeInv, [Next]_vars PROVE TypeInv'
  OBVIOUS
<1> USE DEF TypeInv
<1>1. ASSUME NEW r \in Runs, StartRun(r) PROVE TypeInv'
  <2>1. \A q \in Runs : /\ (q \in Counted)' <=> q \in Counted
                        /\ (q \in Gauged)' <=> q \in Gauged
    BY <1>1 DEF StartRun, TypeOK, Counted, Gauged, Working, Deciding
  <2>2. Counted' = Counted /\ Gauged' = Gauged
    BY <2>1 DEF Counted, Gauged
  <2>3. Counts'
    BY <1>1, <2>2 DEF StartRun, Counts
  <2> QED BY <1>1, <2>3 DEF StartRun, TypeOK, InStage, cluster
<1>2. ASSUME NEW r \in Runs, Step(r) PROVE TypeInv'
  BY <1>2, StepTypes
<1>3. ASSUME NEW r \in Runs, NEW g \in Helpers, Return(r, g) PROVE TypeInv'
  BY <1>3 DEF Return, TypeOK, Counts, Counted, Gauged, InStage, cluster
<1>4. ASSUME NEW n \in JobNames, Cluster(n) PROVE TypeInv'
  BY <1>4, ClusterTypes
<1>5. ASSUME NEW x \in cascadeRuns, DeleteCascadeRun(x) PROVE TypeInv'
  BY <1>5 DEF DeleteCascadeRun, TypeOK, Counts, Counted, Gauged, InStage,
              controller, cluster
<1>6. CASE Crash
  BY <1>6, DieTypes DEF Crash, TypeOK
<1>7. CASE UNCHANGED vars
  BY <1>7 DEF vars, TypeOK, Counts, Counted, Gauged, InStage
<1> QED BY <1>1, <1>2, <1>3, <1>4, <1>5, <1>6, <1>7 DEF Next

(* Every variable keeps its type; in particular the process count and the  *)
(* gauge of current runs never become negative, whatever runs are refused, *)
(* fail or die.                                                            *)
THEOREM TypeCorrect == Spec => []TypeOK
<1>1. Spec => []TypeInv
  BY TypesInit, TypesNext, PTL DEF Spec
<1> QED BY <1>1, PTL DEF TypeInv
----------------------------------------------------------------------------
(* What shutdown waits for.                                                *)

Active == {"idle", "accepted", "begun"} \cup Working

(* Only a run that has decided has a verdict, and only a run that is about *)
(* to be counted, or is counted, has goroutines.                           *)
GoroutinesCounted ==
    \A r \in Runs :
        /\ pc[r] \in Active => verdict[r] = "none"
        /\ wg[r] # {} => pc[r] \in {"begun"} \cup Working \cup Deciding

LEMMA GoroutinesInit == Init => GoroutinesCounted
  BY DEF Init, GoroutinesCounted

LEMMA GoroutinesNext ==
    TypeOK /\ GoroutinesCounted /\ [Next]_vars => GoroutinesCounted'
<1> SUFFICES ASSUME TypeOK, GoroutinesCounted, [Next]_vars
             PROVE  GoroutinesCounted'
  OBVIOUS
<1> USE DEF GoroutinesCounted, Active, Working, Deciding, Ended
<1>1. ASSUME NEW r \in Runs, StartRun(r) PROVE GoroutinesCounted'
  BY <1>1 DEF StartRun, TypeOK
<1>2. ASSUME Die PROVE GoroutinesCounted'
  BY <1>2 DEF Die, InFlight
<1>3. ASSUME NEW r \in Runs, Step(r) PROVE GoroutinesCounted'
  <2>1. CASE CreateCascadeRun(r)
    BY <2>1 DEF CreateCascadeRun, TypeOK
  <2>2. CASE RefuseRun(r)
    BY <2>2 DEF RefuseRun, TypeOK
  <2>3. CASE CountProcess(r)
    BY <2>3 DEF CountProcess, TypeOK
  <2>4. CASE SetJobEnv(r)
    BY <2>4 DEF SetJobEnv, TypeOK
  <2>5. CASE CreateJob(r)
    BY <2>5 DEF CreateJob, TypeOK
  <2>6. CASE PollSucceeded(r)
    BY <2>6 DEF PollSucceeded, TypeOK
  <2>7. CASE PollFailed(r)
    BY <2>7 DEF PollFailed, Decide, TypeOK
  <2>8. CASE DeleteSuccessJob(r)
    BY <2>8 DEF DeleteSuccessJob, TypeOK
  <2>9. CASE Succeed(r)
    BY <2>9 DEF Succeed, Decide, TypeOK
  <2>10. CASE Stop(r)
    BY <2>10 DEF Stop, TypeOK
  <2>11. CASE Exit(r)
    BY <2>11 DEF Exit, TypeOK
  <2>12. CASE PanicShortId(r) \/ FatalCreateJob(r)
    BY <1>2, <2>12 DEF PanicShortId, FatalCreateJob
  <2> QED BY <1>3, <2>1, <2>2, <2>3, <2>4, <2>5, <2>6, <2>7, <2>8, <2>9,
             <2>10, <2>11, <2>12 DEF Step, Proceed, Fatal
<1>4. ASSUME NEW r \in Runs, NEW g \in Helpers, Return(r, g)
      PROVE  GoroutinesCounted'
  BY <1>4 DEF Return, TypeOK
<1>5. ASSUME NEW n \in JobNames, Cluster(n) PROVE GoroutinesCounted'
  BY <1>5 DEF Cluster, PodSucceeds, PodFails, Expire, controller
<1>6. ASSUME NEW x \in cascadeRuns, DeleteCascadeRun(x)
      PROVE  GoroutinesCounted'
  BY <1>6 DEF DeleteCascadeRun, controller
<1>7. CASE Crash
  BY <1>2, <1>7 DEF Crash
<1>8. CASE UNCHANGED vars
  BY <1>8 DEF vars
<1> QED BY <1>1, <1>3, <1>4, <1>5, <1>6, <1>7, <1>8 DEF Next

(* waitForProcesses may rely on CurrProcess: when it is zero, no run of    *)
(* this process drives a stage, and all that a decided run had to write to *)
(* its objects has been attempted.                                         *)
THEOREM ShutdownDrains == Spec => []Drained
<1>1. TypeInv /\ GoroutinesCounted => Drained
  <2> SUFFICES ASSUME TypeInv, GoroutinesCounted, currProcess = 0,
                      NEW r \in Runs
               PROVE  /\ pc[r] \notin Working \cup Deciding
                      /\ verdict[r] # "none" => wg[r] = {}
    BY DEF Drained
  <2>1. Counted = {}
    BY CountsFinite, FS_EmptySet DEF TypeInv, Counts
  <2>2. pc[r] \notin Working \cup Deciding
    BY <2>1 DEF Counted
  <2> QED BY <2>2 DEF GoroutinesCounted, Active
<1>2. Spec => []TypeInv
  BY TypesInit, TypesNext, PTL DEF Spec
<1>3. TypeInv => TypeOK
  BY DEF TypeInv
<1>4. Spec => []GoroutinesCounted
  BY <1>2, <1>3, GoroutinesInit, GoroutinesNext, PTL DEF Spec
<1> QED BY <1>1, <1>2, <1>4, PTL
----------------------------------------------------------------------------
(* Jobs and stages.  From here on no job is deleted but by the controller. *)

(* A stage is created after the ones before it completed, and completes    *)
(* after it was created.                                                   *)
StagesInOrder ==
    /\ completed \subseteq created
    /\ \A r \in Runs, k \in Stages : <<r, k>> \in created =>
           \A j \in 0 .. k - 1 : <<r, j>> \in completed

(* A job bears the name of the stage it was created for, and has succeeded *)
(* just when that stage is completed.                                      *)
JobsMatchHistory ==
    \A n \in JobNames : jobs[n] # None =>
        /\ n = JobName(jobs[n].run, jobs[n].stage)
        /\ <<jobs[n].run, jobs[n].stage>> \in created
        /\ jobs[n].succeeded <=> <<jobs[n].run, jobs[n].stage>> \in completed

(* The job a run is about to delete has succeeded.                         *)
DeletesSucceeded ==
    \A r \in Runs : pc[r] = "deleting" => jobs[MyJob(r)].succeeded

(* A run in flight has completed the stages before the one it is in, and   *)
(* has not created a later one, nor this one before it polls.              *)
RunsFollowStages ==
    \A r \in Runs : pc[r] \in Active =>
        /\ \A j \in 0 .. stage[r] - 1 : <<r, j>> \in completed
        /\ \A k \in Stages : <<r, k>> \in created =>
               \/ k < stage[r]
               \/ k = stage[r] /\ pc[r] \in {"polling", "deleting"}

OrderInv == StagesInOrder /\ JobsMatchHistory /\ OwnJob /\ DeletesSucceeded
            /\ RunsFollowStages

LEMMA OrderInit == Init => OrderInv
  BY NumbersAssumption
     DEF Init, OrderInv, StagesInOrder, JobsMatchHistory, OwnJob,
         DeletesSucceeded, RunsFollowStages

(* A run that moves without touching a job, and is not past CreateJob      *)
(* afterwards.                                                             *)
LEMMA MoveKeepsOrder ==
    ASSUME OrderInv, UNCHANGED <<jobs, created, completed, stage>>,
           \A r \in Runs :
              \/ pc'[r] = pc[r]
              \/ pc'[r] \notin Active
              \/ /\ pc[r]  \in Active \ {"polling", "deleting"}
                 /\ pc'[r] \in Active \ {"polling", "deleting"}
    PROVE  OrderInv'
<1>1. StagesInOrder' /\ JobsMatchHistory'
  BY DEF OrderInv, StagesInOrder, JobsMatchHistory
<1>2. \A r \in Runs : MyJob(r)' = MyJob(r)
  BY DEF MyJob
<1>3. \A r \in Runs : pc'[r] \in {"polling", "deleting"} => pc'[r] = pc[r]
  BY DEF Active, Working
<1>4. OwnJob' /\ DeletesSucceeded'
  BY <1>2, <1>3 DEF OrderInv, OwnJob, DeletesSucceeded
<1>5. RunsFollowStages'
  BY DEF OrderInv, RunsFollowStages
<1> QED BY <1>1, <1>4, <1>5 DEF OrderInv

(* The job of a stage is stored while no run holds a job of that name.     *)
LEMMA StoreKeepsOrder ==
    ASSUME TypeInv, OrderInv, NEW r \in Runs, pc[r] = "creating", StoreJob(r),
           UNCHANGED <<completed, stage>>,
           \A q \in Runs \ {r} : pc'[q] = pc[q] \/ pc'[q] \notin Active,
           pc'[r] \in {"polling", "lost"}
    PROVE  OrderInv'
<1> DEFINE n == MyJob(r)
           new == [run |-> r, stage |-> stage[r], input |-> env[stage[r]],
                   succeeded |-> FALSE, failed |-> 0]
<1>1. /\ stage[r] \in Stages /\ n \in JobNames
      /\ jobs[n] = None /\ jobs' = [jobs EXCEPT ![n] = new]
      /\ created' = created \cup {<<r, stage[r]>>}
  BY DEF TypeInv, InStage, StoreJob, MyJob, JobNames
<1>2. jobs'[n] = new /\ \A m \in JobNames \ {n} : jobs'[m] = jobs[m]
  BY <1>1 DEF TypeInv, TypeOK
<1>3. /\ <<r, stage[r]>> \notin created
      /\ \A j \in 0 .. stage[r] - 1 : <<r, j>> \in completed
  BY <1>1, NumbersAssumption
     DEF OrderInv, RunsFollowStages, Active, Working, Stages
<1>4. new # None
  <2>1. new \in Job
    BY <1>1, NumbersAssumption DEF Job, TypeInv, InStage
  <2> QED BY <2>1, NoneAssumption
<1> HIDE DEF n
<1>5. StagesInOrder'
  BY <1>1, <1>3 DEF OrderInv, StagesInOrder
<1>6. JobsMatchHistory'
  <2> SUFFICES ASSUME NEW m \in JobNames, jobs'[m] # None
               PROVE  /\ m = JobName(jobs'[m].run, jobs'[m].stage)
                      /\ <<jobs'[m].run, jobs'[m].stage>> \in created'
                      /\ jobs'[m].succeeded
                         <=> <<jobs'[m].run, jobs'[m].stage>> \in completed'
    BY DEF JobsMatchHistory
  <2>1. CASE m = n
    <3>1. new.run = r /\ new.stage = stage[r] /\ new.succeeded = FALSE
      OBVIOUS
    <3>2. <<r, stage[r]>> \notin completed
      BY <1>3 DEF OrderInv, StagesInOrder
    <3> QED BY <1>1, <1>2, <2>1, <3>1, <3>2 DEF n, MyJob
  <2>2. CASE m # n
    BY <1>1, <1>2, <2>2 DEF OrderInv, JobsMatchHistory
  <2> QED BY <2>1, <2>2
<1>7. ASSUME NEW q \in Runs, pc'[q] \in {"polling", "deleting"}
      PROVE  /\ jobs'[MyJob(q)'] # None
             /\ jobs'[MyJob(q)'].run = q
             /\ jobs'[MyJob(q)'].stage = stage'[q]
             /\ pc'[q] = "deleting" => jobs'[MyJob(q)'].succeeded
  <2>1. MyJob(q)' = MyJob(q)
    BY DEF MyJob
  <2>2. CASE q = r
    BY <1>2, <1>4, <1>7, <2>1, <2>2 DEF n
  <2>3. CASE q # r
    <3>1. pc[q] = pc'[q]
      BY <1>7, <2>3 DEF Active, Working
    <3>2. /\ jobs[MyJob(q)] # None /\ jobs[MyJob(q)].run = q
          /\ jobs[MyJob(q)].stage = stage[q]
          /\ pc[q] = "deleting" => jobs[MyJob(q)].succeeded
      BY <1>7, <3>1 DEF OrderInv, OwnJob, DeletesSucceeded
    <3>3. MyJob(q) \in JobNames \ {n}
      BY <1>1, <1>7, <3>1, <3>2 DEF MyJob, JobNames, TypeInv, InStage
    <3> QED BY <1>2, <2>1, <3>1, <3>2, <3>3
  <2> QED BY <2>2, <2>3
<1>8. OwnJob' /\ DeletesSucceeded'
  BY <1>7 DEF OwnJob, DeletesSucceeded
<1>9. RunsFollowStages'
  <2> SUFFICES ASSUME NEW q \in Runs, pc'[q] \in Active
               PROVE  /\ \A j \in 0 .. stage[q] - 1 : <<q, j>> \in completed
                      /\ \A k \in Stages : <<q, k>> \in created' =>
                           \/ k < stage[q]
                           \/ k = stage[q] /\ pc'[q] \in {"polling", "deleting"}
    BY DEF RunsFollowStages
  <2>1. CASE q = r
    BY <1>1, <2>1 DEF OrderInv, RunsFollowStages, Active, Working
  <2>2. CASE q # r
    BY <1>1, <2>2 DEF OrderInv, RunsFollowStages
  <2> QED BY <2>1, <2>2
<1> QED BY <1>5, <1>6, <1>8, <1>9 DEF OrderInv
(* A deleted job is nobody else's.                                         *)
LEMMA DeleteKeepsOrder ==
    ASSUME TypeInv, OrderInv, NEW r \in Runs, DeleteSuccessJob(r)
    PROVE  OrderInv'
<1> DEFINE n == MyJob(r)
<1>1. /\ n \in JobNames /\ stage[r] \in Stages
      /\ \A m \in JobNames : m # n => jobs'[m] = jobs[m]
      /\ jobs'[n] = jobs[n] \/ jobs'[n] = None
      /\ pc' = [pc EXCEPT ![r] = "loop"]
      /\ stage' = [stage EXCEPT ![r] = @ + 1]
      /\ UNCHANGED <<created, completed>>
  BY DEF DeleteSuccessJob, TypeInv, TypeOK, InStage, MyJob, JobNames, history
<1>2. jobs[n] # None /\ jobs[n].run = r /\ jobs[n].stage = stage[r]
  BY DEF OrderInv, OwnJob, DeleteSuccessJob
<1>3. <<r, stage[r]>> \in completed
  BY <1>1, <1>2 DEF OrderInv, DeletesSucceeded, JobsMatchHistory,
                    DeleteSuccessJob
<1> HIDE DEF n
<1>4. StagesInOrder' /\ JobsMatchHistory'
  BY <1>1 DEF OrderInv, StagesInOrder, JobsMatchHistory
<1>5. ASSUME NEW q \in Runs, pc'[q] \in {"polling", "deleting"}
      PROVE  /\ MyJob(q)' = MyJob(q) /\ stage'[q] = stage[q] /\ pc'[q] = pc[q]
             /\ jobs'[MyJob(q)] = jobs[MyJob(q)]
  <2>1. q # r /\ pc'[q] = pc[q] /\ stage'[q] = stage[q]
    BY <1>1, <1>5 DEF TypeInv, TypeOK
  <2>2. MyJob(q)' = MyJob(q)
    BY <2>1 DEF MyJob
  <2>3. MyJob(q) \in JobNames /\ jobs[MyJob(q)].run = q
    BY <1>5, <2>1 DEF OrderInv, OwnJob, MyJob, JobNames, TypeInv, InStage
  <2> QED BY <1>1, <1>2, <2>1, <2>2, <2>3
<1>6. OwnJob' /\ DeletesSucceeded'
  BY <1>5 DEF OrderInv, OwnJob, DeletesSucceeded
<1>7. RunsFollowStages'
  <2> SUFFICES ASSUME NEW q \in Runs, pc'[q] \in Active
               PROVE  /\ \A j \in 0 .. stage'[q] - 1 : <<q, j>> \in completed
                      /\ \A k \in Stages : <<q, k>> \in created =>
                           \/ k < stage'[q]
                           \/ k = stage'[q] /\ pc'[q] \in {"polling", "deleting"}
    BY <1>1 DEF RunsFollowStages
  <2>1. CASE q = r
    <3>1. stage[r] \in Nat /\ stage'[r] = stage[r] + 1 /\ pc[r] = "deleting"
      BY <1>1 DEF TypeInv, TypeOK, DeleteSuccessJob
    <3>2. \A k \in Stages : k \in Nat
      BY DEF Stages
    <3>3. \A j \in 0 .. stage[r] : j \in 0 .. stage[r] - 1 \/ j = stage[r]
      BY <3>1
    <3> QED BY <1>3, <2>1, <3>1, <3>2, <3>3
            DEF OrderInv, RunsFollowStages, Active, Working
  <2>2. CASE q # r
    BY <1>1, <2>2 DEF OrderInv, RunsFollowStages, TypeInv, TypeOK
  <2> QED BY <2>1, <2>2
<1> QED BY <1>4, <1>6, <1>7 DEF OrderInv

(* The cluster counts pods; a stage completes once, with its job.          *)
LEMMA ClusterKeepsOrder ==
    ASSUME ~TTLSet, TypeInv, OrderInv, NEW n \in JobNames, Cluster(n)
    PROVE  OrderInv'
<1>1. /\ UNCHANGED <<pc, stage, created>>
      /\ jobs[n] # None /\ jobs[n] \in Job
      /\ Unfinished(jobs[n])
      /\ jobs'[n] # None /\ jobs'[n].run = jobs[n].run
      /\ jobs'[n].stage = jobs[n].stage
      /\ \A m \in JobNames : m # n => jobs'[m] = jobs[m]
      /\ \/ /\ jobs'[n].succeeded
            /\ completed' = completed \cup {<<jobs[n].run, jobs[n].stage>>}
         \/ /\ jobs'[n].succeeded = jobs[n].succeeded
            /\ completed' = completed
  <2>1. PodSucceeds(n) \/ PodFails(n)
    BY DEF Cluster, Expire
  <2>2. /\ jobs[n] \in Job /\ jobs'[n] \in Job
        /\ jobs' = [jobs EXCEPT ![n] = jobs'[n]]
        /\ jobs'[n].run = jobs[n].run /\ jobs'[n].stage = jobs[n].stage
        /\ PodSucceeds(n) => jobs'[n].succeeded
        /\ PodFails(n) => jobs'[n].succeeded = jobs[n].succeeded
    BY <2>1, PodsKeepJob DEF TypeInv
  <2>3. \A m \in JobNames : m # n => jobs'[m] = jobs[m]
    BY <2>2 DEF TypeInv, TypeOK
  <2>4. CASE PodSucceeds(n)
    BY <2>2, <2>3, <2>4, NoneAssumption DEF PodSucceeds, controller
  <2>5. CASE PodFails(n)
    BY <2>2, <2>3, <2>5, NoneAssumption DEF PodFails, controller
  <2> QED BY <2>1, <2>4, <2>5
<1>2. <<jobs[n].run, jobs[n].stage>> \in created
  BY <1>1 DEF OrderInv, JobsMatchHistory
<1>3. StagesInOrder'
  BY <1>1, <1>2 DEF OrderInv, StagesInOrder
<1>4. JobsMatchHistory'
  <2> SUFFICES ASSUME NEW m \in JobNames, jobs'[m] # None
               PROVE  /\ m = JobName(jobs'[m].run, jobs'[m].stage)
                      /\ <<jobs'[m].run, jobs'[m].stage>> \in created'
                      /\ jobs'[m].succeeded
                         <=> <<jobs'[m].run, jobs'[m].stage>> \in completed'
    BY DEF JobsMatchHistory
  <2>1. CASE m = n
    BY <1>1, <2>1 DEF OrderInv, JobsMatchHistory, Unfinished
  <2>2. CASE m # n
    BY <1>1, <2>2 DEF OrderInv, JobsMatchHistory
  <2> QED BY <2>1, <2>2
<1>5. \A q \in Runs : MyJob(q)' = MyJob(q)
  BY <1>1 DEF MyJob
<1>6. \A q \in Runs : pc[q] \in {"polling", "deleting"} =>
                         MyJob(q) \in JobNames
  BY DEF TypeInv, InStage, MyJob, JobNames
<1>7. OwnJob' /\ DeletesSucceeded'
  BY <1>1, <1>5, <1>6 DEF OrderInv, OwnJob, DeletesSucceeded
<1>8. RunsFollowStages'
  BY <1>1 DEF OrderInv, RunsFollowStages
<1> QED BY <1>3, <1>4, <1>7, <1>8 DEF OrderInv

LEMMA OrderNext ==
    ~TTLSet /\ TypeInv /\ OrderInv /\ [Next]_vars => OrderInv'
<1> SUFFICES ASSUME ~TTLSet, TypeInv, OrderInv, [Next]_vars PROVE OrderInv'
  OBVIOUS
<1> USE DEF Active, Working, Deciding, Ended
<1>1. ASSUME NEW r \in Runs, StartRun(r) PROVE OrderInv'
  BY <1>1, MoveKeepsOrder DEF StartRun, TypeInv, TypeOK, cluster
<1>2. ASSUME Die, UNCHANGED <<jobs, created>> PROVE OrderInv'
  BY <1>2, MoveKeepsOrder DEF Die, InFlight
<1>3. ASSUME NEW r \in Runs, Step(r) PROVE OrderInv'
  <2>1. CASE CreateCascadeRun(r)
    BY <2>1, MoveKeepsOrder DEF CreateCascadeRun, TypeInv, TypeOK, cluster
  <2>2. CASE RefuseRun(r)
    BY <2>2, MoveKeepsOrder DEF RefuseRun, TypeInv, TypeOK, cluster
  <2>3. CASE CountProcess(r)
    BY <2>3, MoveKeepsOrder DEF CountProcess, TypeInv, TypeOK, cluster
  <2>4. CASE SetJobEnv(r)
    BY <2>4, MoveKeepsOrder DEF SetJobEnv, TypeInv, TypeOK, cluster
  <2>5. CASE CreateJob(r)
    BY <2>5, StoreKeepsOrder DEF CreateJob, TypeInv, TypeOK
  <2>6. CASE PollSucceeded(r)
    <3>1. /\ UNCHANGED <<jobs, created, completed, stage>>
          /\ pc[r] = "polling" /\ jobs[MyJob(r)].succeeded
          /\ pc' = [pc EXCEPT ![r] = "deleting"]
      BY <2>6 DEF PollSucceeded, cluster
    <3>2. \A q \in Runs : MyJob(q)' = MyJob(q)
      BY <3>1 DEF MyJob
    <3>3. StagesInOrder' /\ JobsMatchHistory'
      BY <3>1 DEF OrderInv, StagesInOrder, JobsMatchHistory
    <3>4. OwnJob' /\ DeletesSucceeded'
      BY <3>1, <3>2 DEF OrderInv, OwnJob, DeletesSucceeded, TypeInv, TypeOK
    <3>5. RunsFollowStages'
      BY <3>1 DEF OrderInv, RunsFollowStages, TypeInv, TypeOK
    <3> QED BY <3>3, <3>4, <3>5 DEF OrderInv
  <2>7. CASE PollFailed(r)
    BY <2>7, MoveKeepsOrder DEF PollFailed, Decide, TypeInv, TypeOK, cluster
  <2>8. CASE DeleteSuccessJob(r)
    BY <2>8, DeleteKeepsOrder
  <2>9. CASE Succeed(r)
    BY <2>9, MoveKeepsOrder DEF Succeed, Decide, TypeInv, TypeOK, cluster
  <2>10. CASE Stop(r)
    BY <2>10, MoveKeepsOrder DEF Stop, TypeInv, TypeOK, cluster
  <2>11. CASE Exit(r)
    BY <2>11, MoveKeepsOrder DEF Exit, TypeInv, TypeOK, cluster
  <2>12. CASE PanicShortId(r)
    BY <1>2, <2>12 DEF PanicShortId
  <2>13. CASE FatalCreateJob(r)
    <3>1. CASE UNCHANGED <<jobs, created>>
      BY <1>2, <2>13, <3>1 DEF FatalCreateJob
    <3>2. CASE StoreJob(r)
      BY <2>13, <3>2, StoreKeepsOrder DEF FatalCreateJob, Die, InFlight
    <3> QED BY <2>13, <3>1, <3>2 DEF FatalCreateJob
  <2> QED BY <1>3, <2>1, <2>2, <2>3, <2>4, <2>5, <2>6, <2>7, <2>8, <2>9,
             <2>10, <2>11, <2>12, <2>13 DEF Step, Proceed, Fatal
<1>4. ASSUME NEW r \in Runs, NEW g \in Helpers, Return(r, g) PROVE OrderInv'
  BY <1>4, MoveKeepsOrder DEF Return, cluster
<1>5. ASSUME NEW n \in JobNames, Cluster(n) PROVE OrderInv'
  BY <1>5, ClusterKeepsOrder
<1>6. ASSUME NEW x \in cascadeRuns, DeleteCascadeRun(x) PROVE OrderInv'
  BY <1>6, MoveKeepsOrder DEF DeleteCascadeRun, controller, cluster
<1>7. CASE Crash
  BY <1>2, <1>7 DEF Crash
<1>8. CASE UNCHANGED vars
  BY <1>8, MoveKeepsOrder DEF vars
<1> QED BY <1>1, <1>3, <1>4, <1>5, <1>6, <1>7, <1>8 DEF Next
LEMMA OrderHolds ==
    ASSUME ~TTLSet
    PROVE  Spec => [](TypeInv /\ OrderInv /\ GoroutinesCounted)
<1>1. TypeInv => TypeOK
  BY DEF TypeInv
<1> QED BY <1>1, TypesInit, TypesNext, OrderInit, OrderNext, GoroutinesInit,
           GoroutinesNext, PTL DEF Spec

(* Though names collide and jobs are found by name, a run polls and deletes *)
(* its own job only, as long as no other party deletes jobs.  That a name   *)
(* already taken is fatal to the whole process is what this rests on.       *)
THEOREM RunsOwnTheirJobs == ASSUME ~TTLSet PROVE Spec => []OwnJob
<1>1. OrderInv => OwnJob
  BY DEF OrderInv
<1> QED BY <1>1, OrderHolds, PTL

(* No job disappears before one of its pods has succeeded.                  *)
THEOREM JobsOutliveTheirWork == ASSUME ~TTLSet PROVE Spec => NoPrematureDelete
<1> DEFINE Kept == \A n \in JobNames :
                      jobs[n] # None /\ jobs'[n] = None => jobs[n].succeeded
<1>1. TypeInv /\ OrderInv /\ [Next]_vars => [Kept]_vars
  <2> SUFFICES ASSUME TypeInv, OrderInv, [Next]_vars, NEW n \in JobNames,
                      jobs[n] # None, jobs'[n] = None
               PROVE  jobs[n].succeeded
    OBVIOUS
  <2>1. jobs \in [JobNames -> Job \cup {None}]
    BY DEF TypeInv, TypeOK
  <2>2. ASSUME NEW r \in Runs, Step(r) PROVE jobs[n].succeeded
    <3>1. CASE DeleteSuccessJob(r)
      <4>1. jobs' = [jobs EXCEPT ![MyJob(r)] = None]
        BY <3>1 DEF DeleteSuccessJob
      <4>2. n = MyJob(r)
        BY <2>1, <4>1
      <4> QED BY <3>1, <4>2 DEF DeleteSuccessJob, OrderInv, DeletesSucceeded
    <3>2. CASE CreateJob(r) \/ FatalCreateJob(r)
      <4>1. UNCHANGED jobs \/ StoreJob(r)
        BY <3>2 DEF CreateJob, FatalCreateJob
      <4>2. CASE StoreJob(r)
        <5>1. \A m \in JobNames : jobs[m] # None => jobs'[m] = jobs[m]
          BY <2>1, <4>2 DEF StoreJob
        <5> QED BY <5>1
      <4> QED BY <4>1, <4>2
    <3>3. \/ UNCHANGED jobs \/ DeleteSuccessJob(r)
          \/ CreateJob(r) \/ FatalCreateJob(r)
      BY <2>2 DEF Step, Proceed, Fatal, CreateCascadeRun, RefuseRun,
              PanicShortId, CountProcess, SetJobEnv, PollSucceeded,
              PollFailed, Succeed, Decide, Stop, Exit, cluster
    <3> QED BY <3>1, <3>2, <3>3
  <2>3. ASSUME NEW m \in JobNames, Cluster(m) PROVE jobs[n].succeeded
    <3>1. PodSucceeds(m) \/ PodFails(m)
      BY <2>3 DEF Cluster, Expire
    <3>2. jobs'[m] \in Job /\ jobs' = [jobs EXCEPT ![m] = jobs'[m]]
      BY <3>1, PodsKeepJob DEF TypeInv
    <3>3. jobs'[n] # None
      BY <2>1, <3>2, NoneAssumption
    <3> QED BY <3>3
  <2>4. \/ UNCHANGED jobs
        \/ \E r \in Runs : Step(r)
        \/ \E m \in JobNames : Cluster(m)
    BY DEF Next, StartRun, Return, DeleteCascadeRun, Crash, vars, cluster
  <2> QED BY <2>2, <2>3, <2>4
<1>2. [Kept]_vars => [\A n \in JobNames : jobs[n] # None /\ jobs'[n] = None
                                          => jobs[n].succeeded]_vars
  OBVIOUS
<1> QED BY <1>1, <1>2, OrderHolds, PTL DEF Spec, NoPrematureDelete
----------------------------------------------------------------------------
(* Refinement: what the controller does is what Cascade promises.          *)

Seen == <<created, completed, verdict>>

(* The stage whose job a run is about to delete has completed, its job     *)
(* expired or not.                                                         *)
DeletesCompleted ==
    \A r \in Runs : pc[r] = "deleting" => <<r, stage[r]>> \in completed

OwnerInv == StagesInOrder /\ JobsMatchHistory /\ OwnJobIfAny
            /\ DeletesCompleted /\ RunsFollowStages

(* What the refinement needs holds with and without jobs that expire.      *)
LEMMA OrderOwns == TypeInv /\ OrderInv => OwnerInv
<1> SUFFICES ASSUME TypeInv, OrderInv PROVE OwnerInv
  OBVIOUS
<1>1. OwnJobIfAny
  BY DEF OrderInv, OwnJob, OwnJobIfAny
<1>2. ASSUME NEW r \in Runs, pc[r] = "deleting"
      PROVE  <<r, stage[r]>> \in completed
  <2>1. /\ jobs[MyJob(r)] # None /\ jobs[MyJob(r)].succeeded
        /\ jobs[MyJob(r)].run = r /\ jobs[MyJob(r)].stage = stage[r]
    BY <1>2 DEF OrderInv, OwnJob, DeletesSucceeded
  <2>2. MyJob(r) \in JobNames
    BY <1>2 DEF TypeInv, InStage, MyJob, JobNames
  <2> QED BY <2>1, <2>2 DEF OrderInv, JobsMatchHistory
<1> QED BY <1>1, <1>2 DEF OrderInv, OwnerInv, DeletesCompleted

LEMMA StoreLaunches ==
    ASSUME TypeInv, OwnerInv, GoroutinesCounted, NEW r \in Runs,
           pc[r] = "creating", StoreJob(r), UNCHANGED <<completed, verdict>>
    PROVE  Promise!Next
<1>1. /\ stage[r] \in Stages
      /\ \A j \in 0 .. stage[r] - 1 : <<r, j>> \in completed
      /\ <<r, stage[r]>> \notin created
      /\ verdict[r] = "none"
  BY NumbersAssumption
     DEF TypeInv, InStage, OwnerInv, RunsFollowStages, GoroutinesCounted,
         Active, Working, Stages
<1>2. Promise!Launch(r, stage[r])
  BY <1>1 DEF Promise!Launch, StoreJob
<1> QED BY <1>1, <1>2 DEF Promise!Next, Promise!Stages, Stages

LEMMA StepRefines ==
    ASSUME TypeInv, OwnerInv, GoroutinesCounted, NEW r \in Runs, Step(r)
    PROVE  Promise!Next \/ UNCHANGED Seen
<1> USE DEF Seen
<1>1. CASE CreateJob(r)
  BY <1>1, StoreLaunches DEF CreateJob
<1>2. CASE FatalCreateJob(r)
  BY <1>2, StoreLaunches DEF FatalCreateJob, Die
<1>3. CASE PollFailed(r)
  <2>1. /\ stage[r] \in Stages /\ MyJob(r) \in JobNames
        /\ jobs[MyJob(r)] # None /\ ~jobs[MyJob(r)].succeeded
        /\ jobs[MyJob(r)].run = r /\ jobs[MyJob(r)].stage = stage[r]
    BY <1>3 DEF PollFailed, TypeInv, InStage, OwnerInv, OwnJobIfAny, MyJob,
                JobNames
  <2>2. <<r, stage[r]>> \in created \ completed
    BY <2>1 DEF OwnerInv, JobsMatchHistory
  <2>3. verdict[r] = "none"
    BY <1>3 DEF PollFailed, GoroutinesCounted, Active, Working
  <2>4. Promise!Fail(r)
    BY <1>3, <2>1, <2>2, <2>3
       DEF PollFailed, Decide, cluster, Promise!Fail, Promise!Stages, Stages
  <2> QED BY <2>4 DEF Promise!Next
<1>4. CASE Succeed(r)
  <2>1. \A k \in Stages : k \in 0 .. stage[r] - 1
    BY <1>4 DEF Succeed, Stages
  <2>2. \A k \in Stages : <<r, k>> \in completed
    BY <1>4, <2>1 DEF Succeed, OwnerInv, RunsFollowStages, Active, Working
  <2>3. verdict[r] = "none"
    BY <1>4 DEF Succeed, GoroutinesCounted, Active, Working
  <2>4. Promise!Succeed(r)
    BY <1>4, <2>2, <2>3
       DEF Succeed, Decide, cluster, Promise!Succeed, Promise!Stages, Stages
  <2> QED BY <2>4 DEF Promise!Next
<1>5. CASE PanicShortId(r)
  BY <1>5 DEF PanicShortId, Die
<1>6. CASE DeleteSuccessJob(r)
  BY <1>6 DEF DeleteSuccessJob, history
<1>7. CASE \/ CreateCascadeRun(r) \/ RefuseRun(r) \/ CountProcess(r)
           \/ SetJobEnv(r) \/ PollSucceeded(r) \/ Stop(r) \/ Exit(r)
  BY <1>7 DEF CreateCascadeRun, RefuseRun, CountProcess, SetJobEnv,
              PollSucceeded, Stop, Exit, cluster
<1> QED BY <1>1, <1>2, <1>3, <1>4, <1>5, <1>6, <1>7 DEF Step, Proceed, Fatal

LEMMA ClusterRefines ==
    ASSUME TypeInv, OwnerInv, NEW n \in JobNames, Cluster(n)
    PROVE  Promise!Next \/ UNCHANGED Seen
<1>1. CASE PodSucceeds(n)
  <2>1. jobs[n] # None /\ jobs[n] \in Job /\ ~jobs[n].succeeded
    BY <1>1 DEF PodSucceeds, Unfinished, TypeInv, TypeOK
  <2>2. <<jobs[n].run, jobs[n].stage>> \in created \ completed
    BY <2>1 DEF OwnerInv, JobsMatchHistory
  <2>3. jobs[n].run \in Runs /\ jobs[n].stage \in Stages
    BY <2>1 DEF Job
  <2>4. Promise!Complete(jobs[n].run, jobs[n].stage)
    BY <1>1, <2>2 DEF PodSucceeds, controller, Promise!Complete
  <2> QED BY <2>3, <2>4 DEF Promise!Next, Promise!Stages, Stages
<1>2. CASE PodFails(n) \/ Expire(n)
  BY <1>2 DEF PodFails, Expire, controller, Seen
<1> QED BY <1>1, <1>2 DEF Cluster

LEMMA NextRefines ==
    TypeInv /\ OwnerInv /\ GoroutinesCounted /\ [Next]_vars
        => [Promise!Next]_Promise!vars
<1> SUFFICES ASSUME TypeInv, OwnerInv, GoroutinesCounted, [Next]_vars
             PROVE  Promise!Next \/ UNCHANGED Seen
  BY DEF Promise!vars, Seen
<1>1. ASSUME NEW r \in Runs, Step(r) PROVE Promise!Next \/ UNCHANGED Seen
  BY <1>1, StepRefines
<1>2. ASSUME NEW n \in JobNames, Cluster(n)
      PROVE  Promise!Next \/ UNCHANGED Seen
  BY <1>2, ClusterRefines
<1>3. \/ \E r \in Runs : Step(r)
      \/ \E n \in JobNames : Cluster(n)
      \/ UNCHANGED Seen
  BY DEF Next, StartRun, Return, DeleteCascadeRun, Crash, Die, vars,
         cluster, controller, Seen
<1> QED BY <1>1, <1>2, <1>3

(* The runs of the controller implement the promise of module Cascade:     *)
(* stages start in order, a success means that every stage completed, a    *)
(* failure that one was started and did not complete.                      *)
THEOREM KeepsPromise == ASSUME ~TTLSet PROVE Spec => Implements
<1>1. Init => Promise!Init
  BY DEF Init, Promise!Init
<1> QED BY <1>1, OrderOwns, NextRefines, OrderHolds, PTL
        DEF Spec, Implements, Promise!Spec
=============================================================================
