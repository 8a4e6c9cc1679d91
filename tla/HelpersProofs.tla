---------------------------- MODULE HelpersProofs ----------------------------
(***************************************************************************)
(* Theorems about the end of a run in ImageProcessing: what it waits for,  *)
(* and that it cannot go on without end, for any number of runs and stages *)
(* and whatever fails.                                                     *)
(***************************************************************************)
EXTENDS ImageProcessingProofs

----------------------------------------------------------------------------
(* The run and its helpers.                                                *)

Phases == [r \in Runs |-> Phase(r)]

(* The goroutines that record the result are not started before it is.     *)
HelpersStarted ==
    \A r \in Runs : pc[r] \in {"begun"} \cup Working =>
                       wg[r] \subseteq {"collector", "setActive"}

LEMMA HelpersStartedInit == Init => HelpersStarted
  BY DEF Init, HelpersStarted

(* What a step does to the phase and the helpers of each run.              *)
LEMMA MovesOf ==
    ASSUME TypeOK, [Next]_vars
    PROVE  \/ Die
           \/ UNCHANGED <<Phases, wg>> /\ \A q \in Runs :
                 pc'[q] \in {"begun"} \cup Working =>
                    pc[q] \in {"begun"} \cup Working
           \/ \E r \in Runs :
                 /\ \A q \in Runs \ {r} : pc'[q] = pc[q] /\ wg'[q] = wg[q]
                 /\ \/ /\ pc[r] = "accepted" /\ pc'[r] = "begun"
                       /\ wg'[r] = {"collector", "setActive"}
                    \/ /\ pc[r] \in Working /\ pc'[r] = "stopping"
                       /\ wg'[r] = wg[r] \cup {"setOperator", "setRun"}
                    \/ /\ pc[r] = "stopping" /\ pc'[r] = "draining"
                       /\ "collector" \in wg[r]
                       /\ wg'[r] = wg[r] \ {"collector"}
                    \/ /\ pc[r] = "draining" /\ pc'[r] = "done"
                       /\ wg[r] = {} /\ wg'[r] = wg[r]
                    \/ /\ pc'[r] = pc[r]
                       /\ \E g \in Helpers : /\ g \in wg[r] \ {"collector"}
                                             /\ wg'[r] = wg[r] \ {g}
<1> USE DEF TypeOK, Working, Deciding, Ended
<1>1. ASSUME NEW r \in Runs,
             StartRun(r) \/ RefuseRun(r) \/ CountProcess(r) \/ SetJobEnv(r)
             \/ CreateJob(r) \/ PollSucceeded(r) \/ DeleteSuccessJob(r)
      PROVE  /\ UNCHANGED <<Phases, wg>>
             /\ \A q \in Runs : pc'[q] \in {"begun"} \cup Working =>
                                   pc[q] \in {"begun"} \cup Working
  <2>1. CASE StartRun(r) \/ RefuseRun(r) \/ CountProcess(r)
    BY <2>1 DEF StartRun, RefuseRun, CountProcess, Phases, Phase
  <2>2. CASE SetJobEnv(r) \/ CreateJob(r)
    BY <2>2 DEF SetJobEnv, CreateJob, Phases, Phase
  <2>3. CASE PollSucceeded(r) \/ DeleteSuccessJob(r)
    BY <2>3 DEF PollSucceeded, DeleteSuccessJob, Phases, Phase
  <2> QED BY <1>1, <2>1, <2>2, <2>3
<1>2. ASSUME NEW r \in Runs, CreateCascadeRun(r)
      PROVE  /\ \A q \in Runs \ {r} : pc'[q] = pc[q] /\ wg'[q] = wg[q]
             /\ pc[r] = "accepted" /\ pc'[r] = "begun"
             /\ wg'[r] = {"collector", "setActive"}
  BY <1>2 DEF CreateCascadeRun
<1>3. ASSUME NEW r \in Runs, PollFailed(r) \/ Succeed(r)
      PROVE  /\ \A q \in Runs \ {r} : pc'[q] = pc[q] /\ wg'[q] = wg[q]
             /\ pc[r] \in Working /\ pc'[r] = "stopping"
             /\ wg'[r] = wg[r] \cup {"setOperator", "setRun"}
  BY <1>3 DEF PollFailed, Succeed, Decide
<1>4. ASSUME NEW r \in Runs, Stop(r)
      PROVE  /\ \A q \in Runs \ {r} : pc'[q] = pc[q] /\ wg'[q] = wg[q]
             /\ pc[r] = "stopping" /\ pc'[r] = "draining"
             /\ "collector" \in wg[r] /\ wg'[r] = wg[r] \ {"collector"}
  BY <1>4 DEF Stop
<1>5. ASSUME NEW r \in Runs, Exit(r)
      PROVE  /\ \A q \in Runs \ {r} : pc'[q] = pc[q] /\ wg'[q] = wg[q]
             /\ pc[r] = "draining" /\ pc'[r] = "done"
             /\ wg[r] = {} /\ wg'[r] = wg[r]
  BY <1>5 DEF Exit
<1>6. ASSUME NEW r \in Runs, NEW g \in Helpers, Return(r, g)
      PROVE  /\ \A q \in Runs \ {r} : pc'[q] = pc[q] /\ wg'[q] = wg[q]
             /\ pc'[r] = pc[r] /\ g \in wg[r] \ {"collector"}
             /\ wg'[r] = wg[r] \ {g}
  BY <1>6 DEF Return
<1>7. ASSUME UNCHANGED <<pc, wg>>
      PROVE  UNCHANGED <<Phases, wg>>
  BY <1>7 DEF Phases, Phase
<1>8. \/ Die \/ UNCHANGED <<pc, wg>>
      \/ \E r \in Runs : \/ StartRun(r) \/ RefuseRun(r) \/ CountProcess(r)
                         \/ SetJobEnv(r) \/ CreateJob(r) \/ PollSucceeded(r)
                         \/ DeleteSuccessJob(r)
      \/ \E r \in Runs : \/ CreateCascadeRun(r) \/ PollFailed(r) \/ Succeed(r)
                         \/ Stop(r) \/ Exit(r)
                         \/ \E g \in Helpers : Return(r, g)
  BY DEF Next, Step, Proceed, Fatal, PanicShortId, FatalCreateJob, Cluster,
         PodSucceeds, PodFails, Expire, DeleteCascadeRun, Crash, controller,
         vars
<1> QED BY <1>1, <1>2, <1>3, <1>4, <1>5, <1>6, <1>7, <1>8

LEMMA HelpersStartedNext ==
    TypeOK /\ HelpersStarted /\ [Next]_vars => HelpersStarted'
<1> SUFFICES ASSUME TypeOK, HelpersStarted, [Next]_vars PROVE HelpersStarted'
  OBVIOUS
<1>1. CASE Die
  BY <1>1 DEF Die, HelpersStarted
<1>2. CASE ~Die
  BY <1>2, MovesOf DEF HelpersStarted, Working
<1> QED BY <1>1, <1>2

(* A run and its goroutines keep to the protocol of WaitGroup: whoever     *)
(* sends on stop finds the collector there, and wg.Wait() returns when     *)
(* every helper has, those of the decision included.                       *)
THEOREM RunsUseWaitGroup == Spec => UsesWaitGroup
<1>1. Init => Group!Init
  <2> SUFFICES ASSUME Init PROVE Group!Init
    OBVIOUS
  <2>1. ASSUME NEW r \in Runs PROVE Phase(r) = "new"
    <3>1. pc[r] = "idle"
      BY DEF Init
    <3> QED BY <3>1 DEF Phase, Working, Deciding
  <2>2. wg = [r \in Runs |-> {}]
    BY DEF Init
  <2> QED BY <2>1, <2>2 DEF Group!Init
<1>2. TypeOK /\ TypeOK' /\ HelpersStarted /\ [Next]_vars
        => [Group!Next]_<<Phases, wg>>
  <2> SUFFICES ASSUME TypeOK, TypeOK', HelpersStarted, [Next]_vars
               PROVE  Group!Next \/ UNCHANGED <<Phases, wg>>
    OBVIOUS
  <2> USE DEF Working, Deciding, Ended
  <2>0. /\ pc \in [Runs -> PCs] /\ wg \in [Runs -> SUBSET Helpers]
        /\ Phases \in [Runs -> {"new", "running", "stopping", "draining",
                                "done", "lost"}]
    BY DEF TypeOK, PCs, Phases, Phase
  <2>1. CASE Die
    <3>1. /\ \A r \in Runs : Phase(r)' \in {"new", "done", "lost"}
          /\ \A r \in Runs : Phase(r)' # Phase(r) =>
                                Phase(r)' = "lost" /\ Phase(r) # "done"
      BY <2>0, <2>1 DEF Die, InFlight, Phase, PCs
    <3>2. wg' = [r \in Runs |-> {}]
      BY <2>1 DEF Die
    <3>3. Group!Die
      BY <3>1, <3>2 DEF Group!Die, Phases
    <3> QED BY <3>3 DEF Group!Next
  <2>2. ASSUME NEW r \in Runs,
               \A q \in Runs \ {r} : pc'[q] = pc[q] /\ wg'[q] = wg[q]
        PROVE  /\ wg' = [wg EXCEPT ![r] = wg'[r]]
               /\ Phases' = [Phases EXCEPT ![r] = Phase(r)']
    <3>1. wg' \in [Runs -> SUBSET Helpers]
      BY DEF TypeOK
    <3>2. wg' = [wg EXCEPT ![r] = wg'[r]]
      BY <2>0, <2>2, <3>1
    <3>3. \A q \in Runs \ {r} : Phase(q)' = Phase(q)
      BY <2>2 DEF Phase
    <3> QED BY <3>2, <3>3 DEF Phases
  <2>3. ASSUME NEW r \in Runs,
               \A q \in Runs \ {r} : pc'[q] = pc[q] /\ wg'[q] = wg[q],
               pc[r] = "accepted" /\ pc'[r] = "begun",
               wg'[r] = {"collector", "setActive"}
        PROVE  Group!Begin(r)
    BY <2>2, <2>3 DEF Group!Begin, Group!Advance, Phases, Phase
  <2>4. ASSUME NEW r \in Runs,
               \A q \in Runs \ {r} : pc'[q] = pc[q] /\ wg'[q] = wg[q],
               pc[r] \in Working /\ pc'[r] = "stopping",
               wg'[r] = wg[r] \cup {"setOperator", "setRun"}
        PROVE  Group!Decide(r)
    <3>1. wg[r] \cap {"setOperator", "setRun"} = {}
      BY <2>4 DEF HelpersStarted
    <3> QED BY <2>2, <2>4, <3>1 DEF Group!Decide, Group!Advance, Phases, Phase
  <2>5. ASSUME NEW r \in Runs,
               \A q \in Runs \ {r} : pc'[q] = pc[q] /\ wg'[q] = wg[q],
               pc[r] = "stopping" /\ pc'[r] = "draining",
               "collector" \in wg[r] /\ wg'[r] = wg[r] \ {"collector"}
        PROVE  Group!Stop(r)
    BY <2>2, <2>5 DEF Group!Stop, Group!Advance, Phases, Phase
  <2>6. ASSUME NEW r \in Runs,
               \A q \in Runs \ {r} : pc'[q] = pc[q] /\ wg'[q] = wg[q],
               pc[r] = "draining" /\ pc'[r] = "done",
               wg[r] = {} /\ wg'[r] = wg[r]
        PROVE  Group!Leave(r)
    <3>1. wg' = wg
      BY <2>0, <2>2, <2>6
    <3>2. Phase(r) = "draining" /\ Phase(r)' = "done"
      BY <2>6 DEF Phase
    <3>3. Phases' = [Phases EXCEPT ![r] = "done"] /\ Phases[r] = "draining"
      BY <2>2, <2>6, <3>2 DEF Phases
    <3> QED BY <2>6, <3>1, <3>3 DEF Group!Leave, Group!Advance, Phases
  <2>7. ASSUME NEW r \in Runs, NEW g \in Helpers,
               \A q \in Runs \ {r} : pc'[q] = pc[q] /\ wg'[q] = wg[q],
               pc'[r] = pc[r], g \in wg[r] \ {"collector"},
               wg'[r] = wg[r] \ {g}
        PROVE  Group!Return(r, g)
    <3>1. \A q \in Runs : Phase(q)' = Phase(q)
      BY <2>7 DEF Phase
    <3>2. UNCHANGED Phases
      BY <3>1 DEF Phases
    <3>3. wg' = [wg EXCEPT ![r] = @ \ {g}]
      BY <2>2, <2>7
    <3> QED BY <2>7, <3>2, <3>3 DEF Group!Return, Phases
  <2> QED BY <2>1, <2>3, <2>4, <2>5, <2>6, <2>7, MovesOf
          DEF Group!Next, Helpers
<1>3. TypeInv => TypeOK
  BY DEF TypeInv
<1> QED BY <1>1, <1>2, <1>3, TypesInit, TypesNext, HelpersStartedInit,
           HelpersStartedNext, PTL
        DEF Spec, UsesWaitGroup, Group!Spec, Phases

----------------------------------------------------------------------------
(* The steps that are left.                                                *)

LEMMA StepsAreNumbers ==
    ASSUME NEW place \in PCs, NEW k \in 0 .. NumStages
    PROVE  /\ StepsLeft(place, k) \in Nat
           /\ StepsLeft(place, k) = 0 =>
                 place \in Ended \/ (place = "deleting" /\ k = NumStages)
<1>1. NumStages \in Nat /\ NumStages - k \in Nat
  BY NumbersAssumption
<1> QED BY <1>1 DEF StepsLeft, PCs, Working, Deciding, Ended

(* A step of one run uses up one of its steps, and of no other's.          *)
LEMMA StepUsesStep ==
    ASSUME TypeInv, NEW r \in Runs, StartRun(r) \/ Proceed(r)
    PROVE  /\ StepsLeft(pc'[r], stage'[r]) < StepsLeft(pc[r], stage[r])
           /\ \A q \in Runs \ {r} : pc'[q] = pc[q]
<1>0. /\ pc \in [Runs -> PCs] /\ stage \in [Runs -> 0 .. NumStages]
      /\ NumStages \in Nat /\ stage[r] \in 0 .. NumStages
      /\ pc[r] \in {"creating", "polling", "deleting"} => stage[r] < NumStages
  BY NumbersAssumption DEF TypeInv, TypeOK, InStage, PCs, Stages
<1> USE DEF StepsLeft, Ended
<1>1. CASE StartRun(r) \/ CreateCascadeRun(r) \/ RefuseRun(r) \/ CountProcess(r)
  BY <1>0, <1>1 DEF StartRun, CreateCascadeRun, RefuseRun, CountProcess
<1>2. CASE SetJobEnv(r) \/ CreateJob(r) \/ PollSucceeded(r)
  BY <1>0, <1>2 DEF SetJobEnv, CreateJob, PollSucceeded
<1>3. CASE DeleteSuccessJob(r)
  BY <1>0, <1>3 DEF DeleteSuccessJob
<1>4. CASE PollFailed(r) \/ Succeed(r)
  BY <1>0, <1>4 DEF PollFailed, Succeed, Decide
<1>5. CASE Stop(r) \/ Exit(r)
  BY <1>0, <1>5 DEF Stop, Exit
<1> QED BY <1>1, <1>2, <1>3, <1>4, <1>5 DEF Proceed

(* A run can wait for ever, but it cannot go round for ever: every step it *)
(* takes is one fewer of the few that are left to it.                      *)
THEOREM RunsRunOutOfSteps == Spec => StepsRunOut
<1>1. ASSUME TypeInv, TypeInv', [Next]_vars, NEW q \in Runs, pc'[q] # pc[q]
      PROVE  StepsLeft(pc'[q], stage'[q]) \in
                0 .. StepsLeft(pc[q], stage[q]) - 1
  <2>0. /\ pc[q] \in PCs /\ pc'[q] \in PCs
        /\ stage[q] \in 0 .. NumStages /\ stage'[q] \in 0 .. NumStages
        /\ pc[q] = "deleting" => stage[q] # NumStages
    BY <1>1, NumbersAssumption DEF TypeInv, TypeOK, InStage, PCs, Stages
  <2>1. /\ StepsLeft(pc[q], stage[q]) \in Nat
        /\ StepsLeft(pc'[q], stage'[q]) \in Nat
        /\ pc[q] \notin Ended => StepsLeft(pc[q], stage[q]) # 0
    BY <2>0, StepsAreNumbers
  <2>2. CASE Die
    <3>1. pc[q] \notin Ended /\ pc'[q] = "lost"
      BY <1>1, <2>2 DEF Die, InFlight
    <3>2. StepsLeft(pc'[q], stage'[q]) = 0
      BY <3>1 DEF StepsLeft, Ended
    <3> QED BY <2>1, <3>1, <3>2
  <2>3. ASSUME NEW r \in Runs, StartRun(r) \/ Proceed(r)
        PROVE  StepsLeft(pc'[q], stage'[q]) < StepsLeft(pc[q], stage[q])
    BY <1>1, <2>3, StepUsesStep
  <2>4. \/ Die \/ pc' = pc
        \/ \E r \in Runs : StartRun(r) \/ Proceed(r)
    BY <1>1 DEF Next, Step, Fatal, PanicShortId, FatalCreateJob, Return,
                Cluster, PodSucceeds, PodFails, Expire, DeleteCascadeRun,
                Crash, controller, vars
  <2> QED BY <1>1, <2>1, <2>2, <2>3, <2>4
<1>2. TypeInv /\ TypeInv' /\ [Next]_vars
        => [\A r \in Runs : pc'[r] # pc[r] =>
               StepsLeft(pc'[r], stage'[r]) \in
                  0 .. StepsLeft(pc[r], stage[r]) - 1]_vars
  BY <1>1
<1> QED BY <1>2, TypesInit, TypesNext, PTL DEF Spec, StepsRunOut
=============================================================================
