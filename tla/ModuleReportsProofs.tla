------------------------ MODULE ModuleReportsProofs ------------------------
(***************************************************************************)
(* Theorems about ModuleReports, for any number of runs, reports and       *)
(* attempts, any names, and any number of crashes, deletions and failures. *)
(***************************************************************************)
EXTENDS ModuleReports, FiniteSetTheorems, TLAPS

----------------------------------------------------------------------------
(* The inductive invariant.                                                *)

(* A copy whose version is still current is the current object.            *)
FreshCopies ==
    \A u \in Updates : pc[u] = "update" =>
        /\ seenVer[u] <= version[Target(u)]
        /\ seen[u].exists
        /\ seenVer[u] = version[Target(u)] => seen[u] = cascadeRun[Target(u)]

(* An update starts when its report is taken, or its run decides.          *)
StartedOnce ==
    /\ \A r \in Runs : phase[r] \in {"new", "running"} => pc[r] = "none"
    /\ \A p \in Reports : /\ by[p] = None <=> handler[p] # "answered"
                          /\ by[p] = None <=> pc[p] = "none"

(* A collector is busy with one report, that of a run that has not ended.  *)
OneAtATime ==
    /\ \A p, q \in Reports : Trying(p) /\ Trying(q) /\ by[p] = by[q] => p = q
    /\ \A p \in Reports : Trying(p) => by[p] \in Runs /\ collector[by[p]] = "busy"
    /\ \A r \in Runs : collector[r] \in {"outer", "inner", "busy"} =>
          phase[r] \in {"running", "stopping"}

(* The write that an update knows of was its last.                         *)
HeardIsLast == \A l \in landed \ unheard : pc[l[1]] = "done"

(* Of the writes of one update at most one was acknowledged.               *)
RecordedOnce == \A l, m \in landed \ unheard : l[1] = m[1] => l = m

(* Stop is heard between two reports, and nothing is taken after it.       *)
StopHeard ==
    /\ \A r \in Runs : phase[r] = "done" => pc[r] = "done"
    /\ \A p \in Reports, r \in Runs : by[p] = r =>
          /\ phase[r] \in {"draining", "done"} => pc[p] = "done"
          /\ pc[p] = "lost" => phase[r] = "lost"

(* Only the report a collector is at when the run decides is overtime, or  *)
(* the one it is about to take.                                            *)
LittleOvertime ==
    \A r \in Runs : /\ overtime[r] <= 1
                    /\ phase[r] \in {"new", "running"} => overtime[r] = 0
                    /\ collector[r] = "inner" => overtime[r] = 0

(* The report a collector is at is the last it took; recorded reports were *)
(* taken.                                                                  *)
TakenSet == {q \in Reports : by[q] # None}
Tickets ==
    /\ \A p \in Reports : ticket[p] <= Cardinality(TakenSet)
    /\ \A p, q \in Reports :
          Trying(p) /\ by[q] = by[p] => ticket[q] <= ticket[p]
    /\ \A n \in Names : \A i \in DOMAIN cascadeRun[n].result :
          by[cascadeRun[n].result[i]] # None

ReportsInv == /\ TypeOK /\ FreshCopies /\ StartedOnce /\ OneAtATime
              /\ HeardIsLast /\ StopHeard /\ LittleOvertime /\ Tickets
              /\ RecordedOnce /\ NoneDropped /\ InOrder

----------------------------------------------------------------------------
(* What the parts of a step do.                                            *)

LEMMA Targets == /\ \A u \in Updates : Target(u) \in Names
                 /\ \A p \in Reports : p \in Updates /\ Target(p) = RunName[p]
                 /\ \A r \in Runs : /\ r \in Updates /\ r \notin Reports
                                    /\ Target(r) = Name[r]
BY SetsAssumption, NamesAssumption DEF Updates, Target

LEMMA ChangedType ==
    ASSUME NEW u \in Updates, NEW o \in CascadeRun
    PROVE  Changed(u, o) \in CascadeRun
<1>1. CASE u \in Reports
  <2>1. o.result \in Seq(Reports)
    BY DEF CascadeRun
  <2>2. Append(o.result, u) \in Seq(Reports)
    BY <1>1, <2>1
  <2> QED BY <1>1, <2>2 DEF Changed, CascadeRun
<1>2. CASE u \notin Reports
  BY <1>2 DEF Changed, CascadeRun, Updates
<1> QED BY <1>1, <1>2

(* An attempt that ends goes on with the next, or ends the update and lets *)
(* its collector go on.                                                    *)
LEMMA RetryEffect ==
    ASSUME TypeOK, NEW u \in Updates, Retry(u)
    PROVE  /\ attempt' = [attempt EXCEPT ![u] = @ + 1]
           /\ seen' = [seen EXCEPT ![u] = Absent]
           /\ seenVer' = [seenVer EXCEPT ![u] = 0]
           /\ UNCHANGED <<phase, handler, by>>
           /\ \/ /\ pc' = [pc EXCEPT ![u] = "get"]
                 /\ UNCHANGED collector
              \/ /\ pc' = [pc EXCEPT ![u] = "done"]
                 /\ attempt'[u] > Attempts(u)
                 /\ collector' = [r \in Runs |->
                                    IF u \in Reports /\ by[u] = r
                                    THEN "outer" ELSE collector[r]]
<1>1. attempt[u] \in Nat /\ Attempts(u) \in Nat
  BY BoundsAssumption DEF TypeOK, Attempts
<1> QED BY <1>1 DEF Retry, Forget, Finish, control, TypeOK

----------------------------------------------------------------------------
(* Types.                                                                  *)

LEMMA AbsentType == Absent \in CascadeRun /\ Created \in CascadeRun
BY DEF Absent, Created, CascadeRun

LEMMA TypeInit == Init => TypeOK
<1> SUFFICES ASSUME Init PROVE TypeOK
  OBVIOUS
<1>1. 0 \in 0 .. MaxFaults
  BY BoundsAssumption
<1> QED BY <1>1, AbsentType DEF Init, TypeOK

LEMMA WriteType ==
    ASSUME TypeOK, NEW u \in Updates, Write(u)
    PROVE  /\ cascadeRun' \in [Names -> CascadeRun]
           /\ version' \in [Names -> Nat]
           /\ landed' \subseteq Updates \X Nat
<1>1. Changed(u, seen[u]) \in CascadeRun /\ Target(u) \in Names
  BY ChangedType, Targets DEF TypeOK
<1>2. attempt[u] \in Nat
  BY DEF TypeOK
<1> QED BY <1>1, <1>2 DEF Write, TypeOK

LEMMA TypeStep == TypeOK /\ [Next]_vars => TypeOK'
<1> SUFFICES ASSUME TypeOK, [Next]_vars PROVE TypeOK'
  OBVIOUS
<1> USE DEF TypeOK, Active
<1>1. ASSUME NEW r \in Runs, Begin(r) PROVE TypeOK'
  BY <1>1, AbsentType, Targets DEF Begin, updates, notes
<1>2. ASSUME NEW r \in Runs, Decide(r) PROVE TypeOK'
  BY <1>2, Targets DEF Decide, Start, object, notes
<1>3. ASSUME NEW r \in Runs, Exit(r) PROVE TypeOK'
  BY <1>3 DEF Exit, updates, object, notes
<1>4. ASSUME NEW p \in Reports, GetStatusFromModules(p) PROVE TypeOK'
  BY <1>4 DEF GetStatusFromModules, updates, object, notes
<1>5. ASSUME NEW r \in Runs, Collect(r) PROVE TypeOK'
  <2>1. CASE HearStop(r) \/ PassStop(r) \/ NoReport(r)
    BY <2>1 DEF HearStop, PassStop, NoReport, updates, object, notes
  <2>2. ASSUME NEW p \in Reports, Take(r, p) PROVE TypeOK'
    <3>1. IsFiniteSet({q \in Reports : by[q] # None})
      BY FS_Subset, SetsAssumption
    <3>2. Cardinality({q \in Reports : by[q] # None}) \in Nat
      BY <3>1, FS_CardinalityType
    <3> HIDE DEF TypeOK
    <3>3. 1 + Cardinality({q \in Reports : by[q] # None}) \in Nat
      BY <3>2
    <3> USE DEF TypeOK
    <3>4. ticket' \in [Reports -> Nat]
      BY <2>2, <3>3 DEF Take, Receive
    <3>5. overtime' \in [Runs -> Nat]
      BY <2>2 DEF Take, Receive
    <3> QED BY <2>2, <3>4, <3>5, Targets DEF Take, Receive, Start, object
  <2> QED BY <1>5, <2>1, <2>2 DEF Collect
<1>6. ASSUME NEW u \in Updates, Update(u) PROVE TypeOK'
  <2>1. CASE Get(u)
    BY <2>1, Targets DEF Get, control, object, notes
  <2>2. CASE UpdateStatus(u)
    <3>1. Write(u) /\ UNCHANGED <<phase, handler, by, attempt, unheard, notes, faults>>
      BY <2>2 DEF UpdateStatus, Finish
    <3> QED BY <2>2, <3>1, WriteType, AbsentType
            DEF UpdateStatus, Forget, Finish, Write, notes
  <2>3. CASE CallFails(u)
    <3>1. Retry(u) /\ UNCHANGED <<object, notes>> /\ faults' \in 0 .. MaxFaults
      BY <2>3, BoundsAssumption DEF CallFails, Fault
    <3> QED BY <3>1, RetryEffect, AbsentType DEF object, notes
  <2>4. CASE ReplyLost(u)
    <3>1. Retry(u) /\ Write(u) /\ UNCHANGED notes /\ faults' \in 0 .. MaxFaults
          /\ unheard' = unheard \cup {<<u, attempt[u]>>}
      BY <2>4, BoundsAssumption DEF ReplyLost, Fault
    <3>2. unheard' \subseteq landed'
      BY <3>1 DEF Write
    <3> QED BY <3>1, <3>2, WriteType, RetryEffect, AbsentType DEF notes
  <2> QED BY <1>6, <2>1, <2>2, <2>3, <2>4 DEF Update
<1>7. ASSUME NEW n \in Names, DeleteCascadeRun(n) PROVE TypeOK'
  BY <1>7, AbsentType, BoundsAssumption
     DEF DeleteCascadeRun, Fault, control, updates, notes
<1>8. CASE Crash
  BY <1>8, AbsentType, BoundsAssumption DEF Crash, Fault, object, notes
<1>9. CASE UNCHANGED vars
  BY <1>9 DEF vars, control, updates, object, notes
<1> QED BY <1>1, <1>2, <1>3, <1>4, <1>5, <1>6, <1>7, <1>8, <1>9 DEF Next, ModulePosts

(* Every variable keeps its type: attempts and versions stay numbers, a    *)
(* result holds reports only, whatever is retried, lost or deleted.        *)
THEOREM ReportsTyped == Spec => []TypeOK
BY TypeInit, TypeStep, PTL DEF Spec

----------------------------------------------------------------------------
(* The parts of the invariant, one after the other.                        *)

Attempt(u) == UpdateStatus(u) \/ CallFails(u) \/ ReplyLost(u)

LEMMA AttemptEffect ==
    ASSUME TypeOK, NEW u \in Updates, Attempt(u)
    PROVE  /\ Trying(u)
           /\ UNCHANGED <<phase, handler, by, ticket, overtime>>
           /\ \/ pc' = [pc EXCEPT ![u] = "get"] /\ UNCHANGED collector
              \/ /\ pc' = [pc EXCEPT ![u] = "done"]
                 /\ collector' = [r \in Runs |->
                                    IF u \in Reports /\ by[u] = r
                                    THEN "outer" ELSE collector[r]]
<1>1. CASE UpdateStatus(u)
  BY <1>1 DEF UpdateStatus, Finish, Trying, notes
<1>2. CASE CallFails(u)
  BY <1>2, RetryEffect DEF CallFails, Trying, notes
<1>3. CASE ReplyLost(u)
  BY <1>3, RetryEffect DEF ReplyLost, Trying, notes
<1> QED BY <1>1, <1>2, <1>3 DEF Attempt

LEMMA ReportsInit == Init => ReportsInv
<1> SUFFICES ASSUME Init PROVE ReportsInv
  OBVIOUS
<1>1. TypeOK
  BY TypeInit
<1>2. FreshCopies /\ StartedOnce /\ OneAtATime /\ StopHeard
  BY SetsAssumption, Targets
     DEF Init, FreshCopies, StartedOnce, OneAtATime, StopHeard, Trying, Updates
<1>3. HeardIsLast /\ RecordedOnce /\ NoneDropped /\ LittleOvertime
  BY DEF Init, HeardIsLast, RecordedOnce, NoneDropped, LittleOvertime
<1>4. Tickets
  <2>1. IsFiniteSet(TakenSet) /\ Cardinality(TakenSet) \in Nat
    BY FS_Subset, FS_CardinalityType, SetsAssumption DEF TakenSet
  <2>2. Cardinality(TakenSet) >= 0
    BY <2>1
  <2>3. \A p \in Reports : ticket[p] <= Cardinality(TakenSet)
    BY <2>2 DEF Init
  <2>4. \A p \in Reports : ~Trying(p)
    BY Targets DEF Init, Trying
  <2>5. \A n \in Names : cascadeRun[n].result = <<>>
    BY DEF Init, Absent
  <2> QED BY <2>3, <2>4, <2>5 DEF Tickets
<1>5. InOrder
  BY DEF Init, InOrder, Absent
<1> QED BY <1>1, <1>2, <1>3, <1>4, <1>5 DEF ReportsInv

LEMMA StartedOnceStep ==
    TypeOK /\ StartedOnce /\ [Next]_vars => StartedOnce'
<1> SUFFICES ASSUME TypeOK, StartedOnce, [Next]_vars PROVE StartedOnce'
  OBVIOUS
<1> USE DEF StartedOnce
<1>1. ASSUME NEW r \in Runs, Begin(r) \/ Exit(r) PROVE StartedOnce'
  BY <1>1 DEF Begin, Exit, TypeOK, updates
<1>2. ASSUME NEW r \in Runs, Decide(r) PROVE StartedOnce'
  <2>1. r \in Updates /\ r \notin Reports
    BY Targets
  <2> QED BY <1>2, <2>1 DEF Decide, Start, TypeOK
<1>3. ASSUME NEW p \in Reports, GetStatusFromModules(p) PROVE StartedOnce'
  BY <1>3 DEF GetStatusFromModules, TypeOK, updates
<1>4. ASSUME NEW r \in Runs, Collect(r) PROVE StartedOnce'
  <2>1. CASE HearStop(r) \/ PassStop(r) \/ NoReport(r)
    BY <2>1 DEF HearStop, PassStop, NoReport, TypeOK, updates
  <2>2. ASSUME NEW p \in Reports, Take(r, p) PROVE StartedOnce'
    <3>1. p \in Updates /\ r # None /\ \A x \in Runs : x \notin Reports
      BY Targets, SetsAssumption
    <3> QED BY <2>2, <3>1 DEF Take, Receive, Start, TypeOK
  <2> QED BY <1>4, <2>1, <2>2 DEF Collect
<1>5. ASSUME NEW u \in Updates, Update(u) PROVE StartedOnce'
  <2>1. CASE Get(u)
    BY <2>1 DEF Get, TypeOK, control
  <2>2. CASE Attempt(u)
    BY <2>2, AttemptEffect, Targets DEF Trying, TypeOK
  <2> QED BY <1>5, <2>1, <2>2 DEF Update, Attempt
<1>6. ASSUME NEW n \in Names, DeleteCascadeRun(n) PROVE StartedOnce'
  BY <1>6 DEF DeleteCascadeRun, control, updates
<1>7. CASE Crash
  BY <1>7, Targets DEF Crash, Waiting, TypeOK, Active
<1>8. CASE UNCHANGED vars
  BY <1>8 DEF vars, control, updates
<1> QED BY <1>1, <1>2, <1>3, <1>4, <1>5, <1>6, <1>7, <1>8 DEF Next, ModulePosts

LEMMA OneAtATimeStep ==
    TypeOK /\ StartedOnce /\ OneAtATime /\ [Next]_vars => OneAtATime'
<1> SUFFICES ASSUME TypeOK, StartedOnce, OneAtATime, [Next]_vars
             PROVE  OneAtATime'
  OBVIOUS
<1> USE DEF OneAtATime, Trying
<1>1. ASSUME NEW r \in Runs, Begin(r) \/ Decide(r) \/ Exit(r)
      PROVE  OneAtATime'
  <2>1. /\ r \in Updates /\ r \notin Reports
        /\ \A p \in Reports : p \in Updates
    BY Targets
  <2>2. CASE Begin(r)
    <3>1. collector[r] # "busy"
      BY <2>2 DEF Begin
    <3> QED BY <2>2, <3>1 DEF Begin, TypeOK, updates
  <2>3. CASE Decide(r)
    <3>1. \A p \in Reports : pc'[p] = pc[p]
      BY <2>1, <2>3 DEF Decide, Start, TypeOK
    <3> QED BY <2>3, <3>1 DEF Decide, TypeOK
  <2>4. CASE Exit(r)
    BY <2>4 DEF Exit, TypeOK, updates
  <2> QED BY <1>1, <2>2, <2>3, <2>4
<1>2. ASSUME NEW p \in Reports, GetStatusFromModules(p) PROVE OneAtATime'
  BY <1>2 DEF GetStatusFromModules, updates
<1>3. ASSUME NEW r \in Runs, Collect(r) PROVE OneAtATime'
  <2>1. CASE HearStop(r) \/ PassStop(r) \/ NoReport(r)
    BY <2>1 DEF HearStop, PassStop, NoReport, TypeOK, updates
  <2>2. ASSUME NEW p \in Reports, Take(r, p) PROVE OneAtATime'
    <3>1. p \in Updates
      BY Targets
    <3>2. \A q \in Reports : Trying(q) => by[q] # r
      BY <2>2 DEF Take, Receive
    <3> QED BY <2>2, <3>1, <3>2 DEF Take, Receive, Start, TypeOK
  <2> QED BY <1>3, <2>1, <2>2 DEF Collect
<1>4. ASSUME NEW u \in Updates, Update(u) PROVE OneAtATime'
  <2>1. CASE Get(u)
    BY <2>1 DEF Get, TypeOK, control
  <2>2. CASE Attempt(u)
    BY <2>2, AttemptEffect, Targets DEF TypeOK
  <2> QED BY <1>4, <2>1, <2>2 DEF Update, Attempt
<1>5. ASSUME NEW n \in Names, DeleteCascadeRun(n) PROVE OneAtATime'
  BY <1>5 DEF DeleteCascadeRun, control, updates
<1>6. CASE Crash
  BY <1>6, Targets DEF Crash, TypeOK
<1>7. CASE UNCHANGED vars
  BY <1>7 DEF vars, control, updates
<1> QED BY <1>1, <1>2, <1>3, <1>4, <1>5, <1>6, <1>7 DEF Next, ModulePosts

(* What is over stays over.                                                *)
LEMMA DoneStays ==
    ASSUME TypeOK, StartedOnce, [Next]_vars, NEW w \in Updates, pc[w] = "done"
    PROVE  pc'[w] = "done" /\ attempt'[w] = attempt[w]
<1>1. ASSUME NEW r \in Runs, Begin(r) \/ Exit(r)
      PROVE  UNCHANGED <<pc, attempt>>
  BY <1>1 DEF Begin, Exit, updates
<1>2. ASSUME NEW r \in Runs, Decide(r)
      PROVE  pc'[w] = "done" /\ attempt'[w] = attempt[w]
  BY <1>2 DEF Decide, Start, TypeOK, StartedOnce
<1>3. ASSUME NEW p \in Reports, GetStatusFromModules(p)
      PROVE  UNCHANGED <<pc, attempt>>
  BY <1>3 DEF GetStatusFromModules, updates
<1>4. ASSUME NEW r \in Runs, Collect(r)
      PROVE  pc'[w] = "done" /\ attempt'[w] = attempt[w]
  <2>1. CASE HearStop(r) \/ PassStop(r) \/ NoReport(r)
    BY <2>1 DEF HearStop, PassStop, NoReport, updates
  <2>2. ASSUME NEW p \in Reports, Take(r, p)
        PROVE  pc'[w] = "done" /\ attempt'[w] = attempt[w]
    BY <2>2 DEF Take, Receive, Waiting, Start, TypeOK, StartedOnce
  <2> QED BY <1>4, <2>1, <2>2 DEF Collect
<1>5. ASSUME NEW u \in Updates, Update(u)
      PROVE  pc'[w] = "done" /\ attempt'[w] = attempt[w]
  <2>1. u # w
    BY <1>5 DEF Update, Get, UpdateStatus, CallFails, ReplyLost
  <2>2. CASE Get(u)
    BY <2>1, <2>2 DEF Get, TypeOK
  <2>3. CASE UpdateStatus(u)
    BY <2>1, <2>3 DEF UpdateStatus, Finish, TypeOK
  <2>4. CASE CallFails(u) \/ ReplyLost(u)
    BY <2>1, <2>4, RetryEffect DEF CallFails, ReplyLost, TypeOK
  <2> QED BY <1>5, <2>2, <2>3, <2>4 DEF Update
<1>6. ASSUME NEW n \in Names, DeleteCascadeRun(n)
      PROVE  UNCHANGED <<pc, attempt>>
  BY <1>6 DEF DeleteCascadeRun, updates
<1>7. CASE Crash
  BY <1>7 DEF Crash
<1>8. CASE UNCHANGED vars
  BY <1>8 DEF vars, updates
<1> QED BY <1>1, <1>2, <1>3, <1>4, <1>5, <1>6, <1>7, <1>8 DEF Next, ModulePosts

(* Only the attempts of an update change the history of the writes.        *)
LEMMA LandedEffect ==
    ASSUME [Next]_vars
    PROVE  \/ UNCHANGED <<landed, unheard>>
           \/ \E u \in Updates : UpdateStatus(u) \/ ReplyLost(u)
<1>1. ASSUME NEW r \in Runs, Begin(r) \/ Decide(r) \/ Exit(r) \/ Collect(r)
      PROVE  UNCHANGED <<landed, unheard>>
  BY <1>1 DEF Begin, Decide, Exit, Collect, HearStop, PassStop, NoReport,
              Take, Receive, object
<1>2. ASSUME NEW p \in Reports, GetStatusFromModules(p)
      PROVE  UNCHANGED <<landed, unheard>>
  BY <1>2 DEF GetStatusFromModules, object
<1>3. ASSUME NEW u \in Updates, Get(u) \/ CallFails(u)
      PROVE  UNCHANGED <<landed, unheard>>
  BY <1>3 DEF Get, CallFails, object
<1>4. ASSUME NEW n \in Names, DeleteCascadeRun(n)
      PROVE  UNCHANGED <<landed, unheard>>
  BY <1>4 DEF DeleteCascadeRun
<1>5. CASE Crash \/ UNCHANGED vars
  BY <1>5 DEF Crash, vars, object
<1> QED BY <1>1, <1>2, <1>3, <1>4, <1>5 DEF Next, ModulePosts, Update

LEMMA RecordedOnceStep ==
    /\ TypeOK /\ StartedOnce /\ HeardIsLast /\ RecordedOnce /\ [Next]_vars
    => HeardIsLast' /\ RecordedOnce'
<1> SUFFICES ASSUME TypeOK, StartedOnce, HeardIsLast, RecordedOnce, [Next]_vars
             PROVE  HeardIsLast' /\ RecordedOnce'
  OBVIOUS
<1>1. \A l \in landed \ unheard : l[1] \in Updates /\ pc'[l[1]] = "done"
  BY DoneStays DEF HeardIsLast, TypeOK
<1>2. CASE UNCHANGED <<landed, unheard>>
  BY <1>1, <1>2 DEF HeardIsLast, RecordedOnce
<1>3. ASSUME NEW u \in Updates, UpdateStatus(u)
      PROVE  HeardIsLast' /\ RecordedOnce'
  <2>1. /\ landed' = landed \cup {<<u, attempt[u]>>} /\ unheard' = unheard
        /\ pc[u] = "update" /\ pc'[u] = "done"
    BY <1>3 DEF UpdateStatus, Write, Finish, TypeOK
  <2>2. \A l \in landed \ unheard : l[1] # u
    BY <2>1 DEF HeardIsLast
  <2> QED BY <1>1, <2>1, <2>2 DEF HeardIsLast, RecordedOnce
<1>4. ASSUME NEW u \in Updates, ReplyLost(u)
      PROVE  HeardIsLast' /\ RecordedOnce'
  <2>1. landed' \ unheard' \subseteq landed \ unheard
    BY <1>4 DEF ReplyLost, Write
  <2> QED BY <1>1, <2>1 DEF HeardIsLast, RecordedOnce
<1> QED BY <1>2, <1>3, <1>4, LandedEffect

LEMMA NoneDroppedStep ==
    TypeOK /\ StartedOnce /\ NoneDropped /\ [Next]_vars => NoneDropped'
<1> SUFFICES ASSUME TypeOK, StartedOnce, NoneDropped, [Next]_vars,
                    NEW w \in Updates, pc'[w] = "done"
             PROVE  (\E l \in landed' : l[1] = w) \/ attempt'[w] > Attempts(w)
  BY DEF NoneDropped, Attempts
<1>1. landed \subseteq landed'
  BY LandedEffect DEF UpdateStatus, ReplyLost, Write
<1>2. CASE pc[w] = "done"
  BY <1>1, <1>2, DoneStays DEF NoneDropped
<1>3. CASE pc[w] # "done"
  <2>1. ASSUME NEW r \in Runs, Begin(r) \/ Decide(r) \/ Exit(r) \/ Collect(r)
        PROVE  FALSE
    <3>1. CASE Begin(r) \/ Exit(r)
      BY <1>3, <3>1 DEF Begin, Exit, updates
    <3>2. CASE HearStop(r) \/ PassStop(r) \/ NoReport(r)
      BY <1>3, <3>2 DEF HearStop, PassStop, NoReport, updates
    <3>3. CASE Decide(r)
      BY <1>3, <3>3 DEF Decide, Start, TypeOK
    <3>4. ASSUME NEW p \in Reports, Take(r, p) PROVE FALSE
      BY <1>3, <3>4 DEF Take, Receive, Start, TypeOK
    <3> QED BY <2>1, <3>1, <3>2, <3>3, <3>4 DEF Collect
  <2>2. ASSUME NEW p \in Reports, GetStatusFromModules(p) PROVE FALSE
    BY <1>3, <2>2 DEF GetStatusFromModules, updates
  <2>3. ASSUME NEW n \in Names, DeleteCascadeRun(n) PROVE FALSE
    BY <1>3, <2>3 DEF DeleteCascadeRun, updates
  <2>4. CASE Crash \/ UNCHANGED vars
    BY <1>3, <2>4 DEF Crash, vars, updates, TypeOK
  <2>5. ASSUME NEW u \in Updates, Get(u) PROVE FALSE
    BY <1>3, <2>5 DEF Get, TypeOK
  <2>6. ASSUME NEW u \in Updates, UpdateStatus(u)
        PROVE  \E l \in landed' : l[1] = w
    <3>1. u = w
      BY <1>3, <2>6 DEF UpdateStatus, Finish, TypeOK
    <3>2. <<w, attempt[w]>> \in landed'
      BY <2>6, <3>1 DEF UpdateStatus, Write
    <3> QED BY <3>2
  <2>7. ASSUME NEW u \in Updates, CallFails(u) \/ ReplyLost(u)
        PROVE  attempt'[w] > Attempts(w)
    <3>1. Retry(u)
      BY <2>7 DEF CallFails, ReplyLost
    <3> QED BY <1>3, <3>1, RetryEffect DEF TypeOK
  <2> QED BY <2>1, <2>2, <2>3, <2>4, <2>5, <2>6, <2>7 DEF Next, ModulePosts, Update
<1> QED BY <1>2, <1>3

LEMMA StopHeardStep ==
    /\ TypeOK /\ StartedOnce /\ OneAtATime /\ StopHeard /\ [Next]_vars
    => StopHeard'
<1> SUFFICES ASSUME TypeOK, StartedOnce, OneAtATime, StopHeard, [Next]_vars
             PROVE  StopHeard'
  OBVIOUS
<1> USE DEF StopHeard
<1>1. ASSUME NEW r \in Runs, Begin(r) \/ Exit(r) PROVE StopHeard'
  BY <1>1 DEF Begin, Exit, TypeOK, updates
<1>2. ASSUME NEW r \in Runs, Decide(r) PROVE StopHeard'
  <2>1. r \in Updates /\ \A p \in Reports : p \in Updates /\ p # r
    BY Targets
  <2>2. \A u \in Updates : u # r => pc'[u] = pc[u]
    BY <1>2 DEF Decide, Start, TypeOK
  <2>3. \A x \in Runs : x \in Updates
    BY Targets
  <2> QED BY <1>2, <2>1, <2>2, <2>3 DEF Decide, TypeOK
<1>3. ASSUME NEW p \in Reports, GetStatusFromModules(p) PROVE StopHeard'
  BY <1>3 DEF GetStatusFromModules, updates
<1>4. ASSUME NEW r \in Runs, HearStop(r) PROVE StopHeard'
  <2>1. \A p \in Reports : by[p] = r => pc[p] = "done"
    <3> SUFFICES ASSUME NEW p \in Reports, by[p] = r PROVE pc[p] = "done"
      OBVIOUS
    <3>1. pc[p] # "none" /\ r # None
      BY SetsAssumption DEF StartedOnce
    <3>2. ~Trying(p)
      BY <1>4 DEF HearStop, OneAtATime
    <3>3. pc[p] # "lost"
      BY <1>4 DEF HearStop
    <3> QED BY <3>1, <3>2, <3>3, Targets DEF Trying, TypeOK
  <2> QED BY <1>4, <2>1 DEF HearStop, updates, TypeOK
<1>5. ASSUME NEW r \in Runs, PassStop(r) \/ NoReport(r) PROVE StopHeard'
  BY <1>5 DEF PassStop, NoReport, updates
<1>6. ASSUME NEW r \in Runs, NEW p \in Reports, Take(r, p) PROVE StopHeard'
  <2>1. p \in Updates /\ \A x \in Runs : x \in Updates /\ x # p
    BY Targets, SetsAssumption
  <2>2. phase[r] \in {"running", "stopping"}
    BY <1>6 DEF Take, Receive, OneAtATime
  <2>3. \A u \in Updates : u # p => pc'[u] = pc[u]
    BY <1>6 DEF Take, Receive, Start, TypeOK
  <2>4. pc'[p] = "get" /\ by'[p] = r /\ UNCHANGED phase
    BY <1>6, <2>1 DEF Take, Receive, Start, TypeOK
  <2>5. \A q \in Reports : q # p => by'[q] = by[q] /\ q \in Updates
    BY <1>6, Targets DEF Take, Receive, TypeOK
  <2> QED BY <2>1, <2>2, <2>3, <2>4, <2>5
<1>7. ASSUME NEW u \in Updates, Update(u) PROVE StopHeard'
  <2>1. UNCHANGED <<phase, by>> /\ Trying(u)
        /\ \A w \in Updates : pc'[w] # pc[w] => w = u /\ pc'[u] # "lost"
    <3>1. CASE Get(u)
      BY <3>1 DEF Get, control, Trying, TypeOK
    <3>2. CASE Attempt(u)
      BY <3>2, AttemptEffect DEF TypeOK
    <3> QED BY <1>7, <3>1, <3>2 DEF Update, Attempt
  <2>2. \A w \in Updates : pc[w] = "done" => pc'[w] = "done"
    BY <2>1 DEF Trying
  <2> QED BY <2>1, <2>2, Targets
<1>8. ASSUME NEW n \in Names, DeleteCascadeRun(n) PROVE StopHeard'
  BY <1>8 DEF DeleteCascadeRun, control, updates
<1>9. CASE Crash
  <2>1. \A p \in Reports, r \in Runs :
            by[p] = r /\ Trying(p) => phase[r] \in {"running", "stopping"}
    BY DEF OneAtATime
  <2> QED BY <1>9, <2>1, Targets DEF Crash, Trying, TypeOK, Active
<1>10. CASE UNCHANGED vars
  BY <1>10 DEF vars, control, updates
<1> QED BY <1>1, <1>2, <1>3, <1>4, <1>5, <1>6, <1>7, <1>8, <1>9, <1>10
        DEF Next, ModulePosts, Collect

LEMMA LittleOvertimeStep ==
    TypeOK /\ OneAtATime /\ LittleOvertime /\ [Next]_vars => LittleOvertime'
<1> SUFFICES ASSUME TypeOK, OneAtATime, LittleOvertime, [Next]_vars
             PROVE  LittleOvertime'
  OBVIOUS
<1> USE DEF LittleOvertime
<1>1. ASSUME NEW r \in Runs, Begin(r) \/ Decide(r) \/ Exit(r)
      PROVE  LittleOvertime'
  BY <1>1 DEF Begin, Decide, Exit, TypeOK, notes
<1>2. ASSUME NEW p \in Reports, GetStatusFromModules(p) PROVE LittleOvertime'
  BY <1>2 DEF GetStatusFromModules, notes
<1>3. ASSUME NEW r \in Runs, Collect(r) PROVE LittleOvertime'
  <2>1. CASE HearStop(r) \/ NoReport(r)
    BY <2>1 DEF HearStop, NoReport, TypeOK, notes
  <2>2. CASE PassStop(r)
    <3>1. phase[r] = "running"
      BY <2>2 DEF PassStop, OneAtATime
    <3> QED BY <2>2, <3>1 DEF PassStop, TypeOK, notes
  <2>3. ASSUME NEW p \in Reports, Take(r, p) PROVE LittleOvertime'
    BY <2>3 DEF Take, Receive, TypeOK
  <2> QED BY <1>3, <2>1, <2>2, <2>3 DEF Collect
<1>4. ASSUME NEW u \in Updates, Update(u) PROVE LittleOvertime'
  <2>1. CASE Get(u)
    BY <2>1 DEF Get, control, notes
  <2>2. CASE Attempt(u)
    BY <2>2, AttemptEffect DEF TypeOK
  <2> QED BY <1>4, <2>1, <2>2 DEF Update, Attempt
<1>5. ASSUME NEW n \in Names, DeleteCascadeRun(n) PROVE LittleOvertime'
  BY <1>5 DEF DeleteCascadeRun, control, notes
<1>6. CASE Crash
  BY <1>6 DEF Crash, notes, TypeOK
<1>7. CASE UNCHANGED vars
  BY <1>7 DEF vars, control, notes
<1> QED BY <1>1, <1>2, <1>3, <1>4, <1>5, <1>6, <1>7 DEF Next, ModulePosts

----------------------------------------------------------------------------
(* Writes.  One that takes effect changes the object as it is.             *)
LEMMA WriteEffect ==
    ASSUME TypeOK, FreshCopies, NEW u \in Updates, pc[u] = "update", Write(u)
    PROVE  /\ cascadeRun[Target(u)].exists
           /\ cascadeRun' = [cascadeRun EXCEPT ![Target(u)] = Changed(u, @)]
           /\ version' = [version EXCEPT ![Target(u)] = @ + 1]
BY Targets DEF Write, FreshCopies, TypeOK

(* Versions only grow, and with them every change of an object.            *)
LEMMA VersionsGrow ==
    ASSUME TypeOK, [Next]_vars, NEW n \in Names
    PROVE  /\ version[n] <= version'[n]
           /\ version'[n] = version[n] => cascadeRun'[n] = cascadeRun[n]
<1> version[n] \in Nat
  BY DEF TypeOK
<1>1. ASSUME NEW r \in Runs, Begin(r)
      PROVE  /\ version[n] <= version'[n]
             /\ version'[n] = version[n] => cascadeRun'[n] = cascadeRun[n]
  BY <1>1 DEF Begin, TypeOK
<1>2. ASSUME NEW r \in Runs, Decide(r) \/ Exit(r) \/ Collect(r)
      PROVE  UNCHANGED <<version, cascadeRun>>
  BY <1>2 DEF Decide, Exit, Collect, HearStop, PassStop, NoReport, Take,
              Receive, object
<1>3. ASSUME NEW p \in Reports, GetStatusFromModules(p)
      PROVE  UNCHANGED <<version, cascadeRun>>
  BY <1>3 DEF GetStatusFromModules, object
<1>4. ASSUME NEW u \in Updates, Get(u) \/ CallFails(u)
      PROVE  UNCHANGED <<version, cascadeRun>>
  BY <1>4 DEF Get, CallFails, object
<1>5. ASSUME NEW u \in Updates, UpdateStatus(u) \/ ReplyLost(u)
      PROVE  /\ version[n] <= version'[n]
             /\ version'[n] = version[n] => cascadeRun'[n] = cascadeRun[n]
  BY <1>5 DEF UpdateStatus, ReplyLost, Write, TypeOK
<1>6. ASSUME NEW m \in Names, DeleteCascadeRun(m)
      PROVE  /\ version[n] <= version'[n]
             /\ version'[n] = version[n] => cascadeRun'[n] = cascadeRun[n]
  BY <1>6 DEF DeleteCascadeRun, TypeOK
<1>7. CASE Crash \/ UNCHANGED vars
  BY <1>7 DEF Crash, vars, object
<1> QED BY <1>1, <1>2, <1>3, <1>4, <1>5, <1>6, <1>7 DEF Next, ModulePosts, Update

LEMMA FreshCopiesStep ==
    TypeOK /\ FreshCopies /\ [Next]_vars => FreshCopies'
<1> SUFFICES ASSUME TypeOK, FreshCopies, [Next]_vars,
                    NEW w \in Updates, pc'[w] = "update"
             PROVE  /\ seenVer'[w] <= version'[Target(w)]
                    /\ seen'[w].exists
                    /\ seenVer'[w] = version'[Target(w)] =>
                          seen'[w] = cascadeRun'[Target(w)]
  BY DEF FreshCopies, Target
<1>1. /\ Target(w) \in Names
      /\ version[Target(w)] \in Nat /\ version'[Target(w)] \in Nat
      /\ seenVer[w] \in Nat
  BY Targets, TypeStep DEF TypeOK
<1>2. /\ version[Target(w)] <= version'[Target(w)]
      /\ version'[Target(w)] = version[Target(w)] =>
            cascadeRun'[Target(w)] = cascadeRun[Target(w)]
  BY <1>1, VersionsGrow
<1>3. CASE pc[w] = "update" /\ seen'[w] = seen[w] /\ seenVer'[w] = seenVer[w]
  BY <1>1, <1>2, <1>3 DEF FreshCopies
<1>4. ASSUME NEW r \in Runs, Begin(r) \/ Decide(r) \/ Exit(r)
      PROVE  pc[w] = "update" /\ UNCHANGED <<seen, seenVer>>
  BY <1>4 DEF Begin, Decide, Exit, Start, updates, TypeOK
<1>5. ASSUME NEW r \in Runs, Collect(r)
      PROVE  pc[w] = "update" /\ UNCHANGED <<seen, seenVer>>
  <2>1. CASE HearStop(r) \/ PassStop(r) \/ NoReport(r)
    BY <2>1 DEF HearStop, PassStop, NoReport, updates
  <2>2. ASSUME NEW p \in Reports, Take(r, p)
        PROVE  pc[w] = "update" /\ UNCHANGED <<seen, seenVer>>
    BY <2>2 DEF Take, Receive, Start, TypeOK
  <2> QED BY <1>5, <2>1, <2>2 DEF Collect
<1>6. ASSUME NEW p \in Reports, GetStatusFromModules(p)
      PROVE  pc[w] = "update" /\ UNCHANGED <<seen, seenVer>>
  BY <1>6 DEF GetStatusFromModules, updates
<1>7. ASSUME NEW u \in Updates, Get(u)
      PROVE  \/ pc[w] = "update" /\ seen'[w] = seen[w]
                                 /\ seenVer'[w] = seenVer[w]
             \/ /\ cascadeRun[Target(w)].exists
                /\ seen'[w] = cascadeRun'[Target(w)]
                /\ seenVer'[w] = version'[Target(w)]
  BY <1>7 DEF Get, TypeOK, object
<1>8. ASSUME NEW u \in Updates, UpdateStatus(u)
      PROVE  pc[w] = "update" /\ seen'[w] = seen[w] /\ seenVer'[w] = seenVer[w]
  BY <1>8 DEF UpdateStatus, Finish, Forget, TypeOK
<1>9. ASSUME NEW u \in Updates, CallFails(u) \/ ReplyLost(u)
      PROVE  pc[w] = "update" /\ seen'[w] = seen[w] /\ seenVer'[w] = seenVer[w]
  BY <1>9, RetryEffect DEF CallFails, ReplyLost, TypeOK
<1>10. ASSUME NEW n \in Names, DeleteCascadeRun(n)
       PROVE  pc[w] = "update" /\ UNCHANGED <<seen, seenVer>>
  BY <1>10 DEF DeleteCascadeRun, updates
<1>11. CASE Crash
  BY <1>11 DEF Crash, TypeOK
<1>12. CASE UNCHANGED vars
  BY <1>3, <1>12 DEF vars, updates
<1>13. ASSUME NEW u \in Updates, Get(u)
       PROVE  /\ seenVer'[w] <= version'[Target(w)]
              /\ seen'[w].exists
              /\ seenVer'[w] = version'[Target(w)] =>
                    seen'[w] = cascadeRun'[Target(w)]
  <2>1. UNCHANGED cascadeRun
    BY <1>13 DEF Get, object
  <2> QED BY <1>1, <1>3, <1>7, <1>13, <2>1
<1> QED BY <1>3, <1>4, <1>5, <1>6, <1>8, <1>9, <1>10, <1>11, <1>12, <1>13
        DEF Next, ModulePosts, Update

----------------------------------------------------------------------------
(* Order.                                                                  *)

(* How a step changes the results of an object.                            *)
LEMMA ResultEffect ==
    ASSUME TypeOK, FreshCopies, [Next]_vars, NEW n \in Names
    PROVE  \/ cascadeRun'[n].result = cascadeRun[n].result
           \/ cascadeRun'[n].result = <<>>
           \/ \E p \in Reports :
                 /\ Trying(p) /\ UNCHANGED <<by, ticket>>
                 /\ landed' = landed \cup {<<p, attempt[p]>>}
                 /\ cascadeRun'[n].result = Append(cascadeRun[n].result, p)
<1>1. ASSUME NEW r \in Runs, Begin(r)
      PROVE  \/ cascadeRun'[n].result = cascadeRun[n].result
             \/ cascadeRun'[n].result = <<>>
  BY <1>1 DEF Begin, Created, TypeOK
<1>2. ASSUME NEW r \in Runs, Decide(r) \/ Exit(r) \/ Collect(r)
      PROVE  UNCHANGED cascadeRun
  BY <1>2 DEF Decide, Exit, Collect, HearStop, PassStop, NoReport, Take,
              Receive, object
<1>3. ASSUME NEW p \in Reports, GetStatusFromModules(p)
      PROVE  UNCHANGED cascadeRun
  BY <1>3 DEF GetStatusFromModules, object
<1>4. ASSUME NEW u \in Updates, Get(u) \/ CallFails(u)
      PROVE  UNCHANGED cascadeRun
  BY <1>4 DEF Get, CallFails, object
<1>5. ASSUME NEW u \in Updates, UpdateStatus(u) \/ ReplyLost(u)
      PROVE  \/ cascadeRun'[n].result = cascadeRun[n].result
             \/ \E p \in Reports :
                   /\ Trying(p) /\ UNCHANGED <<by, ticket>>
                   /\ landed' = landed \cup {<<p, attempt[p]>>}
                   /\ cascadeRun'[n].result = Append(cascadeRun[n].result, p)
  <2>1. /\ Trying(u) /\ UNCHANGED <<by, ticket>>
        /\ landed' = landed \cup {<<u, attempt[u]>>}
    BY <1>5, AttemptEffect DEF Attempt, UpdateStatus, ReplyLost, Write
  <2>2. cascadeRun' = [cascadeRun EXCEPT ![Target(u)] = Changed(u, @)]
    BY <1>5, WriteEffect DEF UpdateStatus, ReplyLost
  <2>3. cascadeRun[n] \in CascadeRun /\ cascadeRun \in [Names -> CascadeRun]
    BY DEF TypeOK
  <2>4. CASE u \in Reports
    <3>1. Changed(u, cascadeRun[n]).result = Append(cascadeRun[n].result, u)
      BY <2>3, <2>4 DEF Changed, CascadeRun
    <3>2. cascadeRun'[n] \in {cascadeRun[n], Changed(u, cascadeRun[n])}
      BY <2>2, <2>3
    <3> QED BY <2>1, <2>4, <3>1, <3>2
  <2>5. CASE u \notin Reports
    <3>1. Changed(u, cascadeRun[n]).result = cascadeRun[n].result
      BY <2>3, <2>5 DEF Changed, CascadeRun
    <3>2. cascadeRun'[n] \in {cascadeRun[n], Changed(u, cascadeRun[n])}
      BY <2>2, <2>3
    <3> QED BY <3>1, <3>2
  <2> QED BY <2>4, <2>5
<1>6. ASSUME NEW m \in Names, DeleteCascadeRun(m)
      PROVE  \/ cascadeRun'[n].result = cascadeRun[n].result
             \/ cascadeRun'[n].result = <<>>
  BY <1>6 DEF DeleteCascadeRun, Absent, TypeOK
<1>7. CASE Crash \/ UNCHANGED vars
  BY <1>7 DEF Crash, vars, object
<1> QED BY <1>1, <1>2, <1>3, <1>4, <1>5, <1>6, <1>7 DEF Next, ModulePosts, Update

(* Either a report is taken, or who took which and when stays the same and *)
(* no report comes to be written.                                          *)
LEMMA TakeOrNot ==
    ASSUME TypeOK, [Next]_vars
    PROVE  \/ \E r \in Runs, p \in Reports : Take(r, p)
           \/ /\ UNCHANGED <<by, ticket>>
              /\ \A q \in Reports : Trying(q)' => Trying(q)
<1> USE DEF Trying
<1>1. ASSUME NEW r \in Runs, Begin(r) \/ Exit(r) \/ HearStop(r) \/ PassStop(r)
                              \/ NoReport(r)
      PROVE  UNCHANGED <<by, ticket, pc>>
  BY <1>1 DEF Begin, Exit, HearStop, PassStop, NoReport, updates, notes
<1>2. ASSUME NEW r \in Runs, Decide(r)
      PROVE  /\ UNCHANGED <<by, ticket>>
             /\ \A q \in Reports : Trying(q)' => Trying(q)
  <2>1. \A q \in Reports : q # r
    BY Targets
  <2> QED BY <1>2, <2>1, Targets DEF Decide, Start, notes, TypeOK
<1>3. ASSUME NEW p \in Reports, GetStatusFromModules(p)
      PROVE  UNCHANGED <<by, ticket, pc>>
  BY <1>3 DEF GetStatusFromModules, updates, notes
<1>4. ASSUME NEW u \in Updates, Update(u)
      PROVE  /\ UNCHANGED <<by, ticket>>
             /\ \A q \in Reports : Trying(q)' => Trying(q)
  <2>1. CASE Get(u)
    BY <2>1, Targets DEF Get, control, notes, TypeOK
  <2>2. CASE Attempt(u)
    BY <2>2, AttemptEffect, Targets DEF TypeOK
  <2> QED BY <1>4, <2>1, <2>2 DEF Update, Attempt
<1>5. ASSUME NEW n \in Names, DeleteCascadeRun(n)
      PROVE  UNCHANGED <<by, ticket, pc>>
  BY <1>5 DEF DeleteCascadeRun, control, updates, notes
<1>6. CASE Crash
  BY <1>6, Targets DEF Crash, notes, TypeOK
<1>7. CASE UNCHANGED vars
  BY <1>7 DEF vars, control, updates, notes
<1> QED BY <1>1, <1>2, <1>3, <1>4, <1>5, <1>6, <1>7 DEF Next, ModulePosts, Collect

(* Appending to a sequence keeps its elements and adds one.                *)
LEMMA AppendElements ==
    ASSUME NEW S, NEW s \in Seq(S), NEW e \in S
    PROVE  /\ DOMAIN Append(s, e) = 1 .. (Len(s) + 1)
           /\ DOMAIN s = 1 .. Len(s) /\ Len(s) \in Nat
           /\ \A i \in 1 .. Len(s) : Append(s, e)[i] = s[i]
           /\ Append(s, e)[Len(s) + 1] = e
OBVIOUS

LEMMA OrderStep ==
    /\ TypeOK /\ FreshCopies /\ StartedOnce /\ OneAtATime /\ Tickets /\ InOrder
    /\ [Next]_vars
    => Tickets' /\ InOrder'
<1> SUFFICES ASSUME TypeOK, FreshCopies, StartedOnce, OneAtATime, Tickets,
                    InOrder, [Next]_vars
             PROVE  Tickets' /\ InOrder'
  OBVIOUS
<1>1. /\ IsFiniteSet(TakenSet) /\ Cardinality(TakenSet) \in Nat
      /\ \A p \in Reports : ticket[p] \in Nat
      /\ \A n \in Names : cascadeRun[n].result \in Seq(Reports)
  BY FS_Subset, FS_CardinalityType, SetsAssumption
     DEF TakenSet, TypeOK, CascadeRun
<1>2. ASSUME NEW r \in Runs, NEW p \in Reports, Take(r, p)
      PROVE  Tickets' /\ InOrder'
  <2>1. /\ by' = [by EXCEPT ![p] = r] /\ UNCHANGED cascadeRun /\ r # None
        /\ ticket' = [ticket EXCEPT ![p] = 1 + Cardinality(TakenSet)]
        /\ by[p] = None
    BY <1>2, SetsAssumption
       DEF Take, Receive, Waiting, object, TakenSet, StartedOnce
  <2>2. TakenSet' = TakenSet \cup {p} /\ p \notin TakenSet
    BY <2>1 DEF TakenSet, TypeOK
  <2>3. Cardinality(TakenSet)' = Cardinality(TakenSet) + 1
    BY <1>1, <2>2, FS_AddElement
  <2>4. \A q \in Reports : Trying(q) => by[q] # r
    BY <1>2 DEF Take, Receive, OneAtATime
  <2>5. \A q \in Reports : q # p /\ Trying(q)' => Trying(q)
    BY <1>2 DEF Take, Receive, Start, Trying, TypeOK
  <2>6. /\ ticket'[p] = 1 + Cardinality(TakenSet) /\ by'[p] = r
        /\ \A q \in Reports : q # p => /\ ticket'[q] = ticket[q]
                                       /\ by'[q] = by[q]
    BY <2>1 DEF TypeOK
  <2>7. \A q \in Reports : ticket'[q] <= Cardinality(TakenSet)'
    BY <1>1, <2>3, <2>6 DEF Tickets
  <2>8. ASSUME NEW a \in Reports, NEW q \in Reports,
               Trying(a)', by'[q] = by'[a]
        PROVE  ticket'[q] <= ticket'[a]
    <3>1. CASE a = p
      BY <1>1, <2>3, <2>6, <2>7, <3>1
    <3>2. CASE a # p
      BY <2>4, <2>5, <2>6, <2>8, <3>2 DEF Tickets
    <3> QED BY <3>1, <3>2
  <2>9. ASSUME NEW n \in Names, NEW i \in DOMAIN cascadeRun'[n].result
        PROVE  /\ cascadeRun'[n].result[i] \in Reports \ {p}
               /\ by'[cascadeRun'[n].result[i]] # None
    BY <1>1, <2>1, <2>6, <2>9 DEF Tickets
  <2>10. Tickets'
    BY <2>7, <2>8, <2>9 DEF Tickets
  <2>11. InOrder'
    BY <2>1, <2>6, <2>9 DEF InOrder
  <2> QED BY <2>10, <2>11
<1>3. CASE /\ UNCHANGED <<by, ticket>>
           /\ \A q \in Reports : Trying(q)' => Trying(q)
  <2>1. /\ \A p \in Reports : ticket'[p] <= Cardinality(TakenSet)'
        /\ \A p, q \in Reports :
              Trying(p)' /\ by'[q] = by'[p] => ticket'[q] <= ticket'[p]
    BY <1>3 DEF Tickets, TakenSet
  <2>2. ASSUME NEW n \in Names
        PROVE  /\ \A i \in DOMAIN cascadeRun'[n].result :
                     by[cascadeRun'[n].result[i]] # None
               /\ \A i, j \in DOMAIN cascadeRun'[n].result :
                     LET p == cascadeRun'[n].result[i]
                         q == cascadeRun'[n].result[j]
                     IN  i < j /\ by[p] = by[q] => ticket[p] <= ticket[q]
    <3>1. CASE cascadeRun'[n].result \in {cascadeRun[n].result, <<>>}
      BY <3>1 DEF Tickets, InOrder
    <3>2. ASSUME NEW p \in Reports, Trying(p),
                 cascadeRun'[n].result = Append(cascadeRun[n].result, p)
          PROVE  <2>2!2
      <4> DEFINE s == cascadeRun[n].result
                 t == cascadeRun'[n].result
      <4>1. /\ s \in Seq(Reports)
            /\ DOMAIN t = 1 .. (Len(s) + 1) /\ DOMAIN s = 1 .. Len(s)
            /\ Len(s) \in Nat /\ t[Len(s) + 1] = p
            /\ \A i \in 1 .. Len(s) : t[i] = s[i] /\ s[i] \in Reports
        BY <1>1, <3>2, AppendElements
      <4>2. by[p] # None
        BY <3>2, SetsAssumption DEF OneAtATime
      <4>3. \A i \in 1 .. Len(s) : /\ by[s[i]] # None
                                   /\ by[s[i]] = by[p] => ticket[s[i]] <= ticket[p]
        BY <3>2, <4>1 DEF Tickets
      <4>4. \A i, j \in 1 .. Len(s) :
                i < j /\ by[s[i]] = by[s[j]] => ticket[s[i]] <= ticket[s[j]]
        BY <4>1 DEF InOrder
      <4> HIDE DEF s, t
      <4>5. \A i \in DOMAIN t : by[t[i]] # None
        BY <4>1, <4>2, <4>3
      <4>6. \A i, j \in DOMAIN t :
                i < j /\ by[t[i]] = by[t[j]] => ticket[t[i]] <= ticket[t[j]]
        BY <4>1, <4>3, <4>4
      <4> QED BY <4>5, <4>6 DEF t
    <3> QED BY <3>1, <3>2, ResultEffect
  <2> QED BY <1>3, <2>1, <2>2 DEF Tickets, InOrder
<1> QED BY <1>2, <1>3, TakeOrNot

----------------------------------------------------------------------------
(* The invariant as a whole, and what it says.                             *)
LEMMA ReportsStep == ReportsInv /\ [Next]_vars => ReportsInv'
BY TypeStep, FreshCopiesStep, StartedOnceStep, OneAtATimeStep,
   RecordedOnceStep, NoneDroppedStep, StopHeardStep, LittleOvertimeStep,
   OrderStep
   DEF ReportsInv

LEMMA ReportsInvariant == Spec => []ReportsInv
BY ReportsInit, ReportsStep, PTL DEF Spec

(* What was answered with 200 is written, or every attempt was spent.      *)
THEOREM ReportsNotDropped == Spec => []NoneDropped
<1>1. ReportsInv => NoneDropped
  BY DEF ReportsInv
<1> QED BY <1>1, ReportsInvariant, PTL

(* The results one collector recorded stand in the order it took them.     *)
THEOREM ReportsInOrder == Spec => []InOrder
<1>1. ReportsInv => InOrder
  BY DEF ReportsInv
<1> QED BY <1>1, ReportsInvariant, PTL

(* A run that waits for its collector waits for one more report at most.   *)
THEOREM StopIsHeardSoon == Spec => []StopHeardSoon
<1>1. ReportsInv => StopHeardSoon
  BY DEF ReportsInv, LittleOvertime, StopHeardSoon
<1> QED BY <1>1, ReportsInvariant, PTL

(* A run that is counted out left nothing unwritten that an attempt was    *)
(* left for.                                                               *)
THEOREM RunsFlush == Spec => []FlushedAtExit
<1>1. ReportsInv => FlushedAtExit
  BY DEF ReportsInv, StopHeard, FlushedAtExit
<1> QED BY <1>1, ReportsInvariant, PTL

----------------------------------------------------------------------------
(* Repetitions.                                                            *)

(* What has been written was written in an earlier attempt than the one    *)
(* being made; so the next write is a new one.                             *)
AttemptsAhead ==
    \A l \in landed : /\ pc[l[1]] # "none"
                      /\ Trying(l[1]) => l[2] < attempt[l[1]]

(* An object shows a report once for every write of it at most.            *)
WritesOf(p) == {l \in landed : l[1] = p}
Tallied == /\ IsFiniteSet(landed)
           /\ \A p \in Reports, n \in Names :
                 /\ IsFiniteSet(Occurrences(p, n))
                 /\ Cardinality(Occurrences(p, n)) <= Cardinality(WritesOf(p))

(* An update that has begun goes on to its next attempt, or ends.          *)
LEMMA AttemptGoesOn ==
    ASSUME TypeOK, StartedOnce, [Next]_vars, NEW w \in Updates, pc[w] # "none"
    PROVE  /\ pc'[w] # "none"
           /\ Trying(w)' => /\ Trying(w)
                            /\ attempt'[w] \in {attempt[w], attempt[w] + 1}
<1> DEFINE Goal == /\ pc'[w] # "none"
                   /\ Trying(w)' => /\ Trying(w)
                                    /\ attempt'[w] \in {attempt[w], attempt[w] + 1}
<1>1. CASE UNCHANGED <<pc, attempt>>
  BY <1>1 DEF Trying
<1>2. ASSUME NEW u \in Updates, Start(u), pc[u] = "none" PROVE Goal
  BY <1>2 DEF Start, TypeOK, Trying
<1>3. ASSUME NEW r \in Runs, Begin(r) \/ Decide(r) \/ Exit(r) \/ Collect(r)
      PROVE  \/ UNCHANGED <<pc, attempt>>
             \/ \E u \in Updates : Start(u) /\ pc[u] = "none"
  <2>1. CASE Begin(r) \/ Exit(r) \/ HearStop(r) \/ PassStop(r) \/ NoReport(r)
    BY <2>1 DEF Begin, Exit, HearStop, PassStop, NoReport, updates
  <2>2. CASE Decide(r)
    BY <2>2, Targets DEF Decide, StartedOnce
  <2>3. ASSUME NEW p \in Reports, Take(r, p)
        PROVE  Start(p) /\ pc[p] = "none" /\ p \in Updates
    BY <2>3, Targets DEF Take, Receive, Waiting, StartedOnce
  <2> QED BY <1>3, <2>1, <2>2, <2>3 DEF Collect
<1>4. ASSUME NEW p \in Reports, GetStatusFromModules(p)
      PROVE  UNCHANGED <<pc, attempt>>
  BY <1>4 DEF GetStatusFromModules, updates
<1>5. ASSUME NEW u \in Updates, Get(u) \/ UpdateStatus(u) PROVE Goal
  BY <1>5 DEF Get, UpdateStatus, Finish, TypeOK, Trying
<1>6. ASSUME NEW u \in Updates, CallFails(u) \/ ReplyLost(u) PROVE Goal
  <2>1. Trying(u) /\ Retry(u)
    BY <1>6 DEF CallFails, ReplyLost, Trying
  <2> QED BY <2>1, RetryEffect DEF TypeOK, Trying
<1>7. ASSUME NEW n \in Names, DeleteCascadeRun(n)
      PROVE  UNCHANGED <<pc, attempt>>
  BY <1>7 DEF DeleteCascadeRun, updates
<1>8. CASE Crash
  BY <1>8 DEF Crash, TypeOK, Trying
<1>9. CASE UNCHANGED vars
  BY <1>1, <1>9 DEF vars, updates
<1> QED BY <1>1, <1>2, <1>3, <1>4, <1>5, <1>6, <1>7, <1>8, <1>9
        DEF Next, ModulePosts, Update

LEMMA AttemptsAheadStep ==
    TypeOK /\ StartedOnce /\ AttemptsAhead /\ [Next]_vars => AttemptsAhead'
<1> SUFFICES ASSUME TypeOK, StartedOnce, AttemptsAhead, [Next]_vars,
                    NEW l \in landed'
             PROVE  /\ pc'[l[1]] # "none"
                    /\ Trying(l[1])' => l[2] < attempt'[l[1]]
  BY DEF AttemptsAhead, Trying
<1>1. CASE l \in landed
  <2>1. /\ l[1] \in Updates /\ l[2] \in Nat /\ attempt[l[1]] \in Nat
        /\ pc[l[1]] # "none"
        /\ Trying(l[1]) => l[2] < attempt[l[1]]
    BY <1>1 DEF TypeOK, AttemptsAhead
  <2>2. /\ pc'[l[1]] # "none"
        /\ Trying(l[1])' =>
              /\ Trying(l[1])
              /\ attempt'[l[1]] \in {attempt[l[1]], attempt[l[1]] + 1}
    BY <2>1, AttemptGoesOn DEF Trying
  <2> QED BY <2>1, <2>2
<1>2. CASE l \notin landed
  <2>1. PICK u \in Updates : UpdateStatus(u) \/ ReplyLost(u)
    BY <1>2, LandedEffect
  <2>2. l = <<u, attempt[u]>> /\ pc[u] = "update" /\ attempt[u] \in Nat
    BY <1>2, <2>1 DEF UpdateStatus, ReplyLost, Write, TypeOK
  <2>3. CASE UpdateStatus(u)
    BY <2>2, <2>3 DEF UpdateStatus, Finish, TypeOK, Trying
  <2>4. CASE ReplyLost(u)
    BY <2>2, <2>4, RetryEffect DEF ReplyLost, TypeOK, Trying
  <2> QED BY <2>1, <2>3, <2>4
<1> QED BY <1>1, <1>2

(* Appending a report to a list shows that report once more, no other.     *)
LEMMA AppendOccurs ==
    ASSUME NEW s \in Seq(Reports), NEW t \in Seq(Reports), NEW q \in Reports,
           t = Append(s, q), NEW p \in Reports
    PROVE  {i \in DOMAIN t : t[i] = p}
             = {i \in DOMAIN s : s[i] = p}
                 \cup (IF p = q THEN {Len(s) + 1} ELSE {})
<1>1. /\ DOMAIN s = 1 .. Len(s) /\ Len(s) \in Nat
      /\ DOMAIN t = 1 .. Len(s) + 1
      /\ \A i \in 1 .. Len(s) : t[i] = s[i]
      /\ t[Len(s) + 1] = q
  OBVIOUS
<1> QED BY <1>1

LEMMA TalliedStep ==
    /\ TypeOK /\ FreshCopies /\ AttemptsAhead /\ Tallied /\ [Next]_vars
    => Tallied'
<1> SUFFICES ASSUME TypeOK, FreshCopies, AttemptsAhead, Tallied, [Next]_vars
             PROVE  Tallied'
  OBVIOUS
<1>1. /\ landed \subseteq landed'
      /\ landed' = landed \/ \E l : landed' = landed \cup {l}
  BY LandedEffect DEF UpdateStatus, ReplyLost, Write
<1>2. IsFiniteSet(landed')
  BY <1>1, FS_AddElement DEF Tallied
<1>3. ASSUME NEW p \in Reports, NEW n \in Names
      PROVE  /\ IsFiniteSet(Occurrences(p, n)')
             /\ Cardinality(Occurrences(p, n)') <= Cardinality(WritesOf(p)')
  <2> DEFINE old == Occurrences(p, n)
             new == Occurrences(p, n)'
             was == WritesOf(p)
             now == WritesOf(p)'
             s   == cascadeRun[n].result
             t   == cascadeRun'[n].result
  <2>1. /\ old = {i \in DOMAIN s : s[i] = p}
        /\ new = {i \in DOMAIN t : t[i] = p}
    BY DEF Occurrences
  <2>2. was \in SUBSET now /\ now \in SUBSET landed' /\ was \in SUBSET landed
    BY <1>1 DEF WritesOf
  <2>3. /\ IsFiniteSet(now) /\ IsFiniteSet(was)
        /\ Cardinality(was) <= Cardinality(now)
        /\ Cardinality(was) \in Nat /\ Cardinality(now) \in Nat
    BY <1>2, <2>2, FS_Subset, FS_CardinalityType DEF Tallied
  <2>4. /\ IsFiniteSet(old) /\ Cardinality(old) \in Nat
        /\ Cardinality(old) <= Cardinality(was)
    BY FS_CardinalityType DEF Tallied
  <2>5. s \in Seq(Reports) /\ t \in Seq(Reports)
    BY TypeStep DEF TypeOK, CascadeRun
  <2>6. CASE t = s
    <3>1. new = old
      BY <2>1, <2>6
    <3> HIDE DEF old, new, was, now
    <3> QED BY <2>3, <2>4, <3>1 DEF old, new, was, now
  <2>7. CASE t = <<>>
    <3>1. new = {}
      BY <2>1, <2>7
    <3> QED BY <2>3, <3>1, FS_EmptySet
  <2>8. ASSUME NEW q \in Reports, Trying(q), t = Append(s, q),
               landed' = landed \cup {<<q, attempt[q]>>}
        PROVE  IsFiniteSet(new) /\ Cardinality(new) <= Cardinality(now)
    <3> DEFINE l == <<q, attempt[q]>>
    <3>1. new = old \cup (IF p = q THEN {Len(s) + 1} ELSE {})
      <4> HIDE DEF s, t
      <4> QED BY <2>1, <2>5, <2>8, AppendOccurs
    <3>2. CASE p = q
      <4>1. l \notin was
        <5>1. attempt[q] \in Nat /\ l[1] = q /\ l[2] = attempt[q]
          BY Targets DEF TypeOK
        <5>2. l \in landed => l[2] < attempt[q]
          BY <2>8, <5>1 DEF AttemptsAhead
        <5> QED BY <5>1, <5>2 DEF WritesOf
      <4>2. now = was \cup {l}
        BY <2>8, <3>2 DEF WritesOf
      <4>3. new = old \cup {Len(s) + 1}
        BY <3>1, <3>2
      <4> HIDE DEF old, new, was, now, l, s
      <4>4. Cardinality(now) = Cardinality(was) + 1
        BY <2>3, <4>1, <4>2, FS_AddElement
      <4>5. /\ IsFiniteSet(new)
            /\ Cardinality(new) \in {Cardinality(old), Cardinality(old) + 1}
        BY <2>4, <4>3, FS_AddElement
      <4> QED BY <2>3, <2>4, <4>4, <4>5
    <3>3. CASE p # q
      <4>1. new = old
        BY <3>1, <3>3
      <4> HIDE DEF old, new, was, now
      <4> QED BY <2>3, <2>4, <4>1
    <3> QED BY <3>2, <3>3
  <2>9. \/ t = s \/ t = <<>>
        \/ \E q \in Reports : /\ Trying(q) /\ t = Append(s, q)
                              /\ landed' = landed \cup {<<q, attempt[q]>>}
    BY ResultEffect
  <2> QED BY <2>6, <2>7, <2>8, <2>9
<1> QED BY <1>2, <1>3 DEF Tallied

(* An object repeats a report by the replies that were lost, and by        *)
(* nothing else: no conflict, failure or crash makes the retries write     *)
(* again what is known to be written.                                      *)
THEOREM LostRepliesRepeat == Spec => []OnlyLostRepliesRepeat
<1>1. Init => AttemptsAhead /\ Tallied
  <2> SUFFICES ASSUME Init PROVE AttemptsAhead /\ Tallied
    OBVIOUS
  <2>1. \A p \in Reports, n \in Names : Occurrences(p, n) = {}
    BY DEF Init, Absent, Occurrences
  <2>2. \A p \in Reports : WritesOf(p) = {}
    BY DEF Init, WritesOf
  <2>3. IsFiniteSet({}) /\ Cardinality({}) = 0
    BY FS_EmptySet
  <2>4. landed = {}
    BY DEF Init
  <2> QED BY <2>1, <2>2, <2>3, <2>4 DEF AttemptsAhead, Tallied
<1>2. ReportsInv /\ AttemptsAhead /\ Tallied /\ [Next]_vars
        => AttemptsAhead' /\ Tallied'
  BY AttemptsAheadStep, TalliedStep DEF ReportsInv
<1>3. ASSUME ReportsInv, Tallied PROVE OnlyLostRepliesRepeat
  <2> SUFFICES ASSUME NEW p \in Reports, NEW n \in Names
               PROVE  Cardinality(Occurrences(p, n))
                        <= Cardinality(Unheard(p))
                             + IF p \in Acknowledged THEN 1 ELSE 0
    BY DEF OnlyLostRepliesRepeat
  <2> DEFINE all == WritesOf(p)
             heard == all \ unheard
  <2>1. IsFiniteSet(all) /\ Cardinality(all) \in Nat
    BY <1>3, FS_Subset, FS_CardinalityType DEF Tallied, WritesOf
  <2>2. all \cap unheard = Unheard(p)
    BY <1>3 DEF WritesOf, Unheard, ReportsInv, TypeOK
  <2>3. /\ Cardinality(heard) = Cardinality(all) - Cardinality(Unheard(p))
        /\ Cardinality(Unheard(p)) \in Nat
    BY <2>1, <2>2, FS_Difference, FS_Subset, FS_CardinalityType
  <2>4. Cardinality(heard) = IF p \in Acknowledged THEN 1 ELSE 0
    <3>1. CASE p \in Acknowledged
      <4>1. PICK l \in landed \ unheard : l[1] = p
        BY <3>1 DEF Acknowledged
      <4>2. heard = {l}
        BY <1>3, <4>1 DEF WritesOf, ReportsInv, RecordedOnce
      <4> QED BY <3>1, <4>2, FS_Singleton
    <3>2. CASE p \notin Acknowledged
      <4>1. heard = {}
        BY <3>2 DEF WritesOf, Acknowledged
      <4> QED BY <3>2, <4>1, FS_EmptySet
    <3> QED BY <3>1, <3>2
  <2>5. Cardinality(Occurrences(p, n)) <= Cardinality(all)
        /\ Cardinality(Occurrences(p, n)) \in Nat
    BY <1>3, FS_CardinalityType DEF Tallied
  <2> HIDE DEF all, heard
  <2> QED BY <2>1, <2>3, <2>4, <2>5
<1> QED BY <1>1, <1>2, <1>3, ReportsInvariant, PTL DEF Spec

----------------------------------------------------------------------------
(* Refinement.                                                             *)
posted  == {p \in Reports : handler[p] # "none"}
decided == {r \in Runs : pc[r] # "none"}

LEMMA RecordsInit == Init => Records!Init
<1>1. Init => \A r \in Runs : r \in Updates
  BY Targets
<1> QED BY <1>1 DEF Init, Records!Init, Absent, Records!Absent

LEMMA RecordsStep ==
    ReportsInv /\ [Next]_vars
    => [Records!Next]_<<cascadeRun, posted, decided>>
<1> SUFFICES ASSUME ReportsInv, [Next]_vars
             PROVE  Records!Next \/ UNCHANGED <<cascadeRun, posted, decided>>
  OBVIOUS
<1> USE DEF posted, decided
<1>0. TypeOK /\ FreshCopies /\ StartedOnce /\ OneAtATime
  BY DEF ReportsInv
<1>1. ASSUME NEW r \in Runs, Begin(r) PROVE Records!Create(r)
  BY <1>1 DEF Begin, Records!Create, Created, Records!Created, updates
<1>2. ASSUME NEW r \in Runs, Decide(r) PROVE Records!Decide(r)
  <2>1. /\ pc[r] = "none" /\ pc' = [pc EXCEPT ![r] = "get"]
        /\ UNCHANGED <<cascadeRun, handler>>
    BY <1>0, <1>2 DEF Decide, Start, StartedOnce, object
  <2>2. \A x \in Runs : x \in Updates
    BY Targets
  <2>3. decided' = decided \cup {r} /\ r \notin decided
    BY <1>0, <2>1, <2>2 DEF TypeOK
  <2> QED BY <2>1, <2>3 DEF Records!Decide
<1>3. ASSUME NEW p \in Reports, GetStatusFromModules(p) PROVE Records!Post(p)
  <2>1. posted' = posted \cup {p} /\ p \notin posted
    BY <1>0, <1>3 DEF GetStatusFromModules, TypeOK
  <2> QED BY <1>3, <2>1 DEF GetStatusFromModules, Records!Post, updates, object
<1>4. ASSUME NEW r \in Runs, Exit(r) \/ HearStop(r) \/ PassStop(r) \/ NoReport(r)
      PROVE  UNCHANGED <<cascadeRun, posted, decided>>
  BY <1>4 DEF Exit, HearStop, PassStop, NoReport, updates, object
<1>5. ASSUME NEW r \in Runs, NEW p \in Reports, Take(r, p)
      PROVE  UNCHANGED <<cascadeRun, posted, decided>>
  <2>1. \A x \in Runs : x \in Updates /\ x # p
    BY Targets
  <2>2. UNCHANGED posted
    BY <1>0, <1>5 DEF Take, Receive, Waiting, TypeOK
  <2>3. UNCHANGED decided
    BY <1>0, <1>5, <2>1 DEF Take, Receive, Start, TypeOK
  <2> QED BY <1>5, <2>2, <2>3 DEF Take, Receive, object
<1>6. ASSUME NEW u \in Updates, Get(u) \/ Attempt(u)
      PROVE  UNCHANGED <<posted, decided>>
  <2>1. \A x \in Runs : x \in Updates
    BY Targets
  <2>2. CASE Get(u)
    BY <1>0, <2>1, <2>2 DEF Get, control, TypeOK
  <2>3. CASE Attempt(u)
    BY <1>0, <2>1, <2>3, AttemptEffect DEF TypeOK, Trying
  <2> QED BY <1>6, <2>2, <2>3
<1>7. ASSUME NEW u \in Updates, Get(u) \/ CallFails(u)
      PROVE  UNCHANGED <<cascadeRun, posted, decided>>
  BY <1>6, <1>7 DEF Get, CallFails, Attempt, object
<1>8. ASSUME NEW u \in Updates, UpdateStatus(u) \/ ReplyLost(u)
      PROVE  Records!Next
  <2>1. /\ UNCHANGED <<posted, decided>> /\ pc[u] = "update"
        /\ cascadeRun[Target(u)].exists
        /\ cascadeRun' = [cascadeRun EXCEPT ![Target(u)] = Changed(u, @)]
    BY <1>0, <1>6, <1>8, WriteEffect DEF Attempt, UpdateStatus, ReplyLost
  <2>2. CASE u \in Reports
    <3>1. u \in posted
      BY <1>0, <2>1, <2>2, SetsAssumption DEF StartedOnce
    <3>2. cascadeRun' = [cascadeRun EXCEPT ![RunName[u]].result = Append(@, u)]
      BY <2>1, <2>2 DEF Changed, Target
    <3>3. Records!Record(u)
      BY <2>1, <2>2, <3>1, <3>2 DEF Records!Record, Target
    <3> QED BY <2>2, <3>3 DEF Records!Next
  <2>3. CASE u \notin Reports
    <3>1. u \in Runs /\ u \in decided
      BY <2>1, <2>3 DEF Updates
    <3>2. cascadeRun' = [cascadeRun EXCEPT ![Name[u]].info = u]
      BY <2>1, <2>3 DEF Changed, Target
    <3>3. Records!Finish(u)
      BY <2>1, <2>3, <3>1, <3>2 DEF Records!Finish, Target
    <3> QED BY <3>1, <3>3 DEF Records!Next
  <2> QED BY <2>2, <2>3
<1>9. ASSUME NEW n \in Names, DeleteCascadeRun(n) PROVE Records!Delete(n)
  BY <1>9 DEF DeleteCascadeRun, Records!Delete, Absent, Records!Absent,
              control, updates
<1>10. CASE Crash
  <2>1. UNCHANGED posted
    BY <1>0, <1>10 DEF Crash, Waiting, TypeOK
  <2>2. UNCHANGED decided
    BY <1>0, <1>10, Targets DEF Crash, TypeOK
  <2> QED BY <1>10, <2>1, <2>2 DEF Crash, object
<1>11. CASE UNCHANGED vars
  BY <1>11 DEF vars, control, updates, object
<1> QED BY <1>1, <1>2, <1>3, <1>4, <1>5, <1>7, <1>8, <1>9, <1>10, <1>11
        DEF Next, ModulePosts, Collect, Update, Records!Next

(* The CascadeRuns are the growing records of RunRecords: read-modify-     *)
(* writes of different goroutines never overwrite one another, and each    *)
(* report goes to the object it names, once for each write of it.          *)
THEOREM ReportsAreRecords == Spec => Implements
<1>1. ReportsInv /\ [Next]_vars
      => [Records!Next]_<<cascadeRun, posted, decided>>
  BY RecordsStep
<1> QED BY <1>1, RecordsInit, ReportsInvariant, PTL
        DEF Spec, Implements, Records!Spec, posted, decided
=============================================================================
