--------------------------- MODULE CollectorProofs ---------------------------
(***************************************************************************)
(* Theorems about ModuleReports: that a run which has decided meets its    *)
(* collector and can be left, for any number of runs, reports and attempts *)
(* and any number of crashes, deletions and failures.                      *)
(***************************************************************************)
EXTENDS ModuleReportsProofs

----------------------------------------------------------------------------
(* The inductive invariant, with that of ModuleReportsProofs.              *)

(* A run that goes on or stops has a collector; one that is busy is at a   *)
(* report that it took.                                                    *)
CollectorThere ==
    \A r \in Runs :
        /\ phase[r] \in {"running", "stopping"} =>
              collector[r] \in {"outer", "inner", "busy"}
        /\ collector[r] = "busy" =>
              \E p \in Reports : by[p] = r /\ Trying(p)

(* What is being tried has an attempt left, the present one.               *)
AttemptLeft == \A u \in Updates : Trying(u) => attempt[u] \in 1 .. Attempts(u)

LEMMA MeetInit == Init => CollectorThere /\ AttemptLeft
  BY DEF Init, CollectorThere, AttemptLeft, Trying

LEMMA AttemptsNumber ==
    \A u \in Updates : Attempts(u) \in Nat \ {0} /\ Attempts(u)' = Attempts(u)
  BY BoundsAssumption DEF Attempts

(* How an attempt ends, the number of the next one included.               *)
LEMMA AttemptNumber ==
    ASSUME TypeOK, NEW u \in Updates, Attempt(u)
    PROVE  \/ /\ pc' = [pc EXCEPT ![u] = "get"]
              /\ attempt[u] < Attempts(u)
              /\ attempt' = [attempt EXCEPT ![u] = @ + 1]
           \/ /\ pc' = [pc EXCEPT ![u] = "done"]
              /\ \E n \in Nat : attempt' = [attempt EXCEPT ![u] = n]
<1>1. CASE UpdateStatus(u)
  <2>1. attempt' = [attempt EXCEPT ![u] = attempt[u]] /\ attempt[u] \in Nat
    BY <1>1 DEF UpdateStatus, TypeOK
  <2> QED BY <1>1, <2>1 DEF UpdateStatus, Finish
<1>2. CASE Retry(u)
  <2>1. attempt' = [attempt EXCEPT ![u] = @ + 1] /\ attempt[u] + 1 \in Nat
    BY <1>2 DEF Retry, TypeOK
  <2>2. CASE attempt[u] < Attempts(u)
    BY <1>2, <2>1, <2>2 DEF Retry
  <2>3. CASE ~(attempt[u] < Attempts(u))
    BY <1>2, <2>1, <2>3 DEF Retry, Finish
  <2> QED BY <2>2, <2>3
<1> QED BY <1>1, <1>2 DEF Attempt, CallFails, ReplyLost

(* What a step does to the collectors, the runs, and what is being tried.  *)
LEMMA AttemptLeftStep ==
    TypeOK /\ AttemptLeft /\ [Next]_vars => AttemptLeft'
<1> SUFFICES ASSUME TypeOK, AttemptLeft, [Next]_vars,
                    NEW w \in Updates, Trying(w)'
             PROVE  attempt'[w] \in 1 .. Attempts(w)
  BY AttemptsNumber DEF AttemptLeft
<1>0. Attempts(w) \in Nat \ {0} /\ attempt[w] \in Nat
  BY AttemptsNumber DEF TypeOK
<1>1. ASSUME NEW u \in Updates, Start(u) PROVE attempt'[w] \in 1 .. Attempts(w)
  BY <1>0, <1>1 DEF Start, TypeOK, AttemptLeft, Trying
<1>2. ASSUME NEW r \in Runs, Begin(r) \/ Decide(r) \/ Exit(r) \/ Collect(r)
      PROVE  UNCHANGED <<pc, attempt>> \/ \E u \in Updates : Start(u)
  BY <1>2, Targets DEF Begin, Decide, Exit, Collect, HearStop, PassStop,
                       NoReport, Take, Receive, updates
<1>3. ASSUME NEW u \in Updates, Update(u)
      PROVE  attempt'[w] \in 1 .. Attempts(w)
  <2>1. CASE Get(u)
    BY <1>0, <2>1 DEF Get, TypeOK, AttemptLeft, Trying
  <2>2. CASE Attempt(u)
    <3>1. attempt[u] \in 1 .. Attempts(u)
      BY <2>2, AttemptEffect DEF AttemptLeft
    <3> QED BY <1>0, <2>2, <3>1, AttemptNumber, AttemptsNumber
            DEF TypeOK, AttemptLeft, Trying
  <2> QED BY <1>3, <2>1, <2>2 DEF Update, Attempt
<1>4. CASE Crash
  BY <1>4 DEF Crash, TypeOK, AttemptLeft, Trying
<1>5. CASE UNCHANGED <<pc, attempt>>
  BY <1>5 DEF AttemptLeft, Trying
<1> QED BY <1>1, <1>2, <1>3, <1>4, <1>5
        DEF Next, ModulePosts, GetStatusFromModules, DeleteCascadeRun, vars, updates

LEMMA CollectorThereStep ==
    ReportsInv /\ CollectorThere /\ [Next]_vars => CollectorThere'
<1> SUFFICES ASSUME ReportsInv, CollectorThere, [Next]_vars
             PROVE  CollectorThere'
  OBVIOUS
<1>0. TypeOK /\ StartedOnce /\ OneAtATime
  BY DEF ReportsInv
<1> USE DEF CollectorThere
<1>1. ASSUME NEW r \in Runs, Begin(r) \/ Exit(r) PROVE CollectorThere'
  BY <1>0, <1>1 DEF Begin, Exit, TypeOK, updates, Trying
<1>2. ASSUME NEW r \in Runs, Decide(r) PROVE CollectorThere'
  <2>1. \A p \in Reports : Trying(p) => Trying(p)'
    BY <1>0, <1>2, Targets DEF Decide, Start, TypeOK, Trying
  <2> QED BY <1>0, <1>2, <2>1 DEF Decide, TypeOK
<1>3. ASSUME NEW r \in Runs, HearStop(r) \/ PassStop(r) \/ NoReport(r)
      PROVE  CollectorThere'
  BY <1>0, <1>3 DEF HearStop, PassStop, NoReport, TypeOK, updates, Trying
<1>4. ASSUME NEW r \in Runs, NEW p \in Reports, Take(r, p)
      PROVE  CollectorThere'
  <2>1. /\ by'[p] = r /\ Trying(p)'
        /\ \A q \in Reports \ {p} : /\ by'[q] = by[q]
                                    /\ Trying(q) => Trying(q)'
    BY <1>0, <1>4, Targets DEF Take, Receive, Start, TypeOK, Trying
  <2>2. by[p] = None
    BY <1>0, <1>4 DEF Take, Receive, Waiting, StartedOnce
  <2> QED BY <1>0, <1>4, <2>1, <2>2, SetsAssumption DEF Take, Receive, TypeOK
<1>5. ASSUME NEW u \in Updates, Update(u) PROVE CollectorThere'
  <2>1. CASE Get(u)
    BY <1>0, <2>1, Targets DEF Get, TypeOK, control, Trying
  <2>2. CASE Attempt(u)
    <3>1. /\ UNCHANGED <<phase, by>>
          /\ \A p \in Reports : p # u /\ Trying(p) => Trying(p)'
      BY <1>0, <2>2, AttemptEffect, Targets DEF TypeOK, Trying
    <3>2. CASE UNCHANGED collector /\ pc' = [pc EXCEPT ![u] = "get"]
      BY <1>0, <3>1, <3>2, Targets DEF TypeOK, Trying
    <3>3. CASE collector' = [r \in Runs |-> IF u \in Reports /\ by[u] = r
                                            THEN "outer" ELSE collector[r]]
      BY <1>0, <3>1, <3>3 DEF TypeOK
    <3> QED BY <1>0, <2>2, <3>2, <3>3, AttemptEffect
  <2> QED BY <1>5, <2>1, <2>2 DEF Update, Attempt
<1>6. CASE Crash
  BY <1>0, <1>6 DEF Crash, TypeOK, Active
<1>7. CASE UNCHANGED <<phase, collector, by, pc>>
  BY <1>7 DEF Trying
<1> QED BY <1>1, <1>2, <1>3, <1>4, <1>5, <1>6, <1>7
        DEF Next, Collect, ModulePosts, GetStatusFromModules,
            DeleteCascadeRun, vars, updates, control

MeetInv == ReportsInv /\ CollectorThere /\ AttemptLeft

LEMMA MeetInvariant == Spec => []MeetInv
<1>1. Init => MeetInv
  BY MeetInit, ReportsInit DEF MeetInv
<1>2. MeetInv /\ [Next]_vars => MeetInv'
  BY ReportsStep, CollectorThereStep, AttemptLeftStep DEF MeetInv, ReportsInv
<1> QED BY <1>1, <1>2, PTL DEF Spec

(* Whoever sends on stop finds the collector at its selects, or at one     *)
(* report with an attempt left; it is never gone.                          *)
THEOREM StopIsReceived == Spec => []StopFindsCollector
<1>1. MeetInv => StopFindsCollector
  BY DEF MeetInv, CollectorThere, StopFindsCollector
<1> QED BY <1>1, MeetInvariant, PTL

----------------------------------------------------------------------------
(* The calls that are left.                                                *)

(* An update starts, calls on, ends, is lost, or is left as it is.         *)
LEMMA UpdateMoves ==
    ASSUME TypeOK, StartedOnce, AttemptLeft, [Next]_vars, NEW w \in Updates
    PROVE  \/ pc[w] = "none" /\ pc'[w] = "get" /\ attempt'[w] = 1
           \/ pc[w] = "get" /\ pc'[w] = "update" /\ attempt'[w] = attempt[w]
           \/ /\ Trying(w) /\ pc'[w] = "get"
              /\ attempt[w] < Attempts(w) /\ attempt'[w] = attempt[w] + 1
           \/ Trying(w) /\ pc'[w] \in {"done", "lost"}
           \/ pc'[w] = pc[w] /\ attempt'[w] = attempt[w]
<1> DEFINE Moves == \/ pc[w] = "none" /\ pc'[w] = "get" /\ attempt'[w] = 1
                    \/ /\ pc[w] = "get" /\ pc'[w] = "update"
                       /\ attempt'[w] = attempt[w]
                    \/ /\ Trying(w) /\ pc'[w] = "get"
                       /\ attempt[w] < Attempts(w)
                       /\ attempt'[w] = attempt[w] + 1
                    \/ Trying(w) /\ pc'[w] \in {"done", "lost"}
                    \/ pc'[w] = pc[w] /\ attempt'[w] = attempt[w]
<1>1. ASSUME NEW u \in Updates, Start(u), pc[u] = "none" PROVE Moves
  BY <1>1 DEF Start, TypeOK
<1>2. ASSUME NEW r \in Runs, Begin(r) \/ Decide(r) \/ Exit(r) \/ Collect(r)
      PROVE  \/ UNCHANGED <<pc, attempt>>
             \/ \E u \in Updates : Start(u) /\ pc[u] = "none"
  <2>1. CASE Begin(r) \/ Exit(r) \/ HearStop(r) \/ PassStop(r) \/ NoReport(r)
    BY <2>1 DEF Begin, Exit, HearStop, PassStop, NoReport, updates
  <2>2. CASE Decide(r)
    BY <2>2, Targets DEF Decide, StartedOnce
  <2>3. ASSUME NEW p \in Reports, Take(r, p)
        PROVE  \E u \in Updates : Start(u) /\ pc[u] = "none"
    BY <2>3, Targets DEF Take, Receive, Waiting, StartedOnce
  <2> QED BY <1>2, <2>1, <2>2, <2>3 DEF Collect
<1>3. ASSUME NEW u \in Updates, Update(u) PROVE Moves
  <2>1. CASE Get(u)
    BY <2>1 DEF Get, TypeOK
  <2>2. CASE Attempt(u)
    BY <2>2, AttemptNumber, AttemptEffect DEF TypeOK
  <2> QED BY <1>3, <2>1, <2>2 DEF Update, Attempt
<1>4. CASE Crash
  BY <1>4 DEF Crash, TypeOK, Trying
<1> QED BY <1>1, <1>2, <1>3, <1>4
        DEF Next, ModulePosts, GetStatusFromModules, DeleteCascadeRun, vars, updates

(* Every call of an update uses up one of those that its retries allow, so *)
(* that a collector cannot be kept busy for ever with one report.          *)
THEOREM ReportsRunOutOfCalls == Spec => CallsRunOut
<1>1. ASSUME MeetInv, MeetInv', [Next]_vars, NEW u \in Updates,
             pc'[u] # pc[u] \/ attempt'[u] # attempt[u]
      PROVE  CallsLeft(u)' \in 0 .. CallsLeft(u) - 1
  <2>1. /\ Attempts(u) \in Nat \ {0} /\ Attempts(u)' = Attempts(u)
        /\ attempt[u] \in Nat /\ attempt'[u] \in Nat
        /\ Trying(u) => attempt[u] \in 1 .. Attempts(u)
    BY <1>1, AttemptsNumber DEF MeetInv, ReportsInv, TypeOK, AttemptLeft
  <2>2. \/ pc[u] = "none" /\ pc'[u] = "get" /\ attempt'[u] = 1
        \/ pc[u] = "get" /\ pc'[u] = "update" /\ attempt'[u] = attempt[u]
        \/ /\ Trying(u) /\ pc'[u] = "get"
           /\ attempt[u] < Attempts(u) /\ attempt'[u] = attempt[u] + 1
        \/ Trying(u) /\ pc'[u] \in {"done", "lost"}
    BY <1>1, UpdateMoves DEF MeetInv, ReportsInv
  <2> QED BY <2>1, <2>2 DEF CallsLeft, Trying
<1>2. MeetInv /\ MeetInv' /\ [Next]_vars
        => [\A u \in Updates : pc'[u] # pc[u] \/ attempt'[u] # attempt[u] =>
                                  CallsLeft(u)' \in 0 .. CallsLeft(u) - 1]_vars
  BY <1>1
<1> QED BY <1>2, MeetInvariant, PTL DEF Spec, CallsRunOut

----------------------------------------------------------------------------
(* The run and its helpers.                                                *)

HelpersOf == [r \in Runs |->
                {h \in {"collector", "setRun"} :
                    IF h = "setRun" THEN Trying(r) ELSE Collecting(r)}]

LEMMA HelpersSame ==
    ASSUME \A q \in Runs : /\ Trying(q)' <=> Trying(q)
                           /\ Collecting(q)' <=> Collecting(q)
    PROVE  HelpersOf' = HelpersOf
<1>1. ASSUME NEW q \in Runs
      PROVE  {h \in {"collector", "setRun"} :
                 IF h = "setRun" THEN Trying(q)' ELSE Collecting(q)'}
             = {h \in {"collector", "setRun"} :
                 IF h = "setRun" THEN Trying(q) ELSE Collecting(q)}
  OBVIOUS
<1> QED BY <1>1 DEF HelpersOf

(* The helpers of one run change.                                          *)
LEMMA HelpersMove ==
    ASSUME NEW r \in Runs, NEW H,
           \A q \in Runs \ {r} : /\ Trying(q)' <=> Trying(q)
                                 /\ Collecting(q)' <=> Collecting(q),
           H \subseteq {"collector", "setRun"},
           "setRun" \in H <=> Trying(r)', "collector" \in H <=> Collecting(r)'
    PROVE  HelpersOf' = [HelpersOf EXCEPT ![r] = H]
<1>1. ASSUME NEW q \in Runs \ {r}
      PROVE  {h \in {"collector", "setRun"} :
                 IF h = "setRun" THEN Trying(q)' ELSE Collecting(q)'}
             = {h \in {"collector", "setRun"} :
                 IF h = "setRun" THEN Trying(q) ELSE Collecting(q)}
  OBVIOUS
<1>2. {h \in {"collector", "setRun"} :
          IF h = "setRun" THEN Trying(r)' ELSE Collecting(r)'} = H
  OBVIOUS
<1> QED BY <1>1, <1>2 DEF HelpersOf

LEMMA InHelpers ==
    ASSUME NEW r \in Runs
    PROVE  /\ "setRun" \in HelpersOf[r] <=> Trying(r)
           /\ "collector" \in HelpersOf[r] <=> Collecting(r)
           /\ HelpersOf[r] \subseteq {"collector", "setRun"}
  BY DEF HelpersOf

(* Steps that neither start nor end a helper.                              *)
LEMMA HelpersKept ==
    ASSUME UNCHANGED <<pc, by>>,
           \A q \in Runs : collector'[q] \in {"outer", "inner", "busy"} <=>
                              collector[q] \in {"outer", "inner", "busy"}
    PROVE  HelpersOf' = HelpersOf
  BY HelpersSame DEF Trying, Collecting

LEMMA TakeKeepsHelpers ==
    ASSUME ReportsInv, NEW r \in Runs, NEW p \in Reports, Take(r, p)
    PROVE  HelpersOf' = HelpersOf /\ UNCHANGED phase
<1>1. TypeOK /\ StartedOnce
  BY DEF ReportsInv
<1>2. /\ collector[r] = "inner" /\ collector'[r] = "busy"
      /\ by[p] = None /\ by'[p] = r /\ UNCHANGED phase
      /\ \A q \in Runs \ {r} : collector'[q] = collector[q]
      /\ \A q \in Reports \ {p} : by'[q] = by[q]
      /\ \A u \in Updates \ {p} : Trying(u)' <=> Trying(u)
  BY <1>1 DEF Take, Receive, Waiting, Start, TypeOK, StartedOnce, Trying
<1>3. ASSUME NEW q \in Runs
      PROVE  /\ Trying(q)' <=> Trying(q)
             /\ Collecting(q)' <=> Collecting(q)
  <2>1. q # None /\ q \in Updates \ {p} /\ \A x \in Reports : x \in Updates
    BY SetsAssumption, Targets
  <2>2. CASE q = r
    BY <1>2, <2>1, <2>2 DEF Collecting
  <2>3. CASE q # r
    BY <1>2, <2>1, <2>3 DEF Collecting
  <2> QED BY <1>2, <2>1, <2>2, <2>3
<1> QED BY <1>2, <1>3, HelpersSame

(* An attempt that is not the last of a final info keeps its helper.       *)
LEMMA AttemptEndsHelper ==
    ASSUME ReportsInv, NEW u \in Updates, Attempt(u)
    PROVE  \/ HelpersOf' = HelpersOf
           \/ /\ u \in Runs /\ Trying(u)
              /\ HelpersOf' = [HelpersOf EXCEPT ![u] = @ \ {"setRun"}]
<1>1. TypeOK /\ OneAtATime /\ Trying(u) /\ UNCHANGED by
  BY AttemptEffect DEF ReportsInv
<1>2. CASE pc' = [pc EXCEPT ![u] = "get"] /\ UNCHANGED collector
  <2>1. \A w \in Updates : Trying(w)' <=> Trying(w)
    BY <1>1, <1>2 DEF TypeOK, Trying
  <2> QED BY <1>1, <1>2, <2>1, HelpersSame, Targets DEF Collecting
<1>3. ASSUME pc' = [pc EXCEPT ![u] = "done"],
             collector' = [r \in Runs |-> IF u \in Reports /\ by[u] = r
                                          THEN "outer" ELSE collector[r]]
      PROVE  \/ HelpersOf' = HelpersOf
             \/ /\ u \in Runs
                /\ HelpersOf' = [HelpersOf EXCEPT ![u] = @ \ {"setRun"}]
  <2>1. /\ ~Trying(u)'
        /\ \A w \in Updates \ {u} : Trying(w)' <=> Trying(w)
    BY <1>1, <1>3 DEF TypeOK, Trying
  <2>2. CASE u \in Reports
    <3>1. by[u] \in Runs /\ collector[by[u]] = "busy"
      BY <1>1, <2>2 DEF OneAtATime
    <3>2. ASSUME NEW q \in Runs
          PROVE  /\ Trying(q)' <=> Trying(q)
                 /\ Collecting(q)' <=> Collecting(q)
      <4>1. q \in Updates \ {u} /\ \A p \in Reports : p \in Updates
        BY <2>2, Targets
      <4>2. CASE q = by[u]
        BY <1>1, <1>3, <2>1, <2>2, <3>1, <4>1, <4>2 DEF Collecting
      <4>3. CASE q # by[u]
        BY <1>1, <1>3, <2>1, <2>2, <4>1, <4>3 DEF Collecting
      <4> QED BY <2>1, <4>1, <4>2, <4>3
    <3> QED BY <3>2, HelpersSame
  <2>3. CASE u \notin Reports
    <3>1. u \in Runs
      BY <2>3 DEF Updates
    <3>2. collector' = [r \in Runs |-> collector[r]]
      BY <1>3, <2>3
    <3>3. UNCHANGED collector
      BY <1>1, <3>2 DEF TypeOK
    <3>4. \A q \in Runs : Collecting(q)' <=> Collecting(q)
      BY <1>1, <2>1, <2>3, <3>3, Targets DEF Collecting
    <3>5. \A q \in Runs \ {u} : Trying(q)' <=> Trying(q)
      BY <2>1, Targets
    <3>6. HelpersOf' = [HelpersOf EXCEPT ![u] = HelpersOf[u] \ {"setRun"}]
      BY <2>1, <3>1, <3>4, <3>5, HelpersMove, InHelpers
    <3> QED BY <3>1, <3>6
  <2> QED BY <2>2, <2>3
<1> QED BY <1>1, <1>2, <1>3, AttemptEffect

(* Every step is one that WaitGroup has, or none to it.                    *)
LEMMA HelpersStep ==
    MeetInv /\ [Next]_vars => [Helpers!Next]_<<phase, HelpersOf>>
<1> SUFFICES ASSUME MeetInv, [Next]_vars
             PROVE  Helpers!Next \/ UNCHANGED <<phase, HelpersOf>>
  OBVIOUS
<1>0. /\ ReportsInv /\ TypeOK /\ StartedOnce /\ OneAtATime /\ StopHeard
      /\ CollectorThere
  BY DEF MeetInv, ReportsInv
<1>1. ASSUME NEW r \in Runs, Begin(r) PROVE Helpers!Begin(r)
  <2>1. /\ phase[r] = "new" /\ phase' = [phase EXCEPT ![r] = "running"]
        /\ collector' = [collector EXCEPT ![r] = "outer"]
        /\ UNCHANGED <<pc, by>>
    BY <1>1 DEF Begin, updates
  <2>2. ~Trying(r)' /\ Collecting(r)'
    BY <1>0, <2>1 DEF TypeOK, StartedOnce, Trying, Collecting
  <2>3. \A q \in Runs \ {r} : /\ Trying(q)' <=> Trying(q)
                              /\ Collecting(q)' <=> Collecting(q)
    BY <1>0, <2>1 DEF TypeOK, Trying, Collecting
  <2>4. HelpersOf' = [HelpersOf EXCEPT ![r] = {"collector"}]
    BY <2>2, <2>3, HelpersMove
  <2> QED BY <2>1, <2>4 DEF Helpers!Begin, Helpers!Advance, HelpersOf
<1>2. ASSUME NEW r \in Runs, Decide(r) PROVE Helpers!Decide(r)
  <2>1. /\ phase[r] = "running" /\ phase' = [phase EXCEPT ![r] = "stopping"]
        /\ pc[r] = "none" /\ pc' = [pc EXCEPT ![r] = "get"]
        /\ UNCHANGED <<collector, by>>
    BY <1>0, <1>2 DEF Decide, Start, StartedOnce
  <2>2. /\ ~Trying(r) /\ Trying(r)'
        /\ \A u \in Updates \ {r} : Trying(u)' <=> Trying(u)
    BY <1>0, <2>1, Targets DEF TypeOK, Trying
  <2>3. \A q \in Runs : Collecting(q)' <=> Collecting(q)
    BY <2>1, <2>2, Targets DEF Collecting
  <2>4. \A q \in Runs \ {r} : Trying(q)' <=> Trying(q)
    BY <2>2, Targets
  <2>5. HelpersOf' = [HelpersOf EXCEPT ![r] = HelpersOf[r] \cup {"setRun"}]
    BY <2>2, <2>3, <2>4, HelpersMove, InHelpers
  <2>6. HelpersOf[r] \cap {"setRun"} = {}
    BY <2>2, InHelpers
  <2> QED BY <2>1, <2>5, <2>6 DEF Helpers!Decide, Helpers!Advance, HelpersOf
<1>3. ASSUME NEW r \in Runs, HearStop(r) PROVE Helpers!Stop(r)
  <2>1. /\ phase[r] = "stopping" /\ phase' = [phase EXCEPT ![r] = "draining"]
        /\ collector[r] = "outer" /\ collector' = [collector EXCEPT ![r] = "done"]
        /\ UNCHANGED <<pc, by>>
    BY <1>3 DEF HearStop, updates
  <2>2. Collecting(r) /\ ~Collecting(r)'
    BY <1>0, <2>1 DEF TypeOK, OneAtATime, Trying, Collecting
  <2>3. /\ \A q \in Runs : Trying(q)' <=> Trying(q)
        /\ \A q \in Runs \ {r} : Collecting(q)' <=> Collecting(q)
    BY <1>0, <2>1 DEF TypeOK, Trying, Collecting
  <2>4. HelpersOf' = [HelpersOf EXCEPT ![r] = HelpersOf[r] \ {"collector"}]
    BY <2>2, <2>3, HelpersMove, InHelpers
  <2>5. "collector" \in HelpersOf[r]
    BY <2>2, InHelpers
  <2> QED BY <2>1, <2>4, <2>5 DEF Helpers!Stop, Helpers!Advance, HelpersOf
<1>4. ASSUME NEW r \in Runs, Exit(r) PROVE Helpers!Leave(r)
  <2>1. /\ phase[r] = "draining" /\ phase' = [phase EXCEPT ![r] = "done"]
        /\ pc[r] = "done" /\ UNCHANGED <<pc, by, collector>>
    BY <1>4 DEF Exit, updates
  <2>2. UNCHANGED HelpersOf
    BY <2>1, HelpersKept
  <2>3. ~Trying(r) /\ ~Collecting(r)
    BY <1>0, <2>1 DEF OneAtATime, StopHeard, Trying, Collecting
  <2>4. HelpersOf[r] = {}
    BY <2>3, InHelpers
  <2> QED BY <2>1, <2>2, <2>4 DEF Helpers!Leave, Helpers!Advance, HelpersOf
<1>5. ASSUME NEW r \in Runs, PassStop(r) \/ NoReport(r)
      PROVE  UNCHANGED <<phase, HelpersOf>>
  BY <1>0, <1>5, HelpersKept DEF PassStop, NoReport, updates, TypeOK
<1>6. ASSUME NEW u \in Updates, Get(u) PROVE UNCHANGED <<phase, HelpersOf>>
  <2>1. /\ \A w \in Updates : Trying(w)' <=> Trying(w)
        /\ UNCHANGED <<phase, collector, by>>
    BY <1>0, <1>6 DEF Get, control, TypeOK, Trying
  <2> QED BY <2>1, HelpersSame, Targets DEF Collecting
<1>7. ASSUME NEW u \in Updates, Attempt(u)
      PROVE  \/ UNCHANGED <<phase, HelpersOf>>
             \/ u \in Runs /\ Helpers!Return(u, "setRun")
  <2>1. UNCHANGED phase
    BY <1>0, <1>7, AttemptEffect
  <2>2. ASSUME u \in Runs, Trying(u),
               HelpersOf' = [HelpersOf EXCEPT ![u] = @ \ {"setRun"}]
        PROVE  Helpers!Return(u, "setRun")
    <3>1. "setRun" \in HelpersOf[u] \ {"collector"}
      BY <2>2, InHelpers
    <3> QED BY <2>1, <2>2, <3>1 DEF Helpers!Return, HelpersOf
  <2> QED BY <1>0, <1>7, <2>1, <2>2, AttemptEndsHelper
<1>8. CASE Crash
  <2>1. /\ phase' \in [Runs -> {"new", "done", "lost"}]
        /\ \A r \in Runs : phase'[r] # phase[r] =>
                              phase'[r] = "lost" /\ phase[r] # "done"
    BY <1>0, <1>8 DEF Crash, TypeOK, Active
  <2>2. /\ \A u \in Updates : ~Trying(u)'
        /\ \A r \in Runs : collector'[r] = "none"
    BY <1>0, <1>8 DEF Crash, TypeOK, Trying
  <2>3. ASSUME NEW r \in Runs
        PROVE  {h \in {"collector", "setRun"} :
                   IF h = "setRun" THEN Trying(r)' ELSE Collecting(r)'} = {}
    BY <2>2, Targets DEF Collecting
  <2>4. HelpersOf' = [r \in Runs |-> {}]
    BY <2>3 DEF HelpersOf
  <2> QED BY <2>1, <2>4 DEF Helpers!Die, Helpers!Next, HelpersOf
<1>9. CASE UNCHANGED <<phase, collector, by, pc>>
  BY <1>9, HelpersKept
<1> QED BY <1>0, <1>1, <1>2, <1>3, <1>4, <1>5, <1>6, <1>7, <1>8, <1>9,
           TakeKeepsHelpers
        DEF Next, Collect, Update, Attempt, ModulePosts,
            GetStatusFromModules, DeleteCascadeRun, vars, updates, control,
            Helpers!Next

(* A collector and the goroutine of the final info start when WaitGroup    *)
(* says, the collector returns when it is told to, the other by itself,    *)
(* and the run is left when both have returned.                            *)
THEOREM CollectorsAreHelpers == Spec => UsesWaitGroup
<1>1. Init => Helpers!Init
  <2> SUFFICES ASSUME Init PROVE Helpers!Init
    OBVIOUS
  <2>1. ASSUME NEW r \in Runs PROVE HelpersOf[r] = {}
    <3>1. ~Trying(r) /\ ~Collecting(r)
      BY Targets DEF Init, Trying, Collecting
    <3> QED BY <3>1, InHelpers
  <2>2. HelpersOf = [r \in Runs |-> {}]
    BY <2>1 DEF HelpersOf
  <2>3. phase = [r \in Runs |-> "new"]
    BY DEF Init
  <2> QED BY <2>2, <2>3 DEF Helpers!Init, HelpersOf
<1>2. MeetInv /\ [Next]_vars => [Helpers!Next]_<<phase, HelpersOf>>
  BY HelpersStep
<1> QED BY <1>1, <1>2, MeetInvariant, PTL
        DEF Spec, UsesWaitGroup, Helpers!Spec, HelpersOf
=============================================================================
