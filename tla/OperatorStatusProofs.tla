------------------------ MODULE OperatorStatusProofs ------------------------
(***************************************************************************)
(* Theorems about OperatorStatus, for any number of concurrent runs and of *)
(* attempts, with any calls failing and any replies lost.                  *)
(***************************************************************************)
EXTENDS OperatorStatus, FiniteSetTheorems, FunctionTheorems, TLAPS

----------------------------------------------------------------------------
(* The inductive invariant.                                                *)

(* A copy whose version is still current is the current status.            *)
FreshCopies ==
    \A g \in Goroutines : pc[g] = "update" =>
        /\ seenVer[g] <= version
        /\ seenVer[g] = version => seen[g] = status

(* A goroutine that still tries has not yet written in this attempt.       *)
AttemptsAhead ==
    \A g \in Goroutines, n \in Nat : <<g, n>> \in landed =>
        /\ pc[g] \in {"get", "update"} => n < attempt[g]
        /\ pc[g] # "none"

(* The write it knows of was that of its last attempt.                     *)
HeardIsLast ==
    \A g \in Goroutines, n \in Nat : <<g, n>> \in landed \ unheard =>
        pc[g] = "done" /\ n = attempt[g]

(* Goroutines are started by runs that have come that far.                 *)
ResultsDecided ==
    \A r \in Runs :
        /\ pc[<<r, "setActive">>] # "none" => phase[r] # "new"
        /\ pc[<<r, "setOperator">>] # "none"
              => phase[r] \in {"Success", "Failed"}

Tallies == IsFiniteSet(landed) /\ NoLostUpdate /\ ActiveBounds

StatusInv == /\ TypeOK /\ FreshCopies /\ AttemptsAhead
             /\ HeardIsLast /\ ResultsDecided /\ Tallies

LEMMA TalliesFinite ==
    ASSUME IsFiniteSet(landed)
    PROVE  /\ Cardinality(Activations) \in Nat /\ IsFiniteSet(Activations)
           /\ \A x : /\ IsFiniteSet(Results(x))
                     /\ Cardinality(Results(x)) \in Nat
<1>1. Activations \in SUBSET landed /\ \A x : Results(x) \in SUBSET landed
  BY DEF Activations, Results
<1>2. IsFiniteSet(Activations) /\ \A x : IsFiniteSet(Results(x))
  BY <1>1, FS_Subset
<1> QED BY <1>2, FS_CardinalityType

LEMMA StatusInit == Init => StatusInv
<1> SUFFICES ASSUME Init PROVE StatusInv
  OBVIOUS
<1>1. TypeOK /\ FreshCopies /\ AttemptsAhead /\ HeardIsLast /\ ResultsDecided
  BY RetriesAssumption
     DEF Init, TypeOK, FreshCopies, AttemptsAhead, HeardIsLast,
         ResultsDecided, Goroutines, Updates, Status, Zero
<1>2. Activations = {} /\ \A x : Results(x) = {}
  BY DEF Init, Activations, Results
<1>3. IsFiniteSet({}) /\ Cardinality({}) = 0
  BY FS_EmptySet
<1>4. Tallies
  BY <1>2, <1>3 DEF Tallies, NoLostUpdate, ActiveBounds, Init, Zero
<1> QED BY <1>1, <1>4 DEF StatusInv

(* A write adds itself to the landed ones, and to the tally it belongs to. *)
LEMMA WriteTallies ==
    ASSUME StatusInv, NEW g \in Goroutines, pc[g] = "update", Write(g)
    PROVE  /\ Tallies' /\ status' \in Status /\ version' \in Nat
           /\ landed' \subseteq Goroutines \X Nat
<1> DEFINE l == <<g, attempt[g]>>
<1>1. /\ status \in Status /\ status' = Changed(g, status)
      /\ landed' = landed \cup {l} /\ UNCHANGED phase
      /\ version' = version + 1 /\ version \in Nat
  BY DEF StatusInv, FreshCopies, Write, TypeOK
<1>2. attempt[g] \in Nat /\ l \in Goroutines \X Nat
  BY DEF StatusInv, TypeOK
<1>3. l \notin landed /\ l[1] = g
  BY <1>2 DEF StatusInv, AttemptsAhead
<1>4. IsFiniteSet(landed) /\ IsFiniteSet(landed')
  BY <1>1, FS_AddElement DEF StatusInv, Tallies
<1>5. /\ Cardinality(Activations) \in Nat /\ IsFiniteSet(Activations)
      /\ \A x : IsFiniteSet(Results(x)) /\ Cardinality(Results(x)) \in Nat
  BY <1>4, TalliesFinite
<1>6. /\ status.succeeded = Cardinality(Results("Success"))
      /\ status.failed = Cardinality(Results("Failed"))
      /\ status.active <= Cardinality(Activations)
      /\ Cardinality(Activations)
           <= status.active + Cardinality(Results("Success"))
                            + Cardinality(Results("Failed"))
      /\ status.active \in Nat /\ status.succeeded \in Nat
      /\ status.failed \in Nat
  BY <1>1 DEF StatusInv, Tallies, NoLostUpdate, ActiveBounds, Status
<1> HIDE DEF l
<1>7. CASE g[2] = "setActive"
  <2>1. /\ status' = [status EXCEPT !.active = @ + 1]
    BY <1>1, <1>7 DEF Changed
  <2>2. Activations' = Activations \cup {l} /\ l \notin Activations
    BY <1>1, <1>3, <1>7 DEF Activations
  <2>3. Results("Success")' = Results("Success")
        /\ Results("Failed")' = Results("Failed")
    BY <1>1, <1>3, <1>7 DEF Results
  <2>4. Cardinality(Activations') = Cardinality(Activations) + 1
    BY <1>5, <2>2, FS_AddElement
  <2>5. /\ status'.active = status.active + 1
        /\ status'.succeeded = status.succeeded
        /\ status'.failed = status.failed
        /\ status' \in Status
    BY <1>1, <2>1 DEF Status
  <2>6. NoLostUpdate' /\ ActiveBounds'
    BY <1>5, <1>6, <2>3, <2>4, <2>5 DEF NoLostUpdate, ActiveBounds
  <2> QED BY <1>1, <1>2, <1>4, <2>5, <2>6 DEF Tallies, StatusInv, TypeOK
<1>8. ASSUME g[2] = "setOperator", NEW x \in {"Success", "Failed"},
             phase[g[1]] = x
      PROVE  /\ Activations' = Activations
             /\ Cardinality(Results(x)') = Cardinality(Results(x)) + 1
             /\ \A y \in {"Success", "Failed"} : y # x =>
                   Results(y)' = Results(y)
  <2>1. Activations' = Activations
    BY <1>1, <1>3, <1>8 DEF Activations
  <2>2. Results(x)' = Results(x) \cup {l} /\ l \notin Results(x)
    BY <1>1, <1>3, <1>8 DEF Results
  <2>3. \A y \in {"Success", "Failed"} : y # x => Results(y)' = Results(y)
    BY <1>1, <1>3, <1>8 DEF Results
  <2> QED BY <1>5, <2>1, <2>2, <2>3, FS_AddElement
<1>9. CASE g[2] = "setOperator" /\ phase[g[1]] = "Success"
  <2> DEFINE act == IF status.active > 0 THEN status.active - 1
                    ELSE status.active
  <2>1. act \in Nat /\ status' = [status EXCEPT !.active = act,
                                              !.succeeded = @ + 1]
    BY <1>1, <1>6, <1>9 DEF Changed
  <2>2. /\ status'.active = act
        /\ status'.succeeded = status.succeeded + 1
        /\ status'.failed = status.failed
        /\ status' \in Status
    <3> DEFINE mid == [status EXCEPT !.active = act]
    <3>1. /\ mid \in Status /\ mid.active = act
          /\ mid.succeeded = status.succeeded /\ mid.failed = status.failed
      BY <1>1, <2>1 DEF Status
    <3>2. status' = [mid EXCEPT !.succeeded = @ + 1]
      BY <2>1
    <3> HIDE DEF act, mid
    <3> QED BY <3>1, <3>2 DEF Status
  <2>3. NoLostUpdate' /\ ActiveBounds'
    BY <1>5, <1>6, <1>8, <1>9, <2>2 DEF NoLostUpdate, ActiveBounds
  <2> QED BY <1>1, <1>2, <1>4, <2>2, <2>3 DEF Tallies, StatusInv, TypeOK
<1>10. CASE g[2] = "setOperator" /\ phase[g[1]] = "Failed"
  <2> DEFINE act == IF status.active > 0 THEN status.active - 1
                    ELSE status.active
  <2>1. act \in Nat /\ status' = [status EXCEPT !.active = act,
                                              !.failed = @ + 1]
    BY <1>1, <1>6, <1>10 DEF Changed
  <2>2. /\ status'.active = act
        /\ status'.succeeded = status.succeeded
        /\ status'.failed = status.failed + 1
        /\ status' \in Status
    <3> DEFINE mid == [status EXCEPT !.active = act]
    <3>1. /\ mid \in Status /\ mid.active = act
          /\ mid.succeeded = status.succeeded /\ mid.failed = status.failed
      BY <1>1, <2>1 DEF Status
    <3>2. status' = [mid EXCEPT !.failed = @ + 1]
      BY <2>1
    <3> HIDE DEF act, mid
    <3> QED BY <3>1, <3>2 DEF Status
  <2>3. NoLostUpdate' /\ ActiveBounds'
    BY <1>5, <1>6, <1>8, <1>10, <2>2 DEF NoLostUpdate, ActiveBounds
  <2> QED BY <1>1, <1>2, <1>4, <2>2, <2>3 DEF Tallies, StatusInv, TypeOK
<1>11. g[2] \in Updates /\ g[1] \in Runs /\ g = <<g[1], g[2]>>
  BY DEF Goroutines
<1>12. g[2] = "setOperator" => phase[g[1]] \in {"Success", "Failed"}
  BY <1>11 DEF StatusInv, ResultsDecided
<1> QED BY <1>7, <1>9, <1>10, <1>11, <1>12 DEF Updates

(* A goroutine is started: it has recorded nothing yet, and no result      *)
(* changes.                                                                *)
LEMMA StartKeeps ==
    ASSUME StatusInv, NEW r \in Runs, NEW u \in Updates,
           pc[<<r, u>>] = "none", Start(<<r, u>>),
           phase' \in [Runs -> {"new", "running", "Success", "Failed"}],
           \A q \in Runs : phase[q] \in {"Success", "Failed"}
                              => phase'[q] = phase[q],
           \A q \in Runs : phase'[q] = "new" => phase[q] = "new" /\ q # r,
           u = "setOperator" => phase'[r] \in {"Success", "Failed"}
    PROVE  StatusInv'
<1> DEFINE g == <<r, u>>
<1>1. /\ g \in Goroutines /\ pc' = [pc EXCEPT ![g] = "get"]
      /\ attempt' = [attempt EXCEPT ![g] = 1]
      /\ UNCHANGED <<seen, seenVer, status, version, landed, unheard>>
  BY DEF Start, object, Goroutines
<1>2. \A n \in Nat : <<g, n>> \notin landed
  BY <1>1 DEF StatusInv, AttemptsAhead
<1>3. TypeOK'
  BY <1>1 DEF StatusInv, TypeOK
<1>4. FreshCopies'
  BY <1>1 DEF StatusInv, TypeOK, FreshCopies
<1>5. AttemptsAhead' /\ HeardIsLast'
  BY <1>1, <1>2 DEF StatusInv, TypeOK, AttemptsAhead, HeardIsLast
<1>6. ResultsDecided'
  BY <1>1 DEF StatusInv, TypeOK, ResultsDecided, Goroutines, Updates
<1>7. /\ Activations' = Activations
      /\ Results("Success")' = Results("Success")
      /\ Results("Failed")' = Results("Failed")
  <2>1. \A l \in landed : l[1][2] = "setOperator" =>
            /\ l[1][1] \in Runs /\ phase[l[1][1]] \in {"Success", "Failed"}
    <3> SUFFICES ASSUME NEW l \in landed, l[1][2] = "setOperator"
                 PROVE  /\ l[1][1] \in Runs
                        /\ phase[l[1][1]] \in {"Success", "Failed"}
      OBVIOUS
    <3>1. /\ l[1] \in Goroutines /\ l[2] \in Nat /\ l = <<l[1], l[2]>>
          /\ l[1][1] \in Runs /\ l[1] = <<l[1][1], l[1][2]>>
      BY DEF StatusInv, TypeOK, Goroutines
    <3>2. pc[l[1]] # "none"
      BY <3>1 DEF StatusInv, AttemptsAhead
    <3> QED BY <3>1, <3>2 DEF StatusInv, ResultsDecided
  <2> QED BY <1>1, <2>1 DEF Activations, Results
<1>8. Tallies'
  BY <1>1, <1>7 DEF StatusInv, Tallies, NoLostUpdate, ActiveBounds
<1> QED BY <1>3, <1>4, <1>5, <1>6, <1>8 DEF StatusInv

(* An attempt ends without effect: the goroutine tries again or gives up.  *)
LEMMA FailureKeeps ==
    ASSUME StatusInv, NEW g \in Goroutines, CallFails(g)
    PROVE  StatusInv'
<1>1. /\ pc[g] \in {"get", "update"} /\ attempt[g] \in Nat
      /\ attempt' = [attempt EXCEPT ![g] = @ + 1]
      /\ \E x \in {"get", "done"} : pc' = [pc EXCEPT ![g] = x]
      /\ seen' = [seen EXCEPT ![g] = Zero]
      /\ seenVer' = [seenVer EXCEPT ![g] = 0]
      /\ UNCHANGED <<phase, status, version, landed, unheard>>
  BY DEF CallFails, Retry, Forget, object, StatusInv, TypeOK
<1>2. TypeOK'
  BY <1>1 DEF StatusInv, TypeOK, Status, Zero
<1>3. FreshCopies'
  BY <1>1 DEF StatusInv, TypeOK, FreshCopies
<1>4. AttemptsAhead' /\ HeardIsLast'
  BY <1>1 DEF StatusInv, TypeOK, AttemptsAhead, HeardIsLast
<1>5. ResultsDecided'
  BY <1>1 DEF StatusInv, TypeOK, ResultsDecided, Goroutines, Updates
<1>6. Tallies'
  BY <1>1 DEF StatusInv, Tallies, NoLostUpdate, ActiveBounds, Activations,
              Results
<1> QED BY <1>2, <1>3, <1>4, <1>5, <1>6 DEF StatusInv

(* A write makes every other copy stale; the writer ends its attempt.      *)
LEMMA WriteKeeps ==
    ASSUME StatusInv, NEW g \in Goroutines, UpdateStatus(g) \/ ReplyLost(g)
    PROVE  StatusInv'
<1>1. /\ pc[g] = "update" /\ Write(g) /\ attempt[g] \in Nat
      /\ version \in Nat /\ version' = version + 1 /\ UNCHANGED phase
      /\ landed' = landed \cup {<<g, attempt[g]>>}
      /\ seen' = [seen EXCEPT ![g] = Zero]
      /\ seenVer' = [seenVer EXCEPT ![g] = 0]
  BY DEF UpdateStatus, ReplyLost, Write, Retry, Forget, StatusInv, TypeOK
<1> DEFINE l == <<g, attempt[g]>>
<1>0. /\ pc' \in [Goroutines -> {"none", "get", "update", "done"}]
      /\ attempt' \in [Goroutines -> Nat]
      /\ \A h \in Goroutines \ {g} : pc'[h] = pc[h] /\ attempt'[h] = attempt[h]
      /\ \/ /\ pc'[g] = "done" /\ attempt'[g] = attempt[g]
            /\ unheard' = unheard
         \/ /\ pc'[g] \in {"get", "done"} /\ attempt'[g] = attempt[g] + 1
            /\ unheard' = unheard \cup {l}
  <2>1. CASE UpdateStatus(g)
    BY <2>1 DEF UpdateStatus, StatusInv, TypeOK
  <2>2. CASE ReplyLost(g)
    <3> DEFINE x == IF attempt[g] < Attempts(g) THEN "get" ELSE "done"
    <3>1. /\ x \in {"get", "done"} /\ pc' = [pc EXCEPT ![g] = x]
          /\ attempt' = [attempt EXCEPT ![g] = @ + 1]
          /\ unheard' = unheard \cup {l}
      BY <2>2 DEF ReplyLost, Retry
    <3> HIDE DEF x
    <3> QED BY <3>1 DEF StatusInv, TypeOK
  <2> QED BY <2>1, <2>2
<1>2. /\ Tallies' /\ status' \in Status /\ version' \in Nat
      /\ landed' \subseteq Goroutines \X Nat
  BY <1>1, WriteTallies
<1>3. TypeOK'
  <2>1. Zero \in Status
    BY DEF Zero, Status
  <2>2. seen' \in [Goroutines -> Status] /\ seenVer' \in [Goroutines -> Nat]
    BY <1>1, <2>1 DEF StatusInv, TypeOK
  <2>3. unheard' \subseteq landed'
    BY <1>0, <1>1 DEF StatusInv, TypeOK
  <2> QED BY <1>0, <1>1, <1>2, <2>2, <2>3 DEF StatusInv, TypeOK
<1>4. FreshCopies'
  BY <1>0, <1>1 DEF StatusInv, TypeOK, FreshCopies
<1>5. AttemptsAhead'
  <2> SUFFICES ASSUME NEW h \in Goroutines, NEW n \in Nat,
                      <<h, n>> \in landed'
               PROVE  /\ pc'[h] \in {"get", "update"} => n < attempt'[h]
                      /\ pc'[h] # "none"
    BY DEF AttemptsAhead
  <2>1. CASE h # g
    BY <1>0, <1>1, <2>1 DEF StatusInv, AttemptsAhead
  <2>2. CASE h = g
    <3>1. n = attempt[g] \/ n < attempt[g]
      BY <1>1, <2>2 DEF StatusInv, AttemptsAhead
    <3> QED BY <1>0, <1>1, <2>2, <3>1
  <2> QED BY <2>1, <2>2
<1>6. HeardIsLast'
  <2> SUFFICES ASSUME NEW h \in Goroutines, NEW n \in Nat,
                      <<h, n>> \in landed' \ unheard'
               PROVE  pc'[h] = "done" /\ n = attempt'[h]
    BY DEF HeardIsLast
  <2>1. CASE h # g
    BY <1>0, <1>1, <2>1 DEF StatusInv, HeardIsLast
  <2>2. CASE h = g
    <3>1. <<g, n>> \in landed => n # attempt[g] /\ <<g, n>> \in unheard
      BY <1>1 DEF StatusInv, AttemptsAhead, HeardIsLast
    <3> QED BY <1>0, <1>1, <2>2, <3>1
  <2> QED BY <2>1, <2>2
<1>7. ResultsDecided'
  BY <1>0, <1>1 DEF StatusInv, ResultsDecided, Goroutines, Updates
<1> QED BY <1>2, <1>3, <1>4, <1>5, <1>6, <1>7 DEF StatusInv

LEMMA GetKeeps ==
    ASSUME StatusInv, NEW g \in Goroutines, Get(g)
    PROVE  StatusInv'
<1>1. /\ pc[g] = "get" /\ pc' = [pc EXCEPT ![g] = "update"]
      /\ seen' = [seen EXCEPT ![g] = status]
      /\ seenVer' = [seenVer EXCEPT ![g] = version]
      /\ UNCHANGED <<phase, attempt, status, version, landed, unheard>>
  BY DEF Get, object
<1>2. TypeOK' /\ FreshCopies'
  BY <1>1 DEF StatusInv, TypeOK, FreshCopies
<1>3. ResultsDecided'
  BY <1>1 DEF StatusInv, TypeOK, ResultsDecided, Goroutines, Updates
<1>4. AttemptsAhead' /\ HeardIsLast'
  BY <1>1 DEF StatusInv, TypeOK, AttemptsAhead, HeardIsLast
<1>5. Tallies'
  BY <1>1 DEF StatusInv, Tallies, NoLostUpdate, ActiveBounds, Activations,
              Results
<1> QED BY <1>2, <1>3, <1>4, <1>5 DEF StatusInv

(* Every step keeps the invariant.                                         *)
LEMMA StatusNext == StatusInv /\ [Next]_vars => StatusInv'
<1> SUFFICES ASSUME StatusInv, [Next]_vars PROVE StatusInv'
  OBVIOUS
<1>1. ASSUME NEW r \in Runs, Begin(r) PROVE StatusInv'
  <2>1. /\ phase[r] = "new" /\ phase' = [phase EXCEPT ![r] = "running"]
        /\ Start(<<r, "setActive">>) /\ "setActive" \in Updates
    BY <1>1 DEF Begin, Updates
  <2>2. pc[<<r, "setActive">>] = "none"
    BY <2>1 DEF StatusInv, ResultsDecided
  <2>3. /\ phase' \in [Runs -> {"new", "running", "Success", "Failed"}]
        /\ \A q \in Runs : phase[q] \in {"Success", "Failed"}
                              => phase'[q] = phase[q]
        /\ \A q \in Runs : phase'[q] = "new" => phase[q] = "new" /\ q # r
    BY <2>1 DEF StatusInv, TypeOK
  <2> QED BY <2>1, <2>2, <2>3, StartKeeps
<1>2. ASSUME NEW r \in Runs, NEW result \in {"Success", "Failed"},
             Decide(r, result)
      PROVE  StatusInv'
  <2>1. /\ phase[r] = "running" /\ phase' = [phase EXCEPT ![r] = result]
        /\ Start(<<r, "setOperator">>) /\ "setOperator" \in Updates
    BY <1>2 DEF Decide, Updates
  <2>2. pc[<<r, "setOperator">>] = "none"
    BY <2>1 DEF StatusInv, ResultsDecided
  <2>3. /\ phase' \in [Runs -> {"new", "running", "Success", "Failed"}]
        /\ \A q \in Runs : phase[q] \in {"Success", "Failed"}
                              => phase'[q] = phase[q]
        /\ \A q \in Runs : phase'[q] = "new" => phase[q] = "new" /\ q # r
        /\ phase'[r] \in {"Success", "Failed"}
    BY <2>1 DEF StatusInv, TypeOK
  <2> QED BY <2>1, <2>2, <2>3, StartKeeps
<1>3. ASSUME NEW g \in Goroutines, Step(g) PROVE StatusInv'
  BY <1>3, GetKeeps, WriteKeeps, FailureKeeps DEF Step
<1>4. CASE UNCHANGED vars
  BY <1>4 DEF vars, StatusInv, TypeOK, FreshCopies, AttemptsAhead,
              HeardIsLast, ResultsDecided, Tallies, NoLostUpdate,
              ActiveBounds, Activations, Results
<1> QED BY <1>1, <1>2, <1>3, <1>4 DEF Next

LEMMA StatusAlways == Spec => []StatusInv
<1> QED BY StatusInit, StatusNext, PTL DEF Spec

----------------------------------------------------------------------------
(* The status stays a status: no interleaving of attempts, failures and    *)
(* lost replies drives a counter of the object below zero.                 *)
THEOREM StatusTyped == Spec => []TypeOK
<1>1. StatusInv => TypeOK
  BY DEF StatusInv
<1> QED BY <1>1, StatusAlways, PTL

(* The object counts exactly the recorded results that took effect: the    *)
(* version check makes the read-modify-write of every attempt atomic.      *)
THEOREM ResultsAreCounted == Spec => []NoLostUpdate
<1>1. StatusInv => NoLostUpdate
  BY DEF StatusInv, Tallies
<1> QED BY <1>1, StatusAlways, PTL

(* The active count never falls short of the activations not yet matched   *)
(* by a result, and never exceeds the activations.                         *)
THEOREM ActiveCountBounded == Spec => []ActiveBounds
<1>1. StatusInv => ActiveBounds
  BY DEF StatusInv, Tallies
<1> QED BY <1>1, StatusAlways, PTL

(* Of the writes of one goroutine at most one was acknowledged: that of    *)
(* its last attempt.                                                       *)
LEMMA AcknowledgedOnce ==
    ASSUME StatusInv, NEW l \in landed \ unheard, NEW m \in landed \ unheard,
           l[1] = m[1]
    PROVE  l = m
<1>1. /\ l = <<l[1], l[2]>> /\ l[1] \in Goroutines /\ l[2] \in Nat
      /\ m = <<m[1], m[2]>> /\ m[1] \in Goroutines /\ m[2] \in Nat
  BY DEF StatusInv, TypeOK
<1>2. l[2] = attempt[l[1]] /\ m[2] = attempt[m[1]]
  BY <1>1 DEF StatusInv, HeardIsLast
<1> QED BY <1>1, <1>2

(* Writes of one kind are as many as the runs that were told of theirs,    *)
(* and those of which no run was told.                                     *)
LEMMA ToldAndUnheard ==
    ASSUME StatusInv, NEW u, NEW X \in SUBSET landed,
           \A l \in X : l[1][2] = u
    PROVE  LET told == {r \in Runs : \E l \in X \ unheard : l[1] = <<r, u>>}
           IN  /\ Cardinality(X) = Cardinality(told)
                                     + Cardinality(X \cap unheard)
               /\ Cardinality(told) \in Nat
               /\ Cardinality(X \cap unheard) \in Nat
<1> DEFINE told  == {r \in Runs : \E l \in X \ unheard : l[1] = <<r, u>>}
           heard == X \ unheard
           run   == [l \in heard |-> l[1][1]]
<1>1. IsFiniteSet(X)
  BY FS_Subset DEF StatusInv, Tallies
<1>2. /\ IsFiniteSet(heard) /\ IsFiniteSet(X \cap unheard)
      /\ Cardinality(heard) = Cardinality(X) - Cardinality(X \cap unheard)
  BY <1>1, FS_Difference, FS_Subset
<1>3. \A l \in heard : l[1] = <<l[1][1], u>> /\ l[1][1] \in Runs
  BY DEF StatusInv, TypeOK, Goroutines
<1>4. run \in [heard -> told]
  BY <1>3
<1>5. \A l, m \in heard : run[l] = run[m] => l = m
  BY <1>3, AcknowledgedOnce
<1>6. \A r \in told : \E l \in heard : run[l] = r
  <2> SUFFICES ASSUME NEW r \in told PROVE \E l \in heard : run[l] = r
    OBVIOUS
  <2>1. PICK l \in heard : l[1] = <<r, u>>
    OBVIOUS
  <2> QED BY <2>1
<1> HIDE DEF run, heard, told
<1>7. run \in Bijection(heard, told)
  BY <1>4, <1>5, <1>6, Fun_IsBij
<1>8. Cardinality(told) = Cardinality(heard)
  BY <1>2, <1>7, FS_Bijection DEF ExistsBijection
<1>9. /\ Cardinality(X) \in Nat /\ Cardinality(X \cap unheard) \in Nat
      /\ Cardinality(heard) \in Nat
  BY <1>1, <1>2, FS_CardinalityType
<1> QED BY <1>2, <1>8, <1>9 DEF told

(* The counts of the object are off from what the runs know of by the      *)
(* replies that were lost, and by nothing else: no failure, conflict or    *)
(* retry makes a run count twice.                                          *)
THEOREM LostRepliesMiscount == Spec => []OnlyLostRepliesMiscount
<1>1. ASSUME StatusInv PROVE OnlyLostRepliesMiscount
  <2>1. ASSUME NEW x \in {"Success", "Failed"}
        PROVE  Cardinality(Results(x))
                 = Cardinality(Ended(x)) + Cardinality(Results(x) \cap unheard)
    <3>1. Results(x) \in SUBSET landed
          /\ \A l \in Results(x) : l[1][2] = "setOperator"
      BY DEF Results
    <3>2. Ended(x) = {r \in Runs : \E l \in Results(x) \ unheard :
                                      l[1] = <<r, "setOperator">>}
      BY DEF Ended, Told, Results
    <3>3. Cardinality(Results(x))
            = Cardinality({r \in Runs : \E l \in Results(x) \ unheard :
                                           l[1] = <<r, "setOperator">>})
              + Cardinality(Results(x) \cap unheard)
      BY <1>1, <3>1, ToldAndUnheard, Zenon
    <3> QED BY <3>2, <3>3
  <2>2. Cardinality(Activations) = Cardinality(Told("setActive"))
                                     + Cardinality(Activations \cap unheard)
    <3>1. Activations \in SUBSET landed
          /\ \A l \in Activations : l[1][2] = "setActive"
      BY DEF Activations
    <3>2. Told("setActive") = {r \in Runs : \E l \in Activations \ unheard :
                                               l[1] = <<r, "setActive">>}
      BY DEF Told, Activations
    <3>3. Cardinality(Activations)
            = Cardinality({r \in Runs : \E l \in Activations \ unheard :
                                           l[1] = <<r, "setActive">>})
              + Cardinality(Activations \cap unheard)
      BY <1>1, <3>1, ToldAndUnheard, Zenon
    <3> QED BY <3>2, <3>3
  <2> QED BY <1>1, <2>1, <2>2
          DEF StatusInv, Tallies, NoLostUpdate, ActiveBounds,
              OnlyLostRepliesMiscount
<1> QED BY <1>1, StatusAlways, PTL

----------------------------------------------------------------------------
(* Refinement of the atomic counter.                                       *)

(* The change of a result, in the words of RunCounts.                      *)
LEMMA ResultChanges ==
    ASSUME status \in Status, NEW r \in Runs, NEW g \in Goroutines,
           g = <<r, "setOperator">>, phase[r] \in {"Success", "Failed"}
    PROVE  Changed(g, status) =
             [active    |-> IF status.active > 0 THEN status.active - 1 ELSE 0,
              succeeded |-> status.succeeded
                            + IF phase[r] = "Success" THEN 1 ELSE 0,
              failed    |-> status.failed
                            + IF phase[r] = "Failed" THEN 1 ELSE 0]
<1> DEFINE act == IF status.active > 0 THEN status.active - 1
                  ELSE status.active
           mid == [status EXCEPT !.active = act]
<1>1. /\ act \in Nat
      /\ act = IF status.active > 0 THEN status.active - 1 ELSE 0
  BY DEF Status
<1>2. mid = [active |-> act, succeeded |-> status.succeeded,
             failed |-> status.failed]
  BY DEF Status
<1>3. CASE phase[r] = "Success"
  <2>1. Changed(g, status) = [mid EXCEPT !.succeeded = @ + 1]
    BY <1>3 DEF Changed
  <2>2. status.failed + 0 = status.failed
    BY DEF Status
  <2> HIDE DEF act, mid
  <2>3. [mid EXCEPT !.succeeded = @ + 1]
          = [active |-> act, succeeded |-> status.succeeded + 1,
             failed |-> status.failed]
    BY <1>2
  <2> QED BY <1>1, <1>3, <2>1, <2>2, <2>3
<1>4. CASE phase[r] = "Failed"
  <2>1. Changed(g, status) = [mid EXCEPT !.failed = @ + 1]
    BY <1>4 DEF Changed
  <2>2. status.succeeded + 0 = status.succeeded
    BY DEF Status
  <2> HIDE DEF act, mid
  <2>3. [mid EXCEPT !.failed = @ + 1]
          = [active |-> act, succeeded |-> status.succeeded,
             failed |-> status.failed + 1]
    BY <1>2
  <2> QED BY <1>1, <1>4, <2>1, <2>2, <2>3
<1> QED BY <1>3, <1>4

Confirmed == {l[1] : l \in landed \ unheard}

(* A write that takes effect is one atomic update, and is confirmed if its *)
(* reply is not lost.                                                      *)
LEMMA WriteCounts ==
    ASSUME StatusInv, NEW g \in Goroutines, UpdateStatus(g) \/ ReplyLost(g)
    PROVE  Counts!Next
<1> DEFINE l == <<g, attempt[g]>>
<1>1. /\ pc[g] = "update" /\ attempt[g] \in Nat /\ status \in Status
      /\ status' = Changed(g, status) /\ landed' = landed \cup {l}
      /\ unheard' = unheard \/ unheard' = unheard \cup {l}
      /\ UNCHANGED phase
  BY DEF UpdateStatus, ReplyLost, Write, StatusInv, TypeOK, FreshCopies
<1>2. l \notin landed /\ unheard \subseteq landed
  BY <1>1 DEF StatusInv, TypeOK, AttemptsAhead
<1>3. g \notin Confirmed
  <2> SUFFICES ASSUME NEW m \in landed \ unheard, m[1] = g PROVE FALSE
    BY DEF Confirmed
  <2>1. m = <<g, m[2]>> /\ m[2] \in Nat
    BY DEF StatusInv, TypeOK
  <2> QED BY <1>1, <2>1 DEF StatusInv, HeardIsLast
<1>4. Confirmed' = Confirmed \cup {g} \/ Confirmed' = Confirmed
  <2>1. CASE unheard' = unheard
    <3>1. landed' \ unheard' = (landed \ unheard) \cup {l}
      BY <1>1, <1>2, <2>1
    <3> QED BY <3>1 DEF Confirmed
  <2>2. CASE unheard' = unheard \cup {l}
    <3>1. landed' \ unheard' = landed \ unheard
      BY <1>1, <1>2, <2>2
    <3> QED BY <3>1 DEF Confirmed
  <2> QED BY <1>1, <2>1, <2>2
<1>5. PICK r \in Runs, u \in Updates : g = <<r, u>>
  BY DEF Goroutines
<1>6. Counts!Confirm(r, u)
  BY <1>1, <1>3, <1>4, <1>5 DEF Counts!Confirm, Confirmed
<1>7. CASE u = "setActive"
  <2>1. phase[r] # "new"
    BY <1>1, <1>5, <1>7 DEF StatusInv, ResultsDecided
  <2>2. status' = [status EXCEPT !.active = @ + 1]
    BY <1>1, <1>5, <1>7 DEF Changed
  <2> QED BY <1>6, <1>7, <2>1, <2>2 DEF Counts!SetActive, Counts!Next
<1>8. CASE u = "setOperator"
  <2>1. phase[r] \in {"Success", "Failed"}
    BY <1>1, <1>5, <1>8 DEF StatusInv, ResultsDecided
  <2>2. Counts!Result(r)
    BY <1>1, <1>5, <1>6, <1>8, <2>1, ResultChanges DEF Counts!Result
  <2> QED BY <2>2 DEF Counts!Next
<1> QED BY <1>5, <1>7, <1>8 DEF Updates

(* The object is the atomic counter of RunCounts: attempts that read old   *)
(* copies, fail, or are repeated, come to one update or none.              *)
THEOREM UpdatesAreAtomic == Spec => Implements
<1>1. Init => Counts!Init
  BY DEF Init, Counts!Init, Zero
<1>2. StatusInv /\ [Next]_vars
        => [Counts!Next]_<<phase, status, Confirmed>>
  <2> SUFFICES ASSUME StatusInv, [Next]_vars
               PROVE  Counts!Next \/ UNCHANGED <<phase, status, Confirmed>>
    OBVIOUS
  <2>1. ASSUME NEW r \in Runs, Begin(r) PROVE Counts!Next
    BY <2>1 DEF Begin, Start, object, Counts!Begin, Counts!Next
  <2>2. ASSUME NEW r \in Runs, NEW x \in {"Success", "Failed"}, Decide(r, x)
        PROVE  Counts!Next
    BY <2>2 DEF Decide, Start, object, Counts!Decide, Counts!Next
  <2>3. ASSUME NEW g \in Goroutines, Step(g)
        PROVE  Counts!Next \/ UNCHANGED <<phase, status, Confirmed>>
    <3>1. CASE Get(g) \/ CallFails(g)
      BY <3>1 DEF Get, CallFails, object, Confirmed
    <3> QED BY <2>3, <3>1, WriteCounts DEF Step
  <2>4. CASE UNCHANGED vars
    BY <2>4 DEF vars, Confirmed
  <2> QED BY <2>1, <2>2, <2>3, <2>4 DEF Next
<1> QED BY <1>1, <1>2, StatusAlways, PTL
        DEF Spec, Implements, Counts!Spec, Confirmed

----------------------------------------------------------------------------
(* The attempts are within the bound of the configuration.                 *)
AttemptsBounded ==
    \A g \in Goroutines :
        pc[g] \in {"get", "update"} => attempt[g] \in 1 .. Attempts(g)

LEMMA AttemptsNat == \A g \in Goroutines : Attempts(g) \in Nat \ {0}
BY RetriesAssumption DEF Attempts

(* What one step does to the calls that are left.                          *)
LEMMA CallsStep ==
    ASSUME StatusInv, AttemptsBounded, [Next]_vars, NEW g \in Goroutines
    PROVE  \/ pc'[g] = pc[g] /\ attempt'[g] = attempt[g]
           \/ pc[g] = "none" /\ pc'[g] = "get" /\ attempt'[g] = 1
           \/ pc[g] = "get" /\ pc'[g] = "update" /\ attempt'[g] = attempt[g]
           \/ /\ pc[g] \in {"get", "update"} /\ pc'[g] = "get"
              /\ attempt[g] < Attempts(g) /\ attempt'[g] = attempt[g] + 1
           \/ pc[g] \in {"get", "update"} /\ pc'[g] = "done"
<1>0. /\ pc \in [Goroutines -> {"none", "get", "update", "done"}]
      /\ attempt \in [Goroutines -> Nat]
  BY DEF StatusInv, TypeOK
<1>1. ASSUME NEW r \in Runs, NEW u \in Updates, Start(<<r, u>>),
             pc[<<r, u>>] = "none"
      PROVE  \/ pc'[g] = pc[g] /\ attempt'[g] = attempt[g]
             \/ pc[g] = "none" /\ pc'[g] = "get" /\ attempt'[g] = 1
  <2>1. <<r, u>> \in Goroutines
    BY DEF Goroutines
  <2> QED BY <1>0, <1>1, <2>1 DEF Start
<1>2. ASSUME NEW r \in Runs, Begin(r)
      PROVE  pc[<<r, "setActive">>] = "none" /\ Start(<<r, "setActive">>)
  BY <1>2 DEF Begin, StatusInv, ResultsDecided
<1>3. ASSUME NEW r \in Runs, NEW x, Decide(r, x)
      PROVE  pc[<<r, "setOperator">>] = "none" /\ Start(<<r, "setOperator">>)
  BY <1>3 DEF Decide, StatusInv, ResultsDecided
<1>4. ASSUME NEW h \in Goroutines, Step(h), h # g
      PROVE  pc'[g] = pc[g] /\ attempt'[g] = attempt[g]
  BY <1>0, <1>4 DEF Step, Get, UpdateStatus, CallFails, ReplyLost, Retry
<1>5. CASE Get(g)
  BY <1>0, <1>5 DEF Get
<1>6. CASE UpdateStatus(g)
  BY <1>0, <1>6 DEF UpdateStatus
<1>7. CASE CallFails(g) \/ ReplyLost(g)
  BY <1>0, <1>7 DEF CallFails, ReplyLost, Retry
<1>8. CASE UNCHANGED vars
  BY <1>8 DEF vars
<1> QED BY <1>1, <1>2, <1>3, <1>4, <1>5, <1>6, <1>7, <1>8
        DEF Next, Step, Updates

LEMMA AttemptsBoundedAlways == Spec => []AttemptsBounded
<1>1. Init => AttemptsBounded
  BY DEF Init, AttemptsBounded
<1>2. StatusInv /\ AttemptsBounded /\ [Next]_vars => AttemptsBounded'
  <2> SUFFICES ASSUME StatusInv, AttemptsBounded, [Next]_vars,
                      NEW g \in Goroutines, pc'[g] \in {"get", "update"}
               PROVE  attempt'[g] \in 1 .. Attempts(g)
    BY DEF AttemptsBounded, Attempts
  <2>1. attempt[g] \in Nat /\ Attempts(g) \in Nat \ {0}
    BY AttemptsNat DEF StatusInv, TypeOK
  <2>2. pc[g] \in {"get", "update"} => attempt[g] \in 1 .. Attempts(g)
    BY DEF AttemptsBounded
  <2> QED BY <2>1, <2>2, CallsStep
<1> QED BY <1>1, <1>2, StatusAlways, PTL DEF Spec

(* An update takes at most two calls for each attempt that the             *)
(* configuration allows, whatever fails, is lost, or is written meanwhile: *)
(* a helper that wg.Wait() waits for cannot go round for ever.             *)
THEOREM UpdatesRunOutOfCalls == Spec => CallsRunOut
<1>1. StatusInv /\ AttemptsBounded /\ [Next]_vars
        => [\A g \in Goroutines : pc'[g] # pc[g] \/ attempt'[g] # attempt[g] =>
               CallsLeft(g)' \in 0 .. CallsLeft(g) - 1]_vars
  <2> SUFFICES ASSUME StatusInv, AttemptsBounded, [Next]_vars,
                      NEW g \in Goroutines,
                      pc'[g] # pc[g] \/ attempt'[g] # attempt[g]
               PROVE  CallsLeft(g)' \in 0 .. CallsLeft(g) - 1
    OBVIOUS
  <2>1. attempt[g] \in Nat /\ Attempts(g) \in Nat \ {0}
    BY AttemptsNat DEF StatusInv, TypeOK
  <2>2. /\ pc[g] \in {"get", "update"} => attempt[g] \in 1 .. Attempts(g)
        /\ Attempts(g)' = Attempts(g)
    BY DEF AttemptsBounded, Attempts
  <2>3. /\ pc[g] = "none" => CallsLeft(g) = 2 * Attempts(g) + 1
        /\ pc[g] = "get" => CallsLeft(g) = 2 * (Attempts(g) - attempt[g]) + 2
        /\ pc[g] = "update" => CallsLeft(g) = 2 * (Attempts(g) - attempt[g]) + 1
    BY DEF CallsLeft
  <2>4. /\ pc'[g] = "get" =>
              CallsLeft(g)' = 2 * (Attempts(g) - attempt'[g]) + 2
        /\ pc'[g] = "update" =>
              CallsLeft(g)' = 2 * (Attempts(g) - attempt'[g]) + 1
        /\ pc'[g] = "done" => CallsLeft(g)' = 0
    BY <2>2 DEF CallsLeft
  <2> QED BY <2>1, <2>2, <2>3, <2>4, CallsStep
<1> QED BY <1>1, StatusAlways, AttemptsBoundedAlways, PTL DEF Spec, CallsRunOut
=============================================================================
