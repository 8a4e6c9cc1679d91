--------------------------- MODULE OperatorStatus ---------------------------
(***************************************************************************)
(* The status of the CascadeAutoOperator object, which counts the runs of  *)
(* the scenario: active, succeeded and failed.  Every run updates it from  *)
(* two goroutines of its own, one that counts it as active, started as the *)
(* run begins (process/process.go:107), and one that records its result,   *)
(* started as it decides (185, 213).  Each makes a bounded number of       *)
(* attempts (process/retry.go); an attempt reads the whole object, changes *)
(* the copy and writes it back (k8sclient/k8sclient.go:215-281), and the   *)
(* API server refuses a write whose resourceVersion is not the current one.*)
(*                                                                         *)
(* Other parts of the controller, the finalizer's removal among them, and  *)
(* other clients write the same object but not this status: they make a    *)
(* write fail with a conflict, which is one of the failures of a call.     *)
(* When the process dies its goroutines take no more steps, as any         *)
(* goroutine may under Spec, which assumes no fairness.                    *)
(***************************************************************************)
EXTENDS Integers, FiniteSets

CONSTANTS
    Runs,         \* the runs that reach their first stage
    MaxRetries    \* DefaultRetryConfig.MaxRetries

ASSUME RunsAssumption    == IsFiniteSet(Runs)
ASSUME RetriesAssumption == MaxRetries \in Nat \ {0}

(* A goroutine is named for the helper it calls; SetActiveCRDStatus is     *)
(* called once before its retries, the others are retried from the start.  *)
Updates == {"setActive", "setOperator"}
Goroutines == Runs \X Updates
Attempts(g) == IF g[2] = "setActive" THEN 1 + MaxRetries ELSE MaxRetries

Status == [active: Nat, succeeded: Nat, failed: Nat]

VARIABLES
    phase,    \* what each run has come to: new, running, Success, Failed
    pc,       \* where each goroutine is in its attempt
    attempt,  \* the number of its attempt
    seen,     \* the status it has read
    seenVer,  \* and the version it had
    status,   \* the status in the object
    version,  \* its resourceVersion
    landed,   \* history: <<goroutine, attempt>> of the writes that took effect
    unheard   \* history: those of them whose reply was lost

vars == <<phase, pc, attempt, seen, seenVer, status, version, landed, unheard>>

TypeOK ==
    /\ phase \in [Runs -> {"new", "running", "Success", "Failed"}]
    /\ pc \in [Goroutines -> {"none", "get", "update", "done"}]
    /\ attempt \in [Goroutines -> Nat]
    /\ seen \in [Goroutines -> Status]
    /\ seenVer \in [Goroutines -> Nat]
    /\ status \in Status
    /\ version \in Nat
    /\ landed \subseteq Goroutines \X Nat
    /\ unheard \subseteq landed

Zero == [active |-> 0, succeeded |-> 0, failed |-> 0]

Init ==
    /\ phase = [r \in Runs |-> "new"]
    /\ pc = [g \in Goroutines |-> "none"]
    /\ attempt = [g \in Goroutines |-> 0]
    /\ seen = [g \in Goroutines |-> Zero]
    /\ seenVer = [g \in Goroutines |-> 0]
    /\ status = Zero
    /\ version = 0
    /\ landed = {}
    /\ unheard = {}

object == <<status, version, landed, unheard>>

----------------------------------------------------------------------------
(* Mutation of Changed: the active count is decremented unconditionally.   *)
ChangedUnguarded(g, s) ==
    IF g[2] = "setActive" THEN [s EXCEPT !.active = @ + 1]
    ELSE IF phase[g[1]] = "Success"
         THEN [s EXCEPT !.active = @ - 1, !.succeeded = @ + 1]
         ELSE [s EXCEPT !.active = @ - 1, !.failed = @ + 1]

(* What the update of a goroutine makes of the status it has read; the     *)
(* number of active runs is not decremented below zero.                    *)
Changed(g, s) ==
    IF g[2] = "setActive" THEN [s EXCEPT !.active = @ + 1]
    ELSE IF phase[g[1]] = "Success"
         THEN [s EXCEPT !.active = IF @ > 0 THEN @ - 1 ELSE @,
                        !.succeeded = @ + 1]
         ELSE [s EXCEPT !.active = IF @ > 0 THEN @ - 1 ELSE @,
                        !.failed = @ + 1]

Start(g) ==
    /\ pc' = [pc EXCEPT ![g] = "get"]
    /\ attempt' = [attempt EXCEPT ![g] = 1]
    /\ UNCHANGED <<seen, seenVer, object>>

Begin(r) ==
    /\ phase[r] = "new"
    /\ phase' = [phase EXCEPT ![r] = "running"]
    /\ Start(<<r, "setActive">>)

(* The run decides, whether or not it has been counted as active by then.  *)
Decide(r, result) ==
    /\ phase[r] = "running"
    /\ phase' = [phase EXCEPT ![r] = result]
    /\ Start(<<r, "setOperator">>)

Get(g) ==
    /\ pc[g] = "get"
    /\ seen' = [seen EXCEPT ![g] = status]
    /\ seenVer' = [seenVer EXCEPT ![g] = version]
    /\ pc' = [pc EXCEPT ![g] = "update"]
    /\ UNCHANGED <<phase, attempt, object>>

(* Mutation of Write: the write is not conditional on the version.         *)
WriteBlind(g) ==
    /\ status' = Changed(g, seen[g])
    /\ version' = version + 1
    /\ landed' = landed \cup {<<g, attempt[g]>>}
    /\ UNCHANGED phase

(* The write takes effect: the version it is based on is the current one.  *)
Write(g) ==
    /\ seenVer[g] = version
    /\ status' = Changed(g, seen[g])
    /\ version' = version + 1
    /\ landed' = landed \cup {<<g, attempt[g]>>}
    /\ UNCHANGED phase

(* The copy is a variable of the attempt.                                  *)
Forget(g) == /\ seen' = [seen EXCEPT ![g] = Zero]
             /\ seenVer' = [seenVer EXCEPT ![g] = 0]

(* Mutation of Retry: the attempts are not counted.                        *)
RetryForever(g) ==
    /\ Forget(g)
    /\ pc' = [pc EXCEPT ![g] = "get"]
    /\ UNCHANGED attempt

(* Mutation of Retry: one attempt more than the configuration allows.      *)
RetryOnceMore(g) ==
    /\ Forget(g)
    /\ attempt' = [attempt EXCEPT ![g] = @ + 1]
    /\ pc' = [pc EXCEPT ![g] = IF attempt[g] <= Attempts(g)
                               THEN "get" ELSE "done"]

(* After an error the goroutine sleeps and tries again, or gives up.       *)
Retry(g) ==
    /\ Forget(g)
    /\ attempt' = [attempt EXCEPT ![g] = @ + 1]
    /\ pc' = [pc EXCEPT ![g] = IF attempt[g] < Attempts(g)
                               THEN "get" ELSE "done"]

(* Mutation of UpdateStatus: the loop does not end with a success.         *)
UpdateStatusAgain(g) ==
    /\ pc[g] = "update"
    /\ Write(g)
    /\ Retry(g)
    /\ UNCHANGED unheard

UpdateStatus(g) ==
    /\ pc[g] = "update"
    /\ Write(g)
    /\ Forget(g)
    /\ pc' = [pc EXCEPT ![g] = "done"]
    /\ UNCHANGED <<attempt, unheard>>

(* The call fails without effect: the server is not reached, the object is *)
(* not found, or the version is not the current one.                       *)
CallFails(g) ==
    /\ pc[g] \in {"get", "update"}
    /\ Retry(g)
    /\ UNCHANGED <<phase, object>>

(* The write takes effect and its reply is lost.                           *)
ReplyLost(g) ==
    /\ pc[g] = "update"
    /\ Write(g)
    /\ Retry(g)
    /\ unheard' = unheard \cup {<<g, attempt[g]>>}

Step(g) == Get(g) \/ UpdateStatus(g) \/ CallFails(g) \/ ReplyLost(g)

Next == \/ \E r \in Runs : \/ Begin(r)
                           \/ Decide(r, "Success")
                           \/ Decide(r, "Failed")
        \/ \E g \in Goroutines : Step(g)

Spec == Init /\ [][Next]_vars
FairSpec == Spec /\ \A g \in Goroutines : WF_vars(Step(g))

----------------------------------------------------------------------------
(* Properties.  The writes that took effect, by what they record:          *)
Activations == {l \in landed : l[1][2] = "setActive"}
Results(result) == {l \in landed : /\ l[1][2] = "setOperator"
                                   /\ phase[l[1][1]] = result}

(* Updates of concurrent runs never overwrite one another: the object      *)
(* counts every recorded result that took effect, exactly.                 *)
NoLostUpdate ==
    /\ status.succeeded = Cardinality(Results("Success"))
    /\ status.failed = Cardinality(Results("Failed"))

(* The active count lies between the activations not yet matched by a      *)
(* result and all the activations: it may leak upwards, when a result is   *)
(* recorded before its activation, but never falls short.                  *)
ActiveBounds ==
    /\ status.active <= Cardinality(Activations)
    /\ Cardinality(Activations)
         <= status.active + Cardinality(Results("Success"))
                          + Cardinality(Results("Failed"))

(* A count is wrong only by replies that were lost: it is the number of    *)
(* runs whose write was acknowledged, each once however often it was tried *)
(* (process/retry.go:33), and the writes that took effect unheard.  These  *)
(* may be made again, acknowledged ones are not.  The active count is at   *)
(* most that, for results lower it.                                        *)
Told(u) == {r \in Runs : \E l \in landed \ unheard : l[1] = <<r, u>>}
Ended(result) == {r \in Told("setOperator") : phase[r] = result}

OnlyLostRepliesMiscount ==
    /\ status.succeeded = Cardinality(Ended("Success"))
                           + Cardinality(Results("Success") \cap unheard)
    /\ status.failed = Cardinality(Ended("Failed"))
                        + Cardinality(Results("Failed") \cap unheard)
    /\ status.active <= Cardinality(Told("setActive"))
                        + Cardinality(Activations \cap unheard)

(* The object is the counter that RunCounts describes: the attempts of an  *)
(* update amount to one atomic update, or to none.                         *)
Counts == INSTANCE RunCounts WITH confirmed <- {l[1] : l \in landed \ unheard}

Implements == Counts!Spec

(* Every call uses up one of the calls that the retries allow, failed or   *)
(* not, whatever other runs do: an update cannot go on for ever.           *)
CallsLeft(g) ==
    CASE pc[g] = "none"   -> 2 * Attempts(g) + 1
      [] pc[g] = "get"    -> 2 * (Attempts(g) - attempt[g]) + 2
      [] pc[g] = "update" -> 2 * (Attempts(g) - attempt[g]) + 1
      [] pc[g] = "done"   -> 0

CallsRunOut ==
    [][\A g \in Goroutines :
          pc'[g] # pc[g] \/ attempt'[g] # attempt[g] =>
              CallsLeft(g)' \in 0 .. CallsLeft(g) - 1]_vars

(* What wg.Wait() relies on: the status updates of a run come to an end.   *)
UpdatesEnd ==
    \A g \in Goroutines :
        phase[g[1]] \in {"Success", "Failed"} ~> pc[g] = "done"

(* When every run has ended and each of its updates took effect once, no   *)
(* run is counted as active.                                               *)
NoneLeftActive ==
    (\A g \in Goroutines : /\ phase[g[1]] \in {"Success", "Failed"}
                           /\ pc[g] = "done"
                           /\ Cardinality({l \in landed : l[1] = g}) = 1)
        => status.active = 0
=============================================================================
