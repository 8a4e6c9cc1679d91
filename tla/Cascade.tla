------------------------------ MODULE Cascade ------------------------------
(***************************************************************************)
(* What a cascade run promises, seen from outside the controller.          *)
(*                                                                         *)
(* A request names a scenario: a fixed sequence of stages, each executed   *)
(* by one Kubernetes Job.  The controller promises that the stages of a    *)
(* run are executed in the order of the scenario, each of them only once   *)
(* its predecessors have completed, that a run is reported as successful   *)
(* only when all its stages completed, and that it is reported as failed   *)
(* only because of a stage that was started and did not complete.  Nothing *)
(* here speaks of polling, of job names or of the controller's restarts.   *)
(***************************************************************************)
EXTENDS Naturals

CONSTANTS Runs,       \* the requests that POST /run accepts
          NumStages   \* the number of modules of the scenario

Stages == 0 .. NumStages - 1

VARIABLES created,    \* <<r, k>>: the job of stage k of run r has been created
          completed,  \* <<r, k>>: a pod of that job has succeeded
          outcome     \* what the controller reports of a run

vars == <<created, completed, outcome>>

TypeOK == /\ created   \subseteq Runs \X Stages
          /\ completed \subseteq Runs \X Stages
          /\ outcome \in [Runs -> {"none", "Success", "Failed"}]

Init == /\ created = {}
        /\ completed = {}
        /\ outcome = [r \in Runs |-> "none"]

(* The next stage of a run starts: every earlier one has completed.        *)
Launch(r, k) ==
    /\ outcome[r] = "none"
    /\ <<r, k>> \notin created
    /\ \A j \in 0 .. k - 1 : <<r, j>> \in completed
    /\ created' = created \cup {<<r, k>>}
    /\ UNCHANGED <<completed, outcome>>

(* A started stage completes; it may do so after the run was given up.     *)
Complete(r, k) ==
    /\ <<r, k>> \in created \ completed
    /\ completed' = completed \cup {<<r, k>>}
    /\ UNCHANGED <<created, outcome>>

Succeed(r) ==
    /\ outcome[r] = "none"
    /\ \A k \in Stages : <<r, k>> \in completed
    /\ outcome' = [outcome EXCEPT ![r] = "Success"]
    /\ UNCHANGED <<created, completed>>

Fail(r) ==
    /\ outcome[r] = "none"
    /\ \E k \in Stages : <<r, k>> \in created \ completed
    /\ outcome' = [outcome EXCEPT ![r] = "Failed"]
    /\ UNCHANGED <<created, completed>>

Next == \E r \in Runs : \/ \E k \in Stages : Launch(r, k) \/ Complete(r, k)
                        \/ Succeed(r)
                        \/ Fail(r)

Spec == Init /\ [][Next]_vars
=============================================================================
