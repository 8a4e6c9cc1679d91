------------------------------ MODULE RunCounts ------------------------------
(***************************************************************************)
(* What the controller promises of the status of the CascadeAutoOperator:  *)
(* it is a counter that every run updates atomically, once as it begins    *)
(* and once with its result.  An update whose confirmation is lost may be  *)
(* made again; one that was confirmed is not.  Nothing here speaks of      *)
(* copies, versions or attempts.                                           *)
(***************************************************************************)
EXTENDS Integers

CONSTANT Runs

VARIABLES
    phase,      \* what each run has come to: new, running, Success, Failed
    status,     \* the counts
    confirmed   \* <<r, u>>: run r knows that its update u has been made

Init == /\ phase = [r \in Runs |-> "new"]
        /\ status = [active |-> 0, succeeded |-> 0, failed |-> 0]
        /\ confirmed = {}

Begin(r) == /\ phase[r] = "new"
            /\ phase' = [phase EXCEPT ![r] = "running"]
            /\ UNCHANGED <<status, confirmed>>

Decide(r) == /\ phase[r] = "running"
             /\ \E x \in {"Success", "Failed"} : phase' = [phase EXCEPT ![r] = x]
             /\ UNCHANGED <<status, confirmed>>

Confirm(r, u) == /\ <<r, u>> \notin confirmed
                 /\ \/ confirmed' = confirmed \cup {<<r, u>>}
                    \/ UNCHANGED confirmed
                 /\ UNCHANGED phase

(* A run that has begun is counted as active.                              *)
SetActive(r) ==
    /\ phase[r] # "new"
    /\ status' = [status EXCEPT !.active = @ + 1]
    /\ Confirm(r, "setActive")

(* A run that has decided gives the place it has taken, if it has, to its  *)
(* result.                                                                 *)
Result(r) ==
    /\ phase[r] \in {"Success", "Failed"}
    /\ status' = [active    |-> IF status.active > 0 THEN status.active - 1
                                ELSE 0,
                  succeeded |-> status.succeeded
                                + IF phase[r] = "Success" THEN 1 ELSE 0,
                  failed    |-> status.failed
                                + IF phase[r] = "Failed" THEN 1 ELSE 0]
    /\ Confirm(r, "setOperator")

Next == \E r \in Runs : Begin(r) \/ Decide(r) \/ SetActive(r) \/ Result(r)

Spec == Init /\ [][Next]_<<phase, status, confirmed>>
=============================================================================
