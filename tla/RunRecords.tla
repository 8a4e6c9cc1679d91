----------------------------- MODULE RunRecords -----------------------------
(***************************************************************************)
(* What the controller promises of the CascadeRun objects: each is a       *)
(* record of one run that only grows.  A report that was posted is added   *)
(* at the end of the results of the object it names, one at a time, and a  *)
(* run that has decided puts its outcome into the object of its name; a    *)
(* result and an outcome never overwrite one another.                      *)
(***************************************************************************)
EXTENDS Sequences

CONSTANTS
    Runs,      \* the runs of the controller
    Reports,   \* the module reports posted to it
    Names,     \* the names of CascadeRun objects
    Name,      \* the name of a run's object
    RunName,   \* the name that a report gives
    None       \* no info

VARIABLES
    cascadeRun,  \* the objects
    posted,      \* the reports that reached the controller
    decided      \* the runs that have come to a result

Absent  == [exists |-> FALSE, result |-> <<>>, info |-> None]
Created == [exists |-> TRUE,  result |-> <<>>, info |-> None]

Init == /\ cascadeRun = [n \in Names |-> Absent]
        /\ posted = {}
        /\ decided = {}

Create(r) ==
    /\ ~cascadeRun[Name[r]].exists
    /\ cascadeRun' = [cascadeRun EXCEPT ![Name[r]] = Created]
    /\ UNCHANGED <<posted, decided>>

Delete(n) ==
    /\ cascadeRun[n].exists
    /\ cascadeRun' = [cascadeRun EXCEPT ![n] = Absent]
    /\ UNCHANGED <<posted, decided>>

Post(p) ==
    /\ p \notin posted
    /\ posted' = posted \cup {p}
    /\ UNCHANGED <<cascadeRun, decided>>

Decide(r) ==
    /\ r \notin decided
    /\ decided' = decided \cup {r}
    /\ UNCHANGED <<cascadeRun, posted>>

Record(p) ==
    /\ p \in posted
    /\ cascadeRun[RunName[p]].exists
    /\ cascadeRun' = [cascadeRun EXCEPT ![RunName[p]].result = Append(@, p)]
    /\ UNCHANGED <<posted, decided>>

Finish(r) ==
    /\ r \in decided
    /\ cascadeRun[Name[r]].exists
    /\ cascadeRun' = [cascadeRun EXCEPT ![Name[r]].info = r]
    /\ UNCHANGED <<posted, decided>>

Next == \/ \E r \in Runs : \/ Create(r)
                           \/ Finish(r)
                           \/ Decide(r)
        \/ \E p \in Reports : Post(p) \/ Record(p)
        \/ \E n \in Names : Delete(n)

Spec == Init /\ [][Next]_<<cascadeRun, posted, decided>>
=============================================================================
