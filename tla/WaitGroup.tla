------------------------------ MODULE WaitGroup ------------------------------
(***************************************************************************)
(* What a run and the goroutines it starts promise one another: the        *)
(* interface in which the models of the runs, of the status updates and of *)
(* the collectors meet.  A run starts some helpers as it begins and others *)
(* as it decides.  The collector returns when the run, having decided,     *)
(* tells it to, the others when they have done their work; the run is left *)
(* only when all of them have returned, or by the death of the process.    *)
(***************************************************************************)

CONSTANTS
    Runs,
    AtBegin,      \* the helpers a run starts as it begins
    AtDecision,   \* and those it starts as it decides
    Collector     \* the helper that returns when it is told to

VARIABLES
    phase,    \* new, running, stopping, draining, done or lost
    waiting   \* the helpers that have not returned

Init == /\ phase = [r \in Runs |-> "new"]
        /\ waiting = [r \in Runs |-> {}]

Advance(r, from, to) == /\ phase[r] = from
                        /\ phase' = [phase EXCEPT ![r] = to]

Begin(r) == /\ Advance(r, "new", "running")
            /\ waiting' = [waiting EXCEPT ![r] = AtBegin]

(* The helpers of the decision have not been started before; those of the  *)
(* beginning may still be at work.                                         *)
Decide(r) == /\ Advance(r, "running", "stopping")
             /\ waiting[r] \cap AtDecision = {}
             /\ waiting' = [waiting EXCEPT ![r] = @ \cup AtDecision]

(* The rendezvous on the channel stop: the collector is there and returns. *)
Stop(r) == /\ Advance(r, "stopping", "draining")
           /\ Collector \in waiting[r]
           /\ waiting' = [waiting EXCEPT ![r] = @ \ {Collector}]

Return(r, h) == /\ h \in waiting[r] \ {Collector}
                /\ waiting' = [waiting EXCEPT ![r] = @ \ {h}]
                /\ UNCHANGED phase

Leave(r) == /\ Advance(r, "draining", "done")
            /\ waiting[r] = {}
            /\ UNCHANGED waiting

(* The process dies, its goroutines with it.  Of the runs that have not    *)
(* begun it may take some along.                                           *)
Die == /\ phase' \in [Runs -> {"new", "done", "lost"}]
       /\ \A r \in Runs : phase'[r] # phase[r] =>
                             phase'[r] = "lost" /\ phase[r] # "done"
       /\ waiting' = [r \in Runs |-> {}]

Next == \/ \E r \in Runs : \/ Begin(r) \/ Decide(r) \/ Stop(r) \/ Leave(r)
                           \/ \E h \in AtBegin \cup AtDecision : Return(r, h)
        \/ Die

Spec == Init /\ [][Next]_<<phase, waiting>>
=============================================================================
