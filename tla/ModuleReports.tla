--------------------------- MODULE ModuleReports ---------------------------
(***************************************************************************)
(* How the results that modules report reach the CascadeRun objects.       *)
(*                                                                         *)
(* The pod of a module posts its result to the controller.  The handler    *)
(* (handlers/handlers.go:162-188) sends it on GlobalChannel, which is      *)
(* unbuffered and shared by all runs, and answers when it was taken.  Each *)
(* run has a goroutine, its collector (process/process.go:81-105), which   *)
(* takes reports, its own run's or another's, and appends them to the      *)
(* object they name, until the run tells it to stop.  As the run decides,  *)
(* another goroutine writes the final info into the same object (process/  *)
(* process.go:192-199, 219-227).  Both read the whole object, change the   *)
(* copy and write it back (k8sclient/k8sclient.go:324-371), with retries;  *)
(* the API server refuses a write that is not based on the current         *)
(* version.                                                                *)
(***************************************************************************)
EXTENDS Integers, Sequences, FiniteSets

CONSTANTS
    Runs,         \* the runs whose CascadeRun is created
    Reports,      \* the reports that modules may post
    Names,        \* the names of CascadeRun objects
    Name,         \* Name[r]: the scenario's name and IUid[0:5]
    RunName,      \* RunName[p]: the name that report p gives
    MaxRetries,   \* DefaultRetryConfig.MaxRetries
    MaxFaults,    \* bound on crashes, deletions, failed calls, lost replies
    None          \* no run; no info

ASSUME SetsAssumption == /\ IsFiniteSet(Runs)
                         /\ IsFiniteSet(Reports)
                         /\ Runs \cap Reports = {}
                         /\ None \notin Runs
ASSUME NamesAssumption == /\ Name \in [Runs -> Names]
                          /\ RunName \in [Reports -> Names]
ASSUME BoundsAssumption == MaxRetries \in Nat \ {0} /\ MaxFaults \in Nat

(* An update of a CascadeRun is named for what it writes: a report, or the *)
(* final info of a run.  SetCascadeRunStatus is called once before its     *)
(* retries, SetCascadeRunFinalStatus is retried from the start.            *)
Updates == Reports \cup Runs
Target(u) == IF u \in Reports THEN RunName[u] ELSE Name[u]
Attempts(u) == IF u \in Reports THEN 1 + MaxRetries ELSE MaxRetries

(* A CascadeRun: whether it exists, and its status.  The final info, the   *)
(* address of the run's package or "Failed", is represented by the run     *)
(* that decided it.                                                        *)
CascadeRun == [exists : BOOLEAN, result : Seq(Reports),
               info : Runs \cup {None}]
Absent  == [exists |-> FALSE, result |-> <<>>, info |-> None]
Created == [exists |-> TRUE,  result |-> <<>>, info |-> None]

VARIABLES
    phase,       \* where each run is
    collector,   \* where its collector is
    handler,     \* where the handler of each report is
    by,          \* the run whose collector took it
    pc,          \* where each update is in its attempt
    attempt,     \* the number of its attempt
    seen,        \* the object it has read
    seenVer,     \* and the version it had
    cascadeRun,  \* the objects
    version,     \* their resourceVersions
    landed,      \* history: <<update, attempt>> of the writes that took effect
    unheard,     \* history: those of them whose reply was lost
    ticket,      \* history: the place of each report among those taken
    overtime,    \* history: reports taken while the run waits to stop
    faults       \* crashes, deletions, failed calls and lost replies so far

control == <<phase, collector, handler, by>>
updates == <<pc, attempt, seen, seenVer>>
object  == <<cascadeRun, version, landed, unheard>>
notes   == <<ticket, overtime>>
vars    == <<control, updates, object, notes, faults>>

Active == {"running", "stopping", "draining"}

TypeOK ==
    /\ phase \in [Runs -> Active \cup {"new", "done", "lost"}]
    /\ collector \in [Runs -> {"none", "outer", "inner", "busy", "done"}]
    /\ handler \in [Reports -> {"none", "sending", "answered", "cut"}]
    /\ by \in [Reports -> Runs \cup {None}]
    /\ pc \in [Updates -> {"none", "get", "update", "done", "lost"}]
    /\ attempt \in [Updates -> Nat]
    /\ seen \in [Updates -> CascadeRun]
    /\ seenVer \in [Updates -> Nat]
    /\ cascadeRun \in [Names -> CascadeRun]
    /\ version \in [Names -> Nat]
    /\ landed \subseteq Updates \X Nat
    /\ unheard \subseteq landed
    /\ ticket \in [Reports -> Nat]
    /\ overtime \in [Runs -> Nat]
    /\ faults \in 0 .. MaxFaults

Init ==
    /\ phase = [r \in Runs |-> "new"]
    /\ collector = [r \in Runs |-> "none"]
    /\ handler = [p \in Reports |-> "none"]
    /\ by = [p \in Reports |-> None]
    /\ pc = [u \in Updates |-> "none"]
    /\ attempt = [u \in Updates |-> 0]
    /\ seen = [u \in Updates |-> Absent]
    /\ seenVer = [u \in Updates |-> 0]
    /\ cascadeRun = [n \in Names |-> Absent]
    /\ version = [n \in Names |-> 0]
    /\ landed = {}
    /\ unheard = {}
    /\ ticket = [p \in Reports |-> 0]
    /\ overtime = [r \in Runs |-> 0]
    /\ faults = 0

Fault == faults < MaxFaults /\ faults' = faults + 1

----------------------------------------------------------------------------
(* The run, as far as its CascadeRun and its collector see it.             *)

Start(u) ==
    /\ pc' = [pc EXCEPT ![u] = "get"]
    /\ attempt' = [attempt EXCEPT ![u] = 1]
    /\ UNCHANGED <<seen, seenVer>>

(* The object is created, then the collector is started.                   *)
Begin(r) ==
    /\ phase[r] = "new"
    /\ ~cascadeRun[Name[r]].exists
    /\ cascadeRun' = [cascadeRun EXCEPT ![Name[r]] = Created]
    /\ version' = [version EXCEPT ![Name[r]] = @ + 1]
    /\ phase' = [phase EXCEPT ![r] = "running"]
    /\ collector' = [collector EXCEPT ![r] = "outer"]
    /\ UNCHANGED <<handler, by, updates, landed, unheard, notes, faults>>

(* The run starts the goroutine that writes the final info and blocks in   *)
(* stop <- true.                                                           *)
Decide(r) ==
    /\ phase[r] = "running"
    /\ phase' = [phase EXCEPT ![r] = "stopping"]
    /\ Start(r)
    /\ UNCHANGED <<collector, handler, by, object, notes, faults>>

(* wg.Wait(): the collector has returned by now.                           *)
Exit(r) ==
    /\ phase[r] = "draining"
    /\ pc[r] = "done"
    /\ phase' = [phase EXCEPT ![r] = "done"]
    /\ UNCHANGED <<collector, handler, by, updates, object, notes, faults>>

----------------------------------------------------------------------------
(* The handler of POST /.                                                  *)

(* Whatever object a report names, the handler goes on to send it.         *)
GetStatusFromModules(p) ==
    /\ handler[p] = "none"
    /\ handler' = [handler EXCEPT ![p] = "sending"]
    /\ UNCHANGED <<phase, collector, by, updates, object, notes, faults>>

Waiting(p) == handler[p] = "sending"

----------------------------------------------------------------------------
(* The collector: two nested selects, each with a default.                 *)

(* Mutation of HearStop: it is heard while a report is being recorded.     *)
HearStopBusy(r) ==
    /\ collector[r] \in {"outer", "busy"}
    /\ phase[r] = "stopping"
    /\ collector' = [collector EXCEPT ![r] = "done"]
    /\ phase' = [phase EXCEPT ![r] = "draining"]
    /\ UNCHANGED <<handler, by, updates, object, notes, faults>>

(* case <-stop: the rendezvous with the run.                               *)
HearStop(r) ==
    /\ collector[r] = "outer"
    /\ phase[r] = "stopping"
    /\ collector' = [collector EXCEPT ![r] = "done"]
    /\ phase' = [phase EXCEPT ![r] = "draining"]
    /\ UNCHANGED <<handler, by, updates, object, notes, faults>>

PassStop(r) ==
    /\ collector[r] = "outer"
    /\ phase[r] # "stopping"
    /\ collector' = [collector EXCEPT ![r] = "inner"]
    /\ UNCHANGED <<phase, handler, by, updates, object, notes, faults>>

(* What taking a report does, besides keeping its collector busy.          *)
Receive(r, p) ==
    /\ collector[r] = "inner"
    /\ Waiting(p)
    /\ handler' = [handler EXCEPT ![p] = "answered"]
    /\ by' = [by EXCEPT ![p] = r]
    /\ Start(p)
    /\ ticket' = [ticket EXCEPT
                    ![p] = 1 + Cardinality({q \in Reports : by[q] # None})]
    /\ overtime' = [overtime EXCEPT
                      ![r] = IF phase[r] = "stopping" THEN @ + 1 ELSE @]
    /\ UNCHANGED <<phase, object, faults>>

(* Mutation of Take: each report is recorded by a goroutine of its own.    *)
TakeAsync(r, p) == /\ Receive(r, p)
                   /\ collector' = [collector EXCEPT ![r] = "outer"]

(* case result := <-GlobalChannel: the handler goes on and answers 200.    *)
Take(r, p) == /\ Receive(r, p)
              /\ collector' = [collector EXCEPT ![r] = "busy"]

(* Mutation of NoReport: without a default the inner select waits on.      *)
NoDefault(r) == FALSE

NoReport(r) ==
    /\ collector[r] = "inner"
    /\ ~\E p \in Reports : Waiting(p)
    /\ collector' = [collector EXCEPT ![r] = "outer"]
    /\ UNCHANGED <<phase, handler, by, updates, object, notes, faults>>

----------------------------------------------------------------------------
(* The updates.                                                            *)

(* Mutation of Changed: the final info is added to the results.            *)
ChangedResult(u, o) == [o EXCEPT !.result = Append(@, u)]

(* SetCascadeRunStatus and SetCascadeRunFinalStatus, on the copy.          *)
Changed(u, o) ==
    IF u \in Reports THEN [o EXCEPT !.result = Append(@, u)]
    ELSE [o EXCEPT !.info = u]

Get(u) ==
    /\ pc[u] = "get"
    /\ cascadeRun[Target(u)].exists
    /\ seen' = [seen EXCEPT ![u] = cascadeRun[Target(u)]]
    /\ seenVer' = [seenVer EXCEPT ![u] = version[Target(u)]]
    /\ pc' = [pc EXCEPT ![u] = "update"]
    /\ UNCHANGED <<control, attempt, object, notes, faults>>

(* Mutation of Write: the write is not conditional on the version.         *)
WriteBlind(u) ==
    /\ cascadeRun' = [cascadeRun EXCEPT ![Target(u)] = Changed(u, seen[u])]
    /\ version' = [version EXCEPT ![Target(u)] = @ + 1]
    /\ landed' = landed \cup {<<u, attempt[u]>>}

(* The write takes effect: the version it is based on is the current one.  *)
Write(u) ==
    /\ seenVer[u] = version[Target(u)]
    /\ cascadeRun' = [cascadeRun EXCEPT ![Target(u)] = Changed(u, seen[u])]
    /\ version' = [version EXCEPT ![Target(u)] = @ + 1]
    /\ landed' = landed \cup {<<u, attempt[u]>>}

(* The copy is a variable of the attempt.                                  *)
Forget(u) == /\ seen' = [seen EXCEPT ![u] = Absent]
             /\ seenVer' = [seenVer EXCEPT ![u] = 0]

(* Mutation of Finish: the collector tries the channel before stop.        *)
FinishInner(u) ==
    /\ pc' = [pc EXCEPT ![u] = "done"]
    /\ collector' = [r \in Runs |-> IF u \in Reports /\ by[u] = r
                                    THEN "inner" ELSE collector[r]]
    /\ UNCHANGED <<phase, handler, by>>

(* Mutation of Finish: the collector returns after a report.               *)
FinishReturn(u) ==
    /\ pc' = [pc EXCEPT ![u] = "done"]
    /\ collector' = [r \in Runs |-> IF u \in Reports /\ by[u] = r
                                    THEN "done" ELSE collector[r]]
    /\ UNCHANGED <<phase, handler, by>>

(* After its last attempt the collector of a report goes round its loop.   *)
Finish(u) ==
    /\ pc' = [pc EXCEPT ![u] = "done"]
    /\ collector' = [r \in Runs |-> IF u \in Reports /\ by[u] = r
                                    THEN "outer" ELSE collector[r]]
    /\ UNCHANGED <<phase, handler, by>>

(* Mutation of Retry: the first error is the last.                         *)
RetryNever(u) ==
    /\ Forget(u)
    /\ attempt' = [attempt EXCEPT ![u] = @ + 1]
    /\ Finish(u)

(* Mutation of Retry: one attempt more than the configuration allows.      *)
RetryOnceMore(u) ==
    /\ Forget(u)
    /\ attempt' = [attempt EXCEPT ![u] = @ + 1]
    /\ IF attempt[u] <= Attempts(u)
       THEN pc' = [pc EXCEPT ![u] = "get"] /\ UNCHANGED control
       ELSE Finish(u)

(* After an error the goroutine sleeps and tries again, or gives up.       *)
Retry(u) ==
    /\ Forget(u)
    /\ attempt' = [attempt EXCEPT ![u] = @ + 1]
    /\ IF attempt[u] < Attempts(u)
       THEN pc' = [pc EXCEPT ![u] = "get"] /\ UNCHANGED control
       ELSE Finish(u)

(* Mutation of UpdateStatus: the loop does not end with a success.         *)
UpdateStatusAgain(u) ==
    /\ pc[u] = "update"
    /\ Write(u)
    /\ Retry(u)
    /\ UNCHANGED <<unheard, notes, faults>>

UpdateStatus(u) ==
    /\ pc[u] = "update"
    /\ Write(u)
    /\ Forget(u)
    /\ Finish(u)
    /\ UNCHANGED <<attempt, unheard, notes, faults>>

(* The call is refused: the object is not there, or has changed since.     *)
Refused(u) == \/ pc[u] = "get" /\ ~cascadeRun[Target(u)].exists
              \/ pc[u] = "update" /\ seenVer[u] # version[Target(u)]

(* The call fails without effect: it is refused, or not served at all.     *)
CallFails(u) ==
    /\ pc[u] \in {"get", "update"}
    /\ (Refused(u) /\ UNCHANGED faults) \/ (~Refused(u) /\ Fault)
    /\ Retry(u)
    /\ UNCHANGED <<object, notes>>

(* The write takes effect and its reply is lost.                           *)
ReplyLost(u) ==
    /\ Fault
    /\ pc[u] = "update"
    /\ Write(u)
    /\ Retry(u)
    /\ unheard' = unheard \cup {<<u, attempt[u]>>}
    /\ UNCHANGED notes

----------------------------------------------------------------------------
(* The surroundings.                                                       *)

(* The pod of a run's module posts its report: the run has begun by then,  *)
(* and may have ended.                                                     *)
ModulePosts(p) ==
    /\ \E r \in Runs : Name[r] = RunName[p] /\ phase[r] # "new"
    /\ GetStatusFromModules(p)

(* A user deletes a CascadeRun; its name becomes free.                     *)
DeleteCascadeRun(n) ==
    /\ Fault
    /\ cascadeRun[n].exists
    /\ cascadeRun' = [cascadeRun EXCEPT ![n] = Absent]
    /\ version' = [version EXCEPT ![n] = @ + 1]
    /\ UNCHANGED <<control, updates, landed, unheard, notes>>

(* The process ends, its goroutines and connections with it; the next one  *)
(* has none of them, and modules may go on posting to it.                  *)
Crash ==
    /\ Fault
    /\ phase' = [r \in Runs |-> IF phase[r] \in Active THEN "lost"
                                ELSE phase[r]]
    /\ collector' = [r \in Runs |-> "none"]
    /\ handler' = [p \in Reports |-> IF Waiting(p) THEN "cut" ELSE handler[p]]
    /\ pc' = [u \in Updates |-> IF pc[u] \in {"get", "update"} THEN "lost"
                                ELSE pc[u]]
    /\ seen' = [u \in Updates |-> Absent]
    /\ seenVer' = [u \in Updates |-> 0]
    /\ UNCHANGED <<by, attempt, object, notes>>

----------------------------------------------------------------------------
Collect(r) == \/ HearStop(r) \/ PassStop(r) \/ NoReport(r)
              \/ \E p \in Reports : Take(r, p)

Update(u) == Get(u) \/ UpdateStatus(u) \/ CallFails(u) \/ ReplyLost(u)

Next == \/ \E r \in Runs : Begin(r) \/ Decide(r) \/ Exit(r) \/ Collect(r)
        \/ \E p \in Reports : ModulePosts(p)
        \/ \E u \in Updates : Update(u)
        \/ \E n \in Names : DeleteCascadeRun(n)
        \/ Crash

Spec == Init /\ [][Next]_vars

(* Goroutines are scheduled and calls return.  A run may take for ever to  *)
(* decide, and nobody needs to start one, to post or to delete.            *)
Fairness == /\ \A r \in Runs : WF_vars(Exit(r)) /\ WF_vars(Collect(r))
            /\ \A u \in Updates : WF_vars(Update(u))

FairSpec == Spec /\ Fairness

----------------------------------------------------------------------------
(* Properties.                                                             *)

(* The CascadeRuns are the records that RunRecords describes: results and  *)
(* final infos written by read-modify-writes of different goroutines, with *)
(* retries, never overwrite one another, none is lost once written, and a  *)
(* report goes to the object it names, whichever collector took it.        *)
Records == INSTANCE RunRecords
    WITH posted  <- {p \in Reports : handler[p] # "none"},
         decided <- {r \in Runs : pc[r] # "none"}

Implements == Records!Spec

(* The collector and the goroutine of the final info are helpers of the    *)
(* run as module WaitGroup has them.  A collector has not returned while a *)
(* report that it took is being recorded.                                  *)
Trying(u) == pc[u] \in {"get", "update"}
Collecting(r) == \/ collector[r] \in {"outer", "inner", "busy"}
                 \/ \E p \in Reports : by[p] = r /\ Trying(p)

Helpers == INSTANCE WaitGroup
    WITH AtBegin <- {"collector"}, AtDecision <- {"setRun"},
         Collector <- "collector",
         waiting <- [r \in Runs |->
                       {h \in {"collector", "setRun"} :
                          IF h = "setRun" THEN Trying(r) ELSE Collecting(r)}]

UsesWaitGroup == Helpers!Spec

(* The run that sends on stop finds a receiver: its collector is at one of *)
(* its selects, or it is trying to record one report, and that ends.       *)
StopFindsCollector ==
    \A r \in Runs : phase[r] = "stopping" =>
        \/ collector[r] \in {"outer", "inner"}
        \/ /\ collector[r] = "busy"
           /\ \E p \in Reports : by[p] = r /\ Trying(p)

(* Every call uses up one of the calls that the retries allow: neither a   *)
(* collector nor a run can be kept for ever by updates that fail.          *)
CallsLeft(u) ==
    CASE pc[u] = "none"             -> 2 * Attempts(u) + 1
      [] pc[u] = "get"              -> 2 * (Attempts(u) - attempt[u]) + 2
      [] pc[u] = "update"           -> 2 * (Attempts(u) - attempt[u]) + 1
      [] pc[u] \in {"done", "lost"} -> 0

CallsRunOut ==
    [][\A u \in Updates : pc'[u] # pc[u] \/ attempt'[u] # attempt[u] =>
                              CallsLeft(u)' \in 0 .. CallsLeft(u) - 1]_vars

(* An object shows a report once, and once more for each reply to a write  *)
(* of it that was lost (k8sclient/k8sclient.go:342): whatever fails, is in *)
(* conflict or is retried, the list never repeats a report otherwise, and  *)
(* repeats nothing that a collector knows to be written.                   *)
Acknowledged == {l[1] : l \in landed \ unheard}
Unheard(p) == {l \in unheard : l[1] = p}
Occurrences(p, n) ==
    {i \in DOMAIN cascadeRun[n].result : cascadeRun[n].result[i] = p}

OnlyLostRepliesRepeat ==
    \A p \in Reports, n \in Names :
        Cardinality(Occurrences(p, n))
            <= Cardinality(Unheard(p)) + IF p \in Acknowledged THEN 1 ELSE 0

(* No report that was answered with 200, and no final info, is dropped     *)
(* while an attempt is left: an update that is over has taken effect or    *)
(* spent every attempt.                                                    *)
NoneDropped ==
    \A u \in Updates : pc[u] = "done" =>
        (\E l \in landed : l[1] = u) \/ attempt[u] > Attempts(u)

(* The results that one collector recorded stand in the order in which it  *)
(* took the reports, whatever was retried.                                 *)
InOrder ==
    \A n \in Names : \A i, j \in DOMAIN cascadeRun[n].result :
        LET p == cascadeRun[n].result[i]
            q == cascadeRun[n].result[j]
        IN  i < j /\ by[p] = by[q] => ticket[p] <= ticket[q]

(* Stop has precedence: a run that waits for its collector to stop waits   *)
(* for one more report at most, though reports keep coming.                *)
StopHeardSoon == \A r \in Runs : overtime[r] <= 1

(* A run is only counted out when all that its goroutines had to write is  *)
(* written or given up: the reports its collector took and its final info. *)
FlushedAtExit ==
    \A r \in Runs : phase[r] = "done" =>
        /\ pc[r] = "done"
        /\ \A p \in Reports : by[p] = r => pc[p] = "done"

(* Again and again the controller comes to rest: every run that decided    *)
(* has ended, its collector busy or not, and no handler waits while there  *)
(* is a collector to take its report.                                      *)
ComesToRest ==
    []<>/\ \A r \in Runs : phase[r] \notin {"stopping", "draining"}
        /\ (\E p \in Reports : Waiting(p)) =>
              \A r \in Runs : collector[r] \in {"none", "done"}

(* A report is answered, or the process ends.                              *)
EveryReportAnswered == \A p \in Reports : Waiting(p) ~> ~Waiting(p)
=============================================================================
