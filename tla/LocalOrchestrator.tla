-------------------------- MODULE LocalOrchestrator -------------------------
(***************************************************************************)
(* The in-process orchestrator (libs/orchestration/local.py).  submit_run  *)
(* records a run and schedules the coroutine _execute_run; the coroutine   *)
(* executes the run's graph batch by batch, a batch being every node whose *)
(* upstream nodes have all been executed, and waits for each batch with    *)
(* asyncio.gather.  A node is executed by a thread of a pool that all runs *)
(* share.  cancel_run and get_status run on the same event loop, between   *)
(* two steps of the coroutine.                                             *)
(*                                                                         *)
(* The event loop makes everything between two awaits one step: Begin and  *)
(* Resume are the two points where _execute_run gets the processor.        *)
(***************************************************************************)
EXTENDS Naturals, FiniteSets

CONSTANTS
    Run,          \* identifiers of submitted runs
    Node,         \* identifiers of graph nodes
    GraphOf,      \* GraphOf[r] maps the nodes of r's graph to their upstreams
    MaxWorkers,   \* threads of the pool
    MaxRestarts   \* bound: how often the process is restarted

ASSUME GraphAssumption ==
    GraphOf \in [Run -> UNION {[S -> SUBSET S] : S \in SUBSET Node}]

ASSUME BoundsAssumption ==
    /\ IsFiniteSet(Run) /\ IsFiniteSet(Node)
    /\ MaxWorkers \in Nat \ {0}
    /\ MaxRestarts \in Nat

VARIABLES
    status,       \* LocalRunState.status; "unknown" when there is no state
    cancelled,    \* LocalRunState.cancelled
    task,         \* where the coroutine _execute_run of the run stands
    node,         \* progress of every node of every run
    restarts

vars == <<status, cancelled, task, node, restarts>>

Terminal == {"completed", "failed", "cancelled"}
NodesOf(r) == DOMAIN GraphOf[r]

-----------------------------------------------------------------------------
(* graphlib's sorter refuses a graph with a cycle; otherwise every batch   *)
(* is the set of nodes that have become ready.                             *)
IsAcyclic(r) ==
    \A S \in SUBSET NodesOf(r) :
        S # {} => \E n \in S : GraphOf[r][n] \cap S = {}

AllUpstream(r, n, done) == GraphOf[r][n] \subseteq done
SomeUpstream(r, n, done) ==                                   (* Bug: any, not all *)
    GraphOf[r][n] = {} \/ GraphOf[r][n] \cap done # {}
UpstreamDone(r, n, done) == AllUpstream(r, n, done)

NextBatch(r) ==
    LET done == {n \in NodesOf(r) : node[r][n] # "todo"}
    IN  {n \in NodesOf(r) \ done : UpstreamDone(r, n, done)}

StopsHere(r) == cancelled[r]
StopsNever(r) == FALSE                          (* Bug: no look at the flag *)
Stops(r) == StopsHere(r)

(* The coroutine goes on to the next batch, or returns.  A cancelled run   *)
(* leaves the loop and returns without a new status.                       *)
Return(r, s) ==
    /\ status' = [status EXCEPT ![r] = s]
    /\ task' = [task EXCEPT ![r] = "returned"]
    /\ UNCHANGED node

StartBatch(r, s) ==
    /\ status' = [status EXCEPT ![r] = s]
    /\ task' = [task EXCEPT ![r] = "gather"]
    /\ node' = [node EXCEPT ![r] =
                  [n \in NodesOf(r) |-> IF n \in NextBatch(r) THEN "queued" ELSE @[n]]]

Proceed(r, s) ==
    IF Stops(r) THEN Return(r, s)
    ELSE IF NextBatch(r) = {} THEN Return(r, "completed")
    ELSE StartBatch(r, s)

-----------------------------------------------------------------------------
Init ==
    /\ status = [r \in Run |-> "unknown"]
    /\ cancelled = [r \in Run |-> FALSE]
    /\ task = [r \in Run |-> "none"]
    /\ node = [r \in Run |-> [n \in NodesOf(r) |-> "todo"]]
    /\ restarts = 0

Submit(r) ==
    /\ task[r] = "none"
    /\ status' = [status EXCEPT ![r] = "queued"]
    /\ task' = [task EXCEPT ![r] = "scheduled"]
    /\ UNCHANGED <<cancelled, node, restarts>>

(* The coroutine's first step sets "running" whatever the status was.      *)
Begin(r) ==
    /\ task[r] = "scheduled"
    /\ IF IsAcyclic(r) THEN Proceed(r, "running") ELSE Return(r, "failed")
    /\ UNCHANGED <<cancelled, restarts>>

(* A thread of the pool takes a node.                                      *)
Executing ==
    {p \in Run \X Node : p[2] \in NodesOf(p[1]) /\ node[p[1]][p[2]] = "executing"}

ThreadIdle(busy) == busy < MaxWorkers
HasThread(busy) == ThreadIdle(busy)

StartNode(r, n) ==
    /\ node[r][n] = "queued"
    /\ HasThread(Cardinality(Executing))
    /\ node' = [node EXCEPT ![r][n] = "executing"]
    /\ UNCHANGED <<status, cancelled, task, restarts>>

FinishNode(r, n) ==
    /\ node[r][n] = "executing"
    /\ \E result \in {"ok", "error"} : node' = [node EXCEPT ![r][n] = result]
    /\ UNCHANGED <<status, cancelled, task, restarts>>

(* gather(..., return_exceptions=True) returns when no node of the batch   *)
(* is outstanding.                                                         *)
Settled(r) == \A n \in NodesOf(r) : node[r][n] \notin {"queued", "executing"}
AllSucceeded(r) ==                            (* Bug: waits for successes only *)
    \A n \in NodesOf(r) : node[r][n] \in {"todo", "ok"}
BatchSettled(r) == Settled(r)

HasError(r) == \E n \in NodesOf(r) : node[r][n] = "error"
IgnoresErrors(r) == FALSE                 (* Bug: results are not looked at *)
FoundError(r) == HasError(r)

Resume(r) ==
    /\ task[r] = "gather"
    /\ BatchSettled(r)
    /\ IF FoundError(r) THEN Return(r, "failed") ELSE Proceed(r, status[r])
    /\ UNCHANGED <<cancelled, restarts>>

MayCancel(r) == status[r] \in {"queued", "running"}
MayCancelAny(r) == status[r] # "unknown"       (* Bug: also a finished run *)
CanCancel(r) == MayCancel(r)

Cancel(r) ==
    /\ CanCancel(r)
    /\ cancelled' = [cancelled EXCEPT ![r] = TRUE]
    /\ status' = [status EXCEPT ![r] = "cancelled"]
    /\ UNCHANGED <<task, node, restarts>>

(* The API process restarts: the states of all runs and their coroutines   *)
(* are gone, and so are the threads.                                       *)
Restart ==
    /\ restarts < MaxRestarts
    /\ restarts' = restarts + 1
    /\ status' = [r \in Run |-> "unknown"]
    /\ task' = [r \in Run |-> IF task[r] = "none" THEN "none" ELSE "returned"]
    /\ node' = [r \in Run |-> [n \in NodesOf(r) |->
                  IF node[r][n] \in {"queued", "executing"} THEN "dropped" ELSE node[r][n]]]
    /\ UNCHANGED cancelled

Next ==
    \/ \E r \in Run :
          \/ Submit(r) \/ Begin(r) \/ Resume(r) \/ Cancel(r)
          \/ \E n \in NodesOf(r) : StartNode(r, n) \/ FinishNode(r, n)
    \/ Restart

Spec == Init /\ [][Next]_vars

(* The event loop serves every ready coroutine, a free thread takes the    *)
(* next node, and pipelines terminate.                                     *)
Fairness ==
    \A r \in Run :
        /\ WF_vars(Begin(r))
        /\ WF_vars(Resume(r))
        /\ \A n \in NodesOf(r) : SF_vars(StartNode(r, n)) /\ WF_vars(FinishNode(r, n))

FairSpec == Spec /\ Fairness

-----------------------------------------------------------------------------
TypeOK ==
    /\ status \in [Run -> {"unknown", "queued", "running"} \cup Terminal]
    /\ cancelled \in [Run -> BOOLEAN]
    /\ task \in [Run -> {"none", "scheduled", "gather", "returned"}]
    /\ DOMAIN node = Run
    /\ \A r \in Run : node[r] \in [NodesOf(r) ->
          {"todo", "queued", "executing", "ok", "error", "dropped"}]
    /\ restarts \in 0..MaxRestarts
    /\ Cardinality(Executing) <= MaxWorkers

(* A node is handed to the pool only after all its upstream nodes have     *)
(* succeeded, in every interleaving of the pool's threads.                 *)
DependencyOrder ==
    \A r \in Run : \A n \in NodesOf(r) :
        node[r][n] # "todo" => \A u \in GraphOf[r][n] : node[r][u] = "ok"

(* "completed" is reported only of a run whose nodes have all succeeded,   *)
(* and whose cancellation no caller has been told.                         *)
CompletedMeansAllOk ==
    \A r \in Run : status[r] = "completed" =>
        /\ ~cancelled[r]
        /\ \A n \in NodesOf(r) : node[r][n] = "ok"

(* Once cancel_run has answered True no further batch of the run is handed *)
(* to the pool, although the batch in progress runs to its end.            *)
NoBatchAfterCancel ==
    [][\A r \in Run : cancelled[r] =>
          \A n \in NodesOf(r) : node[r][n] = "todo" => node'[r][n] = "todo"]_vars

(* A completed or failed run stays so; only a restart forgets it.          *)
VerdictIsFinal ==
    [][\A r \in Run : status[r] \in {"completed", "failed"} =>
          status'[r] \in {status[r], "unknown"}]_vars

(* The coroutine of every submitted run comes to its end, however the runs *)
(* compete for the pool's threads; unless it was cancelled or lost it ends *)
(* with a verdict.                                                         *)
EventuallyVerdict ==
    \A r \in Run : task[r] = "scheduled" ~>
        /\ task[r] = "returned"
        /\ status[r] \in {"completed", "failed", "unknown"} \/ cancelled[r]

(* What callers observe is a run of the orchestrator contract.             *)
Contract == INSTANCE Orchestrator WITH
    accepted <- cancelled,
    begun <- {r \in Run : task[r] \in {"gather", "returned"}}

ImplementsContract == Contract!Spec
=============================================================================
