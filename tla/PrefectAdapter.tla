--------------------------- MODULE PrefectAdapter ---------------------------
(***************************************************************************)
(* The orchestrator behind a Prefect server                                *)
(* (libs/orchestration/prefect_adapter.py).  submit_run runs the flow in   *)
(* the process of the API and returns when it is over: the id by which a   *)
(* run could be asked for or cancelled is not known before.  A deployment  *)
(* that cannot be made is replaced by a "local" one, whose trigger submits *)
(* a graph without nodes.                                                  *)
(*                                                                         *)
(* The server and the engine of Prefect are external: a call may fail, and *)
(* the server may refuse to change the state of a run that is over.        *)
(***************************************************************************)
EXTENDS Naturals, FiniteSets

CONSTANTS Job,         \* runs, each of one instance
          Stage,       \* nodes of their graphs
          Needs,       \* Needs[j] maps the nodes of j's graph to their upstreams
          MaxCrashes   \* bound: how often the process of the API stops

ASSUME PrefectAssumption ==
    /\ IsFiniteSet(Stage) /\ MaxCrashes \in Nat
    /\ Needs \in [Job -> UNION {[S -> SUBSET S] : S \in SUBSET Stage}]

VARIABLES
    installed,     \* whether the process can import prefect
    deployment,    \* of each instance, as its row has it
    caller,        \* what became of the call that starts the run
    flow,          \* state of the flow run that the server keeps
    stages,        \* progress of the nodes of the submitted graph
    crashes

prefect_vars == <<installed, deployment, caller, flow, stages, crashes>>

FlowStates == {"RUNNING", "COMPLETED", "FAILED", "CANCELLED", "CRASHED"}
_map_prefect_state(state) ==
    CASE state = "RUNNING" -> "running"
      [] state = "COMPLETED" -> "completed"
      [] state \in {"FAILED", "CRASHED"} -> "failed"
      [] state = "CANCELLED" -> "cancelled"
      [] OTHER -> "unknown"
get_status(j) == _map_prefect_state(flow[j])

Graph(j) == DOMAIN stages[j]
Graphless == [n \in {} |-> "todo"]

PrefectInit ==
    /\ installed \in BOOLEAN
    /\ deployment = [j \in Job |-> "none"]
    /\ caller = [j \in Job |-> "none"]
    /\ flow = [j \in Job |-> "none"]
    /\ stages = [j \in Job |-> Graphless]
    /\ crashes = 0
-----------------------------------------------------------------------------
(* The flow: batch after batch, each node as a task that waits for its     *)
(* upstreams.                                                              *)
Sorted(j) == \A S \in SUBSET DOMAIN Needs[j] : S # {} => \E n \in S : Needs[j][n] \cap S = {}
NextStages(j) == {n \in Graph(j) : stages[j][n] = "todo" /\ \A u \in Needs[j][n] : stages[j][u] = "ok"}
AllOk(j) == \A n \in Graph(j) : stages[j][n] \in {"todo", "ok"}
SomeOk(j) ==                                             (* Bug: the first result is enough *)
    "submitted" \in {stages[j][n] : n \in Graph(j)} => "ok" \in {stages[j][n] : n \in Graph(j)}
BatchIsOver(j) == AllOk(j)
HasFailed(j) == \E n \in Graph(j) : stages[j][n] = "error"

Ends(j, state) ==
    /\ flow' = [flow EXCEPT ![j] = state]
    /\ caller' = [caller EXCEPT ![j] = "answered"]

(* A graph that cannot be sorted fails the flow, not the call.             *)
Submits(j, graph) ==
    IF ~installed THEN caller' = [caller EXCEPT ![j] = "raised"] /\ UNCHANGED <<flow, stages>>
    ELSE /\ stages' = [stages EXCEPT ![j] = graph]
         /\ \/ /\ graph = Graphless \/ Sorted(j)
               /\ flow' = [flow EXCEPT ![j] = "RUNNING"]
               /\ caller' = [caller EXCEPT ![j] = "waiting"]
            \/ graph # Graphless /\ ~Sorted(j) /\ Ends(j, "FAILED")

submit_run(j) ==
    /\ caller[j] = "none" /\ deployment[j] = "none"
    /\ Submits(j, [n \in DOMAIN Needs[j] |-> "todo"])
    /\ UNCHANGED <<installed, deployment, crashes>>

orchestration_flow(j) ==
    /\ caller[j] = "waiting" /\ BatchIsOver(j) /\ ~HasFailed(j)
    /\ IF NextStages(j) # {}
       THEN /\ stages' = [stages EXCEPT ![j] =
                            [n \in Graph(j) |-> IF n \in NextStages(j) THEN "submitted" ELSE @[n]]]
            /\ UNCHANGED <<caller, flow>>
       ELSE Ends(j, "COMPLETED") /\ UNCHANGED stages
    /\ UNCHANGED <<installed, deployment, crashes>>

(* The first result that is an error ends the flow; what else was          *)
(* submitted with it may still run.                                        *)
flow_fails(j) ==
    /\ caller[j] = "waiting" /\ HasFailed(j)
    /\ Ends(j, "FAILED")
    /\ UNCHANGED <<installed, deployment, stages, crashes>>

(* A node without code_ref is skipped and counts as done.                  *)
run_node_task(j, n) ==
    /\ stages[j][n] = "submitted"
    /\ \E result \in {"ok", "error"} : stages' = [stages EXCEPT ![j][n] = result]
    /\ UNCHANGED <<installed, deployment, caller, flow, crashes>>

(* The caller must know the id.  It is told True whether the run was over  *)
(* or not.                                                                 *)
cancel_run(j) ==
    /\ caller[j] = "answered" /\ installed
    /\ flow[j] # "CANCELLED" /\ flow' = [flow EXCEPT ![j] = "CANCELLED"]
    /\ UNCHANGED <<installed, deployment, caller, stages, crashes>>

(* The process stops with the flows that it runs; the server may notice.   *)
Stop ==
    /\ crashes < MaxCrashes /\ crashes' = crashes + 1
    /\ caller' = [j \in Job |-> IF caller[j] = "waiting" THEN "lost" ELSE caller[j]]
    /\ stages' = [j \in Job |-> [n \in Graph(j) |->
                    IF stages[j][n] = "submitted" THEN "lost" ELSE stages[j][n]]]
    /\ \E noticed \in SUBSET {j \in Job : caller[j] = "waiting"} :
          flow' = [j \in Job |-> IF j \in noticed THEN "CRASHED" ELSE flow[j]]
    /\ UNCHANGED <<installed, deployment>>
-----------------------------------------------------------------------------
create_deployment(j) ==
    /\ deployment[j] = "none" /\ caller[j] = "none"
    /\ \E kind \in {"local"} \cup (IF installed THEN {"prefect"} ELSE {}) :
          deployment' = [deployment EXCEPT ![j] = kind]
    /\ UNCHANGED <<installed, caller, flow, stages, crashes>>

(* A local one has nothing to delete and stays good for a trigger.         *)
delete_deployment(j) ==
    /\ deployment[j] = "prefect" /\ installed
    /\ deployment' = [deployment EXCEPT ![j] = "deleted"]
    /\ UNCHANGED <<installed, caller, flow, stages, crashes>>

(* The server runs the flow of a deployment, which is a placeholder.       *)
trigger_deployment(j) ==
    /\ caller[j] = "none"
    /\ \/ deployment[j] = "local" /\ Submits(j, Graphless)
       \/ /\ deployment[j] = "prefect"
          /\ \/ caller' = [caller EXCEPT ![j] = "answered"] /\ flow' = [flow EXCEPT ![j] = "RUNNING"]
             \/ caller' = [caller EXCEPT ![j] = "raised"] /\ UNCHANGED flow
          /\ UNCHANGED stages
       \/ deployment[j] = "deleted" /\ caller' = [caller EXCEPT ![j] = "raised"] /\ UNCHANGED <<flow, stages>>
    /\ UNCHANGED <<installed, deployment, crashes>>

instance_flow(j) ==
    /\ deployment[j] \in {"prefect", "deleted"} /\ flow[j] = "RUNNING"
    /\ \E state \in {"COMPLETED", "CRASHED"} : flow' = [flow EXCEPT ![j] = state]
    /\ UNCHANGED <<installed, deployment, caller, stages, crashes>>

PrefectNext ==
    \/ \E j \in Job :
          \/ submit_run(j) \/ orchestration_flow(j) \/ flow_fails(j) \/ cancel_run(j)
          \/ create_deployment(j) \/ delete_deployment(j) \/ trigger_deployment(j) \/ instance_flow(j)
          \/ \E n \in Graph(j) : run_node_task(j, n)
    \/ Stop

PrefectSpec == PrefectInit /\ [][PrefectNext]_prefect_vars
-----------------------------------------------------------------------------
(* A graph that was submitted is reported completed only when each of its  *)
(* nodes has succeeded after its upstreams, and nobody learns the id of a  *)
(* run before it is over: the True of cancel_run is told of finished runs  *)
(* only.  Neither is so of a deployment, which reports "completed" and has *)
(* executed nothing.                                                       *)
SubmittedIsEarned ==
    \A j \in Job : deployment[j] = "none" =>
        /\ caller[j] = "answered" => flow[j] \notin {"none", "RUNNING"}
        /\ get_status(j) = "completed" => \A n \in DOMAIN Needs[j] : stages[j][n] = "ok"
        /\ \A n \in Graph(j) : stages[j][n] # "todo" => \A u \in Needs[j][n] : stages[j][u] = "ok"
=============================================================================
