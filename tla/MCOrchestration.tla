--------------------------- MODULE MCOrchestration --------------------------
(***************************************************************************)
(* What works in the background.  A behaviour is of one of four parts: the *)
(* pipeline run service with one request at a time on the chain            *)
(* raw -> clean -> report; a reader of the lineage while edges change; the *)
(* adapter of Prefect with a graph that joins and one with a cycle; the    *)
(* agent process with two agents.                                          *)
(***************************************************************************)
EXTENDS PipelineRuns, Lineage, PrefectAdapter, Agents

CONSTANTS raw, clean, report, c1, n1, n2, n3, n4, big, loop, bot, aide

VARIABLE part

MCChain == [d \in Dataset |-> CASE d = raw -> {}
                                [] d = clean -> {raw}
                                [] d = report -> {clean}]

(* big joins n1 and n3 in n2; in loop n1 and n2 need each other.           *)
MCNeeds == [j \in Job |-> IF j = big THEN [n \in {n1, n2, n3} |-> IF n = n2 THEN {n1, n3} ELSE {}]
                          ELSE [n \in {n1, n2} |-> IF n = n1 THEN {n2} ELSE {n1}]]

(* The edges at first lead down: n1, n2, n3, n4.  A cycle may be added.    *)
Down == {<<n1, n2>>, <<n1, n3>>, <<n1, n4>>, <<n2, n3>>, <<n2, n4>>, <<n3, n4>>}
MCLineageInit ==
    /\ lineage \in SUBSET Down /\ elsewhere \in {{}, {n1}}
    /\ reader = Unread /\ edits = 0 /\ stood = {} /\ ever = {}

PartsInit ==
    /\ part \in {"service", "lineage", "prefect", "agents"}
    /\ Init /\ MCLineageInit /\ PrefectInit /\ AgentsInit
    /\ part # "lineage" => lineage = {} /\ elsewhere = {}
    /\ part # "prefect" => installed
    /\ part # "service" => setting = [shared |-> FALSE, commits |-> FALSE]

PartsNext ==
    /\ UNCHANGED part
    /\ \/ part = "service" /\ Next /\ UNCHANGED <<lineage_vars, prefect_vars, agent_vars>>
       \/ part = "lineage" /\ LineageNext /\ UNCHANGED <<vars, prefect_vars, agent_vars>>
       \/ part = "prefect" /\ PrefectNext /\ UNCHANGED <<vars, lineage_vars, agent_vars>>
       \/ part = "agents" /\ AgentsNext /\ UNCHANGED <<vars, lineage_vars, prefect_vars>>

parts_vars == <<vars, lineage_vars, prefect_vars, agent_vars, part>>

(* The agents of the other parts stand still.                              *)
Parts ==
    /\ PartsInit /\ [][PartsNext]_parts_vars
    /\ Fairness /\ WF_agent_vars(part = "agents" /\ AgentStep)
=============================================================================
