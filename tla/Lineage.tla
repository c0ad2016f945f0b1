------------------------------ MODULE Lineage -------------------------------
(***************************************************************************)
(* Reading the lineage of datasets (libs/orchestration/lineage.py and      *)
(* build_graph of dag.py) while edges come and go.  A reader follows the   *)
(* edges with one query per dataset, and get_execution_order and           *)
(* get_lineage_graph ask once more for all the edges: on Postgres each     *)
(* query sees what was committed before it.                                *)
(*                                                                         *)
(* Edges are pairs of the dataset above and the one below.  The order in   *)
(* which a traversal takes up what it has found is left open.              *)
(***************************************************************************)
EXTENDS Naturals, Sequences, FiniteSets

CONSTANTS Linked,       \* resources between which there may be lineage
          Asked,        \* those whose lineage is read
          max_depth,    \* of build_graph; 10 in the code
          MaxEdits      \* bound: edges added and removed while one is read

ASSUME LinkedAssumption ==
    IsFiniteSet(Linked) /\ Asked \subseteq Linked /\ max_depth \in Nat /\ MaxEdits \in Nat

VARIABLES
    lineage,     \* rows of dataset_lineage
    elsewhere,   \* datasets of another tenant that an edge may lead to
    reader,      \* what is read, and how far it is
    edits,
    stood,       \* history: edges that were there all the time of the reading
    ever         \* history: edges that were there at some time of it

lineage_vars == <<lineage, elsewhere, reader, edits, stood, ever>>

Upstreams(d) == {u \in Linked : <<u, d>> \in lineage}
Downstreams(d) == {x \in Linked : <<d, x>> \in lineage}

(* What is read: an execution order, a graph to draw in one direction or   *)
(* both, or the graph that an orchestrator is given.                       *)
Kinds == {"order", "upstream", "downstream", "both", "graph"}
Reading(kind, root) ==
    [kind |-> kind, root |-> root, pc |-> IF kind = "downstream" THEN "down"
                                          ELSE IF kind = "graph" THEN "crawl" ELSE "up",
     queue |-> {root}, visited |-> {}, stack |-> <<>>, nodes |-> {}, edges |-> {}, batches |-> <<>>]
Unread == [pc |-> "idle"]
Querying == reader.pc \in {"up", "down", "crawl"}

LineageInit ==
    /\ lineage \subseteq Linked \X Linked /\ elsewhere \subseteq Linked \ Asked
    /\ reader = Unread /\ edits = 0 /\ stood = {} /\ ever = {}
-----------------------------------------------------------------------------
(* The library's edits: nothing looks for a cycle.                         *)
Edited ==
    /\ Querying /\ edits < MaxEdits /\ edits' = edits + 1
    /\ stood' = stood \cap lineage' /\ ever' = ever \cup lineage'
    /\ UNCHANGED <<elsewhere, reader>>

add_lineage_edge(u, d) == lineage' = lineage \cup {<<u, d>>} /\ lineage' # lineage /\ Edited
remove_lineage_edge(u, d) == <<u, d>> \in lineage /\ lineage' = lineage \ {<<u, d>>} /\ Edited

Start(kind, root) ==
    /\ reader.pc = "idle"
    /\ reader' = Reading(kind, root)
    /\ stood' = lineage /\ ever' = lineage
    /\ UNCHANGED <<lineage, elsewhere, edits>>

Reads(next) == reader' = next /\ UNCHANGED <<lineage, elsewhere, edits, stood, ever>>
-----------------------------------------------------------------------------
(* Breadth first, one query for each dataset.                              *)
Follow(d, found) ==
    LET new == found \ (reader.visited \cup {d})
    IN  Reads([reader EXCEPT !.visited = @ \cup {d}, !.queue = (@ \cup new) \ {d},
                             !.nodes = @ \cup new])
resolve_upstream_dependencies(d) ==
    reader.pc = "up" /\ d \in reader.queue /\ Follow(d, Upstreams(d))
resolve_downstream_dependencies(d) ==
    reader.pc = "down" /\ d \in reader.queue /\ Follow(d, Downstreams(d))

Resolved(pc) == reader.pc = pc /\ reader.queue = {}
Nodes == reader.nodes \cup {reader.root}

ThenDownstream ==
    /\ Resolved("up") /\ reader.kind = "both"
    /\ Reads([reader EXCEPT !.pc = "down", !.queue = {reader.root}, !.visited = {}])

(* The argument max_depth of get_lineage_graph is not used.                *)
get_lineage_graph ==
    /\ \/ Resolved("up") /\ reader.kind = "upstream"
       \/ Resolved("down")
    /\ Reads([reader EXCEPT !.pc = "done", !.nodes = Nodes,
                            !.edges = {e \in lineage : e[1] \in Nodes /\ e[2] \in Nodes}])
-----------------------------------------------------------------------------
(* Batches: first the datasets without upstream, then those whose          *)
(* upstreams are all in earlier batches.  What is never ready is a cycle,  *)
(* or so it is called.                                                     *)
AllEarlier(needs, done) == needs \subseteq done
SomeEarlier(needs, done) == needs = {} \/ needs \cap done # {}           (* Bug: any, not all *)
Ready(needs, done) == AllEarlier(needs, done)

Placed == UNION {reader.batches[n] : n \in DOMAIN reader.batches}
Needed(d) == {e[1] : e \in {x \in reader.edges : x[2] = d}}
NextBatch(kind) ==
    /\ reader.pc = "sort" /\ reader.kind = kind
    /\ LET batch == {d \in reader.nodes \ Placed : Ready(Needed(d), Placed)}
       IN  Reads(IF Placed = reader.nodes THEN [reader EXCEPT !.pc = "done"]
                 ELSE IF batch = {} THEN [reader EXCEPT !.pc = "refused"]
                 ELSE [reader EXCEPT !.batches = Append(@, batch)])

(* All the edges into what was found, also from what was not.              *)
resolver_get_execution_order ==
    /\ Resolved("up") /\ reader.kind = "order"
    /\ Reads([reader EXCEPT !.pc = "sort", !.nodes = Nodes, !.edges = {e \in lineage : e[2] \in Nodes}])

resolver_batch == NextBatch("order")
graph_get_execution_order == NextBatch("graph")
-----------------------------------------------------------------------------
(* build_graph goes depth first.  A frame of its stack is a dataset and    *)
(* the upstreams that it has read and not crawled yet.                     *)
Top == reader.stack[Len(reader.stack)]
Below == SubSeq(reader.stack, 1, Len(reader.stack) - 1)
Frame(d) == [at |-> d, rest |-> Upstreams(d)]

TooDeep(depth) == depth > max_depth

crawl_root ==
    /\ reader.pc = "crawl" /\ reader.stack = <<>> /\ reader.visited = {}
    /\ Reads([reader EXCEPT !.visited = {reader.root}, !.nodes = {reader.root},
                            !.stack = <<Frame(reader.root)>>])

(* What is new is crawled before the edge is added; of another tenant it   *)
(* is marked and left, and add_edge refuses the edge to it.                *)
crawl(u) ==
    /\ reader.pc = "crawl" /\ reader.stack # <<>> /\ u \in Top.rest
    /\ u \notin reader.visited /\ ~TooDeep(Len(reader.stack))
    /\ Reads(IF u \in elsewhere THEN [reader EXCEPT !.pc = "refused"]
             ELSE [reader EXCEPT !.visited = @ \cup {u}, !.nodes = @ \cup {u},
                                 !.stack = Append(@, Frame(u))])

skip_crawl(u) ==
    /\ reader.pc = "crawl" /\ reader.stack # <<>> /\ u \in Top.rest
    /\ u \in reader.visited \/ TooDeep(Len(reader.stack))
    /\ Reads([reader EXCEPT !.stack = Append(Below, [Top EXCEPT !.rest = @ \ {u}]),
                            !.edges = IF u \in reader.visited THEN @ \cup {<<u, Top.at>>} ELSE @])

(* The edge to the dataset that was crawled is added when it returns: it   *)
(* is still among the rest, and visited, so that skip_crawl adds it.       *)
crawl_returns ==
    /\ reader.pc = "crawl" /\ reader.stack # <<>> /\ Top.rest = {}
    /\ Reads([reader EXCEPT !.stack = Below, !.pc = IF Below = <<>> THEN "sort" ELSE @])
-----------------------------------------------------------------------------
LineageNext ==
    \/ \E u, d \in Linked : add_lineage_edge(u, d) \/ remove_lineage_edge(u, d)
    \/ \E kind \in Kinds, root \in Asked : Start(kind, root)
    \/ \E d \in Linked :
          \/ resolve_upstream_dependencies(d) \/ resolve_downstream_dependencies(d)
          \/ crawl(d) \/ skip_crawl(d)
    \/ ThenDownstream \/ get_lineage_graph \/ resolver_get_execution_order
    \/ resolver_batch \/ graph_get_execution_order \/ crawl_root \/ crawl_returns

LineageSpec == LineageInit /\ [][LineageNext]_lineage_vars
-----------------------------------------------------------------------------
(* The reference: the least set with the root and all that is upstream of  *)
(* its members, and that of what is upstream of a dataset.                 *)
Origins(edges, root) ==
    {d \in Linked : \A S \in SUBSET Linked :
        root \in S /\ (\A e \in edges : e[2] \in S => e[1] \in S) => d \in S}
Ancestors(edges, d) ==
    {u \in Linked : \A S \in SUBSET Linked :
        (\A e \in edges : e[2] \in S \cup {d} => e[1] \in S) => u \in S}
Converse(edges) == {<<e[2], e[1]>> : e \in edges}
Lineal(edges) ==
    (IF reader.kind = "downstream" THEN {reader.root} ELSE Origins(edges, reader.root))
    \cup (IF reader.kind \in {"downstream", "both"} THEN Origins(Converse(edges), reader.root) ELSE {})
IsPath(path, n) == \A k \in 1..n : <<path[k], path[k - 1]>> \in ever
Shallow ==
    reader.kind = "graph" =>
        ~\E path \in [0..(max_depth + 1) -> Linked] : path[0] = reader.root /\ IsPath(path, max_depth + 1)

(* A graph holds every dataset and edge that lead to the one asked for     *)
(* (or from it) all the while it was read, and none that never did.  The   *)
(* graph for the orchestrator is cut where a path is longer than           *)
(* max_depth, also when a shorter one leads to the same dataset.           *)
GraphIsWhole ==
    reader.pc = "done" =>
        /\ Shallow => Lineal(stood) \subseteq reader.nodes
        /\ reader.nodes \subseteq Lineal(ever)
        /\ reader.edges \subseteq ever
        /\ Shallow => {e \in stood : {e[1], e[2]} \subseteq reader.nodes} \subseteq reader.edges

(* The batches hold each dataset once, and none before what it needs all   *)
(* the while, unless the graph was cut: then it may hold two datasets and  *)
(* not the edge between them.  An order is refused only for a cycle, for a *)
(* dataset of another tenant, or because an edge came or went between two  *)
(* queries, which the resolver calls a cycle too.                          *)
OrderIsSound ==
    LET batches == reader.batches
        IsIn(d, n) == d \in batches[n]
    IN  /\ reader.pc = "done" /\ reader.kind \in {"order", "graph"} =>
              /\ \A d \in reader.nodes : Cardinality({n \in DOMAIN batches : IsIn(d, n)}) = 1
              /\ Shallow => \A e \in stood, n \in DOMAIN batches :
                    IsIn(e[2], n) => \E k \in 1..(n - 1) : IsIn(e[1], k)
        /\ reader.pc = "refused" =>
              \/ \E d \in Origins(ever, reader.root) : d \in Ancestors(ever, d)
              \/ reader.kind = "graph" /\ elsewhere \cap Origins(ever, reader.root) # {}
              \/ reader.kind = "order" /\ stood # ever

(* What the readers of the lineage answer is right of the edges that stood *)
(* still, whatever came or went between their queries (lineage.py, dag.py).*)
LineageIsSound == GraphIsWhole /\ OrderIsSound
=============================================================================
