------------------------------ MODULE Branches ------------------------------
(***************************************************************************)
(* Copies, branches and merges of whole resources (libs/core/governance.py *)
(* and libs/core/artifacts.py): a copy refers to the folder of files of    *)
(* its source, a branch gets a folder of its own, and a merge hands the    *)
(* folder of the branch to the resource it was taken from.  Files are      *)
(* copied before the rows are written, and nothing removes a folder.       *)
(***************************************************************************)
EXTENDS MergeRequests, SequencesExt

CONSTANTS
    Item,           \* resources with an artifact
    Original,       \* the one that exists at first
    MaxArtifacts,   \* bound: folders ever written
    MaxDepth        \* max_depth of the walk over the lineage

ASSUME BranchAssumption == MaxDepth \in Nat

VARIABLES
    artifact,       \* Resource.artifact_ref, 0 before the row exists
    folder,         \* how many folders there are: 1..folder
    edge,           \* resource_edges: <<src, dst, edge_type>>
    merged          \* resources whose status is "merged"

rows == <<artifact, edge, merged>>

Present(i) == artifact[i] # 0

ReadForCopy(c, i) ==
    /\ Present(i)
    /\ Begin(c, [op |-> "copy", of |-> i, artifact |-> artifact[i]])
    /\ UNCHANGED <<rows, folder>>

Copy(c, n) ==
    /\ Working(c, "copy") /\ ~Present(n)
    /\ artifact' = [artifact EXCEPT ![n] = job[c].artifact]
    /\ edge' = edge \cup {<<n, job[c].of, "copy_of">>}
    /\ Finish(c)
    /\ UNCHANGED <<folder, merged>>

SameFolder(i) == [op |-> "fork", of |-> i, artifact |-> artifact[i]]   (* Bug: no copy *)
NewFolder(i) == [op |-> "fork", of |-> i, artifact |-> folder + 1]

(* If the handler fails from here on, the folder stays and no row names it. *)
CopyFiles(c, i) ==
    /\ Present(i) /\ folder < MaxArtifacts
    /\ Begin(c, NewFolder(i))
    /\ folder' = folder + 1
    /\ UNCHANGED rows

Branch(c, n) ==
    /\ Working(c, "fork") /\ ~Present(n)
    /\ artifact' = [artifact EXCEPT ![n] = job[c].artifact]
    /\ edge' = edge \cup {<<n, job[c].of, "branch_of">>}
    /\ Finish(c)
    /\ UNCHANGED <<folder, merged>>

ReadForReturn(c, source, target) ==
    /\ <<source, target, "branch_of">> \in edge
    /\ Begin(c, [op |-> "return", source |-> source, target |-> target, artifact |-> artifact[source]])
    /\ UNCHANGED <<rows, folder>>

(* merge_resource.  The key of the edges refuses a branch a second time.   *)
Return(c) ==
    /\ Working(c, "return")
    /\ LET j == job[c]
       IN  /\ <<j.target, j.source, "merged_from">> \notin edge
           /\ artifact' = [artifact EXCEPT ![j.target] = j.artifact]
           /\ edge' = edge \cup {<<j.target, j.source, "merged_from">>}
           /\ merged' = merged \cup {j.source}
    /\ Finish(c)
    /\ UNCHANGED folder
-----------------------------------------------------------------------------
(* get_resource_lineage: a walk over the edges of some types, at most      *)
(* MaxDepth deep; its queue holds resources with their depth.              *)
Neighbours(i, direction, types) ==
    {n \in Item : \E t \in types :
        (IF direction = "upstream" THEN <<i, n, t>> ELSE <<n, i, t>>) \in edge}

TooDeep(depth) == depth > MaxDepth

Visit(walk, direction, types) ==
    IF walk.queue = <<>> THEN walk
    ELSE LET i == Head(walk.queue).item
             depth == Head(walk.queue).depth
             seen == walk.visited \cup {i}
             found == {[item |-> n, depth |-> depth + 1] :
                          n \in Neighbours(i, direction, types) \ seen}
         IN  IF i \in walk.visited \/ TooDeep(depth)
             THEN [walk EXCEPT !.queue = Tail(@)]
             ELSE [queue |-> Tail(walk.queue) \o SetToSeq(found), visited |-> seen]

(* Every edge puts at most one entry into the queue.                       *)
Lineage(i, direction, types) ==
    LET walk[n \in 0..Cardinality(edge) + 1] ==
            IF n = 0 THEN [queue |-> <<[item |-> i, depth |-> 0]>>, visited |-> {}]
            ELSE Visit(walk[n - 1], direction, types)
    IN  walk[Cardinality(edge) + 1]
-----------------------------------------------------------------------------
BranchInit ==
    /\ artifact = [i \in Item |-> IF i = Original THEN 1 ELSE 0]
    /\ folder = 1
    /\ edge = {}
    /\ merged = {}

BranchStep(c) ==
    \/ \E i \in Item : ReadForCopy(c, i) \/ CopyFiles(c, i) \/ Copy(c, i) \/ Branch(c, i)
    \/ \E source, target \in Item : ReadForReturn(c, source, target)
    \/ Return(c)
=============================================================================
