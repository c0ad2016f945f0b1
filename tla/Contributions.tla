--------------------------- MODULE Contributions ---------------------------
(***************************************************************************)
(* The two ways in which work comes back to where it was taken from: refs  *)
(* of a resource merged by requests, and resources branched and merged as  *)
(* a whole.  setting says which of the two the handlers are busy with.     *)
(***************************************************************************)
EXTENDS Branches

vars == <<history, rows, folder, job, setting>>

Init ==
    /\ MergeInit /\ BranchInit
    /\ setting \in Settings
    /\ job = [c \in Client |-> Idle]

Step(c) ==
    \/ setting.part = "requests" /\ MergeStep(c) /\ UNCHANGED <<rows, folder>>
    \/ setting.part = "branches" /\ BranchStep(c) /\ UNCHANGED history
    \/ Abort(c) /\ UNCHANGED <<history, rows, folder>>

Next == (\E c \in Client : Step(c)) /\ UNCHANGED setting

Spec == Init /\ [][Next]_vars
-----------------------------------------------------------------------------
Version == 1..Len(version)
Folder == 1..folder
Row == {i \in Item : Present(i)}
Status == {"open", "approved", "rejected", "merged"}
RequestRow == [source : Ref, target : Ref, status : Status,
               votes : [Principal -> {"none", "approve", "reject"}], merged : Nat, settled : BOOLEAN]

(* What handlers have read.                                                *)
BranchJob == [op : {"branch"}, name : Ref, at : Version]
DeleteJob == [op : {"delete"}, name : Ref]
RequestJob == [op : {"request"}, source : Ref, target : Ref]
VoteJob == [op : {"vote"}, actor : Principal, request : DOMAIN request, decision : {"approve", "reject"}]
CountJob == [op : {"count"}, actor : Principal, request : DOMAIN request, decision : {"approve", "reject"},
             seen : Status, verdict : {"open", "approved", "rejected"}]
MergeJob == [op : {"merge"}, request : DOMAIN request, source : Version, target : Version]
CopyJob == [op : {"copy", "fork"}, of : Row, artifact : Folder]
ReturnJob == [op : {"return"}, source : Row, target : Row, artifact : Folder]
Job == {Idle} \cup BranchJob \cup DeleteJob \cup RequestJob \cup VoteJob \cup CountJob \cup MergeJob
           \cup CopyJob \cup ReturnJob

TypeOK ==
    /\ version \in Seq(Seq(Nat))
    /\ \A v \in Version : \A i \in DOMAIN version[v] : version[v][i] \in 1..v - 1
    /\ head \in [Ref -> Version \cup {0}]
    /\ request \in Seq(RequestRow)
    /\ folder \in Nat /\ artifact \in [Item -> Folder \cup {0}]
    /\ edge \subseteq Row \X Row \X {"copy_of", "branch_of", "merged_from"}
    /\ merged \subseteq Row
    /\ job \in [Client -> Job] /\ setting \in Settings

(* A ref moves forward only: with one handler at a time, the version that  *)
(* a ref names later descends from the one it named before, so that what   *)
(* was merged into it stays merged (merge_requests.py, merge; update_ref). *)
Descends(v, w) ==
    \A S \in SUBSET Version :
        w \in S /\ (\A x \in S : \A i \in DOMAIN version[x] : version[x][i] \in S) => v \in S
HeadDescends ==
    [][Serial => \A name \in Ref, v \in Version :
                    head[name] = v => (HasRef(name) => Descends(v, head[name]))']_vars

(* A request writes one merge version: handlers that come one at a time do *)
(* not merge it a second time ("Merge request already merged").            *)
MergedOnce == \A q \in DOMAIN request : Serial => request[q].merged <= 1

(* Branches that a request names exist as long as it is open or approved,  *)
(* unless it was rejected meanwhile (refs.py "Branch has open merge        *)
(* requests"), with one handler at a time.                                 *)
OpenRequestHasRefs ==
    \A q \in DOMAIN request :
        Serial /\ request[q].status \in {"open", "approved"} /\ ~request[q].settled =>
            HasRef(request[q].source) /\ HasRef(request[q].target)

(* Until it is merged, a branch and the resource it was taken from have    *)
(* files of their own, whatever else was copied, branched and merged       *)
(* (artifacts.py "Branch: New artifact_ref with copied files").            *)
BranchesAreIsolated ==
    \A e \in edge : e[3] = "branch_of" /\ e[1] \notin merged => artifact[e[1]] # artifact[e[2]]

(* The lineage of a resource is what paths of at most MaxDepth edges lead  *)
(* to, and the walk ends, also where branches that were merged have made   *)
(* the edges run in circles (governance.py, get_resource_lineage).         *)
Near(i, direction, types) ==
    LET near[n \in 0..MaxDepth] ==
            IF n = 0 THEN {i}
            ELSE near[n - 1] \cup UNION {Neighbours(x, direction, types) : x \in near[n - 1]}
    IN  near[MaxDepth]
LineageIsNear ==
    \A i \in Item, direction \in {"upstream", "downstream"},
       types \in {{"branch_of"}, {"copy_of", "branch_of", "merged_from"}} :
        LET walk == Lineage(i, direction, types)
        IN  walk.queue = <<>> /\ walk.visited = Near(i, direction, types)

(* Copies, branches and merges of whole resources keep the files of a      *)
(* branch apart and record where it came from (governance.py).             *)
BranchesAreFaithful == BranchesAreIsolated /\ LineageIsNear
=============================================================================
