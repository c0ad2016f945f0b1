--------------------------- MODULE MergeRequests ---------------------------
(***************************************************************************)
(* The versions of one resource, its refs and the requests that merge a    *)
(* ref into another (routers/refs.py, routers/merge_requests.py and        *)
(* libs/core/versioning).  A handler reads, rolls back and writes in a new *)
(* transaction without looking again; it takes no locks.                   *)
(***************************************************************************)
EXTENDS Naturals, Sequences, FiniteSets

CONSTANTS
    Ref,            \* names of refs, "main" among them
    Principal, Client, Settings,
    Required,       \* MergeRequest.required_approvals
    MaxRequests     \* bound: merge requests

ASSUME MergeAssumption ==
    /\ "main" \in Ref /\ Required \in Nat
    /\ Settings \subseteq [handlers : SUBSET Client, part : {"requests", "branches"},
                           versions : Nat, voters : SUBSET Principal]

VARIABLES
    version,        \* resource_versions in the order they were written: their parents
    head,           \* resource_refs.head_version_id, 0 if there is no such ref
    request,        \* merge_requests with the approvals of each
    job,            \* what a handler has read
    setting         \* who works at the same time, on which part, who votes, and the
                    \* bound on versions ever written; never changes

history == <<version, head, request>>

Idle == [op |-> "idle"]
Serial == \A c, d \in setting.handlers : c = d
Begin(c, work) ==
    c \in setting.handlers /\ job[c] = Idle /\ job' = [job EXCEPT ![c] = work]
Working(c, op) == job[c].op = op
Finish(c) == job' = [job EXCEPT ![c] = Idle]
Abort(c) == job[c] # Idle /\ Finish(c)
-----------------------------------------------------------------------------
HasRef(name) == head[name] # 0

Newest == Len(version) + 1

(* A new version on top of the head of a ref (init_demo.py).               *)
WriteVersion(c, name) ==
    /\ c \in setting.handlers /\ job[c] = Idle
    /\ HasRef(name) /\ Newest <= setting.versions
    /\ version' = Append(version, <<head[name]>>)
    /\ head' = [head EXCEPT ![name] = Newest]
    /\ UNCHANGED <<request, job>>

ReadForBranch(c, name, from) ==
    /\ ~HasRef(name) /\ HasRef(from)
    /\ Begin(c, [op |-> "branch", name |-> name, at |-> head[from]])
    /\ UNCHANGED history

(* The primary key of the refs refuses a second one of the name.           *)
CreateBranch(c) ==
    /\ Working(c, "branch")
    /\ ~HasRef(job[c].name)
    /\ head' = [head EXCEPT ![job[c].name] = job[c].at]
    /\ Finish(c)
    /\ UNCHANGED <<version, request>>

SourceOnly(name) ==                         (* Bug: the target is not protected *)
    \E q \in DOMAIN request : request[q].status \in {"open", "approved"} /\ request[q].source = name
HasOpenRequests(name) ==
    \E q \in DOMAIN request : /\ request[q].status \in {"open", "approved"}
                              /\ name \in {request[q].source, request[q].target}

ReadForDelete(c, name) ==
    /\ name # "main" /\ HasRef(name) /\ ~HasOpenRequests(name)
    /\ Begin(c, [op |-> "delete", name |-> name])
    /\ UNCHANGED history

DeleteBranch(c) ==
    /\ Working(c, "delete") /\ HasRef(job[c].name)
    /\ head' = [head EXCEPT ![job[c].name] = 0]
    /\ Finish(c)
    /\ UNCHANGED <<version, request>>
-----------------------------------------------------------------------------
(* merged counts the versions written for a request; settled is history: a *)
(* vote has turned it down before.                                         *)
NewRequest(source, target) ==
    [source |-> source, target |-> target, status |-> "open",
     votes |-> [p \in Principal |-> "none"], merged |-> 0, settled |-> FALSE]

ReadForRequest(c, source, target) ==
    /\ HasRef(source) /\ HasRef(target) /\ Len(request) < MaxRequests
    /\ Begin(c, [op |-> "request", source |-> source, target |-> target])
    /\ UNCHANGED history

CreateRequest(c) ==
    /\ Working(c, "request")
    /\ request' = Append(request, NewRequest(job[c].source, job[c].target))
    /\ Finish(c)
    /\ UNCHANGED <<version, head>>

Votes(q, decision) == {p \in Principal : request[q].votes[p] = decision}

ReadForVote(c, p, q, decision) ==
    /\ request[q].status \notin {"merged", "closed"}
    /\ Begin(c, [op |-> "vote", actor |-> p, request |-> q, decision |-> decision])
    /\ UNCHANGED history

Verdict(approvals, rejects) ==
    IF rejects > 0 THEN "rejected" ELSE IF approvals >= Required THEN "approved" ELSE "open"

(* The vote is upserted, which locks its row until the commit; the request *)
(* is read, and the votes: the own one and those that were committed.      *)
CountVotes(c) ==
    /\ Working(c, "vote")
    /\ LET j == job[c]
           cast(d) == Cardinality((Votes(j.request, d) \ {j.actor})
                                     \cup (IF j.decision = d THEN {j.actor} ELSE {}))
       IN  /\ ~\E x \in Client : /\ Working(x, "count")
                                 /\ job[x].actor = j.actor /\ job[x].request = j.request
           /\ job' = [job EXCEPT ![c] =
                        [op |-> "count", actor |-> j.actor, request |-> j.request,
                         decision |-> j.decision, seen |-> request[j.request].status,
                         verdict |-> Verdict(cast("approve"), cast("reject"))]]
    /\ UNCHANGED history

(* A status equal to the one that was read is not written.                 *)
SettleVote(c) ==
    /\ Working(c, "count")
    /\ LET j == job[c]
       IN  request' = [request EXCEPT
                          ![j.request].votes[j.actor] = j.decision,
                          ![j.request].status = IF j.verdict = j.seen THEN @ ELSE j.verdict,
                          ![j.request].settled = @ \/ j.verdict = "rejected"]
    /\ Finish(c)
    /\ UNCHANGED <<version, head>>
-----------------------------------------------------------------------------
FromSource(source, target) == <<source>>    (* Bug: the target is not a parent *)
Parents(source, target) == <<target, source>>

ForgetsMerged(q) == TRUE                    (* Bug: a merged request is merged again *)
NotMerged(q) == request[q].status # "merged"

ReadForMerge(c, q) ==
    /\ NotMerged(q)
    /\ Votes(q, "reject") = {} /\ Cardinality(Votes(q, "approve")) >= Required
    /\ HasRef(request[q].source) /\ HasRef(request[q].target)
    /\ Begin(c, [op |-> "merge", request |-> q,
                 source |-> head[request[q].source], target |-> head[request[q].target]])
    /\ UNCHANGED history

(* merge_content takes every field from one side, since both are dumped    *)
(* with their defaults; the contents are left out.  update_ref sets the    *)
(* ref whatever it names now, and creates it if it is gone.                *)
Merge(c) ==
    /\ Working(c, "merge") /\ Newest <= setting.versions
    /\ LET j == job[c]
       IN  /\ version' = Append(version, Parents(j.source, j.target))
           /\ head' = [head EXCEPT ![request[j.request].target] = Newest]
           /\ request' = [request EXCEPT ![j.request].status = "merged",
                                         ![j.request].merged = @ + 1]
    /\ Finish(c)
-----------------------------------------------------------------------------
(* initialize_versioning: a first version, and main.                       *)
MergeInit ==
    /\ version = << <<>> >>
    /\ head = [name \in Ref |-> IF name = "main" THEN 1 ELSE 0]
    /\ request = <<>>

MergeStep(c) ==
    \/ \E name, from \in Ref : ReadForBranch(c, name, from) \/ ReadForRequest(c, name, from)
    \/ \E name \in Ref : WriteVersion(c, name) \/ ReadForDelete(c, name)
    \/ \E p \in setting.voters, q \in DOMAIN request, d \in {"approve", "reject"} : ReadForVote(c, p, q, d)
    \/ \E q \in DOMAIN request : ReadForMerge(c, q)
    \/ CreateBranch(c) \/ DeleteBranch(c) \/ CreateRequest(c)
    \/ CountVotes(c) \/ SettleVote(c) \/ Merge(c)
=============================================================================
