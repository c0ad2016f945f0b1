----------------------------- MODULE Promotions -----------------------------
(***************************************************************************)
(* Promotion requests, for which there are two interfaces over the same    *)
(* tables: apps/api/routers/promotions.py (request, vote, execute) and     *)
(* libs/core/governance.py (promote into staging, approve into official).  *)
(* A request's row carries its votes, the rows of the table approvals, and *)
(* how often "promote.executed" and "promotion.completed" were recorded.   *)
(***************************************************************************)
EXTENDS Resources

CONSTANTS
    MaxExecutions,      \* bound: executions of a request
    Approver            \* who may vote and execute at the destinations

VARIABLE promotion      \* promotion_requests, in the order of insertion

Votes(q, decision) == {p \in Principal : promotion[q].votes[p] = decision}

NewRequest(r, d, m) ==
    [moving |-> r, to |-> d, mode |-> m, status |-> "open",
     votes |-> [p \in Principal |-> "none"], executed |-> 0, completed |-> 0]

-----------------------------------------------------------------------------
(* promotions.py.  Execution copies the subtree of the resource unless the *)
(* mode is "move"; the copies are not modelled beyond their number.        *)
RequestPromotion(c, r, d, m) ==
    /\ Free(c) /\ Exists(r)
    /\ Len(promotion) < setting.promotions
    /\ promotion' = Append(promotion, NewRequest(r, d, m))
    /\ UNCHANGED <<resources, job>>

ForgetsPromoted(q) == promotion[q].status # "closed"    (* Bug: misses "promoted" *)
AcceptsVotes(q) == promotion[q].status \notin {"promoted", "closed"}

ReadForVote(c, p, q, decision) ==
    /\ p \in Approver
    /\ AcceptsVotes(q)
    /\ Begin(c, [op |-> "vote", actor |-> p, request |-> q, decision |-> decision])
    /\ UNCHANGED <<resources, promotion>>

(* One approval is enough: both interfaces create requests that require 1. *)
Verdict(approves, rejects) ==
    IF rejects # {} THEN "rejected" ELSE IF approves # {} THEN "approved" ELSE "open"

(* A handler that has written a vote holds its row until it commits.       *)
NeverLocked(p, q) == FALSE                  (* Bug: the upsert takes no lock *)
VoteLocked(p, q) ==
    \E x \in Client : Working(x, "count") /\ job[x].actor = p /\ job[x].request = q

(* The vote is upserted, which locks its row, and the request and the      *)
(* votes are read: the own one and those that were committed.              *)
CountVotes(c) ==
    /\ Working(c, "vote")
    /\ LET j == job[c]
           own(d) == IF j.decision = d THEN {j.actor} ELSE {}
           cast(d) == (Votes(j.request, d) \ {j.actor}) \cup own(d)
       IN  /\ ~VoteLocked(j.actor, j.request)
           /\ job' = [job EXCEPT ![c] =
                        [op |-> "count", actor |-> j.actor, request |-> j.request,
                         decision |-> j.decision, seen |-> promotion[j.request].status,
                         verdict |-> Verdict(cast("approve"), cast("reject"))]]
    /\ UNCHANGED <<resources, promotion>>

(* A status equal to the one that was read is not written.                 *)
SettleVote(c) ==
    /\ Working(c, "count")
    /\ LET j == job[c]
       IN  promotion' = [promotion EXCEPT ![j.request].votes[j.actor] = j.decision,
                                          ![j.request].status =
                            IF j.verdict = j.seen THEN @ ELSE j.verdict]
    /\ Finish(c)
    /\ UNCHANGED resources

ReadForExecute(c, p, q) ==
    /\ p \in Approver
    /\ promotion[q].status = "approved"
    /\ Begin(c, [op |-> "execute", actor |-> p, request |-> q])
    /\ UNCHANGED <<resources, promotion>>

Execute(c) ==
    /\ Working(c, "execute")
    /\ LET q == job[c].request
           row == promotion[q]
       IN  /\ row.executed < MaxExecutions
           /\ parent' = IF row.mode = "move" THEN [parent EXCEPT ![row.moving] = row.to] ELSE parent
           /\ promotion' = [promotion EXCEPT ![q].status = "promoted", ![q].executed = @ + 1]
    /\ Finish(c)
    /\ UNCHANGED <<standing, owner, bound>>

-----------------------------------------------------------------------------
(* governance.py.  The copy that a promotion makes is a row not used yet.  *)
PromoteResource(c, r, team, n) ==
    /\ Free(c) /\ Exists(r) /\ ~Exists(n)
    /\ standing' = [standing EXCEPT ![n] = "pending_approval"]
    /\ owner' = [owner EXCEPT ![n] = team]
    /\ parent' = [parent EXCEPT ![n] = Staging]
    /\ bound' = [bound EXCEPT ![n] = {team}]
    /\ Len(promotion) < setting.promotions
    /\ promotion' = Append(promotion, NewRequest(n, Official, "promote"))
    /\ UNCHANGED job

IsOpen(q) == promotion[q].status = "open"

ReadForApproval(c, p, q) ==
    /\ IsOpen(q)
    /\ promotion[q].votes[p] = "none"
    /\ LET r == promotion[q].moving
       IN  Begin(c, [op |-> "approve", actor |-> p, request |-> q, resource |-> r,
                     place |-> parent[r], standing |-> standing[r]])
    /\ UNCHANGED <<resources, promotion>>

(* The unique constraint on approvals rejects a second vote of an actor.   *)
Approve(c) ==
    /\ Working(c, "approve")
    /\ LET j == job[c]
           q == j.request
           r == j.resource
       IN  /\ promotion[q].votes[j.actor] = "none" /\ ~VoteLocked(j.actor, q)
           /\ parent' = IF j.place = promotion[q].to THEN parent
                        ELSE [parent EXCEPT ![r] = promotion[q].to]
           /\ standing' = IF j.standing = "active" THEN standing
                          ELSE [standing EXCEPT ![r] = "active"]
           /\ promotion' = [promotion EXCEPT ![q].votes[j.actor] = "approved",
                                             ![q].status = "merged",
                                             ![q].completed = @ + 1]
    /\ Finish(c)
    /\ UNCHANGED <<owner, bound>>

-----------------------------------------------------------------------------
PromotionInit == promotion = <<>>

PromotionStep(c) ==
    \/ \E r \in Resource, d \in Project \cup {Official}, m \in {"move", "copy"} : RequestPromotion(c, r, d, m)
    \/ \E p \in Principal, q \in DOMAIN promotion, d \in {"approve", "reject"} :
          ReadForVote(c, p, q, d)
    \/ CountVotes(c) \/ SettleVote(c)
    \/ \E p \in Principal, q \in DOMAIN promotion :
          ReadForExecute(c, p, q) \/ ReadForApproval(c, p, q)
    \/ Execute(c)
    \/ \E team \in Principal, r, n \in Resource : PromoteResource(c, r, team, n)
    \/ Approve(c)
=============================================================================
