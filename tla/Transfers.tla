----------------------------- MODULE Transfers -----------------------------
(***************************************************************************)
(* Ownership transfers (libs/core/governance.py and the endpoints of       *)
(* apps/api/routers/governance.py): the owner offers a resource, and the   *)
(* recipient accepts it into a project of theirs or rejects it, or the     *)
(* owner cancels; and the direct transfer kept for old clients.            *)
(***************************************************************************)
EXTENDS Resources

VARIABLES
    transfer,       \* transfer_requests, in the order of insertion
    late            \* the requests past expires_at

Decided == {"accepted", "rejected", "cancelled"}

Pending(t) == transfer[t].status = "pending"
PendingOn(r) == {t \in DOMAIN transfer : transfer[t].resource = r /\ Pending(t)}
Blocking(r) == PendingOn(r)

Party(t, op) == IF op = "cancel" THEN transfer[t].sender ELSE transfer[t].recipient

Decide(t, s) == transfer' = [transfer EXCEPT ![t].status = s]

(* Revoke the previous owner's role of owner and grant it to the new one.  *)
(* The viewer role that the previous owner gets is left out.  A binding    *)
(* granted between the query for the old owner's bindings and the commit   *)
(* survives in the code; here it is revoked, too.                          *)
GrantOnly(r, old, new) ==                (* Bug: the old owner keeps the role *)
    bound' = [bound EXCEPT ![r] = @ \cup {new}]
SwapGrant(r, old, new) ==                (* Bug: the principals are swapped *)
    bound' = [bound EXCEPT ![r] = (@ \ {new}) \cup {old}]
Regrant(r, old, new) ==
    bound' = [bound EXCEPT ![r] = (@ \ {old}) \cup {new}]

-----------------------------------------------------------------------------
ReadForOffer(c, p, r, to) ==
    /\ Exists(r) /\ owner[r] = p
    /\ Blocking(r) = {}
    /\ Begin(c, [op |-> "offer", actor |-> p, resource |-> r, to |-> to])
    /\ UNCHANGED <<resources, transfer, late>>

Taken(r) == setting.unique /\ \E t \in DOMAIN transfer : transfer[t].resource = r

Offer(c) ==
    /\ Working(c, "offer")
    /\ Len(transfer) < setting.transfers
    /\ ~Taken(job[c].resource)
    /\ transfer' = Append(transfer, [resource |-> job[c].resource, sender |-> job[c].actor,
                                     recipient |-> job[c].to, status |-> "pending"])
    /\ Finish(c)
    /\ UNCHANGED <<resources, late>>

(* accept, reject and cancel check the caller and the status.  An expired  *)
(* request is refused; the "expired" it was given rolls back with the rest.*)
Answerable(t, op) == Pending(t) /\ (op = "accept" => t \notin late)

ReadForAnswer(c, p, t, op) ==
    /\ Party(t, op) = p
    /\ Answerable(t, op)
    /\ LET r == transfer[t].resource
       IN  Begin(c, [op |-> op, actor |-> p, request |-> t,
                     resource |-> r, seen |-> owner[r], place |-> parent[r]])
    /\ UNCHANGED <<resources, transfer, late>>

(* SQLAlchemy does not write an assignment of the value that was read.     *)
Assign(column, r, seen, value) ==
    IF seen = value THEN column ELSE [column EXCEPT ![r] = value]

Accept(c, d) ==
    /\ Working(c, "accept")
    /\ LET j == job[c]
       IN  /\ owner' = Assign(owner, j.resource, j.seen, j.actor)
           /\ parent' = Assign(parent, j.resource, j.place, d)
           /\ Regrant(j.resource, j.seen, j.actor)
           /\ Decide(j.request, "accepted")
    /\ Finish(c)
    /\ UNCHANGED <<standing, late>>

Reject(c) ==
    /\ Working(c, "reject")
    /\ Decide(job[c].request, "rejected")
    /\ Finish(c)
    /\ UNCHANGED <<resources, late>>

Cancel(c) ==
    /\ Working(c, "cancel")
    /\ Decide(job[c].request, "cancelled")
    /\ Finish(c)
    /\ UNCHANGED <<resources, late>>

(* A setting without transfers is one without gifts.                       *)
ReadForGift(c, p, r, to) ==
    /\ setting.transfers > 0
    /\ Exists(r) /\ owner[r] = p
    /\ Begin(c, [op |-> "give", actor |-> p, resource |-> r, to |-> to])
    /\ UNCHANGED <<resources, transfer, late>>

Give(c) ==
    /\ Working(c, "give")
    /\ LET j == job[c]
       IN  /\ owner' = Assign(owner, j.resource, j.actor, j.to)
           /\ Regrant(j.resource, j.actor, j.to)
    /\ Finish(c)
    /\ UNCHANGED <<standing, parent, transfer, late>>

Expire(t) ==
    /\ t \notin late
    /\ late' = late \cup {t}
    /\ UNCHANGED <<resources, transfer, job>>

-----------------------------------------------------------------------------
TransferInit == transfer = <<>> /\ late = {}

TransferStep(c) ==
    \/ \E p, to \in Principal, r \in Resource :
          ReadForOffer(c, p, r, to) \/ ReadForGift(c, p, r, to)
    \/ \E p \in Principal, t \in DOMAIN transfer, op \in {"accept", "reject", "cancel"} :
          ReadForAnswer(c, p, t, op)
    \/ \E d \in Project : Accept(c, d)
    \/ Offer(c) \/ Reject(c) \/ Cancel(c) \/ Give(c)
=============================================================================
