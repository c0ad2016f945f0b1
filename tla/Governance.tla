----------------------------- MODULE Governance -----------------------------
(***************************************************************************)
(* Transfers and promotions work on the same resources, through the same   *)
(* request handlers.                                                       *)
(***************************************************************************)
EXTENDS Transfers, Promotions

vars == <<standing, owner, parent, bound, job, setting, transfer, late, promotion>>

Init == ResourceInit /\ TransferInit /\ PromotionInit

Next ==
    /\ UNCHANGED setting
    /\ \/ \E c \in Client :
            \/ TransferStep(c) /\ UNCHANGED promotion
            \/ PromotionStep(c) /\ UNCHANGED <<transfer, late>>
            \/ Abort(c) /\ UNCHANGED <<resources, transfer, late, promotion>>
       \/ \E t \in DOMAIN transfer : Expire(t) /\ UNCHANGED promotion

Spec == Init /\ [][Next]_vars

-----------------------------------------------------------------------------
TransferRow ==
    [resource : Resource, sender : Principal, recipient : Principal,
     status : {"pending"} \cup Decided]

PromotionStatus == {"open", "approved", "rejected", "promoted", "merged"}
Standing == {"absent", "active", "pending_approval"}

PromotionRow ==
    [moving : Resource, to : Place, mode : {"move", "copy", "promote"},
     status : PromotionStatus,
     votes : [Principal -> {"none", "approve", "reject", "approved"}],
     executed : Nat, completed : Nat]

(* What a handler works on: an offer or a gift, the answer to an offer, a  *)
(* vote, a vote with its verdict, an execution, an approval.               *)
GiftJob == [op : {"offer", "give"}, actor : Principal, resource : Resource, to : Principal]
AnswerJob ==
    [op : {"accept", "reject", "cancel"}, actor : Principal, request : DOMAIN transfer,
     resource : Resource, seen : Principal, place : Place]
VoteJob ==
    [op : {"vote"}, actor : Principal, request : DOMAIN promotion,
     decision : {"approve", "reject"}]
CountJob ==
    [op : {"count"}, actor : Principal, request : DOMAIN promotion,
     decision : {"approve", "reject"}, seen : PromotionStatus,
     verdict : {"open", "approved", "rejected"}]
ExecuteJob == [op : {"execute"}, actor : Principal, request : DOMAIN promotion]
ApproveJob ==
    [op : {"approve"}, actor : Principal, request : DOMAIN promotion,
     resource : Resource, place : Place, standing : Standing]
Job == {Idle} \cup GiftJob \cup AnswerJob \cup VoteJob \cup CountJob
         \cup ExecuteJob \cup ApproveJob

(* Rows have the types of their columns, and handlers work on rows that    *)
(* exist.                                                                  *)
TypeOK ==
    /\ standing \in [Resource -> Standing]
    /\ owner \in [Resource -> Principal]
    /\ parent \in [Resource -> Place]
    /\ bound \in [Resource -> SUBSET Principal]
    /\ setting \in Settings
    /\ transfer \in Seq(TransferRow)
    /\ late \subseteq DOMAIN transfer
    /\ promotion \in Seq(PromotionRow)
    /\ job \in [Client -> Job]

(* Whoever owns a resource that has changed hands holds the role of owner  *)
(* on it, whatever transfers were answered at the same time: the last      *)
(* writer of the owner column also granted the role (governance.py:735-788 *)
(* and 1003-1046).                                                         *)
OwnerIsBound == \A r \in Resource : bound[r] # {} => owner[r] \in bound[r]

(* Handled one at a time, transfers leave no role of owner with a previous *)
(* owner ("previous owner becomes viewer").                                *)
SoleOwner == Serial => \A r \in Resource : bound[r] \subseteq {owner[r]}

(* A resource has one pending transfer request, when requests are handled  *)
(* one at a time or the database knows the constraint of the model         *)
(* ("Only one pending transfer per resource").                             *)
OnePending ==
    Serial \/ setting.unique =>
        \A t, u \in DOMAIN transfer :
            Pending(t) /\ Pending(u) /\ transfer[t].resource = transfer[u].resource => t = u

(* Handled one at a time, an answered transfer request stays as it was     *)
(* answered: nobody accepts what was cancelled.                            *)
DecidedStays ==
    [][Serial => \A t \in DOMAIN transfer :
          transfer[t].status \in Decided => transfer'[t].status = transfer[t].status]_vars

(* Handled one at a time, the status of a promotion request is what its    *)
(* votes say: one that was executed or may be has an approval and no       *)
(* reject.                                                                 *)
VotesAgree(q) ==
    /\ promotion[q].status \in {"approved", "promoted"} =>
          Votes(q, "approve") # {} /\ Votes(q, "reject") = {}
    /\ promotion[q].status = "rejected" => Votes(q, "reject") # {}
    /\ promotion[q].status = "merged" => Votes(q, "approved") # {}
    /\ promotion[q].status = "open" => \A p \in Principal : promotion[q].votes[p] = "none"

StatusTellsVotes == Serial => \A q \in DOMAIN promotion : VotesAgree(q)

(* An approved request has an approval, even when votes are cast and       *)
(* changed at the same time: whoever writes "approved" has approved, and   *)
(* who takes an approval back reads the status after writing the vote.     *)
ApprovedIsBacked ==
    \A q \in DOMAIN promotion : promotion[q].status = "approved" => Votes(q, "approve") # {}

(* Handled one at a time, each interface carries a promotion request out   *)
(* at most once, whatever is voted in between ("Promotion already          *)
(* executed").                                                             *)
ExecutedOnce ==
    Serial => \A q \in DOMAIN promotion :
        promotion[q].executed <= 1 /\ promotion[q].completed <= 1

(* Handlers that do not overlap leave one owner and one offer a resource,  *)
(* through whatever offers, answers, gifts and expiries.                   *)
TransfersAgree == SoleOwner /\ OnePending

(* Nor do they carry out what its votes do not support, or twice, whichever*)
(* of the two interfaces each of them goes through.                        *)
PromotionsAgree == StatusTellsVotes /\ ExecutedOnce
=============================================================================
