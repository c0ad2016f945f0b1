-------------------------- MODULE GovernanceProofs --------------------------
(***************************************************************************)
(* For every number of principals, resources, handlers and requests: rows  *)
(* keep their types; the owner of a resource that changed hands holds the  *)
(* role of owner and an approved promotion request has an approval, however*)
(* requests overlap; and, if they are handled one at a time, previous      *)
(* owners lose the role, a resource has one pending transfer request, an   *)
(* answered one stays answered, votes and status of a promotion request    *)
(* agree, and it is carried out once.                                      *)
(***************************************************************************)
EXTENDS Governance, TLAPS

(* Sequences that are appended to and of which an element is replaced.     *)
LEMMA AppendFacts ==
    ASSUME NEW S, NEW s \in Seq(S), NEW x \in S
    PROVE  /\ Append(s, x) \in Seq(S)
           /\ DOMAIN Append(s, x) = DOMAIN s \cup {Len(s) + 1}
           /\ Len(s) + 1 \notin DOMAIN s
           /\ Append(s, x)[Len(s) + 1] = x
           /\ \A i \in DOMAIN s : Append(s, x)[i] = s[i]
  OBVIOUS

LEMMA ReplaceFacts ==
    ASSUME NEW S, NEW s \in Seq(S), NEW i \in DOMAIN s, NEW x \in S
    PROVE  /\ [s EXCEPT ![i] = x] \in Seq(S)
           /\ DOMAIN [s EXCEPT ![i] = x] = DOMAIN s
  OBVIOUS

LEMMA ElementFacts ==
    ASSUME NEW S, NEW s \in Seq(S), NEW i \in DOMAIN s
    PROVE  s[i] \in S
  OBVIOUS

(* What a handler works on is told by op.                                  *)
LEMMA JobForms ==
    ASSUME TypeOK, NEW c \in Client
    PROVE  /\ job[c].op \in {"offer", "give"} => job[c] \in GiftJob
           /\ job[c].op \in {"accept", "reject", "cancel"} => job[c] \in AnswerJob
           /\ job[c].op = "vote" => job[c] \in VoteJob
           /\ job[c].op = "count" => job[c] \in CountJob
           /\ job[c].op = "execute" => job[c] \in ExecuteJob
           /\ job[c].op = "approve" => job[c] \in ApproveJob
<1>1. job[c] \in Job
  BY DEF TypeOK
<1>2. Idle.op = "idle"
  BY DEF Idle
<1>3. \A j \in GiftJob : j.op \in {"offer", "give"}
  BY DEF GiftJob
<1>4. \A j \in AnswerJob : j.op \in {"accept", "reject", "cancel"}
  BY DEF AnswerJob
<1>5. \A j \in VoteJob : j.op = "vote"
  BY DEF VoteJob
<1>6. \A j \in CountJob : j.op = "count"
  BY DEF CountJob
<1>7. \A j \in ExecuteJob : j.op = "execute"
  BY DEF ExecuteJob
<1>8. \A j \in ApproveJob : j.op = "approve"
  BY DEF ApproveJob
<1> QED  BY <1>1, <1>2, <1>3, <1>4, <1>5, <1>6, <1>7, <1>8 DEF Job

(* Tables only grow, so a job stays a job.                                 *)
TablesGrow == DOMAIN transfer \subseteq DOMAIN transfer' /\ DOMAIN promotion \subseteq DOMAIN promotion'

LEMMA JobStep ==
    ASSUME TypeOK, TablesGrow, NEW c \in Client, NEW w \in Job,
           job' = [job EXCEPT ![c] = w] \/ job' = job
    PROVE  (job \in [Client -> Job])'
<1>1. AnswerJob \subseteq AnswerJob'
  BY DEF AnswerJob, TablesGrow
<1>2. VoteJob \subseteq VoteJob' /\ CountJob \subseteq CountJob'
  BY DEF VoteJob, CountJob, TablesGrow
<1>3. ExecuteJob \subseteq ExecuteJob' /\ ApproveJob \subseteq ApproveJob'
  BY DEF ExecuteJob, ApproveJob, TablesGrow
<1>4. Job \subseteq Job'
  BY <1>1, <1>2, <1>3 DEF Job, GiftJob
<1>5. \A x \in Client : job'[x] \in Job
  BY DEF TypeOK
<1> QED  BY <1>4, <1>5 DEF TypeOK

-----------------------------------------------------------------------------
(* Initially rows have their types: there are no requests and no jobs.     *)
LEMMA InitTyped == Init => TypeOK
<1> SUFFICES ASSUME Init PROVE TypeOK
  OBVIOUS
<1> USE DEF Init, ResourceInit, TransferInit, PromotionInit
<1>1. transfer \in Seq(TransferRow) /\ DOMAIN transfer = {} /\ promotion \in Seq(PromotionRow)
  OBVIOUS
<1>2. job \in [Client -> Job]
  BY DEF Job
<1>3. standing \in [Resource -> Standing]
  BY DEF Standing
<1>4. owner \in [Resource -> Principal]
  OBVIOUS
<1>5. parent \in [Resource -> Place]
  BY DEF Place
<1> QED  BY <1>1, <1>2, <1>3, <1>4, <1>5 DEF TypeOK

LEMMA DecideTyped ==
    ASSUME TypeOK, NEW t \in DOMAIN transfer, NEW s \in Decided, Decide(t, s)
    PROVE  /\ transfer' \in Seq(TransferRow)
           /\ DOMAIN transfer' = DOMAIN transfer
           /\ transfer' = [transfer EXCEPT ![t] = [transfer[t] EXCEPT !.status = s]]
<1>1. transfer \in Seq(TransferRow)
  BY DEF TypeOK
<1>2. transfer[t] \in TransferRow
  BY <1>1, ElementFacts
<1>3. [transfer[t] EXCEPT !.status = s] \in TransferRow
  BY <1>2 DEF TransferRow
<1>4. transfer' = [transfer EXCEPT ![t] = [transfer[t] EXCEPT !.status = s]]
  BY DEF Decide
<1> QED  BY <1>1, <1>3, <1>4, ReplaceFacts

(* Types after a step of the transfer endpoints.                           *)
LEMMA TransferTyped ==
    ASSUME TypeOK, NEW c \in Client, TransferStep(c), UNCHANGED <<promotion, setting>>
    PROVE  TypeOK'
<1>1. ASSUME NEW p \in Principal, NEW to \in Principal, NEW r \in Resource,
             ReadForOffer(c, p, r, to) \/ ReadForGift(c, p, r, to)
      PROVE  TypeOK'
  <2>1. \E w \in GiftJob : job' = [job EXCEPT ![c] = w]
    BY <1>1 DEF ReadForOffer, ReadForGift, Begin, GiftJob
  <2>2. (job \in [Client -> Job])'
    BY <1>1, <2>1, JobStep DEF TablesGrow, ReadForOffer, ReadForGift, Job
  <2> QED  BY <1>1, <2>2 DEF TypeOK, ReadForOffer, ReadForGift, resources
<1>2. ASSUME NEW p \in Principal, NEW t \in DOMAIN transfer,
             NEW op \in {"accept", "reject", "cancel"}, ReadForAnswer(c, p, t, op)
      PROVE  TypeOK'
  <2>1. transfer[t] \in TransferRow
    BY ElementFacts DEF TypeOK
  <2>2. transfer[t].resource \in Resource
    BY <2>1 DEF TransferRow
  <2>3. owner[transfer[t].resource] \in Principal /\ parent[transfer[t].resource] \in Place
    BY <2>2 DEF TypeOK
  <2>4. \E w \in AnswerJob : job' = [job EXCEPT ![c] = w]
    BY <1>2, <2>2, <2>3 DEF ReadForAnswer, Begin, AnswerJob
  <2>5. (job \in [Client -> Job])'
    BY <1>2, <2>4, JobStep DEF TablesGrow, ReadForAnswer, Job
  <2> QED  BY <1>2, <2>5 DEF TypeOK, ReadForAnswer, resources
<1>3. ASSUME NEW d \in Project, Accept(c, d)
      PROVE  TypeOK'
  <2>1. job[c] \in AnswerJob
    BY <1>3, JobForms DEF Accept, Working
  <2>2. /\ job[c].request \in DOMAIN transfer /\ job[c].resource \in Resource
        /\ job[c].actor \in Principal
    BY <2>1 DEF AnswerJob
  <2>3. transfer' \in Seq(TransferRow) /\ DOMAIN transfer' = DOMAIN transfer
    BY <1>3, <2>2, DecideTyped DEF Accept, Decided
  <2>4. (owner \in [Resource -> Principal])'
    BY <1>3, <2>2 DEF Accept, Assign, TypeOK
  <2>5. (parent \in [Resource -> Place])'
    BY <1>3, <2>2 DEF Accept, Assign, TypeOK, Place
  <2>6. (bound \in [Resource -> SUBSET Principal])'
    BY <1>3, <2>2 DEF Accept, Regrant, TypeOK
  <2>7. (job \in [Client -> Job])'
    BY <1>3, <2>3, JobStep DEF TablesGrow, Accept, Finish, Job
  <2> QED  BY <1>3, <2>3, <2>4, <2>5, <2>6, <2>7 DEF TypeOK, Accept
<1>4. CASE Offer(c)
  <2>1. job[c] \in GiftJob
    BY <1>4, JobForms DEF Offer, Working
  <2>2. [resource |-> job[c].resource, sender |-> job[c].actor,
         recipient |-> job[c].to, status |-> "pending"] \in TransferRow
    BY <2>1 DEF GiftJob, TransferRow
  <2>3. transfer' \in Seq(TransferRow) /\ DOMAIN transfer \subseteq DOMAIN transfer'
    BY <1>4, <2>2, AppendFacts DEF Offer, TypeOK
  <2>4. (job \in [Client -> Job])'
    BY <1>4, <2>3, JobStep DEF TablesGrow, Offer, Finish, Job
  <2> QED  BY <1>4, <2>3, <2>4 DEF TypeOK, Offer, resources
<1>5. CASE Reject(c) \/ Cancel(c)
  <2>1. job[c] \in AnswerJob
    BY <1>5, JobForms DEF Reject, Cancel, Working
  <2>2. job[c].request \in DOMAIN transfer
    BY <2>1 DEF AnswerJob
  <2>3. transfer' \in Seq(TransferRow) /\ DOMAIN transfer' = DOMAIN transfer
    BY <1>5, <2>2, DecideTyped DEF Reject, Cancel, Decided
  <2>4. (job \in [Client -> Job])'
    BY <1>5, <2>3, JobStep DEF TablesGrow, Reject, Cancel, Finish, Job
  <2> QED  BY <1>5, <2>3, <2>4 DEF TypeOK, Reject, Cancel, resources
<1>6. CASE Give(c)
  <2>1. job[c] \in GiftJob
    BY <1>6, JobForms DEF Give, Working
  <2>2. job[c].resource \in Resource /\ job[c].to \in Principal
    BY <2>1 DEF GiftJob
  <2>3. (owner \in [Resource -> Principal])'
    BY <1>6, <2>2 DEF Give, Assign, TypeOK
  <2>4. (bound \in [Resource -> SUBSET Principal])'
    BY <1>6, <2>2 DEF Give, Regrant, TypeOK
  <2>5. (job \in [Client -> Job])'
    BY <1>6, JobStep DEF TablesGrow, Give, Finish, Job
  <2> QED  BY <1>6, <2>3, <2>4, <2>5 DEF TypeOK, Give
<1> QED  BY <1>1, <1>2, <1>3, <1>4, <1>5, <1>6 DEF TransferStep

(* A request whose status, votes and counters change keeps its type.       *)
LEMMA PromotionReplaced ==
    ASSUME TypeOK, NEW q \in DOMAIN promotion, NEW row \in PromotionRow,
           promotion' = [promotion EXCEPT ![q] = row]
    PROVE  promotion' \in Seq(PromotionRow) /\ DOMAIN promotion' = DOMAIN promotion
  BY ReplaceFacts DEF TypeOK

LEMMA NewRequestTyped ==
    ASSUME NEW r \in Resource, NEW d \in Place, NEW m \in {"move", "copy", "promote"}
    PROVE  NewRequest(r, d, m) \in PromotionRow
  BY DEF NewRequest, PromotionRow, PromotionStatus

(* Types after a step of the promotion endpoints.                          *)
LEMMA PromotionTyped ==
    ASSUME TypeOK, NEW c \in Client, PromotionStep(c), UNCHANGED <<transfer, late, setting>>
    PROVE  TypeOK'
<1>1. ASSUME NEW r \in Resource, NEW d \in Project \cup {Official}, NEW m \in {"move", "copy"},
             RequestPromotion(c, r, d, m)
      PROVE  TypeOK'
  <2>1. NewRequest(r, d, m) \in PromotionRow
    BY NewRequestTyped DEF Place
  <2>2. promotion' \in Seq(PromotionRow) /\ DOMAIN promotion \subseteq DOMAIN promotion'
    BY <1>1, <2>1, AppendFacts DEF RequestPromotion, TypeOK
  <2>3. (job \in [Client -> Job])'
    BY <1>1, <2>2, JobStep DEF TablesGrow, RequestPromotion, Job
  <2> QED  BY <1>1, <2>2, <2>3 DEF TypeOK, RequestPromotion, resources
<1>2. ASSUME NEW p \in Principal, NEW q \in DOMAIN promotion, NEW d \in {"approve", "reject"},
             ReadForVote(c, p, q, d)
      PROVE  TypeOK'
  <2>1. \E w \in VoteJob : job' = [job EXCEPT ![c] = w]
    BY <1>2 DEF ReadForVote, Begin, VoteJob
  <2>2. (job \in [Client -> Job])'
    BY <1>2, <2>1, JobStep DEF TablesGrow, ReadForVote, Job
  <2> QED  BY <1>2, <2>2 DEF TypeOK, ReadForVote, resources
<1>3. CASE CountVotes(c)
  <2>1. job[c] \in VoteJob
    BY <1>3, JobForms DEF CountVotes, Working
  <2>2. promotion[job[c].request] \in PromotionRow
    BY <2>1, ElementFacts DEF VoteJob, TypeOK
  <2>3. promotion[job[c].request].status \in PromotionStatus
    BY <2>2 DEF PromotionRow, PromotionStatus
  <2>4. \A a, b : Verdict(a, b) \in {"open", "approved", "rejected"}
    BY DEF Verdict
  <2> DEFINE counted(v) == [op |-> "count", actor |-> job[c].actor, request |-> job[c].request,
                            decision |-> job[c].decision,
                            seen |-> promotion[job[c].request].status, verdict |-> v]
  <2>a. \A v \in {"open", "approved", "rejected"} : counted(v) \in CountJob
    BY <2>1, <2>3 DEF CountJob, VoteJob
  <2>b. \E a, b : job' = [job EXCEPT ![c] = counted(Verdict(a, b))]
    BY <1>3 DEF CountVotes
  <2> HIDE DEF counted
  <2>5. \E w \in CountJob : job' = [job EXCEPT ![c] = w]
    BY <2>4, <2>a, <2>b
  <2>6. (job \in [Client -> Job])'
    BY <1>3, <2>5, JobStep DEF TablesGrow, CountVotes, Job
  <2> QED  BY <1>3, <2>6 DEF TypeOK, CountVotes, resources
<1>4. CASE SettleVote(c)
  <2>1. job[c] \in CountJob
    BY <1>4, JobForms DEF SettleVote, Working
  <2> DEFINE j == job[c]
             q == j.request
             row == [promotion[q] EXCEPT !.votes = [@ EXCEPT ![j.actor] = j.decision],
                                         !.status = IF j.verdict = j.seen THEN @ ELSE j.verdict]
  <2>2. q \in DOMAIN promotion /\ promotion[q] \in PromotionRow
    BY <2>1, ElementFacts DEF CountJob, TypeOK
  <2>3. row \in PromotionRow
    BY <2>1, <2>2 DEF CountJob, PromotionRow, PromotionStatus
  <2>4. promotion' = [promotion EXCEPT ![q] = row]
    BY <1>4, <2>2 DEF SettleVote, TypeOK, PromotionRow
  <2>5. promotion' \in Seq(PromotionRow) /\ DOMAIN promotion' = DOMAIN promotion
    BY <2>2, <2>3, <2>4, PromotionReplaced
  <2>6. (job \in [Client -> Job])'
    BY <1>4, <2>5, JobStep DEF TablesGrow, SettleVote, Finish, Job
  <2> QED  BY <1>4, <2>5, <2>6 DEF TypeOK, SettleVote, resources
<1>5. ASSUME NEW p \in Principal, NEW q \in DOMAIN promotion,
             ReadForExecute(c, p, q) \/ ReadForApproval(c, p, q)
      PROVE  TypeOK'
  <2>a. promotion[q] \in PromotionRow
    BY ElementFacts DEF TypeOK
  <2>1. promotion[q].moving \in Resource
    BY <2>a DEF PromotionRow
  <2>2. standing[promotion[q].moving] \in Standing /\ parent[promotion[q].moving] \in Place
    BY <2>1 DEF TypeOK
  <2>3. \E w \in ExecuteJob \cup ApproveJob : job' = [job EXCEPT ![c] = w]
    BY <1>5, <2>1, <2>2 DEF ReadForExecute, ReadForApproval, Begin, ExecuteJob, ApproveJob
  <2>4. (job \in [Client -> Job])'
    BY <1>5, <2>3, JobStep DEF TablesGrow, ReadForExecute, ReadForApproval, Job
  <2> QED  BY <1>5, <2>4 DEF TypeOK, ReadForExecute, ReadForApproval, resources
<1>6. CASE Execute(c)
  <2>1. job[c] \in ExecuteJob
    BY <1>6, JobForms DEF Execute, Working
  <2> DEFINE q == job[c].request
             row == [promotion[q] EXCEPT !.status = "promoted", !.executed = @ + 1]
  <2>2. q \in DOMAIN promotion /\ promotion[q] \in PromotionRow
    BY <2>1, ElementFacts DEF ExecuteJob, TypeOK
  <2>a. promotion[q].executed + 1 \in Nat
    BY <2>2 DEF PromotionRow
  <2>3. row \in PromotionRow /\ promotion[q].moving \in Resource /\ promotion[q].to \in Place
    BY <2>2, <2>a DEF PromotionRow, PromotionStatus
  <2>4. promotion' = [promotion EXCEPT ![q] = row]
    BY <1>6, <2>2 DEF Execute, TypeOK, PromotionRow
  <2>5. promotion' \in Seq(PromotionRow) /\ DOMAIN promotion' = DOMAIN promotion
    BY <2>2, <2>3, <2>4, PromotionReplaced
  <2>6. (job \in [Client -> Job])'
    BY <1>6, <2>5, JobStep DEF TablesGrow, Execute, Finish, Job
  <2>7. (parent \in [Resource -> Place])'
    BY <1>6, <2>3 DEF Execute, TypeOK
  <2> QED  BY <1>6, <2>5, <2>6, <2>7 DEF TypeOK, Execute
<1>7. ASSUME NEW team \in Principal, NEW r \in Resource, NEW n \in Resource,
             PromoteResource(c, r, team, n)
      PROVE  TypeOK'
  <2>1. NewRequest(n, Official, "promote") \in PromotionRow
    BY NewRequestTyped DEF Place
  <2>2. promotion' \in Seq(PromotionRow) /\ DOMAIN promotion \subseteq DOMAIN promotion'
    BY <1>7, <2>1, AppendFacts DEF PromoteResource, TypeOK
  <2>3. (job \in [Client -> Job])'
    BY <1>7, <2>2, JobStep DEF TablesGrow, PromoteResource, Job
  <2> QED  BY <1>7, <2>2, <2>3 DEF TypeOK, PromoteResource, Place, Standing
<1>8. CASE Approve(c)
  <2>1. job[c] \in ApproveJob
    BY <1>8, JobForms DEF Approve, Working
  <2> DEFINE j == job[c]
             q == j.request
             row == [promotion[q] EXCEPT !.votes = [@ EXCEPT ![j.actor] = "approved"],
                                         !.status = "merged", !.completed = @ + 1]
  <2>2. q \in DOMAIN promotion /\ promotion[q] \in PromotionRow
    BY <2>1, ElementFacts DEF ApproveJob, TypeOK
  <2>a. promotion[q].completed + 1 \in Nat
    BY <2>2 DEF PromotionRow
  <2>b. [promotion[q].votes EXCEPT ![j.actor] = "approved"]
          \in [Principal -> {"none", "approve", "reject", "approved"}]
    BY <2>1, <2>2 DEF ApproveJob, PromotionRow
  <2>3. row \in PromotionRow /\ promotion[q].to \in Place
    BY <2>1, <2>2, <2>a, <2>b DEF PromotionRow, ApproveJob, PromotionStatus
  <2>4. promotion' = [promotion EXCEPT ![q] = row]
    BY <1>8, <2>2 DEF Approve, TypeOK, PromotionRow
  <2>5. promotion' \in Seq(PromotionRow) /\ DOMAIN promotion' = DOMAIN promotion
    BY <2>2, <2>3, <2>4, PromotionReplaced
  <2>6. (job \in [Client -> Job])'
    BY <1>8, <2>5, JobStep DEF TablesGrow, Approve, Finish, Job
  <2>7. (parent \in [Resource -> Place])'
    BY <1>8, <2>3 DEF Approve, TypeOK
  <2>8. (standing \in [Resource -> Standing])'
    BY <1>8 DEF Approve, TypeOK, Standing
  <2> QED  BY <1>8, <2>5, <2>6, <2>7, <2>8 DEF TypeOK, Approve
<1> QED  BY <1>1, <1>2, <1>3, <1>4, <1>5, <1>6, <1>7, <1>8 DEF PromotionStep

LEMMA TypeStep == TypeOK /\ [Next]_vars => TypeOK'
<1> SUFFICES ASSUME TypeOK, [Next]_vars PROVE TypeOK'
  OBVIOUS
<1>1. ASSUME UNCHANGED setting, NEW c \in Client, TransferStep(c), UNCHANGED promotion
      PROVE  TypeOK'
  BY <1>1, TransferTyped
<1>2. ASSUME UNCHANGED setting, NEW c \in Client, PromotionStep(c), UNCHANGED <<transfer, late>>
      PROVE  TypeOK'
  BY <1>2, PromotionTyped
<1>3. ASSUME UNCHANGED setting, NEW c \in Client, Abort(c),
             UNCHANGED <<resources, transfer, late, promotion>>
      PROVE  TypeOK'
  <2>1. (job \in [Client -> Job])'
    BY <1>3, JobStep DEF TablesGrow, Abort, Finish, Job
  <2> QED  BY <1>3, <2>1 DEF TypeOK, resources
<1>4. ASSUME UNCHANGED setting, NEW t \in DOMAIN transfer, Expire(t), UNCHANGED promotion
      PROVE  TypeOK'
  <2>1. (job \in [Client -> Job])'
    BY <1>4 DEF TypeOK, Expire, Job, GiftJob, AnswerJob, VoteJob, CountJob, ExecuteJob, ApproveJob
  <2> QED  BY <1>4, <2>1 DEF TypeOK, Expire, resources
<1>5. CASE UNCHANGED vars
  BY <1>5 DEF vars, TypeOK, Job, GiftJob, AnswerJob, VoteJob, CountJob, ExecuteJob, ApproveJob
<1> QED  BY <1>1, <1>2, <1>3, <1>4, <1>5 DEF Next

(* Rows keep the types of their columns, and handlers work on rows that    *)
(* exist, for every set of constants.                                      *)
THEOREM Typing == Spec => []TypeOK
  BY InitTyped, TypeStep, PTL DEF Spec

-----------------------------------------------------------------------------
(* OwnerIsBound is not inductive: an accept writes the owner only if it    *)
(* differs from the one that was read.  While nobody holds the role, that  *)
(* one is still the owner, as the first change of hands grants the role.   *)
Informed(j) ==
    /\ j.op = "accept" /\ bound[j.resource] = {} => j.seen = owner[j.resource]
    /\ j.op = "give" /\ bound[j.resource] = {} => j.actor = owner[j.resource]

OwnersKnown == OwnerIsBound /\ \A c \in Client : Informed(job[c])

LEMMA InitOwners == Init => OwnersKnown
  BY DEF Init, ResourceInit, OwnersKnown, OwnerIsBound, Informed, Idle

(* Owners and roles stay, and a handler begins work knowing the owner.     *)
LEMMA QuietOwners ==
    ASSUME TypeOK, OwnersKnown, NEW c \in Client, NEW w, Informed(w),
           job' = [job EXCEPT ![c] = w], UNCHANGED <<owner, bound>>
    PROVE  OwnersKnown'
<1>1. \A d \in Client : job'[d] = IF d = c THEN w ELSE job[d]
  BY DEF TypeOK
<1> QED  BY <1>1 DEF OwnersKnown, OwnerIsBound, Informed

(* A resource changes hands to someone who gets the role.                  *)
LEMMA ChangedHands ==
    ASSUME TypeOK, OwnersKnown, NEW c \in Client, NEW r \in Resource,
           NEW p, NEW S \in SUBSET Principal, p \in S,
           owner' = [owner EXCEPT ![r] = p], bound' = [bound EXCEPT ![r] = S],
           job' = [job EXCEPT ![c] = Idle] \/ job' = job
    PROVE  OwnersKnown'
<1>1. \A x \in Resource : /\ owner'[x] = IF x = r THEN p ELSE owner[x]
                         /\ bound'[x] = IF x = r THEN S ELSE bound[x]
  BY DEF TypeOK
<1>2. ASSUME NEW d \in Client PROVE Informed(job[d])'
  <2>1. job'[d] = job[d] \/ job'[d].op = "idle"
    BY DEF TypeOK, Idle
  <2>2. job[d].op \in {"accept", "give"} => job[d].resource \in Resource
    BY JobForms DEF AnswerJob, GiftJob
  <2>3. Informed(job[d])
    BY DEF OwnersKnown
  <2> QED  BY <1>1, <2>1, <2>2, <2>3 DEF Informed
<1>3. OwnerIsBound'
  BY <1>1 DEF OwnersKnown, OwnerIsBound
<1> QED  BY <1>2, <1>3 DEF OwnersKnown

LEMMA AcceptOwners ==
    ASSUME TypeOK, OwnersKnown, NEW c \in Client, NEW d \in Project, Accept(c, d)
    PROVE  OwnersKnown'
<1> DEFINE j == job[c]
           r == j.resource
           p == IF j.seen = j.actor THEN owner[r] ELSE j.actor
           S == (bound[r] \ {j.seen}) \cup {j.actor}
<1>1. j \in AnswerJob
  BY JobForms DEF Accept, Working
<1>2. r \in Resource /\ j.actor \in Principal /\ j.op = "accept"
  BY <1>1 DEF AnswerJob, Accept, Working
<1>3. owner' = [owner EXCEPT ![r] = p] /\ bound' = [bound EXCEPT ![r] = S]
  BY <1>2 DEF Accept, Assign, Regrant, TypeOK
<1>4. S \in SUBSET Principal
  BY <1>2 DEF TypeOK
<1>5. bound[r] = {} => j.seen = owner[r]
  BY <1>2 DEF OwnersKnown, Informed
<1>6. bound[r] # {} => owner[r] \in bound[r]
  BY <1>2 DEF OwnersKnown, OwnerIsBound
<1>7. p \in S
  BY <1>5, <1>6
<1>8. job' = [job EXCEPT ![c] = Idle]
  BY DEF Accept, Finish
<1> HIDE DEF p, S
<1> QED  BY <1>2, <1>3, <1>4, <1>7, <1>8, ChangedHands

LEMMA GiveOwners ==
    ASSUME TypeOK, OwnersKnown, NEW c \in Client, Give(c)
    PROVE  OwnersKnown'
<1> DEFINE j == job[c]
           r == j.resource
           p == IF j.actor = j.to THEN owner[r] ELSE j.to
           S == (bound[r] \ {j.actor}) \cup {j.to}
<1>1. j \in GiftJob
  BY JobForms DEF Give, Working
<1>2. r \in Resource /\ j.to \in Principal /\ j.op = "give"
  BY <1>1 DEF GiftJob, Give, Working
<1>3. owner' = [owner EXCEPT ![r] = p] /\ bound' = [bound EXCEPT ![r] = S]
  BY <1>2 DEF Give, Assign, Regrant, TypeOK
<1>4. S \in SUBSET Principal
  BY <1>2 DEF TypeOK
<1>5. bound[r] = {} => j.actor = owner[r]
  BY <1>2 DEF OwnersKnown, Informed
<1>6. bound[r] # {} => owner[r] \in bound[r]
  BY <1>2 DEF OwnersKnown, OwnerIsBound
<1>7. p \in S
  BY <1>5, <1>6
<1>8. job' = [job EXCEPT ![c] = Idle]
  BY DEF Give, Finish
<1> HIDE DEF p, S
<1> QED  BY <1>2, <1>3, <1>4, <1>7, <1>8, ChangedHands

LEMMA TransferOwners ==
    ASSUME TypeOK, OwnersKnown, NEW c \in Client, TransferStep(c)
    PROVE  OwnersKnown'
<1>1. ASSUME NEW p \in Principal, NEW to \in Principal, NEW r \in Resource,
             ReadForOffer(c, p, r, to) \/ ReadForGift(c, p, r, to)
      PROVE  OwnersKnown'
  <2> DEFINE w(op) == [op |-> op, actor |-> p, resource |-> r, to |-> to]
  <2>1. owner[r] = p
    BY <1>1 DEF ReadForOffer, ReadForGift
  <2>2. \A op \in {"offer", "give"} : Informed(w(op))
    BY <2>1 DEF Informed
  <2>3. \E op \in {"offer", "give"} : job' = [job EXCEPT ![c] = w(op)]
    BY <1>1 DEF ReadForOffer, ReadForGift, Begin
  <2> HIDE DEF w
  <2> QED  BY <1>1, <2>2, <2>3, QuietOwners DEF ReadForOffer, ReadForGift, resources
<1>2. ASSUME NEW p \in Principal, NEW t \in DOMAIN transfer,
             NEW op \in {"accept", "reject", "cancel"}, ReadForAnswer(c, p, t, op)
      PROVE  OwnersKnown'
  <2> DEFINE r == transfer[t].resource
             w == [op |-> op, actor |-> p, request |-> t,
                   resource |-> r, seen |-> owner[r], place |-> parent[r]]
  <2>1. Informed(w)
    BY DEF Informed
  <2>2. job' = [job EXCEPT ![c] = w]
    BY <1>2 DEF ReadForAnswer, Begin
  <2> HIDE DEF w
  <2> QED  BY <1>2, <2>1, <2>2, QuietOwners DEF ReadForAnswer, resources
<1>3. ASSUME Offer(c) \/ Reject(c) \/ Cancel(c)
      PROVE  OwnersKnown'
  BY <1>3, QuietOwners DEF Offer, Reject, Cancel, Finish, Informed, Idle, resources
<1> QED  BY <1>1, <1>2, <1>3, AcceptOwners, GiveOwners DEF TransferStep

(* Of the promotion endpoints only promote_resource touches an owner: it   *)
(* makes the copy's row.                                                   *)
PromotionOps == {"idle", "vote", "count", "execute", "approve"}

Promoting(c) == job' = [job EXCEPT ![c] = job'[c]] /\ job'[c].op \in PromotionOps

LEMMA PromotionQuiet ==
    ASSUME TypeOK, NEW c \in Client, PromotionStep(c),
           ~ \E team \in Principal, r, n \in Resource : PromoteResource(c, r, team, n)
    PROVE  UNCHANGED <<owner, bound>> /\ (job' = job \/ Promoting(c))
<1>0. ASSUME NEW w, job' = [job EXCEPT ![c] = w], w.op \in PromotionOps PROVE Promoting(c)
  BY <1>0 DEF TypeOK, Promoting
<1>1. ASSUME NEW r \in Resource, NEW d, NEW m, RequestPromotion(c, r, d, m)
      PROVE  UNCHANGED <<owner, bound, job>>
  BY <1>1 DEF RequestPromotion, resources
<1>2. ASSUME NEW p \in Principal, NEW q \in DOMAIN promotion, NEW d, ReadForVote(c, p, q, d)
      PROVE  UNCHANGED <<owner, bound>> /\ Promoting(c)
  BY <1>0, <1>2 DEF ReadForVote, Begin, resources, PromotionOps
<1>3. ASSUME CountVotes(c)
      PROVE  UNCHANGED <<owner, bound>> /\ Promoting(c)
  <2> DEFINE counted(v) == [op |-> "count", actor |-> job[c].actor, request |-> job[c].request,
                            decision |-> job[c].decision,
                            seen |-> promotion[job[c].request].status, verdict |-> v]
  <2>1. \E v : job' = [job EXCEPT ![c] = counted(v)]
    BY <1>3 DEF CountVotes
  <2>2. \A v : counted(v).op \in PromotionOps
    BY DEF PromotionOps
  <2> HIDE DEF counted
  <2>3. Promoting(c)
    BY <1>0, <2>1, <2>2
  <2> QED  BY <1>3, <2>3 DEF CountVotes, resources
<1>4. ASSUME SettleVote(c) \/ Execute(c) \/ Approve(c)
      PROVE  UNCHANGED <<owner, bound>> /\ Promoting(c)
  <2>1. Idle.op \in PromotionOps
    BY DEF Idle, PromotionOps
  <2>2. job' = [job EXCEPT ![c] = Idle]
    BY <1>4 DEF SettleVote, Execute, Approve, Finish
  <2>3. Promoting(c)
    BY <1>0, <2>1, <2>2
  <2> QED  BY <1>4, <2>3 DEF SettleVote, Execute, Approve, resources
<1>5. ASSUME NEW p \in Principal, NEW q \in DOMAIN promotion,
             ReadForExecute(c, p, q) \/ ReadForApproval(c, p, q)
      PROVE  UNCHANGED <<owner, bound>> /\ Promoting(c)
  <2> DEFINE r == promotion[q].moving
             executing == [op |-> "execute", actor |-> p, request |-> q]
             approving == [op |-> "approve", actor |-> p, request |-> q, resource |-> r,
                           place |-> parent[r], standing |-> standing[r]]
  <2>1. executing.op \in PromotionOps /\ approving.op \in PromotionOps
    BY DEF PromotionOps
  <2>2. \/ job' = [job EXCEPT ![c] = executing]
        \/ job' = [job EXCEPT ![c] = approving]
    BY <1>5 DEF ReadForExecute, ReadForApproval, Begin
  <2> HIDE DEF executing, approving
  <2>3. Promoting(c)
    BY <1>0, <2>1, <2>2
  <2> QED  BY <1>5, <2>3 DEF ReadForExecute, ReadForApproval, resources
<1> QED  BY <1>1, <1>2, <1>3, <1>4, <1>5 DEF PromotionStep

LEMMA PromotionOwners ==
    ASSUME TypeOK, OwnersKnown, NEW c \in Client, PromotionStep(c)
    PROVE  OwnersKnown'
<1>1. ASSUME NEW team \in Principal, NEW r \in Resource, NEW n \in Resource,
             PromoteResource(c, r, team, n)
      PROVE  OwnersKnown'
  BY <1>1, ChangedHands DEF PromoteResource
<1>2. ASSUME UNCHANGED <<owner, bound>>, Promoting(c)
      PROVE  OwnersKnown'
  <2>1. PICK w : w = job'[c]
    OBVIOUS
  <2>2. Informed(w)
    BY <1>2, <2>1 DEF Promoting, Informed, PromotionOps
  <2> QED  BY <1>2, <2>1, <2>2, QuietOwners DEF Promoting
<1>3. ASSUME UNCHANGED <<owner, bound, job>> PROVE OwnersKnown'
  BY <1>3 DEF OwnersKnown, OwnerIsBound, Informed
<1> QED  BY <1>1, <1>2, <1>3, PromotionQuiet

LEMMA OwnersStep == TypeOK /\ OwnersKnown /\ [Next]_vars => OwnersKnown'
<1> SUFFICES ASSUME TypeOK, OwnersKnown, [Next]_vars PROVE OwnersKnown'
  OBVIOUS
<1>1. ASSUME NEW c \in Client, Abort(c), UNCHANGED resources
      PROVE  OwnersKnown'
  BY <1>1, QuietOwners DEF Abort, Finish, Informed, Idle, resources
<1>2. ASSUME NEW t \in DOMAIN transfer, Expire(t)
      PROVE  OwnersKnown'
  BY <1>2 DEF Expire, OwnersKnown, OwnerIsBound, Informed, resources
<1>3. CASE UNCHANGED vars
  BY <1>3 DEF vars, OwnersKnown, OwnerIsBound, Informed
<1> QED  BY <1>1, <1>2, <1>3, TransferOwners, PromotionOwners DEF Next

(* Whoever owns a resource that has changed hands holds the role of owner, *)
(* for any number of handlers and in any order of their reads and commits. *)
THEOREM OwnerTheorem == Spec => []OwnerIsBound
<1>1. OwnersKnown => OwnerIsBound
  BY DEF OwnersKnown
<1> QED  BY Typing, InitOwners, OwnersStep, <1>1, PTL DEF Spec

-----------------------------------------------------------------------------
(* Only the handlers of the setting work, so a serial setting has one job  *)
(* at a time, and what that handler has read stays current until it writes.*)
Busy(c) == job[c].op # "idle"
OnlyHandlers == \A c \in Client : Busy(c) => c \in setting.handlers

LEMMA InitHandlers == Init => OnlyHandlers
  BY DEF Init, ResourceInit, OnlyHandlers, Busy, Idle

(* A handler changes no job but its own.                                   *)
LEMMA OwnJob ==
    ASSUME TypeOK, NEW c \in Client, TransferStep(c) \/ PromotionStep(c) \/ Abort(c)
    PROVE  (Busy(c) \/ Free(c)) /\ \E w : job' = [job EXCEPT ![c] = w]
<1>1. job = [job EXCEPT ![c] = job[c]]
  BY DEF TypeOK
<1>2. ASSUME NEW p \in Principal, NEW to \in Principal, NEW r \in Resource,
             ReadForOffer(c, p, r, to) \/ ReadForGift(c, p, r, to)
      PROVE  Free(c) /\ \E w : job' = [job EXCEPT ![c] = w]
  BY <1>2 DEF ReadForOffer, ReadForGift, Begin
<1>3. ASSUME NEW p \in Principal, NEW t \in DOMAIN transfer,
             NEW op \in {"accept", "reject", "cancel"}, ReadForAnswer(c, p, t, op)
      PROVE  Free(c) /\ \E w : job' = [job EXCEPT ![c] = w]
  BY <1>3 DEF ReadForAnswer, Begin
<1>4. ASSUME NEW d \in Project, Accept(c, d)
      PROVE  Busy(c) /\ \E w : job' = [job EXCEPT ![c] = w]
  BY <1>4 DEF Accept, Working, Busy, Finish
<1>5. ASSUME Offer(c) \/ Reject(c) \/ Cancel(c) \/ Give(c)
      PROVE  Busy(c) /\ \E w : job' = [job EXCEPT ![c] = w]
  BY <1>5 DEF Offer, Reject, Cancel, Give, Working, Busy, Finish
<1>6. ASSUME NEW r \in Resource, NEW d, NEW m, RequestPromotion(c, r, d, m)
      PROVE  Free(c) /\ job' = job
  BY <1>6 DEF RequestPromotion
<1>7. ASSUME NEW p \in Principal, NEW q \in DOMAIN promotion, NEW d, ReadForVote(c, p, q, d)
      PROVE  Free(c) /\ \E w : job' = [job EXCEPT ![c] = w]
  BY <1>7 DEF ReadForVote, Begin
<1>8. ASSUME CountVotes(c) \/ SettleVote(c) \/ Execute(c) \/ Approve(c) \/ Abort(c)
      PROVE  Busy(c) /\ \E w : job' = [job EXCEPT ![c] = w]
  BY <1>8 DEF CountVotes, SettleVote, Execute, Approve, Abort, Working, Busy, Finish
<1>9. ASSUME NEW p \in Principal, NEW q \in DOMAIN promotion,
             ReadForExecute(c, p, q) \/ ReadForApproval(c, p, q)
      PROVE  Free(c) /\ \E w : job' = [job EXCEPT ![c] = w]
  BY <1>9 DEF ReadForExecute, ReadForApproval, Begin
<1>10. ASSUME NEW team \in Principal, NEW r \in Resource, NEW n \in Resource,
              PromoteResource(c, r, team, n)
       PROVE  Free(c) /\ job' = job
  BY <1>10 DEF PromoteResource
<1>11. CASE TransferStep(c)
  BY <1>2, <1>3, <1>4, <1>5, <1>11 DEF TransferStep
<1>12. CASE PromotionStep(c)
  BY <1>1, <1>6, <1>7, <1>8, <1>9, <1>10, <1>12 DEF PromotionStep
<1> QED  BY <1>8, <1>11, <1>12

LEMMA HandlersStep == TypeOK /\ OnlyHandlers /\ [Next]_vars => OnlyHandlers'
<1> SUFFICES ASSUME TypeOK, OnlyHandlers, [Next]_vars PROVE OnlyHandlers'
  OBVIOUS
<1>1. ASSUME NEW c \in Client, UNCHANGED setting,
             TransferStep(c) \/ PromotionStep(c) \/ Abort(c)
      PROVE  OnlyHandlers'
  <2>1. PICK w : job' = [job EXCEPT ![c] = w]
    BY <1>1, OwnJob
  <2>2. c \in setting.handlers
    BY <1>1, OwnJob DEF OnlyHandlers, Free
  <2> QED  BY <1>1, <2>1, <2>2 DEF OnlyHandlers, Busy, TypeOK
<1>2. ASSUME UNCHANGED <<job, setting>> PROVE OnlyHandlers'
  BY <1>2 DEF OnlyHandlers, Busy
<1> QED  BY <1>1, <1>2 DEF Next, vars, Expire

LEMMA Alone ==
    ASSUME TypeOK, OnlyHandlers, Serial, NEW c \in Client, Busy(c) \/ Free(c)
    PROVE  \A d \in Client \ {c} : job[d].op = "idle"
  BY DEF OnlyHandlers, Busy, Serial, Free

(* When the only handler has finished, nobody works.                       *)
LEMMA AllIdle ==
    ASSUME TypeOK, OnlyHandlers, Serial, NEW c \in Client, Busy(c), Finish(c)
    PROVE  \A d \in Client : job'[d].op = "idle"
  BY Alone DEF Finish, TypeOK, Idle

-----------------------------------------------------------------------------
(* Transfers that are handled one at a time.                               *)
Current(j) ==
    /\ j.op = "offer" => PendingOn(j.resource) = {}
    /\ j.op \in {"accept", "reject", "cancel"} => Pending(j.request)
    /\ j.op = "accept" => j.seen = owner[j.resource]
    /\ j.op = "give" => j.actor = owner[j.resource]

SerialTransfers ==
    /\ \A c \in Client : Current(job[c])
    /\ \A r \in Resource : bound[r] \subseteq {owner[r]}
    /\ \A t, u \in DOMAIN transfer :
          Pending(t) /\ Pending(u) /\ transfer[t].resource = transfer[u].resource => t = u

LEMMA InitSerial == Init => SerialTransfers
  BY DEF Init, ResourceInit, TransferInit, SerialTransfers, Current, Idle

LEMMA QuietSerial ==
    ASSUME TypeOK, SerialTransfers, NEW c \in Client, NEW w, Current(w),
           job' = [job EXCEPT ![c] = w], UNCHANGED <<owner, bound, transfer>>
    PROVE  SerialTransfers'
<1>1. \A d \in Client : job'[d] = IF d = c THEN w ELSE job[d]
  BY DEF TypeOK
<1> QED  BY <1>1 DEF SerialTransfers, Current, Pending, PendingOn

(* What Decide and Offer do to pending requests.                           *)
LEMMA DecideFacts ==
    ASSUME TypeOK, NEW t \in DOMAIN transfer, NEW s \in Decided, Decide(t, s)
    PROVE  /\ DOMAIN transfer' = DOMAIN transfer
           /\ ~Pending(t)'
           /\ \A u \in DOMAIN transfer : transfer'[u].resource = transfer[u].resource
           /\ \A u \in DOMAIN transfer \ {t} : transfer'[u] = transfer[u]
<1>1. /\ DOMAIN transfer' = DOMAIN transfer
      /\ transfer' = [transfer EXCEPT ![t] = [transfer[t] EXCEPT !.status = s]]
  BY DecideTyped
<1>2. transfer[t] \in TransferRow
  BY ElementFacts DEF TypeOK
<1>3. transfer'[t] = [transfer[t] EXCEPT !.status = s]
  BY <1>1 DEF TypeOK
<1>4. transfer'[t].status = s /\ transfer'[t].resource = transfer[t].resource
  BY <1>2, <1>3 DEF TransferRow
<1>5. \A u \in DOMAIN transfer \ {t} : transfer'[u] = transfer[u]
  BY <1>1 DEF TypeOK
<1> QED  BY <1>1, <1>4, <1>5 DEF Pending, Decided

LEMMA OfferFacts ==
    ASSUME TypeOK, NEW c \in Client, Offer(c)
    PROVE  LET n == Len(transfer) + 1
           IN  /\ DOMAIN transfer' = DOMAIN transfer \cup {n}
               /\ n \notin DOMAIN transfer
               /\ transfer'[n].resource = job[c].resource
               /\ \A t \in DOMAIN transfer : transfer'[t] = transfer[t]
<1> DEFINE row == [resource |-> job[c].resource, sender |-> job[c].actor,
                   recipient |-> job[c].to, status |-> "pending"]
<1>1. job[c] \in GiftJob
  BY JobForms DEF Offer, Working
<1>2. row \in TransferRow /\ row.resource = job[c].resource
  BY <1>1 DEF GiftJob, TransferRow
<1>3. transfer' = Append(transfer, row)
  BY DEF Offer
<1> HIDE DEF row
<1> QED  BY <1>2, <1>3, AppendFacts DEF TypeOK

LEMMA SerialTransferStep ==
    ASSUME TypeOK, OnlyHandlers, Serial, SerialTransfers, NEW c \in Client, TransferStep(c)
    PROVE  SerialTransfers'
<1>0. ASSUME Busy(c), Finish(c)
      PROVE  \A d \in Client : Current(job[d])'
  BY <1>0, AllIdle DEF Current
<1>1. ASSUME NEW p \in Principal, NEW to \in Principal, NEW r \in Resource,
             ReadForOffer(c, p, r, to) \/ ReadForGift(c, p, r, to)
      PROVE  SerialTransfers'
  <2> DEFINE offer == [op |-> "offer", actor |-> p, resource |-> r, to |-> to]
             gift == [op |-> "give", actor |-> p, resource |-> r, to |-> to]
  <2>1. ReadForOffer(c, p, r, to) => Current(offer)
    BY DEF ReadForOffer, Blocking, Current
  <2>2. ReadForGift(c, p, r, to) => Current(gift)
    BY DEF ReadForGift, Current
  <2>3. ReadForOffer(c, p, r, to) => job' = [job EXCEPT ![c] = offer]
    BY DEF ReadForOffer, Begin
  <2>4. ReadForGift(c, p, r, to) => job' = [job EXCEPT ![c] = gift]
    BY DEF ReadForGift, Begin
  <2>5. UNCHANGED <<owner, bound, transfer>>
    BY <1>1 DEF ReadForOffer, ReadForGift, resources
  <2> HIDE DEF offer, gift
  <2> QED  BY <1>1, <2>1, <2>2, <2>3, <2>4, <2>5, QuietSerial
<1>2. ASSUME NEW p \in Principal, NEW t \in DOMAIN transfer,
             NEW op \in {"accept", "reject", "cancel"}, ReadForAnswer(c, p, t, op)
      PROVE  SerialTransfers'
  <2> DEFINE r == transfer[t].resource
             w == [op |-> op, actor |-> p, request |-> t,
                   resource |-> r, seen |-> owner[r], place |-> parent[r]]
  <2>1. Current(w)
    BY <1>2 DEF ReadForAnswer, Answerable, Current
  <2>2. job' = [job EXCEPT ![c] = w]
    BY <1>2 DEF ReadForAnswer, Begin
  <2>3. UNCHANGED <<owner, bound, transfer>>
    BY <1>2 DEF ReadForAnswer, resources
  <2> HIDE DEF w
  <2> QED  BY <2>1, <2>2, <2>3, QuietSerial
<1>3. ASSUME NEW d \in Project, Accept(c, d)
      PROVE  SerialTransfers'
  <2> DEFINE j == job[c]
  <2>1. j \in AnswerJob /\ j.op = "accept"
    BY <1>3, JobForms DEF Accept, Working
  <2>2. j.request \in DOMAIN transfer /\ j.resource \in Resource
    BY <2>1 DEF AnswerJob
  <2>3. Busy(c) /\ Finish(c) /\ Decide(j.request, "accepted")
    BY <1>3 DEF Accept, Working, Busy
  <2>4. j.seen = owner[j.resource] /\ bound[j.resource] \subseteq {owner[j.resource]}
    BY <2>1, <2>2 DEF SerialTransfers, Current
  <2>5. \A r \in Resource : owner'[r] = IF r = j.resource THEN j.actor ELSE owner[r]
    BY <1>3, <2>2, <2>4 DEF Accept, Assign, TypeOK
  <2>6. \A r \in Resource :
           bound'[r] = IF r = j.resource THEN (bound[r] \ {j.seen}) \cup {j.actor} ELSE bound[r]
    BY <1>3, <2>2 DEF Accept, Regrant, TypeOK
  <2>7. \A r \in Resource : bound'[r] \subseteq {owner'[r]}
    BY <2>4, <2>5, <2>6 DEF SerialTransfers
  <2> QED  BY <1>0, <2>2, <2>3, <2>7, DecideFacts DEF SerialTransfers, Pending, Decided
<1>4. CASE Offer(c)
  <2>1. job[c] \in GiftJob /\ job[c].op = "offer"
    BY <1>4, JobForms DEF Offer, Working
  <2>2. PendingOn(job[c].resource) = {}
    BY <2>1 DEF SerialTransfers, Current
  <2>3. Busy(c) /\ Finish(c) /\ UNCHANGED <<owner, bound>>
    BY <1>4 DEF Offer, Working, Busy, resources
  <2> QED  BY <1>0, <1>4, <2>2, <2>3, OfferFacts DEF SerialTransfers, Pending, PendingOn
<1>5. CASE Reject(c) \/ Cancel(c)
  <2>1. job[c] \in AnswerJob
    BY <1>5, JobForms DEF Reject, Cancel, Working
  <2>2. job[c].request \in DOMAIN transfer
    BY <2>1 DEF AnswerJob
  <2>3. /\ Busy(c) /\ Finish(c) /\ UNCHANGED <<owner, bound>>
        /\ Decide(job[c].request, "rejected") \/ Decide(job[c].request, "cancelled")
    BY <1>5 DEF Reject, Cancel, Working, Busy, resources
  <2> QED  BY <1>0, <2>2, <2>3, DecideFacts DEF SerialTransfers, Pending, Decided
<1>6. CASE Give(c)
  <2> DEFINE j == job[c]
  <2>1. j \in GiftJob /\ j.op = "give"
    BY <1>6, JobForms DEF Give, Working
  <2>2. j.resource \in Resource
    BY <2>1 DEF GiftJob
  <2>3. Busy(c) /\ Finish(c) /\ transfer' = transfer
    BY <1>6 DEF Give, Working, Busy
  <2>4. j.actor = owner[j.resource] /\ bound[j.resource] \subseteq {owner[j.resource]}
    BY <2>1, <2>2 DEF SerialTransfers, Current
  <2>5. \A r \in Resource : owner'[r] = IF r = j.resource THEN j.to ELSE owner[r]
    BY <1>6, <2>2, <2>4 DEF Give, Assign, TypeOK
  <2>6. \A r \in Resource :
           bound'[r] = IF r = j.resource THEN (bound[r] \ {j.actor}) \cup {j.to} ELSE bound[r]
    BY <1>6, <2>2 DEF Give, Regrant, TypeOK
  <2>7. \A r \in Resource : bound'[r] \subseteq {owner'[r]}
    BY <2>4, <2>5, <2>6 DEF SerialTransfers
  <2> QED  BY <1>0, <2>3, <2>7 DEF SerialTransfers, Pending
<1> QED  BY <1>1, <1>2, <1>3, <1>4, <1>5, <1>6 DEF TransferStep

LEMMA SerialPromotionStep ==
    ASSUME TypeOK, OnlyHandlers, Serial, SerialTransfers, NEW c \in Client,
           PromotionStep(c), UNCHANGED transfer
    PROVE  SerialTransfers'
<1>1. ASSUME NEW team \in Principal, NEW r \in Resource, NEW n \in Resource,
             PromoteResource(c, r, team, n)
      PROVE  SerialTransfers'
  <2>1. Free(c) /\ job' = job
    BY <1>1 DEF PromoteResource
  <2>2. \A d \in Client : job'[d].op = "idle"
    BY <2>1, Alone DEF Free
  <2>3. \A x \in Resource : /\ bound'[x] = IF x = n THEN {team} ELSE bound[x]
                           /\ owner'[x] = IF x = n THEN team ELSE owner[x]
    BY <1>1 DEF PromoteResource, TypeOK
  <2> QED  BY <2>2, <2>3 DEF SerialTransfers, Current, Pending
<1>2. ASSUME UNCHANGED <<owner, bound>>, Promoting(c)
      PROVE  SerialTransfers'
  <2>1. PICK w : w = job'[c]
    OBVIOUS
  <2>2. Current(w)
    BY <1>2, <2>1 DEF Promoting, Current, PromotionOps
  <2> QED  BY <1>2, <2>1, <2>2, QuietSerial DEF Promoting
<1>3. ASSUME UNCHANGED <<owner, bound, job>> PROVE SerialTransfers'
  BY <1>3 DEF SerialTransfers, Current, Pending, PendingOn
<1> QED  BY <1>1, <1>2, <1>3, PromotionQuiet

(* Requests for a resource that the database keeps unique.                 *)
UniqueRequests ==
    setting.unique => \A t, u \in DOMAIN transfer :
                          transfer[t].resource = transfer[u].resource => t = u

(* What an endpoint does to the requests: one is decided, one is made.     *)
LEMMA TransferRows ==
    ASSUME TypeOK, NEW c \in Client, TransferStep(c)
    PROVE  \/ transfer' = transfer
           \/ Offer(c)
           \/ /\ job[c] \in AnswerJob
              /\ \E s \in Decided : Decide(job[c].request, s)
<1>1. ASSUME Working(c, "accept") \/ Working(c, "reject") \/ Working(c, "cancel")
      PROVE  job[c] \in AnswerJob
  BY <1>1, JobForms DEF Working
<1> QED  BY <1>1 DEF TransferStep, ReadForOffer, ReadForGift, ReadForAnswer, Give,
                     Accept, Reject, Cancel, Decided

LEMMA TransfersStep ==
    TypeOK /\ OnlyHandlers /\ (Serial => SerialTransfers) /\ UniqueRequests /\ [Next]_vars
        => (Serial => SerialTransfers)' /\ UniqueRequests'
<1> SUFFICES ASSUME TypeOK, OnlyHandlers, Serial => SerialTransfers, UniqueRequests, [Next]_vars
             PROVE  (Serial => SerialTransfers)' /\ UniqueRequests'
  OBVIOUS
<1>1. setting' = setting
  BY DEF Next, vars
<1>2. ASSUME NEW c \in Client, TransferStep(c) PROVE UniqueRequests'
  <2>1. CASE Offer(c)
    <3>1. setting.unique => \A t \in DOMAIN transfer : transfer[t].resource # job[c].resource
      BY <2>1 DEF Offer, Taken
    <3> QED  BY <1>1, <2>1, <3>1, OfferFacts DEF UniqueRequests
  <2>2. ASSUME job[c] \in AnswerJob, NEW s \in Decided, Decide(job[c].request, s)
        PROVE  UniqueRequests'
    <3>1. job[c].request \in DOMAIN transfer
      BY <2>2 DEF AnswerJob
    <3> QED  BY <1>1, <2>2, <3>1, DecideFacts DEF UniqueRequests
  <2>3. CASE transfer' = transfer
    BY <1>1, <2>3 DEF UniqueRequests
  <2> QED  BY <1>2, <2>1, <2>2, <2>3, TransferRows
<1>3. ASSUME UNCHANGED transfer PROVE UniqueRequests'
  BY <1>1, <1>3 DEF UniqueRequests
<1>4. ASSUME Serial, NEW c \in Client, Abort(c), UNCHANGED <<resources, transfer>>
      PROVE  SerialTransfers'
  BY <1>4, QuietSerial DEF Abort, Finish, Current, Idle, resources
<1>5. ASSUME Serial, UNCHANGED <<owner, bound, transfer, job>> PROVE SerialTransfers'
  BY <1>5 DEF SerialTransfers, Current, Pending, PendingOn
<1>6. UniqueRequests'
  BY <1>2, <1>3 DEF Next, vars, Expire
<1>7. ASSUME Serial PROVE SerialTransfers'
  BY <1>4, <1>5, <1>7, SerialTransferStep, SerialPromotionStep DEF Next, vars, Expire, resources
<1> QED  BY <1>1, <1>6, <1>7 DEF Serial

(* The invariant of all theorems about serial settings.                    *)
TransfersInv ==
    TypeOK /\ OnlyHandlers /\ (Serial => SerialTransfers) /\ UniqueRequests

LEMMA TransfersInvariant == Spec => []TransfersInv
<1>1. Init => UniqueRequests
  BY DEF Init, TransferInit, UniqueRequests
<1>2. Init => TransfersInv
  BY <1>1, InitTyped, InitHandlers, InitSerial DEF TransfersInv
<1>3. TransfersInv /\ [Next]_vars => TransfersInv'
  BY TypeStep, HandlersStep, TransfersStep DEF TransfersInv
<1> QED  BY <1>2, <1>3, PTL DEF Spec

(* Handled one at a time, transfers leave no role of owner with a previous *)
(* owner, for any number of principals, resources and requests.            *)
THEOREM SoleOwnerTheorem == Spec => []SoleOwner
<1>1. TransfersInv => SoleOwner
  BY DEF TransfersInv, SerialTransfers, SoleOwner
<1> QED  BY <1>1, TransfersInvariant, PTL

(* A resource has one pending transfer request, when requests are handled  *)
(* one at a time or the database knows the constraint of the model.        *)
THEOREM OnePendingTheorem == Spec => []OnePending
<1>1. TransfersInv => OnePending
  BY DEF TransfersInv, SerialTransfers, UniqueRequests, OnePending
<1> QED  BY <1>1, TransfersInvariant, PTL

(* One owner and one pending request a resource, for transfers that are    *)
(* handled one at a time.                                                  *)
THEOREM TransfersTheorem == Spec => []TransfersAgree
<1>1. SoleOwner /\ OnePending => TransfersAgree
  BY DEF TransfersAgree
<1> QED  BY <1>1, SoleOwnerTheorem, OnePendingTheorem, PTL

(* Handled one at a time, an answered request stays as it was answered.    *)
THEOREM DecidedTheorem == Spec => DecidedStays
<1> DEFINE Stays == Serial => \A t \in DOMAIN transfer :
                transfer[t].status \in Decided => transfer'[t].status = transfer[t].status
<1>1. TransfersInv /\ [Next]_vars => [Stays]_vars
  <2> SUFFICES ASSUME TransfersInv, Next, Serial,
                      NEW t \in DOMAIN transfer, transfer[t].status \in Decided
               PROVE  transfer'[t].status = transfer[t].status
    OBVIOUS
  <2>1. TypeOK /\ \A c \in Client : Current(job[c])
    BY DEF TransfersInv, SerialTransfers
  <2>2. ASSUME NEW c \in Client, TransferStep(c) PROVE transfer'[t].status = transfer[t].status
    <3>1. CASE Offer(c)
      BY <2>1, <3>1, OfferFacts
    <3>2. ASSUME job[c] \in AnswerJob, NEW s \in Decided, Decide(job[c].request, s)
          PROVE  transfer'[t].status = transfer[t].status
      <4>1. job[c].request \in DOMAIN transfer /\ job[c].op \in {"accept", "reject", "cancel"}
        BY <3>2 DEF AnswerJob
      <4>2. Pending(job[c].request)
        BY <2>1, <4>1 DEF Current
      <4>3. t # job[c].request
        BY <4>2 DEF Pending, Decided
      <4> QED  BY <2>1, <3>2, <4>1, <4>3, DecideFacts
    <3> QED  BY <2>1, <2>2, <3>1, <3>2, TransferRows
  <2> QED  BY <2>2 DEF Next, Expire
<1>2. Spec => [][Stays]_vars
  BY <1>1, TransfersInvariant, PTL DEF Spec
<1> QED  BY <1>2 DEF DecidedStays

-----------------------------------------------------------------------------
(* What the promotion endpoints do to a request.                           *)
LEMMA SettleFacts ==
    ASSUME TypeOK, NEW c \in Client, SettleVote(c)
    PROVE  LET j == job[c]
               q == j.request
           IN  /\ j \in CountJob /\ q \in DOMAIN promotion
               /\ DOMAIN promotion' = DOMAIN promotion
               /\ \A x \in DOMAIN promotion \ {q} : promotion'[x] = promotion[x]
               /\ \A p \in Principal : promotion'[q].votes[p] =
                     IF p = j.actor THEN j.decision ELSE promotion[q].votes[p]
               /\ promotion'[q].status = IF j.verdict = j.seen THEN promotion[q].status ELSE j.verdict
               /\ promotion'[q].executed = promotion[q].executed
               /\ promotion'[q].completed = promotion[q].completed
<1> DEFINE j == job[c]
           q == j.request
           row == [promotion[q] EXCEPT !.votes = [@ EXCEPT ![j.actor] = j.decision],
                                       !.status = IF j.verdict = j.seen THEN @ ELSE j.verdict]
<1>1. j \in CountJob
  BY JobForms DEF SettleVote, Working
<1>2. q \in DOMAIN promotion /\ promotion[q] \in PromotionRow
  BY <1>1, ElementFacts DEF CountJob, TypeOK
<1>3. promotion' = [promotion EXCEPT ![q] = row]
  BY <1>2 DEF SettleVote, TypeOK, PromotionRow
<1>4. /\ row.status = IF j.verdict = j.seen THEN promotion[q].status ELSE j.verdict
      /\ row.executed = promotion[q].executed /\ row.completed = promotion[q].completed
  BY <1>2 DEF PromotionRow
<1>5. \A p \in Principal : row.votes[p] = IF p = j.actor THEN j.decision ELSE promotion[q].votes[p]
  BY <1>1, <1>2 DEF PromotionRow, CountJob
<1> HIDE DEF row
<1> QED  BY <1>1, <1>2, <1>3, <1>4, <1>5 DEF TypeOK

LEMMA ExecuteFacts ==
    ASSUME TypeOK, NEW c \in Client, Execute(c)
    PROVE  LET q == job[c].request
           IN  /\ job[c] \in ExecuteJob /\ q \in DOMAIN promotion
               /\ DOMAIN promotion' = DOMAIN promotion
               /\ \A x \in DOMAIN promotion \ {q} : promotion'[x] = promotion[x]
               /\ promotion'[q].votes = promotion[q].votes
               /\ promotion'[q].status = "promoted"
               /\ promotion'[q].executed = promotion[q].executed + 1
               /\ promotion'[q].completed = promotion[q].completed
<1> DEFINE q == job[c].request
           row == [promotion[q] EXCEPT !.status = "promoted", !.executed = @ + 1]
<1>1. job[c] \in ExecuteJob
  BY JobForms DEF Execute, Working
<1>2. q \in DOMAIN promotion /\ promotion[q] \in PromotionRow
  BY <1>1, ElementFacts DEF ExecuteJob, TypeOK
<1>3. promotion' = [promotion EXCEPT ![q] = row]
  BY <1>2 DEF Execute, TypeOK, PromotionRow
<1>4. /\ row.votes = promotion[q].votes /\ row.status = "promoted"
      /\ row.executed = promotion[q].executed + 1 /\ row.completed = promotion[q].completed
  BY <1>2 DEF PromotionRow
<1> HIDE DEF row
<1> QED  BY <1>1, <1>2, <1>3, <1>4 DEF TypeOK

LEMMA ApproveFacts ==
    ASSUME TypeOK, NEW c \in Client, Approve(c)
    PROVE  LET j == job[c]
               q == j.request
           IN  /\ j \in ApproveJob /\ q \in DOMAIN promotion
               /\ DOMAIN promotion' = DOMAIN promotion
               /\ \A x \in DOMAIN promotion \ {q} : promotion'[x] = promotion[x]
               /\ \A p \in Principal : promotion'[q].votes[p] =
                     IF p = j.actor THEN "approved" ELSE promotion[q].votes[p]
               /\ promotion'[q].status = "merged"
               /\ promotion'[q].executed = promotion[q].executed
               /\ promotion'[q].completed = promotion[q].completed + 1
<1> DEFINE j == job[c]
           q == j.request
           row == [promotion[q] EXCEPT !.votes = [@ EXCEPT ![j.actor] = "approved"],
                                       !.status = "merged", !.completed = @ + 1]
<1>1. j \in ApproveJob
  BY JobForms DEF Approve, Working
<1>2. q \in DOMAIN promotion /\ promotion[q] \in PromotionRow
  BY <1>1, ElementFacts DEF ApproveJob, TypeOK
<1>3. promotion' = [promotion EXCEPT ![q] = row]
  BY <1>2 DEF Approve, TypeOK, PromotionRow
<1>4. /\ row.status = "merged" /\ row.executed = promotion[q].executed
      /\ row.completed = promotion[q].completed + 1
  BY <1>2 DEF PromotionRow
<1>5. \A p \in Principal : row.votes[p] = IF p = j.actor THEN "approved" ELSE promotion[q].votes[p]
  BY <1>1, <1>2 DEF PromotionRow, ApproveJob
<1> HIDE DEF row
<1> QED  BY <1>1, <1>2, <1>3, <1>4, <1>5 DEF TypeOK

(* Both interfaces append open requests.                                   *)
LEMMA RequestFacts ==
    ASSUME TypeOK, NEW c \in Client, NEW r \in Resource, NEW d \in Place,
           NEW m \in {"move", "copy", "promote"}, promotion' = Append(promotion, NewRequest(r, d, m))
    PROVE  LET n == Len(promotion) + 1
           IN  /\ DOMAIN promotion' = DOMAIN promotion \cup {n}
               /\ n \notin DOMAIN promotion
               /\ \A x \in DOMAIN promotion : promotion'[x] = promotion[x]
               /\ promotion'[n].status = "open"
               /\ \A p \in Principal : promotion'[n].votes[p] = "none"
               /\ promotion'[n].executed = 0 /\ promotion'[n].completed = 0
<1> DEFINE row == NewRequest(r, d, m)
<1>1. row \in PromotionRow
  BY NewRequestTyped
<1>2. /\ row.status = "open" /\ \A p \in Principal : row.votes[p] = "none"
      /\ row.executed = 0 /\ row.completed = 0
  BY DEF NewRequest
<1> HIDE DEF row
<1>3. promotion' = Append(promotion, row)
  BY DEF row
<1> QED  BY <1>1, <1>2, <1>3, AppendFacts DEF TypeOK

(* A vote that is counted is among the counted votes.                      *)
LEMMA CountFacts ==
    ASSUME TypeOK, NEW c \in Client, CountVotes(c)
    PROVE  LET j == job'[c]
               rejected == \E p \in Principal \ {j.actor} : promotion[j.request].votes[p] = "reject"
           IN  /\ job[c] \in VoteJob /\ j \in CountJob /\ j.op = "count"
               /\ j.request = job[c].request /\ j.actor = job[c].actor
               /\ j.decision = job[c].decision /\ j.seen = promotion[j.request].status
               /\ j.verdict = IF j.decision = "reject" \/ rejected THEN "rejected" ELSE "approved"
               /\ job' = [job EXCEPT ![c] = j]
               /\ ~VoteLocked(j.actor, j.request) /\ UNCHANGED promotion
<1> DEFINE i == job[c]
           own(d) == IF i.decision = d THEN {i.actor} ELSE {}
           cast(d) == (Votes(i.request, d) \ {i.actor}) \cup own(d)
           w == [op |-> "count", actor |-> i.actor, request |-> i.request,
                 decision |-> i.decision, seen |-> promotion[i.request].status,
                 verdict |-> Verdict(cast("approve"), cast("reject"))]
           rejected == \E p \in Principal \ {i.actor} : promotion[i.request].votes[p] = "reject"
<1>1. i \in VoteJob
  BY JobForms DEF CountVotes, Working
<1>2. i.decision \in {"approve", "reject"} /\ i.actor \in Principal /\ i.request \in DOMAIN promotion
  BY <1>1 DEF VoteJob
<1>a. job' = [job EXCEPT ![c] = w]
  BY DEF CountVotes
<1>b. ~VoteLocked(i.actor, i.request) /\ UNCHANGED promotion
  BY DEF CountVotes
<1>3. job' = [job EXCEPT ![c] = w] /\ ~VoteLocked(i.actor, i.request) /\ UNCHANGED promotion
  BY <1>a, <1>b
<1>4. cast("reject") # {} <=> i.decision = "reject" \/ rejected
  BY <1>2 DEF Votes
<1>5. i.decision = "approve" => cast("approve") # {}
  OBVIOUS
<1>6. Verdict(cast("approve"), cast("reject"))
        = IF i.decision = "reject" \/ rejected THEN "rejected" ELSE "approved"
  BY <1>2, <1>4, <1>5 DEF Verdict
<1>c. promotion[i.request] \in PromotionRow
  BY <1>2, ElementFacts DEF TypeOK
<1>7. promotion[i.request].status \in PromotionStatus
  BY <1>c DEF PromotionRow
<1>8. job'[c] = w
  BY <1>3 DEF TypeOK
<1>9. /\ w.op = "count" /\ w.actor = i.actor /\ w.request = i.request /\ w.decision = i.decision
      /\ w.seen = promotion[i.request].status
      /\ w.verdict = IF i.decision = "reject" \/ rejected THEN "rejected" ELSE "approved"
  BY <1>6
<1>10. w \in CountJob
  BY <1>2, <1>6, <1>7 DEF CountJob
<1> HIDE DEF w
<1> QED  BY <1>1, <1>3, <1>8, <1>9, <1>10

-----------------------------------------------------------------------------
(* That an approved request has an approval is not inductive: the request  *)
(* may have been approved by someone who takes the approval back, and does *)
(* not write "rejected" because that was the status when the vote was      *)
(* counted.  But whoever approved it last has not counted before that.     *)
Backer(q, p) ==
    /\ promotion[q].votes[p] = "approve"
    /\ \A c \in Client : job[c].op = "count" /\ job[c].request = q /\ job[c].actor = p =>
          job[c].decision = "approve" \/ job[c].seen # "rejected"

Counted(j) ==
    /\ j.verdict # "open"
    /\ j.decision = "reject" => j.verdict = "rejected"

Backed ==
    /\ \A c \in Client : job[c].op = "count" => Counted(job[c])
    /\ \A c, d \in Client :
          /\ job[c].op = "count" /\ job[d].op = "count"
          /\ job[c].actor = job[d].actor /\ job[c].request = job[d].request
          => c = d
    /\ \A q \in DOMAIN promotion :
          promotion[q].status = "approved" => \E p \in Principal : Backer(q, p)

LEMMA InitBacked == Init => Backed
  BY DEF Init, ResourceInit, PromotionInit, Backed, Idle

(* No vote is counted and no request changes; handlers may begin or end.   *)
LEMMA QuietBacked ==
    ASSUME TypeOK, Backed,
           \A c \in Client : job'[c] = job[c] \/ job'[c].op # "count",
           DOMAIN promotion' \subseteq DOMAIN promotion,
           \A q \in DOMAIN promotion' :
              /\ promotion'[q].status = "approved" => promotion[q].status = "approved"
              /\ \A p \in Principal :
                    promotion[q].votes[p] = "approve" => promotion'[q].votes[p] = "approve"
    PROVE  Backed'
  BY DEF Backed, Backer, Counted

LEMMA SettleBacked ==
    ASSUME TypeOK, Backed, NEW c \in Client, SettleVote(c)
    PROVE  Backed'
<1> DEFINE j == job[c]
<1>0. PICK q, a : q = j.request /\ a = j.actor
  OBVIOUS
<1>1. /\ j \in CountJob /\ j.op = "count" /\ q \in DOMAIN promotion
      /\ DOMAIN promotion' = DOMAIN promotion
      /\ \A x \in DOMAIN promotion \ {q} : promotion'[x] = promotion[x]
      /\ \A p \in Principal : promotion'[q].votes[p] =
            IF p = a THEN j.decision ELSE promotion[q].votes[p]
      /\ promotion'[q].status = IF j.verdict = j.seen THEN promotion[q].status ELSE j.verdict
  <2>1. j.op = "count"
    BY DEF SettleVote, Working
  <2> QED  BY <1>0, <2>1, SettleFacts
<1>a. j.decision \in {"approve", "reject"} /\ j.actor \in Principal
  BY <1>1 DEF CountJob
<1>2. j.decision \in {"approve", "reject"} /\ a \in Principal
  BY <1>0, <1>a
<1>3. \A d \in Client : job'[d] = IF d = c THEN Idle ELSE job[d]
  BY DEF SettleVote, Finish, TypeOK
<1>4. Counted(j)
  BY <1>1 DEF Backed
<1>5. ASSUME NEW x \in DOMAIN promotion, promotion'[x].status = "approved"
      PROVE  \E p \in Principal : Backer(x, p)'
  <2>1. CASE x # q
    <3>1. PICK p \in Principal : Backer(x, p)
      BY <1>1, <1>5, <2>1 DEF Backed
    <3> QED  BY <1>1, <1>3, <2>1, <3>1 DEF Backer, Idle
  <2>2. CASE x = q /\ j.verdict # j.seen
    <3>1. j.decision = "approve"
      BY <1>1, <1>2, <1>4, <1>5, <2>2 DEF Counted
    <3>2. \A d \in Client : ~(job'[d].op = "count" /\ job'[d].request = q /\ job'[d].actor = a)
      BY <1>0, <1>1, <1>3 DEF Backed, Idle
    <3>a. promotion'[q].votes[a] = "approve"
      BY <1>1, <1>2, <3>1
    <3>3. Backer(q, a)'
      BY <3>2, <3>a DEF Backer
    <3> QED  BY <1>2, <2>2, <3>3
  <2>3. CASE x = q /\ j.verdict = j.seen
    <3>1. PICK p \in Principal : Backer(q, p)
      BY <1>1, <1>5, <2>3 DEF Backed
    <3>2. p = a => j.decision = "approve"
      BY <1>0, <1>1, <1>2, <1>4, <2>3, <3>1 DEF Backer, Counted
    <3>a. promotion'[q].votes[p] = "approve"
      BY <1>1, <3>1, <3>2 DEF Backer
    <3>b. \A d \in Client : job'[d] = job[d] \/ job'[d].op # "count"
      BY <1>3 DEF Idle
    <3>3. Backer(q, p)'
      BY <3>1, <3>a, <3>b DEF Backer
    <3> QED  BY <2>3, <3>3
  <2> QED  BY <2>1, <2>2, <2>3
<1>6. \A d \in Client : job'[d].op = "count" => Counted(job[d])'
  BY <1>3 DEF Backed, Counted, Idle
<1> QED  BY <1>1, <1>3, <1>5, <1>6 DEF Backed, Idle

LEMMA CountBacked ==
    ASSUME TypeOK, Backed, NEW c \in Client, CountVotes(c)
    PROVE  Backed'
<1> DEFINE j == job'[c]
<1>1. /\ j \in CountJob /\ j.op = "count" /\ j.seen = promotion[j.request].status
      /\ Counted(j) /\ ~VoteLocked(j.actor, j.request) /\ UNCHANGED promotion
  BY CountFacts DEF Counted
<1>2. \A d \in Client \ {c} : job'[d] = job[d]
  BY CountFacts DEF TypeOK
<1>3. \A d \in Client : job'[d].op = "count" => Counted(job[d])'
  BY <1>1, <1>2 DEF Backed, Counted
<1>4. \A d, e \in Client :
          /\ job'[d].op = "count" /\ job'[e].op = "count"
          /\ job'[d].actor = job'[e].actor /\ job'[d].request = job'[e].request
          => d = e
  BY <1>1, <1>2 DEF Backed, VoteLocked, Working
<1>5. ASSUME NEW q \in DOMAIN promotion, promotion[q].status = "approved"
      PROVE  \E p \in Principal : Backer(q, p)'
  <2>1. PICK p \in Principal : Backer(q, p)
    BY <1>5 DEF Backed
  <2>2. Backer(q, p)'
    BY <1>1, <1>2, <1>5, <2>1 DEF Backer
  <2> QED  BY <2>2
<1> QED  BY <1>1, <1>3, <1>4, <1>5 DEF Backed

LEMMA PromotionBacked ==
    ASSUME TypeOK, Backed, NEW c \in Client, PromotionStep(c)
    PROVE  Backed'
<1>2. ASSUME NEW r \in Resource, NEW d \in Place, NEW m \in {"move", "copy", "promote"},
             promotion' = Append(promotion, NewRequest(r, d, m)), job' = job
      PROVE  Backed'
  <2>1. LET n == Len(promotion) + 1
        IN  /\ DOMAIN promotion' = DOMAIN promotion \cup {n}
            /\ \A x \in DOMAIN promotion : promotion'[x] = promotion[x]
            /\ promotion'[n].status = "open"
    BY <1>2, RequestFacts
  <2> QED  BY <1>2, <2>1 DEF Backed, Backer, Counted
<1>3. CASE Execute(c) \/ Approve(c)
  <2>1. \A d \in Client : job'[d] = job[d] \/ job'[d].op # "count"
    BY <1>3 DEF Execute, Approve, Finish, Idle, TypeOK
  <2>2. CASE Execute(c)
    BY <2>1, <2>2, ExecuteFacts, QuietBacked
  <2>3. CASE Approve(c)
    <3>1. promotion[job[c].request].votes[job[c].actor] = "none"
      BY <2>3 DEF Approve
    <3> QED  BY <2>1, <2>3, <3>1, ApproveFacts, QuietBacked
  <2> QED  BY <1>3, <2>2, <2>3
<1>4. ASSUME NEW r \in Resource, NEW d \in Project \cup {Official}, NEW m \in {"move", "copy"},
             RequestPromotion(c, r, d, m)
      PROVE  Backed'
  BY <1>2, <1>4 DEF RequestPromotion, Place
<1>5. ASSUME NEW team \in Principal, NEW r \in Resource, NEW n \in Resource,
             PromoteResource(c, r, team, n)
      PROVE  Backed'
  BY <1>2, <1>5 DEF PromoteResource, Place
<1>6. ASSUME NEW p \in Principal, NEW q \in DOMAIN promotion, NEW d, ReadForVote(c, p, q, d)
      PROVE  Backed'
  <2> DEFINE voting == [op |-> "vote", actor |-> p, request |-> q, decision |-> d]
  <2>1. voting.op # "count" /\ job' = [job EXCEPT ![c] = voting] /\ UNCHANGED promotion
    BY <1>6 DEF ReadForVote, Begin
  <2> HIDE DEF voting
  <2>2. \A x \in Client : job'[x] = job[x] \/ job'[x].op # "count"
    BY <2>1 DEF TypeOK
  <2> QED  BY <2>1, <2>2, QuietBacked
<1>7. ASSUME NEW p \in Principal, NEW q \in DOMAIN promotion,
             ReadForExecute(c, p, q) \/ ReadForApproval(c, p, q)
      PROVE  Backed'
  <2> DEFINE r == promotion[q].moving
             executing == [op |-> "execute", actor |-> p, request |-> q]
             approving == [op |-> "approve", actor |-> p, request |-> q, resource |-> r,
                           place |-> parent[r], standing |-> standing[r]]
  <2>1. executing.op # "count" /\ approving.op # "count"
    OBVIOUS
  <2>2. /\ UNCHANGED promotion
        /\ job' = [job EXCEPT ![c] = executing] \/ job' = [job EXCEPT ![c] = approving]
    BY <1>7 DEF ReadForExecute, ReadForApproval, Begin
  <2> HIDE DEF executing, approving
  <2>3. \A x \in Client : job'[x] = job[x] \/ job'[x].op # "count"
    BY <2>1, <2>2 DEF TypeOK
  <2> QED  BY <2>2, <2>3, QuietBacked
<1> QED  BY <1>3, <1>4, <1>5, <1>6, <1>7, SettleBacked, CountBacked DEF PromotionStep

(* Transfers do not touch votes.                                           *)
TransferOps == {"idle", "offer", "give", "accept", "reject", "cancel"}

Transferring(c) == job' = [job EXCEPT ![c] = job'[c]] /\ job'[c].op \in TransferOps

LEMMA TransferQuiet ==
    ASSUME TypeOK, NEW c \in Client, TransferStep(c)
    PROVE  Transferring(c)
<1>0. ASSUME NEW w, job' = [job EXCEPT ![c] = w], w.op \in TransferOps PROVE Transferring(c)
  BY <1>0 DEF TypeOK, Transferring
<1>1. ASSUME NEW p \in Principal, NEW to \in Principal, NEW r \in Resource,
             ReadForOffer(c, p, r, to) \/ ReadForGift(c, p, r, to)
      PROVE  Transferring(c)
  <2> DEFINE w(op) == [op |-> op, actor |-> p, resource |-> r, to |-> to]
  <2>1. w("offer").op \in TransferOps /\ w("give").op \in TransferOps
    BY DEF TransferOps
  <2>2. job' = [job EXCEPT ![c] = w("offer")] \/ job' = [job EXCEPT ![c] = w("give")]
    BY <1>1 DEF ReadForOffer, ReadForGift, Begin
  <2> HIDE DEF w
  <2> QED  BY <1>0, <2>1, <2>2
<1>2. ASSUME NEW p \in Principal, NEW t \in DOMAIN transfer,
             NEW op \in {"accept", "reject", "cancel"}, ReadForAnswer(c, p, t, op)
      PROVE  Transferring(c)
  <2> DEFINE r == transfer[t].resource
             w == [op |-> op, actor |-> p, request |-> t,
                   resource |-> r, seen |-> owner[r], place |-> parent[r]]
  <2>1. w.op \in TransferOps
    BY DEF TransferOps
  <2>2. job' = [job EXCEPT ![c] = w]
    BY <1>2 DEF ReadForAnswer, Begin
  <2> HIDE DEF w
  <2> QED  BY <1>0, <2>1, <2>2
<1>3. ASSUME Finish(c) PROVE Transferring(c)
  <2>1. Idle.op \in TransferOps
    BY DEF Idle, TransferOps
  <2> QED  BY <1>0, <1>3, <2>1 DEF Finish
<1> QED  BY <1>1, <1>2, <1>3 DEF TransferStep, Accept, Offer, Reject, Cancel, Give

LEMMA BackedStep == TypeOK /\ Backed /\ [Next]_vars => Backed'
<1> SUFFICES ASSUME TypeOK, Backed, [Next]_vars PROVE Backed'
  OBVIOUS
<1>1. ASSUME NEW c \in Client, TransferStep(c), UNCHANGED promotion PROVE Backed'
  <2>1. \A d \in Client : job'[d] = job[d] \/ job'[d].op # "count"
    BY <1>1, TransferQuiet DEF Transferring, TransferOps, TypeOK
  <2> QED  BY <1>1, <2>1, QuietBacked
<1>2. ASSUME NEW c \in Client, Abort(c), UNCHANGED promotion PROVE Backed'
  <2>1. \A d \in Client : job'[d] = job[d] \/ job'[d].op # "count"
    BY <1>2 DEF Abort, Finish, Idle, TypeOK
  <2> QED  BY <1>2, <2>1, QuietBacked
<1>3. ASSUME UNCHANGED <<job, promotion>> PROVE Backed'
  BY <1>3, QuietBacked
<1> QED  BY <1>1, <1>2, <1>3, PromotionBacked DEF Next, vars, Expire

(* An approved request has an approval, for any number of voters, however  *)
(* their votes overlap and as often as they change them.                   *)
THEOREM ApprovedTheorem == Spec => []ApprovedIsBacked
<1>1. Backed => ApprovedIsBacked
  BY DEF Backed, Backer, ApprovedIsBacked, Votes
<1> QED  BY <1>1, Typing, InitBacked, BackedStep, PTL DEF Spec

-----------------------------------------------------------------------------
(* Promotions that are handled one at a time: what the handler has read of *)
(* its request is still so, and the votes agree with the status.           *)
OtherRejects(q, p) == \E x \in Principal \ {p} : promotion[q].votes[x] = "reject"

Fresh(j) ==
    /\ j.op = "vote" => promotion[j.request].status # "promoted"
    /\ j.op = "count" =>
          /\ j.seen = promotion[j.request].status /\ j.seen # "promoted"
          /\ j.verdict = IF j.decision = "reject" \/ OtherRejects(j.request, j.actor)
                         THEN "rejected" ELSE "approved"
    /\ j.op = "execute" => promotion[j.request].status = "approved"
    /\ j.op = "approve" => promotion[j.request].status = "open"

Counters(q) ==
    /\ promotion[q].executed = 0 \/ (promotion[q].executed = 1 /\ promotion[q].status = "promoted")
    /\ promotion[q].completed = 0 \/ (promotion[q].completed = 1 /\ promotion[q].status # "open")

SerialPromotions ==
    /\ \A c \in Client : Fresh(job[c])
    /\ \A q \in DOMAIN promotion : VotesAgree(q) /\ Counters(q)

LEMMA InitPromotions == Init => SerialPromotions
  BY DEF Init, ResourceInit, PromotionInit, SerialPromotions, Fresh, Idle

LEMMA QuietPromotions ==
    ASSUME TypeOK, SerialPromotions, NEW c \in Client, NEW w, Fresh(w),
           job' = [job EXCEPT ![c] = w], UNCHANGED promotion
    PROVE  SerialPromotions'
<1>1. \A d \in Client : job'[d] = IF d = c THEN w ELSE job[d]
  BY DEF TypeOK
<1> QED  BY <1>1 DEF SerialPromotions, Fresh, OtherRejects, VotesAgree, Votes, Counters

(* Nobody works, and the request written agrees with its votes.            *)
LEMMA WrittenPromotion ==
    ASSUME TypeOK, SerialPromotions, NEW q \in DOMAIN promotion,
           \A d \in Client : job'[d].op = "idle",
           DOMAIN promotion' = DOMAIN promotion,
           \A x \in DOMAIN promotion \ {q} : promotion'[x] = promotion[x],
           VotesAgree(q)', Counters(q)'
    PROVE  SerialPromotions'
  BY DEF SerialPromotions, Fresh, VotesAgree, Votes, Counters

LEMMA SerialSettle ==
    ASSUME TypeOK, OnlyHandlers, Serial, SerialPromotions, NEW c \in Client, SettleVote(c)
    PROVE  SerialPromotions'
<1>0. PICK q, a : q = job[c].request /\ a = job[c].actor
  OBVIOUS
<1>1. /\ job[c] \in CountJob /\ job[c].op = "count" /\ Busy(c) /\ Finish(c)
  BY SettleFacts DEF SettleVote, Working, Busy
<1>2. \A d \in Client : job'[d].op = "idle"
  BY <1>1, AllIdle
<1>3. job[c].decision \in {"approve", "reject"} /\ a \in Principal
  BY <1>0, <1>1 DEF CountJob
<1>4. /\ q \in DOMAIN promotion /\ DOMAIN promotion' = DOMAIN promotion
      /\ \A x \in DOMAIN promotion \ {q} : promotion'[x] = promotion[x]
      /\ promotion'[q].executed = promotion[q].executed
      /\ promotion'[q].completed = promotion[q].completed
  BY <1>0, SettleFacts
<1>5. \A p \in Principal : promotion'[q].votes[p] =
         IF p = a THEN job[c].decision ELSE promotion[q].votes[p]
  BY <1>0, SettleFacts
<1>6. Fresh(job[c])
  BY DEF SerialPromotions
<1>7. /\ promotion[q].status # "promoted"
      /\ promotion'[q].status = IF job[c].decision = "reject" \/ OtherRejects(q, a)
                                THEN "rejected" ELSE "approved"
  BY <1>0, <1>1, <1>6, SettleFacts DEF Fresh
<1>8. VotesAgree(q)'
  BY <1>3, <1>5, <1>7 DEF VotesAgree, Votes, OtherRejects
<1>9. Counters(q)'
  BY <1>4, <1>7 DEF SerialPromotions, Counters
<1> QED  BY <1>2, <1>4, <1>8, <1>9, WrittenPromotion

LEMMA SerialExecute ==
    ASSUME TypeOK, OnlyHandlers, Serial, SerialPromotions, NEW c \in Client, Execute(c)
    PROVE  SerialPromotions'
<1>0. PICK q : q = job[c].request
  OBVIOUS
<1>1. job[c].op = "execute" /\ Busy(c) /\ Finish(c)
  BY DEF Execute, Working, Busy
<1>2. \A d \in Client : job'[d].op = "idle"
  BY <1>1, AllIdle
<1>3. /\ q \in DOMAIN promotion /\ DOMAIN promotion' = DOMAIN promotion
      /\ \A x \in DOMAIN promotion \ {q} : promotion'[x] = promotion[x]
      /\ promotion'[q].votes = promotion[q].votes /\ promotion'[q].status = "promoted"
      /\ promotion'[q].executed = promotion[q].executed + 1
      /\ promotion'[q].completed = promotion[q].completed
  BY <1>0, ExecuteFacts
<1>4. promotion[q].status = "approved"
  BY <1>0, <1>1 DEF SerialPromotions, Fresh
<1>5. VotesAgree(q)' /\ Counters(q)'
  BY <1>3, <1>4 DEF SerialPromotions, VotesAgree, Votes, Counters
<1> QED  BY <1>2, <1>3, <1>5, WrittenPromotion

LEMMA SerialApprove ==
    ASSUME TypeOK, OnlyHandlers, Serial, SerialPromotions, NEW c \in Client, Approve(c)
    PROVE  SerialPromotions'
<1>0. PICK q, a : q = job[c].request /\ a = job[c].actor
  OBVIOUS
<1>1. job[c].op = "approve" /\ Busy(c) /\ Finish(c)
  BY DEF Approve, Working, Busy
<1>2. \A d \in Client : job'[d].op = "idle"
  BY <1>1, AllIdle
<1>3. /\ q \in DOMAIN promotion /\ DOMAIN promotion' = DOMAIN promotion
      /\ \A x \in DOMAIN promotion \ {q} : promotion'[x] = promotion[x]
      /\ promotion'[q].status = "merged"
      /\ promotion'[q].executed = promotion[q].executed
      /\ promotion'[q].completed = promotion[q].completed + 1
  BY <1>0, ApproveFacts
<1>4. /\ job[c] \in ApproveJob
      /\ \A p \in Principal : promotion'[q].votes[p] =
            IF p = a THEN "approved" ELSE promotion[q].votes[p]
  BY <1>0, ApproveFacts
<1>5. a \in Principal
  BY <1>0, <1>4 DEF ApproveJob
<1>6. promotion[q].status = "open"
  BY <1>0, <1>1 DEF SerialPromotions, Fresh
<1>7. VotesAgree(q)'
  BY <1>3, <1>4, <1>5 DEF VotesAgree, Votes
<1>8. Counters(q)'
  BY <1>3, <1>6 DEF SerialPromotions, Counters
<1> QED  BY <1>2, <1>3, <1>7, <1>8, WrittenPromotion

LEMMA SerialCount ==
    ASSUME TypeOK, SerialPromotions, NEW c \in Client, CountVotes(c)
    PROVE  SerialPromotions'
<1>0. PICK w : w = job'[c]
  OBVIOUS
<1>1. job[c].op = "vote" /\ promotion[job[c].request].status # "promoted"
  BY DEF CountVotes, Working, SerialPromotions, Fresh
<1>2. /\ w.op = "count" /\ w.request = job[c].request
      /\ w.seen = promotion[w.request].status
      /\ w.verdict = IF w.decision = "reject" \/ OtherRejects(w.request, w.actor)
                     THEN "rejected" ELSE "approved"
      /\ job' = [job EXCEPT ![c] = w] /\ UNCHANGED promotion
  BY <1>0, CountFacts DEF OtherRejects
<1>3. Fresh(w)
  BY <1>1, <1>2 DEF Fresh
<1> QED  BY <1>2, <1>3, QuietPromotions

(* An open request is appended; the handler does not begin work.           *)
LEMMA SerialRequest ==
    ASSUME TypeOK, OnlyHandlers, Serial, SerialPromotions, NEW c \in Client,
           NEW r \in Resource, NEW d \in Place, NEW m \in {"move", "copy", "promote"},
           promotion' = Append(promotion, NewRequest(r, d, m)), job' = job, Free(c)
    PROVE  SerialPromotions'
<1>1. \A x \in Client : job'[x].op = "idle"
  BY Alone DEF Free
<1>2. LET n == Len(promotion) + 1
      IN  /\ DOMAIN promotion' = DOMAIN promotion \cup {n}
          /\ \A x \in DOMAIN promotion : promotion'[x] = promotion[x]
          /\ promotion'[n].status = "open"
          /\ \A p \in Principal : promotion'[n].votes[p] = "none"
          /\ promotion'[n].executed = 0 /\ promotion'[n].completed = 0
  BY RequestFacts
<1> QED  BY <1>1, <1>2 DEF SerialPromotions, Fresh, VotesAgree, Votes, Counters

LEMMA SerialPromotionsStep ==
    ASSUME TypeOK, OnlyHandlers, Serial, SerialPromotions, NEW c \in Client, PromotionStep(c)
    PROVE  SerialPromotions'
<1>1. ASSUME NEW r \in Resource, NEW d \in Project \cup {Official}, NEW m \in {"move", "copy"},
             RequestPromotion(c, r, d, m)
      PROVE  SerialPromotions'
  BY <1>1, SerialRequest DEF RequestPromotion, Place
<1>2. ASSUME NEW team \in Principal, NEW r \in Resource, NEW n \in Resource,
             PromoteResource(c, r, team, n)
      PROVE  SerialPromotions'
  BY <1>2, SerialRequest DEF PromoteResource, Place
<1>3. ASSUME NEW p \in Principal, NEW q \in DOMAIN promotion, NEW d, ReadForVote(c, p, q, d)
      PROVE  SerialPromotions'
  <2> DEFINE w == [op |-> "vote", actor |-> p, request |-> q, decision |-> d]
  <2>1. Fresh(w)
    BY <1>3 DEF ReadForVote, AcceptsVotes, Fresh
  <2>2. job' = [job EXCEPT ![c] = w] /\ UNCHANGED promotion
    BY <1>3 DEF ReadForVote, Begin
  <2> HIDE DEF w
  <2> QED  BY <2>1, <2>2, QuietPromotions
<1>4. ASSUME NEW p \in Principal, NEW q \in DOMAIN promotion, ReadForExecute(c, p, q)
      PROVE  SerialPromotions'
  <2> DEFINE w == [op |-> "execute", actor |-> p, request |-> q]
  <2>1. Fresh(w)
    BY <1>4 DEF ReadForExecute, Fresh
  <2>2. job' = [job EXCEPT ![c] = w] /\ UNCHANGED promotion
    BY <1>4 DEF ReadForExecute, Begin
  <2> HIDE DEF w
  <2> QED  BY <2>1, <2>2, QuietPromotions
<1>5. ASSUME NEW p \in Principal, NEW q \in DOMAIN promotion, ReadForApproval(c, p, q)
      PROVE  SerialPromotions'
  <2> DEFINE r == promotion[q].moving
             w == [op |-> "approve", actor |-> p, request |-> q, resource |-> r,
                   place |-> parent[r], standing |-> standing[r]]
  <2>1. Fresh(w)
    BY <1>5 DEF ReadForApproval, IsOpen, Fresh
  <2>2. job' = [job EXCEPT ![c] = w] /\ UNCHANGED promotion
    BY <1>5 DEF ReadForApproval, Begin
  <2> HIDE DEF w
  <2> QED  BY <2>1, <2>2, QuietPromotions
<1> QED  BY <1>1, <1>2, <1>3, <1>4, <1>5, SerialCount, SerialSettle, SerialExecute, SerialApprove
         DEF PromotionStep

LEMMA PromotionsStep ==
    TypeOK /\ OnlyHandlers /\ (Serial => SerialPromotions) /\ [Next]_vars
        => (Serial => SerialPromotions)'
<1> SUFFICES ASSUME TypeOK, OnlyHandlers, Serial => SerialPromotions, [Next]_vars, Serial'
             PROVE  SerialPromotions'
  OBVIOUS
<1>1. setting' = setting
  BY DEF Next, vars
<1>2. Serial /\ SerialPromotions
  BY <1>1 DEF Serial
<1>3. ASSUME NEW c \in Client, TransferStep(c), UNCHANGED promotion PROVE SerialPromotions'
  <2>1. PICK w : w = job'[c]
    OBVIOUS
  <2>2. job' = [job EXCEPT ![c] = w] /\ w.op \in TransferOps
    BY <1>3, <2>1, TransferQuiet DEF Transferring
  <2>3. Fresh(w)
    BY <2>2 DEF Fresh, TransferOps
  <2> QED  BY <1>2, <1>3, <2>2, <2>3, QuietPromotions
<1>4. ASSUME NEW c \in Client, Abort(c), UNCHANGED promotion PROVE SerialPromotions'
  <2>1. Fresh(Idle) /\ job' = [job EXCEPT ![c] = Idle]
    BY <1>4 DEF Fresh, Idle, Abort, Finish
  <2> QED  BY <1>2, <1>4, <2>1, QuietPromotions
<1>5. ASSUME UNCHANGED <<job, promotion>> PROVE SerialPromotions'
  BY <1>2, <1>5 DEF SerialPromotions, Fresh, OtherRejects, VotesAgree, Votes, Counters
<1> QED  BY <1>2, <1>3, <1>4, <1>5, SerialPromotionsStep DEF Next, vars, Expire

PromotionsInv == TypeOK /\ OnlyHandlers /\ (Serial => SerialPromotions)

LEMMA PromotionsInvariant == Spec => []PromotionsInv
<1>1. Init => PromotionsInv
  BY InitTyped, InitHandlers, InitPromotions DEF PromotionsInv
<1>2. PromotionsInv /\ [Next]_vars => PromotionsInv'
  BY TypeStep, HandlersStep, PromotionsStep DEF PromotionsInv
<1> QED  BY <1>1, <1>2, PTL DEF Spec

(* Handled one at a time, the status of a promotion request is what its    *)
(* votes say.                                                              *)
THEOREM VotesTheorem == Spec => []StatusTellsVotes
<1>1. PromotionsInv => StatusTellsVotes
  BY DEF PromotionsInv, SerialPromotions, StatusTellsVotes
<1> QED  BY <1>1, PromotionsInvariant, PTL

(* Handled one at a time, each interface carries a request out at most     *)
(* once, whatever is voted in between.                                     *)
THEOREM ExecutedTheorem == Spec => []ExecutedOnce
<1>1. PromotionsInv => ExecutedOnce
  BY DEF PromotionsInv, SerialPromotions, Counters, ExecutedOnce
<1> QED  BY <1>1, PromotionsInvariant, PTL

(* What becomes of a promotion request is what its votes say, and it       *)
(* becomes so once, for requests that are handled one at a time.           *)
THEOREM PromotionsTheorem == Spec => []PromotionsAgree
<1>1. StatusTellsVotes /\ ExecutedOnce => PromotionsAgree
  BY DEF PromotionsAgree
<1> QED  BY <1>1, VotesTheorem, ExecutedTheorem, PTL
=============================================================================
