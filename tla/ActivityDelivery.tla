-------------------------- MODULE ActivityDelivery --------------------------
(***************************************************************************)
(* What the activity outbox promises, without workers, batches, retries or *)
(* crashes: an accepted activity is pushed to its channels any number of   *)
(* times, and once all of them have it, it is settled: audited once, its   *)
(* target notified, and never spoken of again. Activities that are handled *)
(* in one transaction are settled together.                                *)
(***************************************************************************)
EXTENDS Naturals

CONSTANTS
    Row, Channel,
    ChannelsOf,  \* [Row -> SUBSET Channel]
    Activities,  \* the rows that are audited and told to channels
    Targeted     \* the rows that notify a target

VARIABLES
    status,   \* [Row -> {"unknown", "accepted", "settled"}]
    audited,  \* [Row -> Nat]: audit rows
    inbox,    \* rows whose target is notified
    told      \* [Row -> SUBSET Channel]: channels that have the event

vars == <<status, audited, inbox, told>>

Init ==
    /\ status = [r \in Row |-> "unknown"]
    /\ audited = [r \in Row |-> 0]
    /\ inbox = {}
    /\ told = [r \in Row |-> {}]

Accept(r) ==
    /\ status[r] = "unknown"
    /\ status' = [status EXCEPT ![r] = "accepted"]
    /\ UNCHANGED <<audited, inbox, told>>

Tell(r, c) ==
    /\ status[r] = "accepted"
    /\ r \in Activities
    /\ c \in ChannelsOf[r]
    /\ told' = [told EXCEPT ![r] = @ \cup {c}]
    /\ UNCHANGED <<status, audited, inbox>>

Settle(S) ==
    /\ \A r \in S : /\ status[r] = "accepted"
                    /\ r \in Activities => told[r] = ChannelsOf[r]
    /\ status' = [r \in Row |-> IF r \in S THEN "settled" ELSE status[r]]
    /\ audited' = [r \in Row |-> IF r \in S \cap Activities THEN audited[r] + 1
                                                           ELSE audited[r]]
    /\ inbox' = inbox \cup (S \cap Activities \cap Targeted)
    /\ UNCHANGED told

Next ==
    \/ \E r \in Row : Accept(r)
    \/ \E r \in Row, c \in Channel : Tell(r, c)
    \/ \E S \in SUBSET Row : Settle(S)

Spec == Init /\ [][Next]_vars

(* The promise about time: what is accepted is settled. *)
EventuallySettled == \A r \in Row : status[r] = "accepted" ~> status[r] = "settled"
=============================================================================
