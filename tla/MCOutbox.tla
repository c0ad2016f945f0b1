------------------------------ MODULE MCOutbox ------------------------------
(* Small instances of Outbox for TLC. *)
EXTENDS Outbox

CONSTANTS r1, r2, r3, c1, c2

(* r1 goes to an inbox and a resource channel, r2 to a resource channel;   *)
(* the third row, when there is one, has a topic without a handler.        *)
MCChannelsOf == [r \in Row |-> IF r = r1 THEN {c1, c2} ELSE {c2}]
MCTargeted == {r1}
MCActivities == {r1, r2}
=============================================================================
