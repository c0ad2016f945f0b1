---------------------------- MODULE MCGovernance ----------------------------
(***************************************************************************)
(* Instance of Governance for TLC: principals are interchangeable, each   *)
(* may approve.                                                            *)
(***************************************************************************)
EXTENDS Governance, TLC

CONSTANTS c1, c2

(* One handler with both kinds of requests, two with either.               *)
Setting(handlers, unique, transfers, promotions) ==
    [handlers |-> handlers, unique |-> unique, transfers |-> transfers, promotions |-> promotions]
MCSettings ==
    {Setting({c1}, FALSE, 1, 1), Setting({c1}, FALSE, 2, 0)}
        \cup {Setting({c1, c2}, u, 2, 0) : u \in BOOLEAN} \cup {Setting({c1, c2}, FALSE, 0, 1)}

Symmetry == Permutations(Principal)
=============================================================================
