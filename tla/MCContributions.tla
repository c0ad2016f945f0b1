-------------------------- MODULE MCContributions --------------------------
(***************************************************************************)
(* Instance of Contributions for TLC: main and a branch, two voters, one   *)
(* approval needed; an original and room for three more resources.         *)
(***************************************************************************)
EXTENDS Contributions

CONSTANTS c1, c2, ann, bob

Setting(handlers, part, versions, voters) ==
    [handlers |-> handlers, part |-> part, versions |-> versions, voters |-> voters]
MCSettings ==
    {Setting({c1}, "requests", 4, {ann, bob}), Setting({c1, c2}, "requests", 2, {ann}),
     Setting({c1, c2}, "branches", 1, {})}
=============================================================================
