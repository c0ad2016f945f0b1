------------------------ MODULE MCLocalOrchestrator -------------------------
(***************************************************************************)
(* Instances of LocalOrchestrator for TLC: a join at two depths and a pair *)
(* of independent nodes that compete for the pool's threads, and a graph   *)
(* with a cycle.                                                           *)
(***************************************************************************)
EXTENDS LocalOrchestrator

CONSTANTS big, small, loop, a, b, c

(* c needs a both directly and through b.                                  *)
Triangle == [n \in {a, b, c} |-> CASE n = a -> {} [] n = b -> {a} [] n = c -> {a, b}]
Pair == [n \in {a, b} |-> {}]
Cycle == [n \in {a, b} |-> IF n = a THEN {b} ELSE {a}]

MCGraphs == [r \in Run |-> CASE r = big -> Triangle
                             [] r = small -> Pair
                             [] r = loop -> Cycle]
=============================================================================
