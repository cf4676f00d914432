----------------------------- MODULE MCDfaHandles -----------------------------
(* The allocator returns the lowest free address, so that the address of a  *)
(* freed automaton is soon that of another.                                 *)
EXTENDS DfaHandles

LowestUnused(held) ==
  IF held = Handles THEN {}
  ELSE {CHOOSE h \in Handles \ held : \A g \in Handles \ held : h <= g}

(* Three automata in a queue at the first level, two below it.               *)
FewerBelow(depth) == IF depth = 1 THEN 3 ELSE 2
=============================================================================
