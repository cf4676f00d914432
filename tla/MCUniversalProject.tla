-------------------------- MODULE MCUniversalProject --------------------------
(***************************************************************************)
(* Inputs for the projection: three states, and one proposition besides p.  *)
(* When it is false, any transition table; when it is true, p is ignored    *)
(* and the states are permuted, so that sets of states move around whole.   *)
(***************************************************************************)
EXTENDS UniversalProject

CONSTANTS lo, hi     \* the other proposition is false, true
MCRest == {lo, hi}

Free == [0 .. 2 -> [BOOLEAN -> 0 .. 2]]
Permutations3 == {<<1, 2, 0>>, <<0, 2, 1>>}
Statuses == {<<1, 1, -1>>, <<1, 0, 0>>}

MCInputs ==
  {[q |-> [s \in 0 .. 2 |-> [b \in BOOLEAN |-> [y \in {lo, hi} |->
             IF y = lo THEN d[s][b] ELSE m[s + 1]]]],
    f |-> [s \in 0 .. 2 |-> f[s + 1]],
    s |-> 0] : d \in Free, m \in Permutations3, f \in Statuses}
==============================================================================
