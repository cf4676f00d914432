---------------------------- MODULE LtlfSemantics ----------------------------
(***************************************************************************)
(* What LTLf means on a finite word with a letter, independently of the     *)
(* program: the reference that its translations are compared with.          *)
(***************************************************************************)
EXTENDS Ltlf

(* The meaning of LTLf at position i of a word that has one, independent of *)
(* the program.                                                             *)
RECURSIVE HoldsAt(_, _, _)
HoldsAt(f, w, i) ==
  LET rest == i .. Len(w) IN
  CASE Kind(f) = "true" -> TRUE
    [] Kind(f) = "false" -> FALSE
    [] Kind(f) = "atom" -> f \in w[i]
    [] Kind(f) = "not" -> ~HoldsAt(Arg(f), w, i)
    [] Kind(f) = "and" -> \A a \in Arg(f) : HoldsAt(a, w, i)
    [] Kind(f) = "or" -> \E a \in Arg(f) : HoldsAt(a, w, i)
    [] Kind(f) = "X" -> i < Len(w) /\ HoldsAt(Arg(f), w, i + 1)
    [] Kind(f) = "WX" -> i < Len(w) => HoldsAt(Arg(f), w, i + 1)
    [] Kind(f) = "E" -> \E j \in rest : HoldsAt(Arg(f), w, j)
    [] Kind(f) = "G" -> \A j \in rest : HoldsAt(Arg(f), w, j)
    [] Kind(f) = "U" ->
         \E j \in rest : /\ HoldsAt(SecondArg(f), w, j)
                         /\ \A k \in i .. j - 1 : HoldsAt(Arg(f), w, k)
    [] Kind(f) = "R" ->
         \A j \in rest : \/ HoldsAt(SecondArg(f), w, j)
                         \/ \E k \in i .. j - 1 : HoldsAt(Arg(f), w, k)
=============================================================================
