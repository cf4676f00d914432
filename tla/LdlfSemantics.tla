---------------------------- MODULE LdlfSemantics ----------------------------
(***************************************************************************)
(* What LDLf means, independently of the program: the reference that the    *)
(* translation is compared with; and the formulas that delta is defined     *)
(* for.  A word is a sequence of sets of atoms, possibly empty, and a       *)
(* position is the number of letters already read.                          *)
(***************************************************************************)
EXTENDS Ldlf

RECURSIVE Holds(_, _, _), Reached(_, _, _), Repeated(_, _, _)

(* f holds of the rest of w after its first i letters.                      *)
Holds(f, w, i) ==
  CASE Kind(f) = "true" -> TRUE
    [] Kind(f) = "false" -> FALSE
    [] Kind(f) = "not" -> ~Holds(Arg(f), w, i)
    [] Kind(f) = "and" -> \A a \in Arg(f) : Holds(a, w, i)
    [] Kind(f) = "or" -> \E a \in Arg(f) : Holds(a, w, i)
    [] Kind(f) = "diamond" ->
         \E j \in Reached(Regex(f), w, i) : Holds(Body(f), w, j)
    [] Kind(f) = "box" ->
         \A j \in Reached(Regex(f), w, i) : Holds(Body(f), w, j)

(* The positions where a part of w that starts at i and matches r may end.  *)
Reached(r, w, i) ==
  CASE Kind(r) = "prop" ->
         IF i < Len(w) /\ eval(Arg(r), w[i + 1]) THEN {i + 1} ELSE {}
    [] Kind(r) = "test" -> IF Holds(Arg(r), w, i) THEN {i} ELSE {}
    [] Kind(r) = "union" -> UNION {Reached(s, w, i) : s \in Arg(r)}
    [] Kind(r) = "seq" ->
         FoldLeft(LAMBDA S, s : UNION {Reached(s, w, j) : j \in S}, {i}, Arg(r))
    [] Kind(r) = "star" -> Repeated(Arg(r), w, {i})

(* The positions reached from S by any number of parts that match r.        *)
Repeated(r, w, S) ==
  LET T == S \cup UNION {Reached(r, w, i) : i \in S} IN
  IF T = S THEN S ELSE Repeated(r, w, T)

Satisfies(w, f) == Holds(f, w, 0)

-----------------------------------------------------------------------------
(* The formulas of a state are what the strategies need of them: delta is   *)
(* not defined for a not, and a marker left in a state would stop a star    *)
(* from being repeated in the next letter.                                  *)
RECURSIVE WellFormed(_), WellFormedRegex(_)
WellFormed(f) ==
  CASE Kind(f) \in {"true", "false"} -> TRUE
    [] Kind(f) \in {"and", "or"} -> \A a \in Arg(f) : WellFormed(a)
    [] Kind(f) \in {"diamond", "box"} ->
         WellFormedRegex(Regex(f)) /\ WellFormed(Body(f))
    [] OTHER -> FALSE
WellFormedRegex(r) ==
  CASE Kind(r) = "prop" -> TRUE
    [] Kind(r) = "test" -> WellFormed(Arg(r))
    [] Kind(r) = "union" -> \A s \in Arg(r) : WellFormedRegex(s)
    [] Kind(r) = "seq" -> \A s \in ToSet(Arg(r)) : WellFormedRegex(s)
    [] Kind(r) = "star" -> WellFormedRegex(Arg(r))
=============================================================================
