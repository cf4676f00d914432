---------------------------- MODULE MCProgression ----------------------------
(***************************************************************************)
(* Formulas of bounded depth for Progression, built as the driver of the    *)
(* parser does, and the words TLC reads with them.                          *)
(***************************************************************************)
EXTENDS Progression

A == makePropAtom("a")
B == makePropAtom("b")

Props == {A, makePropNot(A)}
SomeA == makeLdlfDiamond(makePropRegex(A), makeLdlfTrue)
Tests == {makeTestRegex(SomeA), makeTestRegex(makeLdlfNot(SomeA)),
          makeTestRegex(makeLdlfDiamond(makeStarRegex(makePropRegex(A)), makeLdlfEnd))}

Simple == {makePropRegex(p) : p \in Props} \cup Tests
Composed(R) == {makeUnionRegex({r, s}) : r, s \in R}
               \cup {makeSeqRegex(<<r, s>>) : r, s \in R}
Stars(R) == {makeStarRegex(r) : r \in R}
Regexes == Simple \cup Composed(Simple) \cup Stars(Simple \cup Composed(Simple))
           \cup Stars(Stars(Simple))
           \cup {makeSeqRegex(<<r, s, r>>) : r \in Stars(Simple), s \in Simple}

Bodies == {makeLdlfTrue, makeLdlfFalse, makeLdlfEnd, SomeA}
Modal(R, F) == {makeLdlfDiamond(r, f) : r \in R, f \in F}
               \cup {makeLdlfBox(r, f) : r \in R, f \in F}

(* Expressions with connectives that the driver turns into other ones.      *)
Connectives ==
  {makePropRegex(p) : p \in
     {add_PropositionalImplication(A, B),
      add_PropositionalImplication(makePropAnd({A, B}), makePropAtom("c")),
      add_PropositionalEquivalence(A, B),
      makePropNot(add_PropositionalEquivalence(A, B))}}

(* Connectives between formulas.                                            *)
Compound ==
  LET someB == makeLdlfDiamond(makeStarRegex(makePropRegex(B)), SomeA)
      allA == makeLdlfBox(makeStarRegex(makePropRegex(A)), add_LDLfLast)
  IN {add_LDLfImplication(someB, allA), add_LDLfEquivalence(SomeA, add_LDLfLast),
      makeLdlfNot(add_LDLfEquivalence(SomeA, add_LDLfLast))}

MCConnectives == Modal(Connectives, {makeLdlfTrue, makeLdlfFalse})
MCInputs == Modal(Regexes, Bodies) \cup {makeLdlfNot(f) : f \in Modal(Regexes, Bodies)}
            \cup MCConnectives \cup Compound
=============================================================================
