---------------------------- MODULE MCComposition ----------------------------
(***************************************************************************)
(* Formulas for Composition: of LDLf, with expressions of bounded depth and *)
(* one for which states of star have different numbers of alternatives, and *)
(* of LTLf, nested up to three deep.                                        *)
(***************************************************************************)
EXTENDS Composition, MCLtlfFormulas

MCid2atoms == <<A, B>>

Prop(p) == makePropRegex(p)
SomeA == makeLdlfDiamond(Prop(A), makeLdlfTrue)
NotB == makeLdlfNot(makeLdlfDiamond(Prop(B), makeLdlfTrue))
AllA == makeLdlfDiamond(makeStarRegex(Prop(A)), makeLdlfEnd)

Simple == {Prop(A), Prop(makePropNot(B)), makeTestRegex(AllA), makeTestRegex(NotB)}
Composed == {makeUnionRegex({r, s}) : r, s \in Simple}
            \cup {makeSeqRegex(<<r, s>>) : r, s \in Simple}
Regexes == Composed \cup {makeStarRegex(r) : r \in Composed}
           \cup {makeStarRegex(makeSeqRegex(<<r, makeStarRegex(s)>>)) : r, s \in Simple}

Modal(R, F) == {makeLdlfDiamond(r, f) : r \in R, f \in F}
               \cup {makeLdlfBox(r, f) : r \in R, f \in F}

(* Expressions that take the shortcut of test_free_star_ in spite of a test,*)
(* stars in stars, and propositional connectives.                           *)
Special ==
  {makeStarRegex(makeSeqRegex(<<makeTestRegex(SomeA), Prop(makeTrue)>>)),
   makeStarRegex(makeUnionRegex({makeStarRegex(Prop(A)), makeTestRegex(AllA), Prop(B)})),
   makeStarRegex(makeUnionRegex(
     {Prop(B), makeSeqRegex(<<makeTestRegex(makeLdlfNot(AllA)), Prop(A), Prop(makePropNot(B))>>)})),
   makeSeqRegex(<<makeStarRegex(Prop(A)), Prop(makePropAnd({A, makePropNot(B)})),
                  makeStarRegex(Prop(makeFalse))>>),
   makeUnionRegex({makeTestRegex(AllA), Prop(add_PropositionalEquivalence(A, B)),
                   makeStarRegex(Prop(makePropOr({makePropNot(A), B})))})}

Compound ==
  LET stars == {makeLdlfDiamond(makeStarRegex(makeSeqRegex(<<r, Prop(A)>>)), SomeA) : r \in Simple}
      some == makeLdlfDiamond(makeStarRegex(Prop(A)), makeLdlfDiamond(Prop(B), makeLdlfEnd))
  IN {makeLdlfAnd({f, NotB, some}) : f \in stars} \cup {makeLdlfOr({f, NotB, some}) : f \in stars}

(* A round is the letter a; or a letter without a, and then b when a is     *)
(* there too, or neither.                                                   *)
Unbalanced ==
  makeStarRegex(makeUnionRegex({
    Prop(A),
    makeSeqRegex(<<Prop(makePropNot(A)),
      makeUnionRegex({makeSeqRegex(<<makeTestRegex(SomeA), Prop(B)>>),
                      makeSeqRegex(<<makeTestRegex(NotB), Prop(makePropNot(A))>>)})>>)}))

Bodies == {makeLdlfTrue, makeLdlfEnd, SomeA}
MCParsed(c) ==
  CASE c = "library" -> Modal(Regexes \cup Special, Bodies) \cup Compound
    [] c = "ltlf" -> Shallow \cup Middle \cup Deep
    [] c = "ldlf" -> {SomeA}
MCUnbalanced(c) == Modal({Unbalanced}, {makeLdlfEnd})
=============================================================================
