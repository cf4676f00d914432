---------------------------- MODULE MCAstManager -----------------------------
(***************************************************************************)
(* Three clients of AstManager: one wants formulas of LTLf, one of LDLf,    *)
(* one propositional ones.                                                  *)
(***************************************************************************)
EXTENDS AstManager

MCNames == <<"a", "b">>
A == makePropAtom("a")
B == makePropAtom("b")

(* Nested conjunctions, arguments in two orders, the constants kept outside.*)
BothAB == makeLtlfAnd({A, B})
MCLtlf ==
  {A, B, BothAB, makeLtlfEnd, makeLtlfAnd({A, B, makeLtlfEnd}),
   makeLtlfUntil(A, BothAB), makeLtlfUntil(BothAB, A)}

PA == makePropRegex(A)
TT == makePropRegex(makeTrue)
SomeA == makeLdlfDiamond(PA, makeLdlfTrue)
TestA == makeTestRegex(SomeA)
MCRegexes == {PA, TT, makeSeqRegex(<<PA, TT>>), makeSeqRegex(<<PA, TT, PA>>),
              makeUnionRegex({PA, TT}), makeUnionRegex({PA, TT, TestA}), TestA}

(* Atoms for names and for a formula, one set that starts with the other.   *)
MCProp ==
  {A, B, makePropAnd({A, B}), makePropNot(A), makePropOr({makePropNot(A), B}),
   makePropOr({makePropNot(A), B, makePropAnd({A, B})}), QuotedAtom(makeLdlfTrue), makeTrue}

MCRequests ==
  {[prop |-> {}, ltlf |-> MCLtlf, ldlf |-> {}, regex |-> {}],
   [prop |-> {A}, ltlf |-> {}, ldlf |-> {SomeA}, regex |-> MCRegexes],
   [prop |-> MCProp, ltlf |-> {}, ldlf |-> {}, regex |-> {}]}
=============================================================================
