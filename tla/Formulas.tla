------------------------------- MODULE Formulas --------------------------------
(***************************************************************************)
(* Formulas as trees, and the operators that make them (ast/pl.cpp,         *)
(* ast/ltlf.cpp, ast/ldlf.cpp, ast/regex.cpp, ast/base.hpp).  A node is a   *)
(* tuple that starts with its kind: <<"true">>, <<"false">>, <<"atom", a>>, *)
(* <<"quoted", f>> (an atom that stands for the LDLf formula f),            *)
(* <<"not", f>>, <<"and", S>>, <<"or", S>>.  The kinds of these that do not *)
(* mention atoms are shared by the three logics.  LTLf adds <<"X", f>>,     *)
(* <<"WX", f>> (weak next), <<"U", f, g>>, <<"R", f, g>>, <<"E", f>>        *)
(* (eventually) and <<"G", f>> (always).  LDLf adds <<"diamond", r, f>>,    *)
(* <<"box", r, f>>, the markers <<"F", f>> and <<"T", f>> that delta puts   *)
(* on a formula it has unfolded, and <<"Q", f>> for the formula after a     *)
(* star; its expressions are <<"prop", p>>, <<"test", f>>, <<"union", S>>,  *)
(* <<"seq", s>> and <<"star", r>>.                                          *)
(*                                                                          *)
(* Hash-consing (insert_if_not_available_) is not visible here: two nodes   *)
(* with the same contents are the same value.  AstManager says that they    *)
(* may be.                                                                  *)
(***************************************************************************)
EXTENDS Naturals, FiniteSets, SequencesExt

Kind(f) == f[1]
Arg(f) == f[2]                     \* get_arg() or get_container()

makeTrue == <<"true">>
makeFalse == <<"false">>

(* The members of S, those of kind "kind" replaced by their own members.    *)
Flattened(S, kind) ==
  UNION {IF Kind(a) = kind THEN Arg(a) ELSE {a} : a \in S}

(* A node over the members of args, or the one member there is.             *)
NodeOver(args, kind) ==
  IF Cardinality(args) = 1 THEN CHOOSE a \in args : TRUE ELSE <<kind, args>>

(* A conjunction or a disjunction: an absorbing member is the result, a     *)
(* neutral one is dropped, a nested node of the same kind is flattened.     *)
and_or(S, kind, neutral, absorbing) ==
  LET args == Flattened(S \ {neutral}, kind) IN
  CASE absorbing \in S -> absorbing
    [] absorbing \notin S /\ args = {} -> neutral
    [] OTHER -> NodeOver(args, kind)

makeAnd(S) == and_or(S, "and", makeTrue, makeFalse)
makeOr(S) == and_or(S, "or", makeFalse, makeTrue)

makePropAtom(a) == <<"atom", a>>
QuotedAtom(f) == <<"quoted", f>>
makePropAnd(S) == makeAnd(S)
makePropOr(S) == makeOr(S)
makePropNot(p) == <<"not", p>>

-----------------------------------------------------------------------------
(* LDLf and its regular expressions.                                        *)
Regex(f) == f[2]                   \* get_regex() of a diamond or a box
Body(f) == f[3]                    \* get_formula()

makeLdlfTrue == makeTrue
makeLdlfFalse == makeFalse
makeLdlfAnd(S) == makeAnd(S)
makeLdlfOr(S) == makeOr(S)
makeLdlfNot(f) == <<"not", f>>
makeLdlfDiamond(r, f) == <<"diamond", r, f>>
makeLdlfBox(r, f) == <<"box", r, f>>
makeLdlfF(f) == <<"F", f>>
makeLdlfT(f) == <<"T", f>>
makeLdlfQ(f) == <<"Q", f>>

makePropRegex(p) == <<"prop", p>>
makeTestRegex(f) == <<"test", f>>
makeStarRegex(r) == <<"star", r>>
makeUnionRegex(S) == NodeOver(Flattened(S, "union"), "union")
makeSeqRegex(s) ==
  LET args == FlattenSeq([k \in DOMAIN s |->
                 IF Kind(s[k]) = "seq" THEN Arg(s[k]) ELSE <<s[k]>>])
  IN IF Len(args) = 1 THEN args[1] ELSE <<"seq", args>>

makeLdlfEnd == makeLdlfBox(makePropRegex(makeTrue), makeLdlfFalse)
makeLdlfNotEnd == makeLdlfDiamond(makePropRegex(makeTrue), makeLdlfTrue)

-----------------------------------------------------------------------------
(* LTLf.                                                                    *)
SecondArg(f) == f[3]

makeLtlfTrue == makeTrue
makeLtlfFalse == makeFalse
makeLtlfAtom(a) == <<"atom", a>>
makeLtlfAnd(S) == makeAnd(S)
makeLtlfOr(S) == makeOr(S)
makeLtlfNot(f) == <<"not", f>>
makeLtlfNext(f) == <<"X", f>>
makeLtlfWeakNext(f) == <<"WX", f>>
makeLtlfUntil(f, g) == <<"U", f, g>>
makeLtlfRelease(f, g) == <<"R", f, g>>
makeLtlfEventually(f) == <<"E", f>>
makeLtlfAlways(f) == <<"G", f>>
makeLtlfEnd == makeLtlfAlways(makeLtlfFalse)
=============================================================================
