-------------------------------- MODULE Ldlf ---------------------------------
(***************************************************************************)
(* Formulas of LDLf and their regular expressions (logic/ldlf/): their      *)
(* duals, their negation normal form (nnf.cpp) and the formulas the parser  *)
(* makes for operators of its own (parser/ldlf/driver.cpp).                 *)
(***************************************************************************)
EXTENDS Propositional

(* LDLfFormula::logical_not: one level of duality per operator, and a not   *)
(* is removed; expressions are left alone.                                  *)
RECURSIVE logical_not(_)
logical_not(f) ==
  CASE Kind(f) = "true" -> makeLdlfFalse
    [] Kind(f) = "false" -> makeLdlfTrue
    [] Kind(f) = "not" -> Arg(f)
    [] Kind(f) = "and" -> makeLdlfOr({logical_not(a) : a \in Arg(f)})
    [] Kind(f) = "or" -> makeLdlfAnd({logical_not(a) : a \in Arg(f)})
    [] Kind(f) = "diamond" -> makeLdlfBox(Regex(f), logical_not(Body(f)))
    [] Kind(f) = "box" -> makeLdlfDiamond(Regex(f), logical_not(Body(f)))
    [] Kind(f) = "F" -> makeLdlfT(logical_not(Arg(f)))
    [] Kind(f) = "T" -> makeLdlfF(logical_not(Arg(f)))

(* NNFTransformer on propositional formulas.  A conjunction or disjunction  *)
(* is taken as it is: the code does not visit its members.                  *)
RECURSIVE nnf_prop(_)
nnf_prop(p) ==
  IF Kind(p) = "not" /\ Kind(Arg(p)) # "atom"
  THEN nnf_prop(prop_logical_not(Arg(p)))
  ELSE p

RECURSIVE to_nnf(_), nnf_regex(_)

nnf_not(f) == to_nnf(logical_not(f))

to_nnf(f) ==
  CASE Kind(f) \in {"true", "false"} -> f
    [] Kind(f) = "and" -> makeLdlfAnd({to_nnf(a) : a \in Arg(f)})
    [] Kind(f) = "or" -> makeLdlfOr({to_nnf(a) : a \in Arg(f)})
    [] Kind(f) = "not" -> nnf_not(Arg(f))
    [] Kind(f) = "diamond" -> makeLdlfDiamond(nnf_regex(Regex(f)), to_nnf(Body(f)))
    [] Kind(f) = "box" -> makeLdlfBox(nnf_regex(Regex(f)), to_nnf(Body(f)))
    [] Kind(f) \in {"F", "T"} -> to_nnf(Arg(f))

nnf_regex(r) ==
  CASE Kind(r) = "prop" -> makePropRegex(nnf_prop(Arg(r)))
    [] Kind(r) = "test" -> makeTestRegex(to_nnf(Arg(r)))
    [] Kind(r) = "union" -> makeUnionRegex({nnf_regex(s) : s \in Arg(r)})
    [] Kind(r) = "seq" ->
         makeSeqRegex([k \in DOMAIN Arg(r) |-> nnf_regex(Arg(r)[k])])
    [] Kind(r) = "star" -> makeStarRegex(nnf_regex(Arg(r)))

(* AtomsVisitor on LDLf formulas and expressions.                           *)
RECURSIVE find_atoms(_), regex_atoms(_)
find_atoms(f) ==
  CASE Kind(f) \in {"true", "false"} -> {}
    [] Kind(f) \in {"and", "or"} -> UNION {find_atoms(a) : a \in Arg(f)}
    [] Kind(f) = "not" -> find_atoms(Arg(f))
    [] Kind(f) \in {"diamond", "box"} ->
         regex_atoms(Regex(f)) \cup find_atoms(Body(f))

regex_atoms(r) ==
  CASE Kind(r) = "prop" -> prop_atoms(Arg(r))
    [] Kind(r) = "test" -> find_atoms(Arg(r))
    [] Kind(r) = "union" -> UNION {regex_atoms(s) : s \in Arg(r)}
    [] Kind(r) = "seq" -> UNION {regex_atoms(s) : s \in ToSet(Arg(r))}
    [] Kind(r) = "star" -> regex_atoms(Arg(r))

-----------------------------------------------------------------------------
(* The driver of the parser: operators that are more than one node.         *)
add_LDLfImplication(lhs, rhs) == makeLdlfOr({makeLdlfNot(lhs), rhs})
add_LDLfEquivalence(lhs, rhs) ==
  makeLdlfAnd({add_LDLfImplication(lhs, rhs), add_LDLfImplication(rhs, lhs)})
add_LDLfLast == makeLdlfDiamond(makePropRegex(makeTrue), makeLdlfEnd)
add_PropositionalImplication(lhs, rhs) == makePropOr({makePropNot(lhs), rhs})
add_PropositionalEquivalence(lhs, rhs) ==
  makePropAnd({add_PropositionalImplication(lhs, rhs),
               add_PropositionalImplication(rhs, lhs)})
=============================================================================
