---------------------------- MODULE Propositional ----------------------------
(***************************************************************************)
(* The propositional formulas (logic/pl/): their negation, their value and  *)
(* their models.                                                            *)
(***************************************************************************)
EXTENDS Formulas

(* logical_not of the propositional classes.  The negation of an atom goes  *)
(* through the text of its symbol, so that a quoted formula would become an *)
(* ordinary atom, named here by <<"printed", f>>.                           *)
prop_atom_logical_not(a) ==
  makePropNot(IF Kind(a) = "quoted" THEN <<"printed", Arg(a)>> ELSE a)

RECURSIVE prop_logical_not(_)
prop_logical_not(p) ==
  CASE Kind(p) = "true" -> makeFalse
    [] Kind(p) = "false" -> makeTrue
    [] Kind(p) = "not" -> Arg(p)
    [] Kind(p) = "and" -> makePropOr({prop_logical_not(a) : a \in Arg(p)})
    [] Kind(p) = "or" -> makePropAnd({prop_logical_not(a) : a \in Arg(p)})
    [] OTHER -> prop_atom_logical_not(p)

(* EvalVisitor: the value of p when exactly the atoms of i hold.            *)
RECURSIVE eval(_, _)
eval(p, i) ==
  CASE Kind(p) = "true" -> TRUE
    [] Kind(p) = "false" -> FALSE
    [] Kind(p) = "not" -> ~eval(Arg(p), i)
    [] Kind(p) = "and" -> \A a \in Arg(p) : eval(a, i)
    [] Kind(p) = "or" -> \E a \in Arg(p) : eval(a, i)
    [] OTHER -> p \in i

(* AtomsVisitor on propositional formulas.                                  *)
RECURSIVE prop_atoms(_)
prop_atoms(p) ==
  CASE Kind(p) \in {"true", "false"} -> {}
    [] Kind(p) = "not" -> prop_atoms(Arg(p))
    [] Kind(p) \in {"and", "or"} -> UNION {prop_atoms(a) : a \in Arg(p)}
    [] OTHER -> {p}

(* NaiveModelEnumerationStategy: the sets of atoms of p that make it true.  *)
all_models(p) == {i \in SUBSET prop_atoms(p) : eval(p, i)}
=============================================================================
