-------------------------------- MODULE Delta --------------------------------
(***************************************************************************)
(* Progression of LDLf formulas through one letter, or through the end of   *)
(* the word (to_dfa/delta.cpp, delta_symbolic.cpp), and the states of the   *)
(* automata of the naive and the bdd strategy that it leads to              *)
(* (nfa_state.cpp, dfa_state.cpp, strategies/naive.cpp, strategies/bdd/).   *)
(*                                                                          *)
(* An NFA state is a set of formulas that all have to hold of the rest of   *)
(* the word, a DFA state a set of NFA states one of which accepts it.       *)
(***************************************************************************)
EXTENDS Ldlf

(* Mutant: only a marker around the whole formula is removed.               *)
ExpandOutside(f) == IF Kind(f) \in {"F", "T"} THEN Arg(f) ELSE f

(* ExpandVisitor: the formula without the markers F and T.                  *)
RECURSIVE Expand(_), ExpandRegex(_)
Expand(f) ==
  CASE Kind(f) \in {"true", "false"} -> f
    [] Kind(f) \in {"F", "T"} -> Expand(Arg(f))
    [] Kind(f) = "Q" -> f
    [] Kind(f) = "and" -> makeLdlfAnd({Expand(a) : a \in Arg(f)})
    [] Kind(f) = "or" -> makeLdlfOr({Expand(a) : a \in Arg(f)})
    [] Kind(f) = "not" -> makeLdlfNot(Expand(Arg(f)))
    [] Kind(f) = "diamond" -> makeLdlfDiamond(ExpandRegex(Regex(f)), Expand(Body(f)))
    [] Kind(f) = "box" -> makeLdlfBox(ExpandRegex(Regex(f)), Expand(Body(f)))

ExpandRegex(r) ==
  CASE Kind(r) = "prop" -> r
    [] Kind(r) = "test" -> makeTestRegex(Expand(Arg(r)))
    [] Kind(r) = "union" -> makeUnionRegex({ExpandRegex(s) : s \in Arg(r)})
    [] Kind(r) = "seq" ->
         makeSeqRegex([k \in DOMAIN Arg(r) |-> ExpandRegex(Arg(r)[k])])
    [] Kind(r) = "star" -> makeStarRegex(ExpandRegex(Arg(r)))

(* Mutant: of a longer sequence only the last expression is left.           *)
TailRegexLast(s) == s[Len(s)]

(* The sequence without its head: an expression on its own when one is left.*)
TailRegex(s) == IF Len(s) = 2 THEN s[2] ELSE makeSeqRegex(Tail(s))

-----------------------------------------------------------------------------
(* DeltaVisitor.  delta(f, i, epsilon) is a propositional formula over      *)
(* quoted formulas: what the rest of the word has to satisfy for f to hold  *)
(* of the word that starts with the letter i; with epsilon, whether f holds *)
(* of the empty word.  DeltaDiamond(f, r, ...) visits the expression r of   *)
(* the diamond f, DeltaBox that of a box.                                   *)
RECURSIVE delta(_, _, _), DeltaDiamond(_, _, _), DeltaBox(_, _, _)
delta(f, i, epsilon) ==
  CASE Kind(f) \in {"true", "T"} -> makeTrue
    [] Kind(f) \in {"false", "F"} -> makeFalse
    [] Kind(f) = "Q" -> delta(Arg(f), i, epsilon)
    [] Kind(f) = "and" -> makePropAnd({delta(a, i, epsilon) : a \in Arg(f)})
    [] Kind(f) = "or" -> makePropOr({delta(a, i, epsilon) : a \in Arg(f)})
    [] Kind(f) = "diamond" -> DeltaDiamond(f, i, epsilon)
    [] Kind(f) = "box" -> DeltaBox(f, i, epsilon)

DeltaDiamond(f, i, epsilon) ==
  LET r == Regex(f)
      after(g) == makeLdlfDiamond(g, Body(f))
      d(g) == delta(g, i, epsilon)
  IN CASE Kind(r) = "prop" ->
            IF epsilon \/ ~eval(Arg(r), i) THEN makeFalse ELSE QuotedAtom(Expand(Body(f)))
       [] Kind(r) = "test" -> makePropAnd({d(Arg(r)), d(Body(f))})
       [] Kind(r) = "union" -> makePropOr({d(after(s)) : s \in Arg(r)})
       [] Kind(r) = "seq" ->
            d(makeLdlfDiamond(Head(Arg(r)), after(TailRegex(Arg(r)))))
       [] Kind(r) = "star" ->
            makePropOr({d(Body(f)), d(makeLdlfDiamond(Arg(r), makeLdlfF(f)))})

DeltaBox(f, i, epsilon) ==
  LET r == Regex(f)
      after(g) == makeLdlfBox(g, Body(f))
      d(g) == delta(g, i, epsilon)
  IN CASE Kind(r) = "prop" ->
            IF epsilon \/ ~eval(Arg(r), i) THEN makeTrue ELSE QuotedAtom(Expand(Body(f)))
       [] Kind(r) = "test" ->
            makePropOr({d(to_nnf(makeLdlfNot(Arg(r)))), d(Body(f))})
       [] Kind(r) = "union" -> makePropAnd({d(after(s)) : s \in Arg(r)})
       [] Kind(r) = "seq" ->
            d(makeLdlfBox(Head(Arg(r)), after(TailRegex(Arg(r)))))
       [] Kind(r) = "star" ->
            makePropAnd({d(Body(f)), d(makeLdlfBox(Arg(r), makeLdlfT(f)))})

-----------------------------------------------------------------------------
(* DeltaSymbolicVisitor: the same for all letters at once; the atoms of the *)
(* letter stay in the result.                                               *)
RECURSIVE delta_symbolic(_, _), DeltaSymbolicDiamond(_, _), DeltaSymbolicBox(_, _)
delta_symbolic(f, epsilon) ==
  CASE Kind(f) \in {"true", "T"} -> makeTrue
    [] Kind(f) \in {"false", "F"} -> makeFalse
    [] Kind(f) = "and" -> makePropAnd({delta_symbolic(a, epsilon) : a \in Arg(f)})
    [] Kind(f) = "or" -> makePropOr({delta_symbolic(a, epsilon) : a \in Arg(f)})
    [] Kind(f) = "diamond" -> DeltaSymbolicDiamond(f, epsilon)
    [] Kind(f) = "box" -> DeltaSymbolicBox(f, epsilon)

DeltaSymbolicDiamond(f, epsilon) ==
  LET r == Regex(f)
      after(g) == makeLdlfDiamond(g, Body(f))
      d(g) == delta_symbolic(g, epsilon)
  IN CASE Kind(r) = "prop" ->
            IF epsilon THEN makeFalse
            ELSE makePropAnd({QuotedAtom(Expand(Body(f))), Arg(r)})
       [] Kind(r) = "test" -> makePropAnd({d(Arg(r)), d(Body(f))})
       [] Kind(r) = "union" -> makePropOr({d(after(s)) : s \in Arg(r)})
       [] Kind(r) = "seq" ->
            d(makeLdlfDiamond(Head(Arg(r)), after(TailRegex(Arg(r)))))
       [] Kind(r) = "star" ->
            makePropOr({d(Body(f)), d(makeLdlfDiamond(Arg(r), makeLdlfF(f)))})

DeltaSymbolicBox(f, epsilon) ==
  LET r == Regex(f)
      after(g) == makeLdlfBox(g, Body(f))
      d(g) == delta_symbolic(g, epsilon)
  IN CASE Kind(r) = "prop" ->
            IF epsilon THEN makeTrue
            ELSE makePropOr({QuotedAtom(Expand(Body(f))), prop_logical_not(Arg(r))})
       [] Kind(r) = "test" ->
            makePropOr({d(to_nnf(makeLdlfNot(Arg(r)))), d(Body(f))})
       [] Kind(r) = "union" -> makePropAnd({d(after(s)) : s \in Arg(r)})
       [] Kind(r) = "seq" ->
            d(makeLdlfBox(Head(Arg(r)), after(TailRegex(Arg(r)))))
       [] Kind(r) = "star" ->
            makePropAnd({d(Body(f)), d(makeLdlfBox(Arg(r), makeLdlfT(f)))})

-----------------------------------------------------------------------------
(* NFAState::is_final and DFAState::is_final.                               *)
NfaIsFinal(formulas) ==
  eval(makePropAnd({delta(f, {}, TRUE) : f \in formulas}), {})
DfaIsFinal(states) == \E formulas \in states : NfaIsFinal(formulas)

Formulas(quoted) == {Arg(a) : a \in quoted}

(* NaiveStrategy::next_states and next_state: one NFA state per model of    *)
(* what the formulas require of the rest of the word.                       *)
next_states(formulas, i) ==
  LET conjunction == makePropAnd({delta(f, i, FALSE) : f \in formulas})
  IN {Formulas(model) : model \in all_models(conjunction)}

next_state(states, i) == UNION {next_states(formulas, i) : formulas \in states}

(* BDDStrategy::next_transitions on an NFA state.  A cube is a pair of the  *)
(* atoms it makes true and those it makes false; CUDD enumerates primes of  *)
(* the successor function until they cover it, and does not promise which.  *)
successor_fun(formulas) == makePropAnd({delta_symbolic(f, FALSE) : f \in formulas})

Covers(cube, assignment) ==
  cube[1] \subseteq assignment /\ cube[2] \cap assignment = {}

Primes(p) ==
  LET atoms == prop_atoms(p)
      models == all_models(p)
      implicants ==
        UNION {{<<yes, no>> : no \in {n \in SUBSET (atoms \ yes) :
                  \A rest \in SUBSET (atoms \ (yes \cup n)) : yes \cup rest \in models}} :
                 yes \in models}
  IN {c \in implicants :
        /\ \A a \in c[1] : <<c[1] \ {a}, c[2]>> \notin implicants
        /\ \A a \in c[2] : <<c[1], c[2] \ {a}>> \notin implicants}

PrimeCovers(p) ==
  LET models == all_models(p)
  IN {cubes \in SUBSET Primes(p) : \A m \in models : \E c \in cubes : Covers(c, m)}

IsQuoted(a) == Kind(a) = "quoted"

(* Mutant: the atoms that a cube makes false are not looked at.             *)
LabelledSuccessorsPositive(cubes, i) ==
  {Formulas({a \in cube[1] : IsQuoted(a)}) :
     cube \in {c \in cubes : \A a \in c[1] : IsQuoted(a) \/ a \in i}}

(* The NFA states of the cubes that the letter i satisfies.                 *)
LabelledSuccessors(cubes, i) ==
  {Formulas({a \in cube[1] : IsQuoted(a)}) :
     cube \in {c \in cubes : /\ \A a \in c[1] : IsQuoted(a) \/ a \in i
                             /\ \A a \in c[2] : IsQuoted(a) \/ a \notin i}}

(* BDDStrategy::next_transitions on a DFA state: the NFA states whose label *)
(* i satisfies.  The result is the set of the DFA states this may be, one   *)
(* per choice of the primes; {} is the sink, which has no NFA state.        *)
bdd_next_states(states, i) ==
  FoldSet(LAMBDA formulas, results :
            {result \cup LabelledSuccessors(cubes, i) :
               result \in results, cubes \in PrimeCovers(successor_fun(formulas))},
          {{}}, states)
=============================================================================
