----------------------------- MODULE Progression -----------------------------
(***************************************************************************)
(* The automata that the naive and the bdd strategy build for a formula,    *)
(* run on a word at the same time: to_dfa of either starts from the normal  *)
(* form of the formula and explores what these steps lead to.               *)
(***************************************************************************)
EXTENDS Delta, LdlfSemantics

CONSTANTS
  Inputs,      \* the formulas the parser may return
  MaxLength    \* the longest word that is read

VARIABLES
  formula,     \* the formula given to to_dfa
  word,        \* the letters read so far
  naive,       \* the state the automaton of the naive strategy is in
  bdd          \* the state the automaton of the bdd strategy is in

vars == <<formula, word, naive, bdd>>

InitialState(f) == {{to_nnf(f)}}

Init ==
  /\ formula \in Inputs
  /\ word = <<>>
  /\ naive = InitialState(formula)
  /\ bdd = InitialState(formula)

(* The letters are sets of atoms of the normal form.                        *)
Letters == SUBSET find_atoms(to_nnf(formula))

Read(i) ==
  /\ Len(word) < MaxLength
  /\ word' = Append(word, i)
  /\ naive' = next_state(naive, i)
  /\ bdd' \in bdd_next_states(bdd, i)
  /\ UNCHANGED formula

Next == \E i \in Letters : Read(i)

Spec == Init /\ [][Next]_vars

-----------------------------------------------------------------------------
(* TypeOK: the states of both automata are sets of sets of formulas in      *)
(* normal form and without markers (Expand in delta.cpp, to_nnf).           *)
TypeOK ==
  /\ word \in BoundedSeq(Letters, MaxLength)
  /\ \A formulas \in naive \cup bdd : \A f \in formulas : WellFormed(f)

(* NaiveAgrees: the automaton of the naive strategy accepts the letters     *)
(* read so far iff they satisfy the formula that was parsed, so that the    *)
(* normal form, the progression and the end of the word do what LDLf means. *)
NaiveAgrees == DfaIsFinal(naive) <=> Satisfies(word, formula)

(* BddAgrees: so does the automaton of the bdd strategy, whichever primes   *)
(* CUDD enumerates, although its NFA states are other sets of formulas.     *)
BddAgrees == DfaIsFinal(bdd) <=> Satisfies(word, formula)

(* NegationsAreOfAtoms: in the normal form the propositional expressions    *)
(* negate atoms only.  The compositional strategy asserts this of every     *)
(* negation it meets (compositional/base.cpp, visit(PropositionalNot)).     *)
RECURSIVE Literal(_)
Literal(p) ==
  CASE Kind(p) = "not" -> Kind(Arg(p)) = "atom"
    [] Kind(p) \in {"and", "or"} -> \A a \in Arg(p) : Literal(a)
    [] OTHER -> TRUE
RECURSIVE Negations(_), NegationsOfRegex(_)
Negations(f) ==
  CASE Kind(f) \in {"and", "or"} -> \A a \in Arg(f) : Negations(a)
    [] Kind(f) \in {"diamond", "box"} ->
         NegationsOfRegex(Regex(f)) /\ Negations(Body(f))
    [] OTHER -> TRUE
NegationsOfRegex(r) ==
  CASE Kind(r) = "prop" -> Literal(Arg(r))
    [] Kind(r) = "test" -> Negations(Arg(r))
    [] Kind(r) = "union" -> \A s \in Arg(r) : NegationsOfRegex(s)
    [] Kind(r) = "seq" -> \A s \in ToSet(Arg(r)) : NegationsOfRegex(s)
    [] Kind(r) = "star" -> NegationsOfRegex(Arg(r))
NegationsAreOfAtoms ==
  \A formulas \in naive : \A f \in formulas : Negations(f)
=============================================================================
