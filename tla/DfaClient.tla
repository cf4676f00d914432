------------------------------ MODULE DfaClient ------------------------------
(***************************************************************************)
(* A caller that builds one symbolic automaton with the public methods of   *)
(* lib/src/dfa/dfa.cpp, in any order and with any arguments.  A call the    *)
(* code answers with an exception leaves the automaton as it was.           *)
(***************************************************************************)
EXTENDS SymbolicDfa

CONSTANT MaxTransitions   \* bound: the pairs (state, interpretation) given a transition

ASSUME BoundAssumption == MaxTransitions \in Nat

VARIABLES
  automaton,
  added     \* history: the pairs <<from, interpretation>> given a transition

vars == <<automaton, added>>

Symbols == UNION {[D -> BOOLEAN] : D \in SUBSET Variables}

(* Any state a caller may name, the first unallocated one included.         *)
Named == 0 .. automaton.nb_states

Init ==
  /\ automaton = new_dfa(MaxBits)
  /\ added = {}

AddState ==
  /\ ~ add_state_throws(automaton)
  /\ automaton' = add_state(automaton)
  /\ UNCHANGED added

SetInitialState(s) ==
  /\ s < automaton.nb_states
  /\ automaton' = set_initial_state(automaton, s)
  /\ UNCHANGED added

SetFinalState(s, final) ==
  /\ s < automaton.nb_states
  /\ automaton' = set_final_state(automaton, s, final)
  /\ UNCHANGED added

\* The target is not looked up in the set of states.
AddTransitionAnywhere(from, symbol, to) ==
  /\ from < automaton.nb_states
  /\ automaton' = add_transition(automaton, from, guard(symbol), to)
  /\ added' = added \union ({from} \X guard(symbol))
  /\ Cardinality(added') <= MaxTransitions

AddTransition(from, symbol, to) ==
  /\ from < automaton.nb_states
  /\ to < automaton.nb_states
  /\ automaton' = add_transition(automaton, from, guard(symbol), to)
  /\ added' = added \union ({from} \X guard(symbol))
  /\ Cardinality(added') <= MaxTransitions

(* The calls that throw: no new bit can be instantiated, or a state is not  *)
(* in the set of states.                                                    *)
Throw ==
  /\ \/ add_state_throws(automaton)
     \/ \E s \in Named : s >= automaton.nb_states
  /\ UNCHANGED vars

Next ==
  \/ AddState
  \/ \E s \in Named : SetInitialState(s)
  \/ \E s \in Named, final \in BOOLEAN : SetFinalState(s, final)
  \/ \E from, to \in Named, symbol \in Symbols : AddTransition(from, symbol, to)
  \/ Throw

Spec == Init /\ [][Next]_vars

-----------------------------------------------------------------------------
(***************************************************************************)
(* The strategies of this repository build their automata in a disciplined  *)
(* way: a state is never made non-final, and no interpretation is given two *)
(* transitions from the same state.                                         *)
(***************************************************************************)
Fresh(from, symbol) ==
  added \intersect ({from} \X guard(symbol)) = {}

DisciplinedNext ==
  \/ AddState
  \/ \E s \in Named : SetInitialState(s) \/ SetFinalState(s, TRUE)
  \/ \E from, to \in Named, symbol \in Symbols :
       Fresh(from, symbol) /\ AddTransition(from, symbol, to)
  \/ Throw

DisciplinedSpec == Init /\ [][DisciplinedNext]_vars

-----------------------------------------------------------------------------
TypeOK ==
  /\ automaton \in Automata
  /\ automaton.nb_bits = MaxBits
  /\ automaton.initial_state \in States(automaton)

(* Under the discipline the bit-level automaton is the explicit table that  *)
(* abstract_dfa.hpp promises: every call of dfa.cpp changes the successors  *)
(* and the final states it names, and no others, although transitions are   *)
(* only ever OR-ed into shared BDDs (dfa.cpp 345-369).                      *)
Contract == INSTANCE DfaContract WITH
  Symbols <- Interpretation, Capacity <- StateLimit,
  nb_states <- automaton.nb_states, initial_state <- automaton.initial_state,
  finals <- final_states(automaton), delta <- transitions(automaton)
ImplementsContract == Contract!Spec

(* No run of the automaton leaves the states that were allocated, and no    *)
(* code that is not a state is accepting: a word is rejected as soon as it  *)
(* takes a transition nobody added (dfa.cpp 292-309).                       *)
RunsStayAllocated ==
  /\ \A s \in States(automaton), x \in Interpretation :
       get_successor(automaton, s, x) < automaton.nb_states
  /\ automaton.finalstates \subseteq {state2bin(s) : s \in States(automaton)}

(* abstract_dfa.hpp 66-72, "Set a state to be final (or not final)": a call *)
(* of set_final_state leaves every other state as it was.                   *)
SetFinalStateIsLocal ==
  [][\A s \in Named, final \in BOOLEAN :
       SetFinalState(s, final) =>
         \A t \in States(automaton) \ {s} : is_final(automaton', t) = is_final(automaton, t)]_vars
==============================================================================
