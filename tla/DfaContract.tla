----------------------------- MODULE DfaContract -----------------------------
(***************************************************************************)
(* What the interface lydia/dfa/abstract_dfa.hpp promises of an automaton   *)
(* under construction: an explicit transition table, where each call        *)
(* changes what it names and nothing else.                                  *)
(***************************************************************************)
EXTENDS Naturals

CONSTANTS
  Symbols,    \* the propositional interpretations
  Capacity    \* the number of states the automaton can hold

VARIABLES
  nb_states, initial_state,
  finals,     \* the final states
  delta       \* the transition table

vars == <<nb_states, initial_state, finals, delta>>

State == 0 .. nb_states - 1

(* One rejecting state with a self-loop: the default sink.                  *)
Init ==
  /\ nb_states = 1
  /\ initial_state = 0
  /\ finals = {}
  /\ delta = [s \in {0} |-> [x \in Symbols |-> 0]]

AddState ==
  /\ nb_states < Capacity
  /\ nb_states' = nb_states + 1
  /\ delta' = [s \in 0 .. nb_states |->
                 IF s = nb_states THEN [x \in Symbols |-> 0] ELSE delta[s]]
  /\ UNCHANGED <<initial_state, finals>>

SetInitialState(s) ==
  /\ initial_state' = s
  /\ UNCHANGED <<nb_states, finals, delta>>

SetFinalState(s, is_final) ==
  /\ UNCHANGED <<nb_states, initial_state, delta>>
  /\ finals' = IF is_final THEN finals \union {s} ELSE finals \ {s}

AddTransition(from, symbols, to) ==
  /\ UNCHANGED <<nb_states, initial_state, finals>>
  /\ delta' = [delta EXCEPT ![from] =
                 [x \in Symbols |-> IF x \in symbols THEN to ELSE @[x]]]

Next ==
  \/ AddState
  \/ \E s \in State :
       \/ SetInitialState(s)
       \/ \E b \in BOOLEAN : SetFinalState(s, b)
       \/ \E symbols \in SUBSET Symbols, to \in State : AddTransition(s, symbols, to)

Spec == Init /\ [][Next]_vars
==============================================================================
