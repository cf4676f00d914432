----------------------------- MODULE SymbolicDfa -----------------------------
(***************************************************************************)
(* The symbolic automaton of lib/src/dfa/dfa.cpp, as a data structure.      *)
(* States are integers whose binary digits index the automaton: the BDD of  *)
(* the i-th root says for which (current digits, interpretation) the i-th   *)
(* digit of the successor is 1, and the BDD of the final states says which  *)
(* digits are accepting.  A BDD is represented by the set of its satisfying *)
(* assignments.                                                             *)
(*                                                                          *)
(* A method that changes the automaton is a function from automata to       *)
(* automata, named after it; <method>_throws is the condition under which   *)
(* the code throws std::invalid_argument, leaving the automaton unchanged.  *)
(***************************************************************************)
EXTENDS Integers, FiniteSets, FiniteSetsExt, SequencesExt

CONSTANTS
  NbVariables,   \* nb_variables: the number of propositions
  MaxBits        \* the largest nb_bits that is considered

ASSUME SizesAssumption == NbVariables \in Nat /\ MaxBits \in Nat

Variables == 0 .. NbVariables - 1
Interpretation == SUBSET Variables      \* the propositions that are true

(***************************************************************************)
(* Binary digits of a state (utils).  A string of digits is the set of the  *)
(* positions that hold a 1; position 0 is the least significant one.        *)
(***************************************************************************)
pow2[k \in 0 .. MaxBits] == IF k = 0 THEN 1 ELSE 2 * pow2[k - 1]

StateLimit == pow2[MaxBits]
Index == 0 .. StateLimit

Digits == SUBSET (0 .. MaxBits)

(* The loop of state2bin and of bit_length: what n is after i rounds.       *)
halved(n) ==
  LET half[i \in 0 .. MaxBits + 1] == IF i = 0 THEN n ELSE half[i - 1] \div 2 IN half

state2bin_of == [n \in Index |-> {i \in 0 .. MaxBits : halved(n)[i] % 2 = 1}]
state2bin(n) == state2bin_of[n]

(* The loop of bin2state starts with the most significant digit.            *)
doubled(digits) ==
  LET result[i \in 0 .. MaxBits + 1] ==
        IF i = 0 THEN 0
        ELSE 2 * result[i - 1] + (IF MaxBits + 1 - i \in digits THEN 1 ELSE 0)
  IN result
bin2state_of == [digits \in Digits |-> doubled(digits)[MaxBits + 1]]
bin2state(digits) == bin2state_of[digits]

(* The number of rounds that find n different from 0.                       *)
bit_length(n) == Cardinality({i \in 0 .. MaxBits : halved(n)[i] # 0})

-----------------------------------------------------------------------------
(* Roots are kept for MaxBits digits; an automaton has the first nb_bits.   *)
Automata ==
  [nb_bits : 0 .. MaxBits, nb_states : Index, initial_state : Index,
   finalstates : SUBSET Digits,
   root : [0 .. MaxBits - 1 -> SUBSET (Digits \X Interpretation)]]

(* A new automaton has one state, 0, which is a rejecting sink.             *)
new_dfa(bits) ==
  [nb_bits |-> bits, nb_states |-> 1, initial_state |-> 0,
   finalstates |-> {}, root |-> [i \in 0 .. MaxBits - 1 |-> {}]]

\* One bit too many before the automaton is called full.
add_state_throws_late(a) == a.nb_bits + 1 < bit_length(a.nb_states)
add_state_throws(a) == a.nb_bits < bit_length(a.nb_states)

(* The state that add_state(a) returns is a.nb_states.                      *)
add_state(a) == [a EXCEPT !.nb_states = @ + 1]

set_initial_state(a, s) == [a EXCEPT !.initial_state = s]

set_final_state(a, s, is_final) ==
  LET tmp == {state2bin(s)}
  IN  [a EXCEPT !.finalstates =
         @ \union (IF is_final THEN tmp ELSE SUBSET (0 .. a.nb_bits - 1) \ tmp)]

(* The interpretations that a partial map from variables to truth values    *)
(* stands for; a set of true variables, with or without dont_care, is one.  *)
guard(symbol) ==
  {x \in Interpretation : \A v \in DOMAIN symbol : (v \in x) = symbol[v]}

symbol_of(trueVariables, dont_care) ==
  [v \in IF dont_care THEN trueVariables ELSE Variables |-> v \in trueVariables]

\* The guard replaces what the root held, instead of being added to it.
add_transition_overwriting(a, from, g, to) ==
  [a EXCEPT !.root =
     [i \in 0 .. MaxBits - 1 |->
        IF i < a.nb_bits /\ i \in state2bin(to) THEN {state2bin(from)} \X g ELSE a.root[i]]]
add_transition(a, from, g, to) ==
  [a EXCEPT !.root =
     [i \in 0 .. MaxBits - 1 |->
        IF i < a.nb_bits /\ i \in state2bin(to)
          THEN a.root[i] \union ({state2bin(from)} \X g)
          ELSE a.root[i]]]

(* The loop of the private get_successor, on digits.                        *)
successor_digits(a, digits, x) == 
  {i \in 0 .. a.nb_bits - 1 : <<digits, x>> \in a.root[i]}

get_successor(a, s, x) == bin2state(successor_digits(a, state2bin(s), x))

is_final(a, s) == state2bin(s) \in a.finalstates

(* The loop of accepts: the digits of the state after i symbols.            *)
states_along(a, word) ==
  LET digits[i \in 0 .. Len(word)] ==
        IF i = 0 THEN state2bin(a.initial_state)
        ELSE successor_digits(a, digits[i - 1], word[i])
  IN digits
accepts(a, word) == states_along(a, word)[Len(word)] \in a.finalstates

(* What a caller can see of an automaton, through the getters.              *)
States(a) == 0 .. a.nb_states - 1
final_states(a) == {s \in States(a) : is_final(a, s)}
transitions(a) == [s \in States(a) |-> [x \in Interpretation |-> get_successor(a, s, x)]]
==============================================================================
