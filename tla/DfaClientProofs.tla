---------------------------- MODULE DfaClientProofs ----------------------------
(***************************************************************************)
(* Proofs about DfaClient, for a caller that keeps the discipline, every    *)
(* number of propositions and of digits, and any number of transitions.     *)
(***************************************************************************)
EXTENDS DfaClient, SymbolicDfaProofs

Succ(n, x) == successor_digits(automaton, state2bin(n), x)

Allocated ==
  /\ automaton \in Automata
  /\ automaton.nb_bits = MaxBits
  /\ automaton.nb_states >= 1
  /\ automaton.initial_state \in States(automaton)
  /\ \A s \in States(automaton) : state2bin(s) \subseteq 0 .. MaxBits - 1

(* A state leads to a state, and to the sink until it gets a transition; an *)
(* index that is not allocated yet has no transition.                       *)
Table ==
  /\ added \subseteq States(automaton) \X Interpretation
  /\ \A n \in Index, x \in Interpretation :
       /\ \E t \in States(automaton) : Succ(n, x) = state2bin(t)
       /\ <<n, x>> \notin added => Succ(n, x) = {}

Accepting == automaton.finalstates \subseteq {state2bin(s) : s \in States(automaton)}

IInv == Allocated /\ Table /\ Accepting

-----------------------------------------------------------------------------
(* States and their digits.                                                 *)

LEMMA AllocatedStates ==
  ASSUME Allocated
  PROVE  /\ automaton.nb_states \in Index /\ automaton.nb_states \in Nat \ {0}
         /\ States(automaton) \subseteq Index
         /\ 0 \in States(automaton)
         /\ \A n \in Nat : n < automaton.nb_states <=> n \in States(automaton)
<1>1. automaton.nb_states \in Index /\ automaton.nb_states >= 1 /\ StateLimit \in Nat
  BY BinaryFacts DEF Allocated, Automata
<1>2. QED
  BY <1>1 DEF Index, States

LEMMA GuardType ==
  ASSUME NEW symbol \in Symbols
  PROVE  guard(symbol) \in SUBSET Interpretation
  BY DEF guard

(* Setting the initial or a final state, or adding a state, changes no      *)
(* successor.                                                               *)
LEMMA SameSuccessors ==
  ASSUME automaton'.root = automaton.root, automaton'.nb_bits = automaton.nb_bits
  PROVE  \A n, x : Succ(n, x)' = Succ(n, x)
  BY DEF Succ, successor_digits

-----------------------------------------------------------------------------
(* Every call preserves the invariant.                                      *)

LEMMA InitInvariant == Init => IInv
<1> SUFFICES ASSUME Init
             PROVE  IInv
  OBVIOUS
<1>1. automaton = new_dfa(MaxBits) /\ added = {}
  BY DEF Init
<1>2. 0 \in Index /\ 1 \in Index /\ state2bin(0) = {} /\ MaxBits \in 0 .. MaxBits
  BY NoDigits, SizesAssumption
<1>3. States(automaton) = {0}
  BY <1>1 DEF new_dfa, States
<1>4. Allocated
  <2>1. automaton.nb_bits = MaxBits /\ automaton.nb_states = 1 /\ automaton.initial_state = 0
    BY <1>1 DEF new_dfa
  <2>2. new_dfa(MaxBits) \in Automata
    BY <1>2 DEF new_dfa, Automata
  <2>3. \A s \in States(automaton) : state2bin(s) = {}
    BY <1>2, <1>3
  <2>4. QED
    BY <1>1, <1>3, <2>1, <2>2, <2>3 DEF Allocated
<1>5. \A n, x : Succ(n, x) = {}
  <2>1. \A i \in 0 .. MaxBits - 1 : automaton.root[i] = {}
    BY <1>1 DEF new_dfa
  <2>2. QED
    BY <1>1, <2>1 DEF Succ, successor_digits, new_dfa
<1>6. Table /\ Accepting
  BY <1>1, <1>2, <1>3, <1>5 DEF Table, Accepting, new_dfa
<1>7. QED
  BY <1>4, <1>6 DEF IInv

LEMMA AddStateEffect ==
  ASSUME IInv, AddState
  PROVE  /\ automaton' = [automaton EXCEPT !.nb_states = automaton.nb_states + 1]
         /\ automaton' \in Automata /\ added' = added
         /\ automaton.nb_states < StateLimit
         /\ state2bin(automaton.nb_states) \subseteq 0 .. MaxBits - 1
         /\ States(automaton') = States(automaton) \union {automaton.nb_states}
<1>1. automaton \in Automata /\ ~ add_state_throws(automaton)
      /\ automaton' = add_state(automaton) /\ added' = added
      /\ automaton.nb_bits = MaxBits
  BY DEF IInv, Allocated, AddState
<1>2. /\ automaton' = [automaton EXCEPT !.nb_states = automaton.nb_states + 1]
      /\ automaton' \in Automata
  BY <1>1, AddStateType
<1>3. automaton'.nb_states = automaton.nb_states + 1
  BY <1>1, <1>2 DEF Automata
<1>4. States(automaton') = States(automaton) \union {automaton.nb_states}
  BY <1>3, AllocatedStates DEF IInv, States
<1>5. QED
  BY <1>1, <1>2, <1>4, AddedIndexFits

LEMMA AddStateStep ==
  ASSUME IInv, AddState
  PROVE  IInv'
<1>1. /\ automaton' = [automaton EXCEPT !.nb_states = automaton.nb_states + 1]
      /\ automaton' \in Automata /\ added' = added
      /\ state2bin(automaton.nb_states) \subseteq 0 .. MaxBits - 1
      /\ States(automaton') = States(automaton) \union {automaton.nb_states}
  BY AddStateEffect
<1>2. /\ automaton'.nb_bits = automaton.nb_bits /\ automaton'.root = automaton.root
      /\ automaton'.initial_state = automaton.initial_state
      /\ automaton'.finalstates = automaton.finalstates
      /\ automaton'.nb_states = automaton.nb_states + 1
  BY <1>1 DEF IInv, Allocated, Automata
<1>3. Allocated'
  BY <1>1, <1>2, AllocatedStates DEF IInv, Allocated
<1>4. Table'
  BY <1>1, <1>2, SameSuccessors DEF IInv, Table
<1>5. Accepting'
  BY <1>1, <1>2 DEF IInv, Accepting
<1>6. QED
  BY <1>3, <1>4, <1>5 DEF IInv

LEMMA SetInitialStateStep ==
  ASSUME IInv, NEW s \in Named, SetInitialState(s)
  PROVE  IInv'
<1>1. /\ automaton' = [automaton EXCEPT !.initial_state = s] /\ added' = added
      /\ s \in States(automaton)
  BY AllocatedStates DEF SetInitialState, set_initial_state, IInv, Named
<1>2. /\ automaton' \in Automata
      /\ automaton'.nb_bits = automaton.nb_bits /\ automaton'.root = automaton.root
      /\ automaton'.initial_state = s
      /\ automaton'.finalstates = automaton.finalstates
      /\ automaton'.nb_states = automaton.nb_states
  BY <1>1, AllocatedStates DEF IInv, Allocated, Automata
<1>3. States(automaton') = States(automaton)
  BY <1>2 DEF States
<1>4. Allocated' /\ Accepting'
  BY <1>1, <1>2, <1>3 DEF IInv, Allocated, Accepting
<1>5. Table'
  BY <1>1, <1>2, <1>3, SameSuccessors DEF IInv, Table
<1>6. QED
  BY <1>4, <1>5 DEF IInv

LEMMA SetFinalStateEffect ==
  ASSUME IInv, NEW s \in Named, SetFinalState(s, TRUE)
  PROVE  /\ s \in States(automaton) /\ added' = added
         /\ automaton' \in Automata
         /\ automaton'.nb_bits = automaton.nb_bits /\ automaton'.root = automaton.root
         /\ automaton'.initial_state = automaton.initial_state
         /\ automaton'.finalstates = automaton.finalstates \union {state2bin(s)}
         /\ automaton'.nb_states = automaton.nb_states
<1>1. /\ automaton' = [automaton EXCEPT !.finalstates =
                         automaton.finalstates \union {state2bin(s)}]
      /\ added' = added /\ s \in States(automaton)
  BY AllocatedStates DEF SetFinalState, set_final_state, IInv, Named
<1>2. state2bin(s) \in Digits
  BY <1>1, AllocatedStates, DigitsType DEF IInv
<1>3. QED
  BY <1>1, <1>2 DEF IInv, Allocated, Automata

LEMMA SetFinalStateStep ==
  ASSUME IInv, NEW s \in Named, SetFinalState(s, TRUE)
  PROVE  IInv'
<1>1. /\ s \in States(automaton) /\ added' = added
      /\ automaton' \in Automata
      /\ automaton'.nb_bits = automaton.nb_bits /\ automaton'.root = automaton.root
      /\ automaton'.initial_state = automaton.initial_state
      /\ automaton'.finalstates = automaton.finalstates \union {state2bin(s)}
      /\ automaton'.nb_states = automaton.nb_states
  BY SetFinalStateEffect
<1>2. States(automaton') = States(automaton)
  BY <1>1 DEF States
<1>3. Allocated' /\ Accepting'
  BY <1>1, <1>2 DEF IInv, Allocated, Accepting
<1>4. Table'
  BY <1>1, <1>2, SameSuccessors DEF IInv, Table
<1>5. QED
  BY <1>3, <1>4 DEF IInv

(* A transition changes the successors it names: the digits of its target   *)
(* are added to the sink's, which are none.                                 *)
LEMMA AddTransitionEffect ==
  ASSUME IInv, NEW from \in Named, NEW to \in Named, NEW symbol \in Symbols,
         Fresh(from, symbol), AddTransition(from, symbol, to)
  PROVE  /\ from \in States(automaton) /\ to \in States(automaton)
         /\ automaton' \in Automata
         /\ automaton'.nb_bits = automaton.nb_bits
         /\ automaton'.nb_states = automaton.nb_states
         /\ automaton'.initial_state = automaton.initial_state
         /\ automaton'.finalstates = automaton.finalstates
         /\ added' = added \union ({from} \X guard(symbol))
         /\ \A n \in Index, x \in Interpretation :
              Succ(n, x)' = IF n = from /\ x \in guard(symbol) THEN state2bin(to)
                                                              ELSE Succ(n, x)
<1> DEFINE g == guard(symbol)
<1>1. /\ automaton' = add_transition(automaton, from, g, to)
      /\ added' = added \union ({from} \X g)
      /\ from \in States(automaton) /\ to \in States(automaton)
  BY AllocatedStates DEF AddTransition, IInv, Named
<1>2. from \in Index /\ to \in Index /\ g \in SUBSET Interpretation
      /\ automaton \in Automata /\ automaton.nb_bits = MaxBits
      /\ state2bin(to) \subseteq 0 .. automaton.nb_bits - 1
  BY <1>1, AllocatedStates, GuardType DEF IInv, Allocated
<1>3. /\ automaton' \in Automata
      /\ automaton'.nb_bits = automaton.nb_bits
      /\ automaton'.nb_states = automaton.nb_states
      /\ automaton'.finalstates = automaton.finalstates
  BY <1>1, <1>2, AddTransitionType
<1>4. automaton'.initial_state = automaton.initial_state
  BY <1>1, <1>2 DEF add_transition, Automata
<1> HIDE DEF g
<1>5. ASSUME NEW n \in Index, NEW x \in Interpretation
      PROVE  Succ(n, x)' = IF n = from /\ x \in g THEN state2bin(to) ELSE Succ(n, x)
  <2>1. Succ(n, x)' = Succ(n, x) \union
                        (IF state2bin(n) = state2bin(from) /\ x \in g
                           THEN state2bin(to) ELSE {})
    BY <1>1, <1>2, DigitsType, AddTransitionDigits DEF Succ
  <2>2. state2bin(n) = state2bin(from) <=> n = from
    BY <1>2, DigitsInjective
  <2>3. n = from /\ x \in g => Succ(n, x) = {}
    <3>1. n = from /\ x \in g => <<n, x>> \notin added
      BY DEF Fresh, g
    <3>2. QED
      BY <1>2, <3>1 DEF IInv, Table
  <2>4. QED
    BY <2>1, <2>2, <2>3
<1>6. QED
  BY <1>1, <1>3, <1>4, <1>5 DEF g

LEMMA AddTransitionStep ==
  ASSUME IInv, NEW from \in Named, NEW to \in Named, NEW symbol \in Symbols,
         Fresh(from, symbol), AddTransition(from, symbol, to)
  PROVE  IInv'
<1>1. /\ from \in States(automaton) /\ to \in States(automaton)
      /\ automaton' \in Automata
      /\ automaton'.nb_bits = automaton.nb_bits
      /\ automaton'.nb_states = automaton.nb_states
      /\ automaton'.initial_state = automaton.initial_state
      /\ automaton'.finalstates = automaton.finalstates
      /\ added' = added \union ({from} \X guard(symbol))
      /\ \A n \in Index, x \in Interpretation :
           Succ(n, x)' = IF n = from /\ x \in guard(symbol) THEN state2bin(to)
                                                           ELSE Succ(n, x)
  BY AddTransitionEffect
<1>2. States(automaton') = States(automaton)
  BY <1>1 DEF States
<1>3. Allocated' /\ Accepting'
  BY <1>1, <1>2 DEF IInv, Allocated, Accepting
<1>4. Table'
  <2>1. added' \subseteq States(automaton) \X Interpretation
    BY <1>1, GuardType DEF IInv, Table
  <2>2. ASSUME NEW n \in Index, NEW x \in Interpretation
        PROVE  /\ \E t \in States(automaton) : Succ(n, x)' = state2bin(t)
               /\ <<n, x>> \notin added' => Succ(n, x)' = {}
    <3>1. /\ \E t \in States(automaton) : Succ(n, x) = state2bin(t)
          /\ <<n, x>> \notin added => Succ(n, x) = {}
      BY DEF IInv, Table
    <3>2. CASE n = from /\ x \in guard(symbol)
      BY <1>1, <3>2
    <3>3. CASE ~ (n = from /\ x \in guard(symbol))
      BY <1>1, <3>1, <3>3
    <3>4. QED
      BY <3>2, <3>3
  <2>3. QED
    BY <1>2, <2>1, <2>2 DEF Table
<1>5. QED
  BY <1>3, <1>4 DEF IInv

LEMMA NextInvariant == IInv /\ [DisciplinedNext]_vars => IInv'
<1> SUFFICES ASSUME IInv, [DisciplinedNext]_vars
             PROVE  IInv'
  OBVIOUS
<1>1. CASE AddState
  BY <1>1, AddStateStep
<1>2. ASSUME NEW s \in Named, SetInitialState(s) \/ SetFinalState(s, TRUE)
      PROVE  IInv'
  BY <1>2, SetInitialStateStep, SetFinalStateStep
<1>3. ASSUME NEW from \in Named, NEW to \in Named, NEW symbol \in Symbols,
             Fresh(from, symbol), AddTransition(from, symbol, to)
      PROVE  IInv'
  BY <1>3, AddTransitionStep
<1>4. CASE Throw \/ UNCHANGED vars
  BY <1>4 DEF Throw, vars, IInv, Allocated, Table, Accepting, Succ
<1>5. QED
  BY <1>1, <1>2, <1>3, <1>4 DEF DisciplinedNext

(* What an automaton satisfies after every call of a disciplined caller.    *)
THEOREM Invariance == DisciplinedSpec => []IInv
<1>1. Init => IInv
  BY InitInvariant
<1>2. IInv /\ [DisciplinedNext]_vars => IInv'
  BY NextInvariant
<1>3. QED
  BY <1>1, <1>2, PTL DEF DisciplinedSpec

(* The automaton keeps its type and its digits, and its initial state is    *)
(* one of its states (dfa.cpp 311-334).                                     *)
THEOREM TypeCorrect == DisciplinedSpec => []TypeOK
<1>1. IInv => TypeOK
  BY DEF IInv, Allocated, TypeOK
<1>2. QED
  BY <1>1, Invariance, PTL

LEMMA SuccessorOfState ==
  ASSUME IInv, NEW s \in States(automaton), NEW x \in Interpretation
  PROVE  /\ get_successor(automaton, s, x) \in States(automaton)
         /\ Succ(s, x) = state2bin(get_successor(automaton, s, x))
<1>1. s \in Index /\ States(automaton) \subseteq Index
  BY AllocatedStates DEF IInv
<1>2. PICK t \in States(automaton) : Succ(s, x) = state2bin(t)
  BY <1>1 DEF IInv, Table
<1>3. bin2state(state2bin(t)) = t
  BY <1>1, BinaryFacts
<1>4. get_successor(automaton, s, x) = t
  BY <1>2, <1>3 DEF get_successor, Succ
<1>5. QED
  BY <1>2, <1>4

(* A run never leaves the states, and every accepting code is a state's     *)
(* (dfa.cpp 292-309).                                                       *)
THEOREM StaysAllocated == DisciplinedSpec => []RunsStayAllocated
<1>1. IInv => RunsStayAllocated
  <2> SUFFICES ASSUME IInv
               PROVE  RunsStayAllocated
    OBVIOUS
  <2>1. ASSUME NEW s \in States(automaton), NEW x \in Interpretation
        PROVE  get_successor(automaton, s, x) < automaton.nb_states
    BY SuccessorOfState, AllocatedStates DEF IInv, States
  <2>2. QED
    BY <2>1 DEF RunsStayAllocated, IInv, Accepting
<1>2. QED
  BY <1>1, Invariance, PTL

-----------------------------------------------------------------------------
(* The automaton implements the table that abstract_dfa.hpp promises.       *)

LEMMA TransitionsAre ==
  transitions(automaton) =
    [s \in States(automaton) |-> [x \in Interpretation |-> bin2state(Succ(s, x))]]
  BY DEF transitions, get_successor, Succ

LEMMA InitImplements == Init => Contract!Init
<1> SUFFICES ASSUME Init
             PROVE  Contract!Init
  OBVIOUS
<1>1. automaton = new_dfa(MaxBits) /\ added = {}
  BY DEF Init
<1>2. /\ automaton.nb_states = 1 /\ automaton.initial_state = 0
      /\ automaton.finalstates = {} /\ States(automaton) = {0}
  BY <1>1 DEF new_dfa, States
<1>3. final_states(automaton) = {}
  BY <1>2 DEF final_states, is_final
<1>4. \A x \in Interpretation : bin2state(Succ(0, x)) = 0
  <2>1. \A x \in Interpretation : Succ(0, x) = {}
    BY <1>1, InitInvariant, NoDigits DEF IInv, Table
  <2>2. QED
    BY <2>1, NoDigits
<1>5. transitions(automaton) = [s \in {0} |-> [x \in Interpretation |-> 0]]
  BY <1>2, <1>4, TransitionsAre
<1>6. QED
  BY <1>2, <1>3, <1>5 DEF Contract!Init

LEMMA AddStateImplements ==
  ASSUME IInv, AddState
  PROVE  Contract!AddState
<1> DEFINE k == automaton.nb_states
<1>1. /\ automaton' = [automaton EXCEPT !.nb_states = automaton.nb_states + 1]
      /\ automaton' \in Automata /\ k < StateLimit
      /\ States(automaton') = States(automaton) \union {k}
  BY AddStateEffect
<1>2. /\ automaton'.nb_bits = automaton.nb_bits /\ automaton'.root = automaton.root
      /\ automaton'.initial_state = automaton.initial_state
      /\ automaton'.finalstates = automaton.finalstates
      /\ automaton'.nb_states = k + 1
  BY <1>1 DEF IInv, Allocated, Automata
<1>3. k \in Index /\ k \notin States(automaton) /\ States(automaton) \subseteq Index
      /\ States(automaton') = 0 .. k
  BY <1>1, AllocatedStates DEF IInv, States
<1>4. final_states(automaton)' = final_states(automaton)
  <2>1. state2bin(k) \notin automaton.finalstates
    <3>1. \A s \in States(automaton) : state2bin(s) # state2bin(k)
      BY <1>3, DigitsInjective
    <3>2. QED
      BY <3>1 DEF IInv, Accepting
  <2>2. QED
    BY <1>1, <1>2, <2>1 DEF final_states, is_final
<1>5. ASSUME NEW x \in Interpretation
      PROVE  bin2state(Succ(k, x)) = 0
  <2>1. <<k, x>> \notin added
    BY <1>3 DEF IInv, Table
  <2>2. Succ(k, x) = {}
    BY <1>3, <2>1 DEF IInv, Table
  <2>3. QED
    BY <2>2, NoDigits
<1>6. \A n, x : Succ(n, x)' = Succ(n, x)
  BY <1>2, SameSuccessors
<1>7. transitions(automaton)' =
        [s \in States(automaton') |-> [x \in Interpretation |-> bin2state(Succ(s, x))]]
  BY <1>6 DEF transitions, get_successor, Succ
<1>8. transitions(automaton)' =
        [s \in 0 .. k |-> IF s = k THEN [x \in Interpretation |-> 0]
                          ELSE transitions(automaton)[s]]
  <2>1. ASSUME NEW s \in 0 .. k
        PROVE  [x \in Interpretation |-> bin2state(Succ(s, x))]
                 = IF s = k THEN [x \in Interpretation |-> 0] ELSE transitions(automaton)[s]
    <3>1. CASE s = k
      BY <1>5, <3>1
    <3>2. CASE s # k
      <4>1. s \in States(automaton)
        BY <1>1, <1>3, <3>2
      <4>2. QED
        BY <3>2, <4>1, TransitionsAre
    <3>3. QED
      BY <3>1, <3>2
  <2>2. QED
    BY <1>3, <1>7, <2>1
<1>9. k < StateLimit
  BY <1>1
<1>10. QED
  BY <1>2, <1>4, <1>8, <1>9 DEF Contract!AddState

LEMMA SetInitialStateImplements ==
  ASSUME IInv, NEW s \in Named, SetInitialState(s)
  PROVE  s \in States(automaton) /\ Contract!SetInitialState(s)
<1>1. /\ automaton' = [automaton EXCEPT !.initial_state = s]
      /\ s \in States(automaton)
  BY AllocatedStates DEF SetInitialState, set_initial_state, IInv, Named
<1>2. /\ automaton'.nb_bits = automaton.nb_bits /\ automaton'.root = automaton.root
      /\ automaton'.initial_state = s
      /\ automaton'.finalstates = automaton.finalstates
      /\ automaton'.nb_states = automaton.nb_states
  BY <1>1 DEF IInv, Allocated, Automata
<1>3. final_states(automaton)' = final_states(automaton)
  BY <1>2 DEF final_states, is_final, States
<1>4. transitions(automaton)' = transitions(automaton)
  BY <1>2 DEF transitions, get_successor, successor_digits, States
<1>5. QED
  BY <1>1, <1>2, <1>3, <1>4 DEF Contract!SetInitialState

LEMMA SetFinalStateImplements ==
  ASSUME IInv, NEW s \in Named, SetFinalState(s, TRUE)
  PROVE  s \in States(automaton) /\ Contract!SetFinalState(s, TRUE)
<1>1. /\ s \in States(automaton)
      /\ automaton'.nb_bits = automaton.nb_bits /\ automaton'.root = automaton.root
      /\ automaton'.initial_state = automaton.initial_state
      /\ automaton'.finalstates = automaton.finalstates \union {state2bin(s)}
      /\ automaton'.nb_states = automaton.nb_states
  BY SetFinalStateEffect
<1>2. \A t \in States(automaton) : state2bin(t) = state2bin(s) <=> t = s
  BY <1>1, AllocatedStates, DigitsInjective DEF IInv
<1>3. final_states(automaton)' = final_states(automaton) \union {s}
  <2>1. States(automaton)' = States(automaton)
    BY <1>1 DEF States
  <2>2. QED
    BY <1>1, <1>2, <2>1 DEF final_states, is_final
<1>4. transitions(automaton)' = transitions(automaton)
  BY <1>1 DEF transitions, get_successor, successor_digits, States
<1>5. QED
  BY <1>1, <1>3, <1>4 DEF Contract!SetFinalState

LEMMA AddTransitionImplements ==
  ASSUME IInv, NEW from \in Named, NEW to \in Named, NEW symbol \in Symbols,
         Fresh(from, symbol), AddTransition(from, symbol, to)
  PROVE  /\ from \in States(automaton) /\ to \in States(automaton)
         /\ guard(symbol) \in SUBSET Interpretation
         /\ Contract!AddTransition(from, guard(symbol), to)
<1>1. /\ from \in States(automaton) /\ to \in States(automaton)
      /\ automaton'.nb_states = automaton.nb_states
      /\ automaton'.initial_state = automaton.initial_state
      /\ automaton'.finalstates = automaton.finalstates
      /\ \A n \in Index, x \in Interpretation :
           Succ(n, x)' = IF n = from /\ x \in guard(symbol) THEN state2bin(to)
                                                           ELSE Succ(n, x)
  BY AddTransitionEffect
<1>2. States(automaton) \subseteq Index /\ States(automaton') = States(automaton)
  BY <1>1, AllocatedStates DEF IInv, States
<1>3. final_states(automaton)' = final_states(automaton)
  BY <1>1, <1>2 DEF final_states, is_final
<1>4. bin2state(state2bin(to)) = to
  BY <1>1, <1>2, BinaryFacts
<1>5. transitions(automaton)' =
        [s \in States(automaton) |-> [x \in Interpretation |-> bin2state(Succ(s, x)')]]
  BY <1>2 DEF transitions, get_successor, Succ
<1>6. ASSUME NEW s \in States(automaton), NEW x \in Interpretation
      PROVE  bin2state(Succ(s, x)') = IF s = from /\ x \in guard(symbol) THEN to
                                                 ELSE transitions(automaton)[s][x]
  <2>1. transitions(automaton)[s][x] = bin2state(Succ(s, x))
    BY TransitionsAre
  <2>2. s \in Index
    BY <1>2
  <2>3. QED
    BY <1>1, <1>4, <2>1, <2>2
<1>7. transitions(automaton)' =
        [transitions(automaton) EXCEPT ![from] =
           [x \in Interpretation |-> IF x \in guard(symbol) THEN to
                                     ELSE transitions(automaton)[from][x]]]
  <2> DEFINE d == transitions(automaton)
             e == [d EXCEPT ![from] = [x \in Interpretation |->
                     IF x \in guard(symbol) THEN to ELSE d[from][x]]]
  <2>1. /\ DOMAIN d = States(automaton)
        /\ \A s \in States(automaton) : d[s] = [x \in Interpretation |-> d[s][x]]
    BY TransitionsAre
  <2> HIDE DEF d
  <2>2. DOMAIN e = States(automaton)
    BY <2>1
  <2>3. ASSUME NEW s \in States(automaton)
        PROVE  e[s] = [x \in Interpretation |->
                         IF s = from /\ x \in guard(symbol) THEN to ELSE d[s][x]]
    <3>1. CASE s = from
      BY <1>1, <2>1, <3>1
    <3>2. CASE s # from
      BY <2>1, <3>2
    <3>3. QED
      BY <3>1, <3>2
  <2>4. e = [s \in States(automaton) |-> [x \in Interpretation |->
               IF s = from /\ x \in guard(symbol) THEN to ELSE d[s][x]]]
    <3>1. e = [s \in States(automaton) |-> e[s]]
      BY <2>1
    <3> HIDE DEF e
    <3>2. QED
      BY <2>3, <3>1
  <2>5. QED
    BY <1>5, <1>6, <2>4 DEF d
<1>8. QED
  BY <1>1, <1>3, <1>7, GuardType DEF Contract!AddTransition

LEMMA StepImplements ==
  IInv /\ [DisciplinedNext]_vars => [Contract!Next]_Contract!vars
<1> SUFFICES ASSUME IInv, [DisciplinedNext]_vars
             PROVE  [Contract!Next]_Contract!vars
  OBVIOUS
<1> DEFINE S == States(automaton)
<1>1. CASE AddState
  BY <1>1, AddStateImplements DEF Contract!Next
<1>2. ASSUME NEW s \in Named, SetInitialState(s)
      PROVE  Contract!Next
  BY <1>2, SetInitialStateImplements DEF Contract!Next, Contract!State, States
<1>3. ASSUME NEW s \in Named, SetFinalState(s, TRUE)
      PROVE  Contract!Next
  BY <1>3, SetFinalStateImplements DEF Contract!Next, Contract!State, States
<1>4. ASSUME NEW from \in Named, NEW to \in Named, NEW symbol \in Symbols,
             Fresh(from, symbol), AddTransition(from, symbol, to)
      PROVE  Contract!Next
  BY <1>4, AddTransitionImplements DEF Contract!Next, Contract!State, States
<1>5. CASE Throw \/ UNCHANGED vars
  <2>1. automaton' = automaton
    BY <1>5 DEF Throw, vars
  <2>2. QED
    BY <2>1 DEF Contract!vars
<1>6. QED
  BY <1>1, <1>2, <1>3, <1>4, <1>5 DEF DisciplinedNext

(* Every call of a disciplined caller changes the successors and the final  *)
(* states it names, and no others, although transitions are only ever OR-ed *)
(* into shared BDDs (dfa.cpp 336-369).                                      *)
THEOREM Refinement == DisciplinedSpec => ImplementsContract
<1>1. Init => Contract!Init
  BY InitImplements
<1>2. IInv /\ [DisciplinedNext]_vars => [Contract!Next]_Contract!vars
  BY StepImplements
<1>3. QED
  BY <1>1, <1>2, Invariance, PTL
  DEF DisciplinedSpec, ImplementsContract, Contract!Spec
==============================================================================
