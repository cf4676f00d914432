------------------------- MODULE DeterminizationProofs -------------------------
(***************************************************************************)
(* Proofs about Determinization, for every NFA, both strategies and every   *)
(* budget of bits.                                                          *)
(***************************************************************************)
EXTENDS Determinization, SymbolicDfaProofs

-----------------------------------------------------------------------------
LEMMA WithFinalFields ==
  ASSUME NEW a \in Automata, NEW S, NEW k \in Index
  PROVE  /\ WithFinal(a, S, k) \in Automata
         /\ WithFinal(a, S, k) =
              [a EXCEPT !.finalstates =
                 a.finalstates \union (IF dfa_is_final(S) THEN {state2bin(k)} ELSE {})]
<1>1. state2bin(k) \in Digits
  BY DigitsType
<1>2. [a EXCEPT !.finalstates = a.finalstates] = a
  BY DEF Automata
<1>3. QED
  BY <1>1, <1>2 DEF WithFinal, set_final_state, Automata

-----------------------------------------------------------------------------
(* The transitions of a set of NFA states.                                  *)

LEMMA SingletonGuard ==
  \A x \in Interpretation : guard(symbol_of(x, FALSE)) = {x}
  BY DEF guard, symbol_of, Interpretation

LEMMA NextStateType ==
  ASSUME nfa \in Nfas, NEW S \in DfaState, NEW x \in Interpretation
  PROVE  next_state(S, x) \in DfaState
  BY DEF Nfas, DfaState, next_state

(* The guards of the transitions are nonempty and disjoint, lead where      *)
(* next_state says, and cover every interpretation, unless there is no      *)
(* transition at all.                                                       *)
LEMMA TransitionsPartition ==
  ASSUME nfa \in Nfas, strategy \in {"naive", "bdd"}, NEW S \in DfaState
  PROVE  /\ next_transitions(S) \subseteq (SUBSET Interpretation) \X DfaState
         /\ \A t \in next_transitions(S) :
              t[1] # {} /\ \A x \in t[1] : t[2] = next_state(S, x)
         /\ \A t, u \in next_transitions(S) : t # u => t[1] \intersect u[1] = {}
         /\ ~ NoSuccessor(S) =>
              \A x \in Interpretation : \E t \in next_transitions(S) : x \in t[1]
         /\ NoSuccessor(S) => next_transitions(S) = {}
<1>1. CASE strategy = "naive"
  <2>1. next_transitions(S) = {<<{x}, next_state(S, x)>> : x \in Interpretation}
    BY <1>1, SingletonGuard DEF next_transitions, naive_transitions
  <2>2. ~ NoSuccessor(S)
    BY <1>1 DEF NoSuccessor
  <2>3. \A t \in next_transitions(S) :
          \E x \in Interpretation : t = <<{x}, next_state(S, x)>>
    BY <2>1
  <2>4. ASSUME NEW x \in Interpretation
        PROVE  \E t \in next_transitions(S) : x \in t[1]
    <3>1. <<{x}, next_state(S, x)>> \in next_transitions(S)
      BY <2>1
    <3>2. QED
      BY <3>1
  <2>5. next_transitions(S) \subseteq (SUBSET Interpretation) \X DfaState
    BY <2>3, NextStateType
  <2>6. \A t \in next_transitions(S) :
          t[1] # {} /\ \A x \in t[1] : t[2] = next_state(S, x)
    BY <2>3
  <2>7. \A t, u \in next_transitions(S) : t # u => t[1] \intersect u[1] = {}
    BY <2>3
  <2>8. QED
    BY <2>2, <2>4, <2>5, <2>6, <2>7
<1>2. CASE strategy = "bdd" /\ \A x \in Interpretation : next_state(S, x) = {}
  <2>1. next_transitions(S) = {} /\ NoSuccessor(S)
    BY <1>2 DEF next_transitions, bdd_transitions, NoSuccessor
  <2>2. QED
    BY <2>1
<1>3. CASE strategy = "bdd" /\ ~ \A x \in Interpretation : next_state(S, x) = {}
  <2>1. /\ next_transitions(S) =
             {<<Label(S, next_state(S, x)), next_state(S, x)>> : x \in Interpretation}
        /\ ~ NoSuccessor(S)
    BY <1>3 DEF next_transitions, bdd_transitions, NoSuccessor
  <2>2. \A t \in next_transitions(S) : \E x \in Interpretation :
          t = <<Label(S, next_state(S, x)), next_state(S, x)>>
    BY <2>1
  <2>3. \A T : \A x \in Label(S, T) : x \in Interpretation /\ next_state(S, x) = T
    BY DEF Label
  <2>4. \A x \in Interpretation : x \in Label(S, next_state(S, x))
    BY DEF Label
  <2>5. next_transitions(S) \subseteq (SUBSET Interpretation) \X DfaState
    BY <2>2, <2>3, NextStateType
  <2>6. \A t \in next_transitions(S) :
          t[1] # {} /\ \A x \in t[1] : t[2] = next_state(S, x)
    BY <2>2, <2>3, <2>4
  <2>7. \A t, u \in next_transitions(S) : t # u => t[1] \intersect u[1] = {}
    BY <2>2, <2>3
  <2>8. ASSUME NEW x \in Interpretation
        PROVE  \E t \in next_transitions(S) : x \in t[1]
    <3>1. <<Label(S, next_state(S, x)), next_state(S, x)>> \in next_transitions(S)
      BY <2>1
    <3>2. QED
      BY <2>4, <3>1
  <2>9. QED
    BY <2>1, <2>5, <2>6, <2>7, <2>8
<1>4. QED
  BY <1>1, <1>2, <1>3

-----------------------------------------------------------------------------
(* The inductive invariant.  Simulation speaks of the successors a caller   *)
(* sees; what the steps preserve is about the digits in the BDDs, also for  *)
(* the digits of states that are not allocated yet, which must be blank     *)
(* when add_state hands them out.                                           *)

Blank ==
  \A digits \in Digits : (\A k \in Allocated : digits # state2bin(k)) =>
    /\ digits \notin automaton.finalstates
    /\ \A x \in Interpretation : successor_digits(automaton, digits, x) = {}

Phase ==
  IF Started THEN pc # "start"
  ELSE /\ automaton.nb_states = 1
       /\ discovered = [S \in {} |-> 0]
       /\ to_be_visited = << >>
       /\ current = <<InitialState, 0>>
       /\ pending = {}
       /\ pc \in {"start", "failed"}

Agrees(k, S, x) ==
  successor_digits(automaton, state2bin(k), x) =
    IF Processed(k, x) /\ ~ NoSuccessor(S)
      THEN state2bin(discovered[next_state(S, x)]) ELSE {}

DigitsAgree ==
  \A k \in Allocated, S \in DfaState, x \in Interpretation : StandsFor(k, S) =>
    /\ Processed(k, x) /\ ~ NoSuccessor(S) => next_state(S, x) \in DOMAIN discovered
    /\ Agrees(k, S, x)

FinalDigitsAgree ==
  \A k \in Allocated, S \in DfaState :
    StandsFor(k, S) => (state2bin(k) \in automaton.finalstates <=> dfa_is_final(S))

PendingAreTransitions ==
  /\ pending \subseteq next_transitions(current[1])
  /\ pending # {} => current[2] > 0

DiscoveredIsReached ==
  \A S \in DOMAIN discovered :
    \E k \in Allocated, T \in DfaState, x \in Interpretation :
      StandsFor(k, T) /\ Processed(k, x) /\ next_state(T, x) = S

Built ==
  /\ IndexesAreNames
  /\ QueueIsLatest
  /\ DigitsAgree
  /\ FinalDigitsAgree
  /\ PendingAreTransitions
  /\ DiscoveredIsReached

IInv ==
  /\ Types
  /\ Fits
  /\ Blank
  /\ Phase
  /\ Started => Built

-----------------------------------------------------------------------------
(* Facts that every step uses.                                              *)

LEMMA TypeFacts ==
  ASSUME Types
  PROVE  /\ automaton.nb_states \in Index
         /\ automaton.nb_states \in Nat
         /\ automaton.nb_bits \in 0 .. MaxBits
         /\ automaton.finalstates \subseteq Digits
         /\ current[1] \in DfaState /\ current[2] \in Index /\ current[2] \in Nat
         /\ Allocated \subseteq Index
         /\ \A k \in Index : k \in Nat
<1>1. automaton.nb_states \in Index /\ automaton.nb_bits \in 0 .. MaxBits
  BY DEF Types, Automata
<1>2. automaton.finalstates \subseteq Digits
  BY DEF Types, Automata
<1>3. current[1] \in DfaState /\ current[2] \in Index
  BY DEF Types
<1>4. QED
  BY <1>1, <1>2, <1>3, BinaryFacts DEF Index, Allocated

(* An index stands for one set.                                             *)
LEMMA StandsForOne ==
  ASSUME IndexesAreNames, NEW k \in Allocated, NEW S, NEW T,
         StandsFor(k, S), StandsFor(k, T)
  PROVE  S = T
  BY DEF IndexesAreNames, StandsFor

LEMMA InitInvariant == Init => IInv
<1> SUFFICES ASSUME Init PROVE IInv
  OBVIOUS
<1>1. PICK bits \in BitBudgets : automaton = new_dfa(bits)
  BY DEF Init
<1>2. bits \in 0 .. MaxBits
  BY InputAssumption
<1>3. /\ automaton.nb_bits = bits /\ automaton.nb_states = 1
      /\ automaton.initial_state = 0 /\ automaton.finalstates = {}
      /\ automaton.root = [i \in 0 .. MaxBits - 1 |-> {}]
  BY <1>1 DEF new_dfa
<1>4. automaton \in Automata
  BY <1>1, <1>2, NoDigits DEF new_dfa, Automata
<1>5. ~ Started /\ Allocated = {} /\ States(automaton) = {0}
  BY <1>3 DEF Started, Allocated, States
<1>6. Types
  <2>1. InitialState \in DfaState
    BY InputAssumption DEF InitialState, DfaState
  <2>2. \E D \in SUBSET DfaState : discovered \in [D -> Index]
    <3>1. discovered \in [{} -> Index]
      BY DEF Init
    <3>2. QED
      BY <3>1
  <2>3. /\ strategy \in {"naive", "bdd"} /\ nfa \in Nfas /\ pc = "start"
        /\ to_be_visited = << >> /\ current = <<InitialState, 0>> /\ pending = {}
    BY DEF Init
  <2>4. QED
    BY <1>4, <2>1, <2>2, <2>3, NoDigits DEF Types
<1>7. Fits
  BY <1>5, NoDigits DEF Fits
<1>8. Blank
  <2>1. \A i \in 0 .. bits - 1 : automaton.root[i] = {}
    BY <1>2, <1>3, SizesAssumption
  <2>2. \A digits, x : successor_digits(automaton, digits, x) = {}
    BY <1>3, <2>1 DEF successor_digits
  <2>3. QED
    BY <1>3, <2>2 DEF Blank
<1>9. Phase
  BY <1>3, <1>5 DEF Phase, Init
<1>10. QED
  BY <1>5, <1>6, <1>7, <1>8, <1>9 DEF IInv

(* The initial state gets index 1.                                          *)
LEMMA StartInvariant == IInv /\ Start => IInv'
<1> SUFFICES ASSUME IInv, Start PROVE IInv'
  OBVIOUS
<1> USE DEF IInv
<1> DEFINE a == set_initial_state(add_state(automaton), 1)
<1>1. /\ ~ Started /\ automaton.nb_states = 1 /\ discovered = [S \in {} |-> 0]
      /\ current = <<InitialState, 0>> /\ pending = {}
  BY DEF Phase, Start
<1>2. automaton \in Automata /\ InitialState \in DfaState
  BY InputAssumption DEF Types, InitialState, DfaState
<1>3. a \in Automata /\ a = [automaton EXCEPT !.nb_states = 2, !.initial_state = 1]
  <2>1. /\ add_state(automaton) \in Automata
        /\ add_state(automaton) = [automaton EXCEPT !.nb_states = 2]
    BY <1>1, <1>2, AddStateType DEF Start
  <2>2. QED
    BY <2>1, NoDigits DEF set_initial_state, Automata
<1>4. /\ automaton' \in Automata
      /\ automaton'.nb_bits = automaton.nb_bits
      /\ automaton'.nb_states = 2
      /\ automaton'.root = automaton.root
      /\ automaton'.finalstates = automaton.finalstates \union
           (IF dfa_is_final(InitialState) THEN {state2bin(1)} ELSE {})
  <2>1. automaton' = WithFinal(a, InitialState, 1)
    BY DEF Start
  <2>2. /\ automaton' \in Automata
        /\ automaton' = [a EXCEPT !.finalstates = a.finalstates \union
             (IF dfa_is_final(InitialState) THEN {state2bin(1)} ELSE {})]
    BY <1>3, <2>1, WithFinalFields, NoDigits
  <2>3. QED
    BY <1>2, <1>3, <2>2 DEF Automata
<1>5. Started' /\ Allocated' = {1} /\ States(automaton)' = {0, 1}
  BY <1>4 DEF Started, Allocated, States
<1>6. state2bin(1) \subseteq 0 .. automaton.nb_bits - 1
  BY <1>1, <1>2, AddedIndexFits DEF Start
<1>7. \A digits \in Digits :
        /\ digits \notin automaton.finalstates
        /\ \A x \in Interpretation : successor_digits(automaton, digits, x) = {}
  <2>1. Allocated = {}
    BY <1>1 DEF Allocated
  <2>2. QED
    BY <2>1 DEF Blank
<1>8. \A digits, x : successor_digits(automaton', digits, x) =
                      successor_digits(automaton, digits, x)
  BY <1>4 DEF successor_digits
<1>9. Types'
  <2>1. <<InitialState, 1>> \in DfaState \X Index
    BY <1>2, NoDigits
  <2>2. to_be_visited' \in Seq(DfaState \X Index)
    BY <2>1 DEF Start
  <2>3. QED
    BY <1>4, <2>2 DEF Types, Start, Nfas
<1>10. Fits'
  BY <1>4, <1>5, <1>6, NoDigits DEF Fits
<1>11. Blank'
  BY <1>4, <1>5, <1>7, <1>8 DEF Blank
<1>12. Phase'
  BY <1>5 DEF Phase, Start
<1>13. \A k, S : k = 1 => (StandsFor(k, S)' <=> S = InitialState)
  BY <1>1 DEF StandsFor, Start
<1>14. \A x : ~ Processed(1, x)'
  BY <1>1 DEF Processed, Start
<1>15. IndexesAreNames'
  BY <1>1, <1>2, <1>5, <1>13 DEF IndexesAreNames, Start
<1>16. QueueIsLatest'
  BY <1>1, <1>4, <1>13 DEF QueueIsLatest, Start
<1>17. DigitsAgree'
  BY <1>5, <1>7, <1>8, <1>14, DigitsType, NoDigits DEF DigitsAgree, Agrees
<1>18. FinalDigitsAgree'
  <2>1. dfa_is_final(InitialState)' <=> dfa_is_final(InitialState)
    BY DEF dfa_is_final, Start
  <2>2. state2bin(1) \notin automaton.finalstates
    BY <1>7, DigitsType, NoDigits
  <2>3. QED
    BY <1>4, <1>5, <1>13, <2>1, <2>2 DEF FinalDigitsAgree
<1>19. PendingAreTransitions' /\ DiscoveredIsReached'
  BY <1>1 DEF PendingAreTransitions, DiscoveredIsReached, Start
<1>20. QED
  BY <1>9, <1>10, <1>11, <1>12, <1>15, <1>16, <1>17, <1>18, <1>19 DEF Built

-----------------------------------------------------------------------------
(* The pair at the head of the queue is visited.                            *)
LEMMA VisitInvariant == IInv /\ Visit => IInv'
<1> SUFFICES ASSUME IInv, Visit PROVE IInv'
  OBVIOUS
<1> USE DEF IInv
<1>1. Started /\ Built
  BY DEF Phase, Visit
<1>2. UNCHANGED <<strategy, nfa, automaton, discovered, pc>>
  BY DEF Visit
<1> DEFINE S == Head(to_be_visited)[1]
           c == Head(to_be_visited)[2]
<1>3. to_be_visited \in Seq(DfaState \X Index) /\ Len(to_be_visited) > 0
  BY DEF Types, Visit
<1>4. /\ Head(to_be_visited) \in DfaState \X Index
      /\ Head(to_be_visited) = to_be_visited[1] /\ 1 \in DOMAIN to_be_visited
      /\ to_be_visited' \in Seq(DfaState \X Index)
      /\ Len(to_be_visited') = Len(to_be_visited) - 1
      /\ \A i \in DOMAIN to_be_visited' :
           i \in Nat /\ i + 1 \in DOMAIN to_be_visited
             /\ to_be_visited'[i] = to_be_visited[i + 1]
  BY <1>3 DEF Visit
<1>5. c = current[2] + 1 /\ StandsFor(c, S) /\ S \in DfaState
  BY <1>1, <1>4 DEF Built, QueueIsLatest
<1>6. current' = Head(to_be_visited) /\ current'[1] = S /\ current'[2] = c
  BY DEF Visit
<1>7. c \in Allocated
  BY <1>1, <1>3, <1>5, TypeFacts DEF Built, QueueIsLatest, Allocated
<1>8. pending' = next_transitions(S) /\ pending = {}
  BY DEF Visit
<1>9. nfa \in Nfas /\ strategy \in {"naive", "bdd"}
  BY DEF Types
<1> HIDE DEF S, c
<1>10. pending' \subseteq (SUBSET Interpretation) \X DfaState
  BY <1>5, <1>8, <1>9, TransitionsPartition
<1>11. Types'
  BY <1>2, <1>4, <1>6, <1>10 DEF Types, Nfas
<1>12. Fits' /\ Blank' /\ Phase'
  <2>1. Allocated' = Allocated /\ States(automaton)' = States(automaton)
        /\ Started' = Started
    BY <1>2 DEF Allocated, States, Started
  <2>2. QED
    BY <1>1, <1>2, <2>1 DEF Fits, Blank, Phase
<1>13. \A k, T : StandsFor(k, T)' = StandsFor(k, T)
  BY <1>2 DEF StandsFor
<1>14. Allocated' = Allocated /\ \A T : NoSuccessor(T)' = NoSuccessor(T)
  BY <1>2 DEF Allocated, NoSuccessor, next_state
<1>15. IndexesAreNames'
  BY <1>1, <1>2, <1>13, <1>14 DEF Built, IndexesAreNames
<1>16. QueueIsLatest'
  <2>1. c + Len(to_be_visited') = automaton'.nb_states - 1
    BY <1>1, <1>2, <1>3, <1>4, <1>5, TypeFacts DEF Built, QueueIsLatest
  <2>2. ASSUME NEW i \in DOMAIN to_be_visited'
        PROVE  /\ to_be_visited'[i][2] = c + i
               /\ StandsFor(to_be_visited'[i][2], to_be_visited'[i][1])
    <3>1. i + 1 \in DOMAIN to_be_visited /\ to_be_visited'[i] = to_be_visited[i + 1]
      BY <1>4
    <3>2. /\ to_be_visited[i + 1][2] = current[2] + (i + 1)
          /\ StandsFor(to_be_visited[i + 1][2], to_be_visited[i + 1][1])
      BY <1>1, <3>1 DEF Built, QueueIsLatest
    <3>3. i \in Nat /\ current[2] \in Nat
      BY <1>4, TypeFacts
    <3>4. QED
      BY <1>5, <3>1, <3>2, <3>3
  <2>3. QED
    BY <1>5, <1>6, <1>13, <2>1, <2>2 DEF QueueIsLatest
<1>17. ASSUME NEW k \in Allocated, NEW x \in Interpretation
       PROVE  Processed(k, x)' <=>
                \/ Processed(k, x)
                \/ k = c /\ \A t \in next_transitions(S) : x \notin t[1]
  BY <1>5, <1>6, <1>8, TypeFacts DEF Processed
<1>18. ASSUME NEW x \in Interpretation
       PROVE  ~ Processed(c, x)
  BY <1>5, TypeFacts DEF Processed
<1>19. ASSUME NEW k \in Allocated, NEW T \in DfaState, NEW x \in Interpretation,
              StandsFor(k, T)
       PROVE  Processed(k, x)' /\ ~ NoSuccessor(T) <=> Processed(k, x) /\ ~ NoSuccessor(T)
  <2>1. CASE k = c
    <3>1. T = S
      BY <1>1, <1>5, <1>19, <2>1, StandsForOne DEF Built
    <3>2. ~ NoSuccessor(T) => ~ Processed(k, x)'
      BY <1>5, <1>9, <1>17, <1>18, <2>1, <3>1, TransitionsPartition
    <3>3. QED
      BY <1>18, <2>1, <3>2
  <2>2. CASE k # c
    BY <1>17, <2>2
  <2>3. QED
    BY <2>1, <2>2
<1>20. DigitsAgree'
  <2>1. \A T, x : next_state(T, x)' = next_state(T, x)
    BY <1>2 DEF next_state
  <2>2. ASSUME NEW k \in Allocated, NEW T \in DfaState, NEW x \in Interpretation,
               StandsFor(k, T)
        PROVE  /\ Processed(k, x)' /\ ~ NoSuccessor(T) => next_state(T, x) \in DOMAIN discovered
               /\ Agrees(k, T, x)'
    BY <1>1, <1>2, <1>14, <1>19, <2>1, <2>2 DEF Built, DigitsAgree, Agrees
  <2>3. QED
    BY <1>2, <1>13, <1>14, <2>1, <2>2 DEF DigitsAgree
<1>21. FinalDigitsAgree'
  <2>1. \A T : dfa_is_final(T)' = dfa_is_final(T)
    BY <1>2 DEF dfa_is_final
  <2>2. QED
    BY <1>1, <1>2, <1>13, <1>14, <2>1 DEF Built, FinalDigitsAgree
<1>22. PendingAreTransitions'
  <2>1. \A T : next_transitions(T)' = next_transitions(T)
    BY <1>2 DEF next_transitions, naive_transitions, bdd_transitions, next_state, Label
  <2>2. QED
    BY <1>5, <1>6, <1>8, <2>1, TypeFacts DEF PendingAreTransitions
<1>23. DiscoveredIsReached'
  <2>1. \A T, x : next_state(T, x)' = next_state(T, x)
    BY <1>2 DEF next_state
  <2>2. ASSUME NEW T \in DOMAIN discovered
        PROVE  \E k \in Allocated, U \in DfaState, x \in Interpretation :
                 StandsFor(k, U) /\ Processed(k, x)' /\ next_state(U, x) = T
    BY <1>1, <1>17 DEF Built, DiscoveredIsReached
  <2>3. QED
    BY <1>2, <1>13, <1>14, <2>1, <2>2 DEF DiscoveredIsReached
<1>24. QED
  BY <1>11, <1>12, <1>15, <1>16, <1>20, <1>21, <1>22, <1>23 DEF Built

-----------------------------------------------------------------------------
(* Adding one pending transition t to index k, which the set t[2] has or    *)
(* gets: what the two branches of the loop body share.                      *)
TransitionAdded(t, k) ==
  /\ UNCHANGED <<strategy, nfa, current>>
  /\ pending' = pending \ {t}
  /\ automaton'.nb_states >= automaton.nb_states
  /\ automaton'.nb_states \in Index
  /\ \A digits \in Digits, x \in Interpretation :
       successor_digits(automaton', digits, x) =
         successor_digits(automaton, digits, x) \union
           (IF digits = state2bin(current[2]) /\ x \in t[1] THEN state2bin(k) ELSE {})
  /\ \A S \in DOMAIN discovered : S \in DOMAIN discovered' /\ discovered'[S] = discovered[S]
  /\ t[2] \in DOMAIN discovered' /\ discovered'[t[2]] = k
  /\ \A S \in DOMAIN discovered' : S \in DOMAIN discovered \/ S = t[2]
  /\ t[2] \in DOMAIN discovered \/ k = automaton.nb_states

(* Where the transition comes from.                                         *)
LEMMA PendingFacts ==
  ASSUME IInv, NEW t \in pending
  PROVE  /\ Started /\ Built
         /\ current[2] \in Allocated /\ StandsFor(current[2], current[1])
         /\ ~ NoSuccessor(current[1])
         /\ t[1] \in SUBSET Interpretation /\ t[1] # {} /\ t[2] \in DfaState
         /\ \A x \in t[1] : t[2] = next_state(current[1], x)
         /\ \A x \in t[1], u \in pending : x \in u[1] => u = t
<1> USE DEF IInv
<1>1. Started /\ Built
  BY DEF Phase
<1>2. t \in next_transitions(current[1]) /\ pending \subseteq next_transitions(current[1])
      /\ current[2] > 0
  BY <1>1 DEF Built, PendingAreTransitions
<1>3. current[1] \in DfaState /\ nfa \in Nfas /\ strategy \in {"naive", "bdd"}
  BY TypeFacts DEF Types
<1>4. current[2] \in Allocated /\ StandsFor(current[2], current[1])
  <2>1. Len(to_be_visited) \in Nat
    BY DEF Types
  <2>2. QED
    BY <1>1, <1>2, <2>1, TypeFacts DEF Built, QueueIsLatest, Allocated
<1>5. QED
  BY <1>1, <1>2, <1>3, <1>4, TransitionsPartition

LEMMA TransitionProcesses ==
  ASSUME IInv, NEW t \in pending, NEW k \in Index, TransitionAdded(t, k),
         NEW j \in Index, NEW x \in Interpretation
  PROVE  /\ Processed(j, x)' <=> Processed(j, x) \/ (j = current[2] /\ x \in t[1])
         /\ j = current[2] /\ x \in t[1] => ~ Processed(j, x)
<1>1. \A y \in t[1], u \in pending : y \in u[1] => u = t
  BY PendingFacts
<1>2. ~ (j < current[2]) \/ j # current[2]
  BY TypeFacts DEF IInv
<1>3. QED
  BY <1>1, <1>2 DEF Processed, TransitionAdded

LEMMA TransitionPreserves ==
  ASSUME IInv, NEW t \in pending, NEW k \in Index, TransitionAdded(t, k)
  PROVE  DigitsAgree' /\ DiscoveredIsReached' /\ PendingAreTransitions'
<1> USE DEF IInv
<1>1. /\ Started /\ Built
      /\ current[2] \in Allocated /\ StandsFor(current[2], current[1])
      /\ ~ NoSuccessor(current[1])
      /\ t[1] \in SUBSET Interpretation /\ t[1] # {} /\ t[2] \in DfaState
      /\ \A x \in t[1] : t[2] = next_state(current[1], x)
  BY PendingFacts
<1>2. Allocated \subseteq Allocated' /\ Allocated \subseteq Index
      /\ \A j : j \in Allocated <=> j \in Nat /\ 1 <= j /\ j < automaton.nb_states
  <2>1. automaton.nb_states \in Nat /\ Allocated \subseteq Index
    BY TypeFacts
  <2>2. automaton'.nb_states \in Nat /\ automaton'.nb_states >= automaton.nb_states
    BY BinaryFacts DEF TransitionAdded, Index
  <2>3. QED
    BY <2>1, <2>2 DEF Allocated
<1>3. /\ \A T, x : next_state(T, x)' = next_state(T, x)
      /\ \A T : NoSuccessor(T)' = NoSuccessor(T)
      /\ \A T : next_transitions(T)' = next_transitions(T)
  BY DEF TransitionAdded, next_transitions, naive_transitions, bdd_transitions, next_state,
         Label, NoSuccessor
<1>4. ASSUME NEW j \in Allocated, NEW S, StandsFor(j, S)
      PROVE  StandsFor(j, S)'
  BY <1>4 DEF StandsFor, TransitionAdded
<1>5. ASSUME NEW j \in Allocated', NEW S, StandsFor(j, S)', ~ StandsFor(j, S)
      PROVE  j = automaton.nb_states /\ S = t[2]
  BY <1>5 DEF StandsFor, TransitionAdded
<1>6. \A j \in Index, x \in Interpretation :
        /\ Processed(j, x)' <=> Processed(j, x) \/ (j = current[2] /\ x \in t[1])
        /\ j = current[2] /\ x \in t[1] => ~ Processed(j, x)
  BY TransitionProcesses
<1>7. Allocated' \subseteq Index
  BY BinaryFacts DEF TransitionAdded, Allocated, Index
<1>8. DigitsAgree'
  <2> SUFFICES ASSUME NEW j \in Allocated', NEW S \in DfaState, NEW x \in Interpretation,
                      StandsFor(j, S)'
               PROVE  /\ Processed(j, x)' /\ ~ NoSuccessor(S) =>
                            next_state(S, x) \in DOMAIN discovered'
                      /\ successor_digits(automaton', state2bin(j), x) =
                           IF Processed(j, x)' /\ ~ NoSuccessor(S)
                             THEN state2bin(discovered'[next_state(S, x)]) ELSE {}
    BY <1>3 DEF DigitsAgree, Agrees
  <2>1. j \in Index /\ state2bin(j) \in Digits /\ current[2] \in Index
    BY <1>7, DigitsType, TypeFacts
  <2>2. successor_digits(automaton', state2bin(j), x) =
          successor_digits(automaton, state2bin(j), x) \union
            (IF j = current[2] /\ x \in t[1] THEN state2bin(k) ELSE {})
    BY <2>1, DigitsInjective DEF TransitionAdded
  <2>3. CASE ~ StandsFor(j, S)
    <3>1. j = automaton.nb_states
      BY <1>5, <2>3
    <3>2. \A i \in Allocated : i \in Index /\ i # j
      BY <1>2, <3>1, TypeFacts
    <3>3. successor_digits(automaton, state2bin(j), x) = {}
      BY <2>1, <3>2, DigitsInjective DEF Blank
    <3>4. ~ Processed(j, x)' /\ j # current[2]
      <4>1. current[2] < j
        BY <1>1, <1>2, <3>1
      <4>2. ~ Processed(j, x)
        BY <2>1, <4>1, TypeFacts DEF Processed
      <4>3. QED
        BY <1>6, <2>1, <4>1, <4>2, TypeFacts
    <3>5. QED
      BY <2>2, <3>3, <3>4
  <2>4. CASE StandsFor(j, S) /\ j \in Allocated
    <3>1. /\ Processed(j, x) /\ ~ NoSuccessor(S) => next_state(S, x) \in DOMAIN discovered
          /\ successor_digits(automaton, state2bin(j), x) =
               IF Processed(j, x) /\ ~ NoSuccessor(S)
                 THEN state2bin(discovered[next_state(S, x)]) ELSE {}
      BY <1>1, <2>4 DEF Built, DigitsAgree, Agrees
    <3>2. CASE j = current[2] /\ x \in t[1]
      <4>1. S = current[1]
        BY <1>1, <2>4, <3>2, StandsForOne DEF Built
      <4>2. Processed(j, x)' /\ ~ Processed(j, x)
        BY <1>6, <2>1, <3>2
      <4>3. next_state(S, x) = t[2]
        BY <1>1, <3>2, <4>1
      <4>4. discovered'[t[2]] = k /\ t[2] \in DOMAIN discovered'
        BY DEF TransitionAdded
      <4>5. QED
        BY <1>1, <2>2, <3>1, <3>2, <4>1, <4>2, <4>3, <4>4
    <3>3. CASE ~ (j = current[2] /\ x \in t[1])
      <4>1. Processed(j, x)' <=> Processed(j, x)
        BY <1>6, <2>1, <3>3
      <4>2. \A T \in DOMAIN discovered :
              T \in DOMAIN discovered' /\ discovered'[T] = discovered[T]
        BY DEF TransitionAdded
      <4>3. QED
        BY <2>2, <3>1, <3>3, <4>1, <4>2
    <3>4. QED
      BY <3>2, <3>3
  <2>5. CASE StandsFor(j, S) /\ j \notin Allocated
    <3>1. \/ j = 1
          \/ S \in DOMAIN discovered /\ discovered[S] = j
      BY <2>5 DEF StandsFor
    <3>2. 1 \in Allocated
      BY <1>1, <1>2, TypeFacts DEF Started
    <3>3. QED
      BY <1>1, <2>5, <3>1, <3>2 DEF Built, IndexesAreNames
  <2>6. QED
    BY <2>3, <2>4, <2>5
<1>9. DiscoveredIsReached'
  <2> SUFFICES ASSUME NEW S \in DOMAIN discovered'
               PROVE  \E j \in Allocated', T \in DfaState, x \in Interpretation :
                        StandsFor(j, T)' /\ Processed(j, x)' /\ next_state(T, x) = S
    BY <1>3 DEF DiscoveredIsReached
  <2>1. CASE S \in DOMAIN discovered
    <3>1. PICK j \in Allocated, T \in DfaState, x \in Interpretation :
            StandsFor(j, T) /\ Processed(j, x) /\ next_state(T, x) = S
      BY <1>1, <2>1 DEF Built, DiscoveredIsReached
    <3>2. j \in Allocated' /\ StandsFor(j, T)' /\ Processed(j, x)'
      BY <1>2, <1>4, <1>6, <3>1
    <3>3. QED
      BY <3>1, <3>2
  <2>2. CASE S = t[2]
    <3>1. PICK x \in Interpretation : x \in t[1]
      BY <1>1
    <3>2. PICK c \in Allocated, C \in DfaState : c = current[2] /\ C = current[1]
      BY <1>1, TypeFacts
    <3>3. c \in Allocated' /\ StandsFor(c, C)'
      BY <1>1, <1>2, <1>4, <3>2
    <3>4. Processed(c, x)' /\ next_state(C, x) = S
      BY <1>1, <1>2, <1>6, <2>2, <3>1, <3>2
    <3>5. QED
      BY <3>3, <3>4
  <2>3. QED
    BY <2>1, <2>2 DEF TransitionAdded
<1>10. PendingAreTransitions'
  BY <1>1, <1>3 DEF Built, PendingAreTransitions, TransitionAdded
<1>11. QED
  BY <1>8, <1>9, <1>10

(* A transition to a set that has an index.                                 *)
LEMMA RevisitInvariant == ASSUME IInv, NEW t \in pending, Revisit(t) PROVE IInv'
<1> USE DEF IInv
<1>1. /\ Started /\ Built
      /\ t[1] \in SUBSET Interpretation /\ t[2] \in DfaState
  BY PendingFacts
<1> DEFINE k == discovered[t[2]]
<1>2. k \in Allocated /\ k \in Index /\ k \in States(automaton) /\ current[2] \in Index
  <2>1. k \in Allocated
    BY <1>1 DEF Built, IndexesAreNames, Revisit
  <2>2. QED
    BY <2>1, TypeFacts DEF Allocated, States
<1>3. state2bin(k) \subseteq 0 .. automaton.nb_bits - 1
  BY <1>2 DEF Fits
<1>4. automaton \in Automata
  BY DEF Types
<1>5. automaton' = add_transition(automaton, current[2], t[1], k)
  BY DEF Revisit
<1> HIDE DEF k
<1>6. /\ automaton' \in Automata
      /\ automaton'.nb_bits = automaton.nb_bits
      /\ automaton'.nb_states = automaton.nb_states
      /\ automaton'.finalstates = automaton.finalstates
  BY <1>1, <1>2, <1>4, <1>5, AddTransitionType
<1>7. \A digits \in Digits, x \in Interpretation :
        successor_digits(automaton', digits, x) =
          successor_digits(automaton, digits, x) \union
            (IF digits = state2bin(current[2]) /\ x \in t[1] THEN state2bin(k) ELSE {})
  BY <1>1, <1>2, <1>3, <1>4, <1>5, AddTransitionDigits
<1>8. UNCHANGED <<strategy, nfa, current, discovered, to_be_visited, pc>>
      /\ pending' = pending \ {t} /\ t[2] \in DOMAIN discovered
  BY DEF Revisit
<1>9. TransitionAdded(t, k)
  <2>1. automaton'.nb_states >= automaton.nb_states /\ automaton'.nb_states \in Index
    BY <1>6, TypeFacts
  <2>2. QED
    BY <1>7, <1>8, <2>1 DEF TransitionAdded, k
<1>10. DigitsAgree' /\ DiscoveredIsReached' /\ PendingAreTransitions'
  BY <1>2, <1>9, TransitionPreserves
<1>11. Types'
  <2>1. pending' \subseteq (SUBSET Interpretation) \X DfaState
    BY <1>8 DEF Types
  <2>2. QED
    BY <1>6, <1>8, <2>1 DEF Types, Nfas
<1>12. Allocated' = Allocated /\ States(automaton)' = States(automaton) /\ Started' = Started
  BY <1>6 DEF Allocated, States, Started
<1>13. Fits' /\ Phase'
  BY <1>1, <1>6, <1>8, <1>12 DEF Fits, Phase
<1>14. Blank'
  <2>1. current[2] \in Allocated
    BY PendingFacts
  <2>2. QED
    BY <1>6, <1>7, <1>12, <2>1 DEF Blank
<1>15. \A j, S : StandsFor(j, S)' = StandsFor(j, S)
  BY <1>8 DEF StandsFor
<1>16. IndexesAreNames' /\ QueueIsLatest'
  BY <1>1, <1>6, <1>8, <1>12, <1>15 DEF Built, IndexesAreNames, QueueIsLatest
<1>17. FinalDigitsAgree'
  <2>1. \A S : dfa_is_final(S)' = dfa_is_final(S)
    BY <1>8 DEF dfa_is_final
  <2>2. QED
    BY <1>1, <1>6, <1>12, <1>15, <2>1 DEF Built, FinalDigitsAgree
<1>18. QED
  BY <1>10, <1>11, <1>13, <1>14, <1>16, <1>17 DEF Built

(* A transition to a set that gets an index.                                *)
LEMMA DiscoverInvariant == ASSUME IInv, NEW t \in pending, Discover(t) PROVE IInv'
<1> USE DEF IInv
<1>1. /\ Started /\ Built
      /\ current[2] \in Allocated /\ StandsFor(current[2], current[1])
      /\ t[1] \in SUBSET Interpretation /\ t[2] \in DfaState
  BY PendingFacts
<1>0. PICK k \in Index : k = automaton.nb_states
  BY TypeFacts
<1> DEFINE a == add_state(automaton)
<1>2. /\ automaton \in Automata /\ ~ add_state_throws(automaton)
      /\ k \in Nat /\ k > 1 /\ current[2] \in Index
  BY <1>0, <1>1, TypeFacts DEF Types, Discover, Started
<1>3. state2bin(k) \subseteq 0 .. automaton.nb_bits - 1 /\ state2bin(k) \in Digits
  BY <1>0, <1>2, AddedIndexFits, DigitsType
<1>4. a \in Automata /\ a = [automaton EXCEPT !.nb_states = k + 1]
  BY <1>0, <1>2, AddStateType
<1>5. PICK b \in Automata :
        /\ b = WithFinal(a, t[2], k)
        /\ b = [a EXCEPT !.finalstates =
                  a.finalstates \union (IF dfa_is_final(t[2]) THEN {state2bin(k)} ELSE {})]
  <2> HIDE DEF a
  <2>1. a \in Automata
    BY <1>4
  <2>2. /\ WithFinal(a, t[2], k) \in Automata
        /\ WithFinal(a, t[2], k) =
            [a EXCEPT !.finalstates =
               a.finalstates \union (IF dfa_is_final(t[2]) THEN {state2bin(k)} ELSE {})]
    BY <2>1, WithFinalFields
  <2>3. QED
    BY <2>2
<1>6. automaton' = add_transition(b, current[2], t[1], k)
  BY <1>0, <1>5 DEF Discover
<1>7. /\ b.nb_bits = automaton.nb_bits /\ b.nb_states = k + 1 /\ b.root = automaton.root
      /\ b.finalstates = automaton.finalstates \union
                           (IF dfa_is_final(t[2]) THEN {state2bin(k)} ELSE {})
  BY <1>2, <1>4, <1>5 DEF Automata
<1>8. \A digits, x : successor_digits(b, digits, x) = successor_digits(automaton, digits, x)
  BY <1>7 DEF successor_digits
<1>9. UNCHANGED <<strategy, nfa, current, pc>> /\ pending' = pending \ {t}
      /\ to_be_visited' = Append(to_be_visited, <<t[2], k>>)
      /\ t[2] \notin DOMAIN discovered
      /\ discovered' = [S \in DOMAIN discovered \union {t[2]} |->
                          IF S = t[2] THEN k ELSE discovered[S]]
  BY <1>0 DEF Discover
<1> HIDE DEF a
<1>10. \A j \in Allocated : j \in Index /\ j \in Nat /\ j < k /\ j >= 1
  BY <1>0, TypeFacts DEF Allocated
<1>11. /\ automaton' \in Automata
       /\ automaton'.nb_bits = automaton.nb_bits
       /\ automaton'.nb_states = k + 1
       /\ automaton'.finalstates = b.finalstates
  <2>1. current[2] \in Index /\ t[1] \in SUBSET Interpretation
    BY <1>1, <1>2
  <2>2. LET c == add_transition(b, current[2], t[1], k)
        IN  /\ c \in Automata /\ c.nb_bits = b.nb_bits
            /\ c.nb_states = b.nb_states /\ c.finalstates = b.finalstates
    BY <2>1, AddTransitionType
  <2>3. QED
    BY <1>6, <1>7, <2>2
<1>12. \A digits \in Digits, x \in Interpretation :
         successor_digits(automaton', digits, x) =
           successor_digits(automaton, digits, x) \union
             (IF digits = state2bin(current[2]) /\ x \in t[1] THEN state2bin(k) ELSE {})
  <2>1. /\ current[2] \in Index /\ t[1] \in SUBSET Interpretation
        /\ state2bin(k) \subseteq 0 .. b.nb_bits - 1
    BY <1>1, <1>2, <1>3, <1>7
  <2>2. ASSUME NEW digits \in Digits, NEW x \in Interpretation
        PROVE  successor_digits(add_transition(b, current[2], t[1], k), digits, x) =
                 successor_digits(b, digits, x) \union
                   (IF digits = state2bin(current[2]) /\ x \in t[1] THEN state2bin(k) ELSE {})
    BY <2>1, AddTransitionDigits
  <2>3. QED
    BY <1>6, <1>8, <2>2
<1>14. automaton'.nb_states \in Index
  BY <1>11 DEF Automata
<1>15. TransitionAdded(t, k)
  <2>1. automaton'.nb_states >= automaton.nb_states
    BY <1>2, <1>11, <1>0
  <2>2. \A S \in DOMAIN discovered : S \in DOMAIN discovered' /\ discovered'[S] = discovered[S]
    BY <1>9
  <2>3. /\ t[2] \in DOMAIN discovered' /\ discovered'[t[2]] = k
        /\ \A S \in DOMAIN discovered' : S \in DOMAIN discovered \/ S = t[2]
    BY <1>9, <1>0
  <2>4. QED
    BY <1>9, <1>12, <1>0, <1>14, <2>1, <2>2, <2>3 DEF TransitionAdded
<1>16. DigitsAgree' /\ DiscoveredIsReached' /\ PendingAreTransitions'
  BY <1>2, <1>0, <1>15, TransitionPreserves
<1>17. /\ Allocated' = Allocated \union {k}
       /\ States(automaton)' = States(automaton) \union {k}
       /\ Started'
  BY <1>2, <1>11, <1>0 DEF Allocated, States, Started
<1>18. Types'
  <2>1. pending' \subseteq (SUBSET Interpretation) \X DfaState
    BY <1>9 DEF Types
  <2>2. \E D \in SUBSET DfaState : discovered' \in [D -> Index]
    <3>1. PICK D \in SUBSET DfaState : discovered \in [D -> Index]
      BY DEF Types
    <3>2. D \union {t[2]} \in SUBSET DfaState /\ discovered' \in [D \union {t[2]} -> Index]
      BY <1>1, <1>2, <1>9, <3>1
    <3>3. QED
      BY <3>2
  <2>3. to_be_visited' \in Seq(DfaState \X Index)
    BY <1>1, <1>2, <1>9 DEF Types
  <2>4. QED
    BY <1>9, <1>11, <2>1, <2>2, <2>3 DEF Types, Nfas
<1>19. Fits' /\ Phase'
  BY <1>1, <1>3, <1>9, <1>11, <1>17 DEF Fits, Phase
<1>20. Blank'
  <2>1. SUFFICES ASSUME NEW digits \in Digits,
                        \A j \in Allocated \union {k} : digits # state2bin(j)
                 PROVE  /\ digits \notin automaton'.finalstates
                        /\ \A x \in Interpretation :
                             successor_digits(automaton', digits, x) = {}
    BY <1>17 DEF Blank
  <2>2. /\ digits \notin automaton.finalstates
        /\ \A x \in Interpretation : successor_digits(automaton, digits, x) = {}
    BY <2>1 DEF Blank
  <2>3. digits # state2bin(current[2]) /\ digits # state2bin(k)
    BY <1>1, <2>1
  <2>4. QED
    BY <1>7, <1>11, <1>12, <2>2, <2>3
<1>21. ASSUME NEW j \in Allocated, NEW S
       PROVE  StandsFor(j, S)' <=> StandsFor(j, S)
  BY <1>9, <1>10 DEF StandsFor
<1>22. ASSUME NEW S
       PROVE  StandsFor(k, S)' <=> S = t[2]
  BY <1>1, <1>2, <1>9, <1>10 DEF StandsFor, Built, IndexesAreNames
<1>23. IndexesAreNames'
  <2>1. ASSUME NEW j \in Allocated \union {k}
        PROVE  \E S \in DfaState : StandsFor(j, S)'
    <3>1. CASE j = k
      BY <1>1, <1>22, <3>1
    <3>2. CASE j \in Allocated
      BY <1>1, <1>21, <3>2 DEF Built, IndexesAreNames
    <3>3. QED
      BY <3>1, <3>2
  <2>2. \A S \in DOMAIN discovered : discovered[S] \in Allocated \ {1}
    BY <1>1 DEF Built, IndexesAreNames
  <2>3. \A S \in DOMAIN discovered' : discovered'[S] \in (Allocated \union {k}) \ {1}
    BY <1>2, <1>9, <2>2
  <2>4. \A S, T \in DOMAIN discovered' : discovered'[S] = discovered'[T] => S = T
    BY <1>1, <1>9, <1>10, <2>2 DEF Built, IndexesAreNames
  <2>5. QED
    BY <1>17, <2>1, <2>3, <2>4 DEF IndexesAreNames
<1>24. QueueIsLatest'
  <2>1. /\ to_be_visited \in Seq(DfaState \X Index) /\ current[2] \in Nat
        /\ <<t[2], k>> \in DfaState \X Index
    BY <1>1, <1>2, TypeFacts DEF Types
  <2>2. /\ Len(to_be_visited') = Len(to_be_visited) + 1
        /\ Len(to_be_visited) \in Nat
        /\ current[2] + Len(to_be_visited) = k - 1
    BY <1>0, <1>1, <1>9, <2>1 DEF Built, QueueIsLatest
  <2>3. ASSUME NEW i \in DOMAIN to_be_visited'
        PROVE  (/\ to_be_visited[i][2] = current[2] + i
                /\ StandsFor(to_be_visited[i][2], to_be_visited[i][1]))'
    <3>1. CASE i \in DOMAIN to_be_visited
      <4>1. to_be_visited'[i] = to_be_visited[i]
        BY <1>9, <2>1, <3>1
      <4>2. /\ to_be_visited[i][2] = current[2] + i
            /\ StandsFor(to_be_visited[i][2], to_be_visited[i][1])
        BY <1>1, <3>1 DEF Built, QueueIsLatest
      <4>3. to_be_visited[i][2] \in Allocated
        BY <1>0, <1>2, <2>1, <2>2, <3>1, <4>2 DEF Allocated
      <4>4. QED
        BY <1>9, <4>1, <4>2 DEF StandsFor
    <3>2. CASE i \notin DOMAIN to_be_visited
      <4>1. i = Len(to_be_visited) + 1 /\ to_be_visited'[i] = <<t[2], k>>
        BY <1>9, <2>1, <2>2, <3>2
      <4>2. QED
        BY <1>2, <1>9, <2>1, <2>2, <4>1 DEF StandsFor
    <3>3. QED
      BY <3>1, <3>2
  <2>4. current[2] > 0 => StandsFor(current[2], current[1])'
    BY <1>1, <1>9 DEF StandsFor
  <2>5. QED
    BY <1>2, <1>9, <1>11, <2>1, <2>2, <2>3, <2>4 DEF QueueIsLatest
<1>25. FinalDigitsAgree'
  <2>1. \A S : dfa_is_final(S)' = dfa_is_final(S)
    BY <1>9 DEF dfa_is_final
  <2>2. ASSUME NEW j \in Allocated
        PROVE  /\ state2bin(j) # state2bin(k)
               /\ state2bin(j) \in automaton'.finalstates <=>
                    state2bin(j) \in automaton.finalstates
    <3>1. state2bin(j) # state2bin(k)
      BY <1>2, <1>10, DigitsInjective
    <3>2. QED
      BY <1>7, <1>11, <3>1
  <2>3. state2bin(k) \notin automaton.finalstates
    <3>1. \A j \in Allocated : state2bin(k) # state2bin(j)
      BY <2>2
    <3>2. QED
      BY <1>3, <3>1 DEF Blank
  <2>4. state2bin(k) \in automaton'.finalstates <=> dfa_is_final(t[2])
    BY <1>7, <1>11, <2>3
  <2>5. ASSUME NEW j \in Allocated', NEW S \in DfaState, StandsFor(j, S)'
        PROVE  state2bin(j) \in automaton'.finalstates <=> dfa_is_final(S)
    <3>1. CASE j = k
      BY <1>22, <2>4, <2>5, <3>1
    <3>2. CASE j \in Allocated
      BY <1>1, <1>21, <2>2, <2>5, <3>2 DEF Built, FinalDigitsAgree
    <3>3. QED
      BY <1>17, <3>1, <3>2
  <2>6. QED
    BY <2>1, <2>5 DEF FinalDigitsAgree
<1>26. QED
  BY <1>16, <1>17, <1>18, <1>19, <1>20, <1>23, <1>24, <1>25 DEF Built

(* The steps that write nothing to the automaton or to the worklist.        *)
LEMMA BuiltUnchanged ==
  ASSUME Built,
         UNCHANGED <<strategy, nfa, automaton, discovered, to_be_visited, current, pending>>
  PROVE  Built'
<1>1. /\ Allocated' = Allocated
      /\ \A k, S : StandsFor(k, S)' = StandsFor(k, S)
      /\ \A k, x : Processed(k, x)' = Processed(k, x)
      /\ \A S, x : next_state(S, x)' = next_state(S, x)
  BY DEF Allocated, StandsFor, Processed, next_state
<1>2. /\ \A S : NoSuccessor(S)' = NoSuccessor(S)
      /\ \A S : dfa_is_final(S)' = dfa_is_final(S)
      /\ \A S : next_transitions(S)' = next_transitions(S)
  BY DEF NoSuccessor, dfa_is_final, next_transitions, naive_transitions, bdd_transitions,
         next_state, Label
<1>3. IndexesAreNames' /\ QueueIsLatest'
  BY <1>1 DEF Built, IndexesAreNames, QueueIsLatest
<1>4. DigitsAgree'
  BY <1>1, <1>2 DEF Built, DigitsAgree, Agrees
<1>5. FinalDigitsAgree' /\ PendingAreTransitions' /\ DiscoveredIsReached'
  BY <1>1, <1>2 DEF Built, FinalDigitsAgree, PendingAreTransitions, DiscoveredIsReached
<1>6. QED
  BY <1>3, <1>4, <1>5 DEF Built

LEMMA EndInvariant ==
  ASSUME IInv, pc # "start" \/ ~ Started, Started \/ pc' = pc \/ pc' = "failed",
         pc' = pc \/ pc' \in {"done", "failed"},
         UNCHANGED <<strategy, nfa, automaton, discovered, to_be_visited, current, pending>>
  PROVE  IInv'
<1>1. Types'
  BY DEF IInv, Types, Nfas
<1>2. Fits' /\ Blank' /\ Phase'
  BY DEF IInv, Fits, Blank, Phase, Started, Allocated, States
<1>3. Started => Built'
  BY BuiltUnchanged DEF IInv
<1>4. QED
  BY <1>1, <1>2, <1>3 DEF IInv, Started

LEMMA OverflowInvariant == IInv /\ Overflow => IInv'
<1> SUFFICES ASSUME IInv, Overflow PROVE IInv'
  OBVIOUS
<1>1. pc # "start" \/ ~ Started
  BY DEF IInv, Phase
<1>2. QED
  BY <1>1, EndInvariant DEF Overflow

LEMMA ReturnInvariant == IInv /\ Return => IInv'
<1> SUFFICES ASSUME IInv, Return PROVE IInv'
  OBVIOUS
<1>1. Started /\ pc # "start"
  BY DEF IInv, Phase, Return
<1>2. QED
  BY <1>1, EndInvariant DEF Return

LEMMA StutterInvariant == IInv /\ UNCHANGED vars => IInv'
<1> SUFFICES ASSUME IInv, UNCHANGED vars PROVE IInv'
  OBVIOUS
<1>1. pc # "start" \/ ~ Started
  BY DEF IInv, Phase
<1>2. QED
  BY <1>1, EndInvariant DEF vars

LEMMA StepInvariant == IInv /\ [Next]_vars => IInv'
<1> SUFFICES ASSUME IInv, [Next]_vars PROVE IInv'
  OBVIOUS
<1>1. CASE Start
  BY <1>1, StartInvariant
<1>2. CASE Visit
  BY <1>2, VisitInvariant
<1>3. ASSUME NEW t \in pending, Discover(t) PROVE IInv'
  BY <1>3, DiscoverInvariant
<1>4. ASSUME NEW t \in pending, Revisit(t) PROVE IInv'
  BY <1>4, RevisitInvariant
<1>5. CASE Overflow
  BY <1>5, OverflowInvariant
<1>6. CASE Return
  BY <1>6, ReturnInvariant
<1>7. CASE UNCHANGED vars
  BY <1>7, StutterInvariant
<1>8. QED
  BY <1>1, <1>2, <1>3, <1>4, <1>5, <1>6, <1>7 DEF Next

(* The invariant is about every state that Spec reaches.                    *)
THEOREM Invariance == Spec => []IInv
  BY InitInvariant, StepInvariant, PTL DEF Spec

-----------------------------------------------------------------------------
(* Every variable of the two loops keeps its type: in particular no index   *)
(* is ever handed out that the bits of the automaton cannot name (dfa.cpp   *)
(* 311-328).                                                                *)
THEOREM TypeCorrect == Spec => []TypeOK
<1>1. IInv => TypeOK
  BY DEF IInv, TypeOK
<1>2. QED
  BY <1>1, Invariance, PTL

(* At every step of to_dfa, of either strategy, the automaton written so    *)
(* far is the subset construction explored so far: every index names one    *)
(* set, the queue holds the indexes not visited yet, the digits in the BDDs *)
(* spell the successor of every pair processed, and the final states are    *)
(* those of the sets they name (naive.cpp 24-91, bdd/base.cpp 30-132).      *)
THEOREM SimulationHolds == Spec => []Simulation
<1>1. ASSUME IInv, Started PROVE Simulation
  <2> USE DEF IInv
  <2>1. Built
    BY <1>1
  <2>2. \A k \in Allocated : k \in Index /\ k # 0
    BY <1>1, TypeFacts DEF Allocated
  <2>3. SuccessorsAgree
    <3> SUFFICES ASSUME NEW k \in Allocated, NEW S \in DfaState, NEW x \in Interpretation,
                        StandsFor(k, S)
                 PROVE  LET d == get_successor(automaton, k, x)
                        IN  IF Processed(k, x) /\ ~ NoSuccessor(S)
                              THEN /\ next_state(S, x) \in DOMAIN discovered
                                   /\ discovered[next_state(S, x)] = d
                              ELSE d = 0
      BY DEF SuccessorsAgree
    <3>1. /\ Processed(k, x) /\ ~ NoSuccessor(S) => next_state(S, x) \in DOMAIN discovered
          /\ successor_digits(automaton, state2bin(k), x) =
               IF Processed(k, x) /\ ~ NoSuccessor(S)
                 THEN state2bin(discovered[next_state(S, x)]) ELSE {}
      BY <2>1 DEF Built, DigitsAgree, Agrees
    <3>2. \A T \in DOMAIN discovered : bin2state(state2bin(discovered[T])) = discovered[T]
      BY <2>1, <2>2, BinaryFacts DEF Built, IndexesAreNames
    <3>3. QED
      BY <3>1, <3>2, NoDigits DEF get_successor
  <2>4. FinalsAgree
    <3>1. \A k \in Allocated : {} # state2bin(k)
      BY <2>2, NoDigits, DigitsInjective
    <3>2. /\ {} \notin automaton.finalstates
          /\ \A x \in Interpretation : successor_digits(automaton, {}, x) = {}
      <4>1. {} \in Digits
        BY DEF Digits
      <4>2. QED
        BY <1>1, <3>1, <4>1 DEF Blank
    <3>3. QED
      BY <2>1, <3>2, NoDigits DEF FinalsAgree, Built, FinalDigitsAgree, is_final, get_successor
  <2>5. QED
    BY <2>1, <2>3, <2>4 DEF Built, Simulation
<1>2. IInv => Simulation
  BY <1>1 DEF Simulation
<1>3. QED
  BY <1>2, Invariance, PTL

-----------------------------------------------------------------------------
(* Refinement: the abstract variable explored, by name.                     *)
Explored ==
  {p \in DfaState \X Interpretation :
     \E k \in Allocated : StandsFor(k, p[1]) /\ Processed(k, p[2])}

Successors == [S \in DfaState |-> [x \in Interpretation |-> next_state(S, x)]]

LEMMA InitImplements == Init => Construction!Init
<1> SUFFICES ASSUME Init PROVE Construction!Init
  OBVIOUS
<1>1. Allocated = {} /\ pc = "start"
  BY DEF Init, new_dfa, Allocated
<1>2. QED
  BY <1>1 DEF Construction!Init

LEMMA ReachedIs ==
  Construction!Reached = {InitialState} \union {Successors[p[1]][p[2]] : p \in Explored}
  BY DEF Construction!Reached, Explored, Successors

(* What the worklist holds or is visiting has been reached.                 *)
LEMMA NamedIsReached ==
  ASSUME IInv, NEW k \in Allocated, NEW S \in DfaState, StandsFor(k, S)
  PROVE  S \in Construction!Reached
<1>1. Started
  BY TypeFacts DEF IInv, Allocated, Started
<1>2. CASE S = InitialState
  BY <1>2, ReachedIs
<1>3. CASE S \in DOMAIN discovered
  <2>1. PICK j \in Allocated, T \in DfaState, x \in Interpretation :
          StandsFor(j, T) /\ Processed(j, x) /\ next_state(T, x) = S
    BY <1>1, <1>3 DEF IInv, Built, DiscoveredIsReached
  <2>2. <<T, x>> \in Explored
    BY <2>1 DEF Explored
  <2>3. Successors[T][x] = S
    BY <2>1 DEF Successors
  <2>4. \E p \in Explored : Successors[p[1]][p[2]] = S
    BY <2>2, <2>3
  <2>5. QED
    BY <2>4, ReachedIs
<1>4. QED
  BY <1>2, <1>3 DEF StandsFor

LEMMA VisitExplores ==
  ASSUME IInv, Visit
  PROVE  \E S \in Construction!Reached, symbols \in SUBSET Interpretation :
           Construction!Explore(S, symbols)
<1> USE DEF IInv
<1>1. Started /\ Built
  BY DEF Phase, Visit
<1>2. PICK S \in DfaState, c \in Index :
        /\ to_be_visited[1] = <<S, c>> /\ Head(to_be_visited) = <<S, c>>
        /\ c = current[2] + 1 /\ StandsFor(c, S) /\ c \in Allocated
  <2>1. to_be_visited \in Seq(DfaState \X Index) /\ Len(to_be_visited) > 0
    BY DEF Types, Visit
  <2>2. PICK q \in DfaState \X Index :
          q = to_be_visited[1] /\ q = Head(to_be_visited) /\ 1 \in DOMAIN to_be_visited
    BY <2>1
  <2>3. q[2] = current[2] + 1 /\ StandsFor(q[2], q[1])
    BY <1>1, <2>2 DEF Built, QueueIsLatest
  <2>4. q[2] \in Allocated
    BY <1>1, <2>1, <2>3, TypeFacts DEF Built, QueueIsLatest, Allocated
  <2>5. QED
    BY <2>2, <2>3, <2>4
<1> DEFINE symbols == {x \in Interpretation : \A t \in next_transitions(S) : x \notin t[1]}
<1>3. /\ UNCHANGED <<strategy, nfa, automaton, discovered, pc>> /\ pc = "loop"
      /\ pending = {} /\ pending' = next_transitions(S) /\ current' = <<S, c>>
  BY <1>2 DEF Visit
<1>4. /\ Allocated' = Allocated /\ Allocated \subseteq Nat
      /\ \A k, T : StandsFor(k, T)' = StandsFor(k, T)
      /\ \A T, x : next_state(T, x)' = next_state(T, x)
  BY <1>3, TypeFacts DEF Allocated, StandsFor, next_state
<1>5. ASSUME NEW k \in Allocated, NEW x \in Interpretation
      PROVE  Processed(k, x)' <=> Processed(k, x) \/ (k = c /\ x \in symbols)
  BY <1>2, <1>3, <1>4, TypeFacts DEF Processed
<1>6. Explored' = Explored \union ({S} \X symbols)
  <2>1. ASSUME NEW T \in DfaState, NEW x \in Interpretation
        PROVE  <<T, x>> \in Explored' <=> <<T, x>> \in Explored \/ (T = S /\ x \in symbols)
    <3>1. \A k \in Allocated : k = c /\ StandsFor(k, T) => T = S
      BY <1>1, <1>2, StandsForOne DEF Built
    <3>2. <<T, x>> \in Explored' <=> \E k \in Allocated : StandsFor(k, T) /\ Processed(k, x)'
      BY <1>4 DEF Explored
    <3>3. <<T, x>> \in Explored <=> \E k \in Allocated : StandsFor(k, T) /\ Processed(k, x)
      BY DEF Explored
    <3>4. QED
      BY <1>2, <1>5, <3>1, <3>2, <3>3
  <2>2. Explored \subseteq DfaState \X Interpretation
        /\ Explored' \subseteq DfaState \X Interpretation
    BY DEF Explored
  <2>3. symbols \subseteq Interpretation
    OBVIOUS
  <2> HIDE DEF symbols
  <2>4. QED
    BY <2>1, <2>2, <2>3
<1>7. Successors' = Successors /\ (pc = "done")' = (pc = "done") /\ pc # "done"
  BY <1>3, <1>4 DEF Successors
<1>8. S \in Construction!Reached
  BY <1>2, NamedIsReached
<1> HIDE DEF symbols
<1>9. Construction!Explore(S, symbols)
  BY <1>6, <1>7, <1>8 DEF Construction!Explore, Explored, Successors
<1>10. symbols \in SUBSET Interpretation
  BY DEF symbols
<1>11. QED
  BY <1>8, <1>9, <1>10

LEMMA TransitionExplores ==
  ASSUME IInv, NEW t \in pending, Discover(t) \/ Revisit(t)
  PROVE  \E S \in Construction!Reached, symbols \in SUBSET Interpretation :
           Construction!Explore(S, symbols)
<1> USE DEF IInv
<1>1. /\ Started /\ Built
      /\ t[1] \in SUBSET Interpretation /\ t[2] \in DfaState
  BY PendingFacts
<1>2. PICK c \in Allocated, S \in DfaState :
        c = current[2] /\ S = current[1] /\ StandsFor(c, S)
  BY PendingFacts, TypeFacts
<1>3. /\ UNCHANGED <<strategy, nfa, current, pc>> /\ pc = "loop"
      /\ pending' = pending \ {t}
  BY DEF Discover, Revisit
<1>4. c \in Nat /\ Allocated \subseteq Nat /\ automaton.nb_states \in Nat
  BY TypeFacts
<1>5. ASSUME NEW k, NEW x \in Interpretation
      PROVE  Processed(k, x)' <=> Processed(k, x) \/ (k = c /\ x \in t[1])
  <2>1. \A y \in t[1], u \in pending : y \in u[1] => u = t
    BY PendingFacts
  <2>2. k = c => ~ (k < c)
    BY <1>4
  <2>3. QED
    BY <1>2, <1>3, <2>1, <2>2 DEF Processed
<1>6. \A k \in Allocated : \A T : StandsFor(k, T)' <=> StandsFor(k, T)
  <2>1. CASE Discover(t)
    <3>1. \A k \in Allocated : k # automaton.nb_states
      BY <1>4 DEF Allocated
    <3>2. QED
      BY <2>1, <3>1 DEF Discover, StandsFor
  <2>2. CASE Revisit(t)
    BY <2>2 DEF Revisit, StandsFor
  <2>3. QED
    BY <2>1, <2>2
<1>7. automaton'.nb_states \in {automaton.nb_states, automaton.nb_states + 1}
  <2>1. automaton \in Automata
    BY DEF Types
  <2>2. QED
    BY <2>1 DEF Discover, Revisit, add_transition, WithFinal, set_final_state, add_state,
                Automata
<1>8. /\ Allocated \subseteq Allocated'
      /\ \A k \in Allocated', x \in Interpretation : k \notin Allocated => ~ Processed(k, x)'
  <2>1. Allocated \subseteq Allocated'
    BY <1>4, <1>7 DEF Allocated
  <2>2. \A k \in Allocated' : k \notin Allocated => k \in Nat /\ c < k
    BY <1>2, <1>4, <1>7 DEF Allocated
  <2>3. QED
    BY <1>2, <1>3, <1>4, <2>1, <2>2 DEF Processed
<1>9. /\ \A T, x : next_state(T, x)' = next_state(T, x)
      /\ Successors' = Successors /\ (pc = "done")' = (pc = "done") /\ pc # "done"
  BY <1>3 DEF next_state, Successors
<1>10. Explored' = Explored \union ({S} \X t[1])
  <2>1. ASSUME NEW T \in DfaState, NEW x \in Interpretation
        PROVE  <<T, x>> \in Explored' <=> <<T, x>> \in Explored \/ (T = S /\ x \in t[1])
    <3>1. StandsFor(c, T) => T = S
      BY <1>1, <1>2, StandsForOne DEF Built
    <3>2. <<T, x>> \in Explored' <=> \E k \in Allocated : StandsFor(k, T) /\ Processed(k, x)'
      BY <1>6, <1>8 DEF Explored
    <3>3. <<T, x>> \in Explored <=> \E k \in Allocated : StandsFor(k, T) /\ Processed(k, x)
      BY DEF Explored
    <3>4. QED
      BY <1>2, <1>5, <3>1, <3>2, <3>3
  <2>2. Explored \subseteq DfaState \X Interpretation
        /\ Explored' \subseteq DfaState \X Interpretation
    BY DEF Explored
  <2>3. QED
    BY <1>1, <2>1, <2>2
<1>11. S \in Construction!Reached
  BY <1>2, NamedIsReached
<1>12. Construction!Explore(S, t[1])
  BY <1>9, <1>10, <1>11 DEF Construction!Explore, Explored, Successors
<1>13. QED
  BY <1>1, <1>11, <1>12

LEMMA StartStutters == IInv /\ Start => UNCHANGED Construction!vars
<1> SUFFICES ASSUME IInv, Start PROVE UNCHANGED Construction!vars
  OBVIOUS
<1>1. /\ automaton.nb_states = 1 /\ discovered = [S \in {} |-> 0] /\ current[2] = 0
      /\ automaton \in Automata
  BY DEF IInv, Phase, Start, Types
<1>2. automaton'.nb_states = 2
  BY <1>1 DEF Start, WithFinal, set_final_state, set_initial_state, add_state, Automata
<1>3. UNCHANGED <<strategy, nfa, discovered, current, pending>> /\ pc = "start" /\ pc' = "loop"
  BY DEF Start
<1>4. Explored = {} /\ Explored' = {}
  <2>1. Allocated = {} /\ Allocated' = {1}
    BY <1>1, <1>2 DEF Allocated
  <2>2. \A x : ~ Processed(1, x)'
    BY <1>1, <1>3 DEF Processed
  <2>3. QED
    BY <2>1, <2>2 DEF Explored
<1>5. Successors' = Successors /\ (pc = "done")' = (pc = "done")
  BY <1>3 DEF Successors, next_state
<1>6. QED
  BY <1>4, <1>5 DEF Construction!vars, Explored, Successors

LEMMA UnchangedStutters ==
  ASSUME UNCHANGED <<nfa, automaton, discovered, current, pending>>,
         pc' = pc \/ (pc # "done" /\ pc' # "done")
  PROVE  UNCHANGED Construction!vars
<1>1. Explored' = Explored
  BY DEF Explored, Allocated, StandsFor, Processed
<1>2. Successors' = Successors /\ (pc = "done")' = (pc = "done")
  BY DEF Successors, next_state
<1>3. QED
  BY <1>1, <1>2 DEF Construction!vars, Explored, Successors

LEMMA ReturnFinishes == ASSUME IInv, Return PROVE Construction!Finish
<1> USE DEF IInv
<1>1. Started /\ Built
  BY DEF Phase, Return
<1>2. /\ UNCHANGED <<strategy, nfa, automaton, discovered, to_be_visited, current, pending>>
      /\ pc' = "done" /\ pending = {} /\ to_be_visited = << >>
  BY DEF Return
<1>3. \A k \in Allocated, x \in Interpretation : Processed(k, x)
  <2>1. current[2] = automaton.nb_states - 1
    BY <1>1, <1>2, TypeFacts DEF Built, QueueIsLatest
  <2>2. QED
    BY <1>2, <2>1, TypeFacts DEF Processed, Allocated
<1>4. ASSUME NEW k \in Allocated, NEW S \in DfaState, NEW x \in Interpretation,
             StandsFor(k, S)
      PROVE  <<S, x>> \in Explored
  BY <1>3, <1>4 DEF Explored
<1>5. ASSUME NEW S \in {Successors[p[1]][p[2]] : p \in Explored}, S # {},
             NEW x \in Interpretation
      PROVE  <<S, x>> \in Explored
  <2>1. PICK T \in DfaState, y \in Interpretation :
          <<T, y>> \in Explored /\ S = Successors[T][y]
    BY DEF Explored
  <2>2. PICK k \in Allocated : StandsFor(k, T)
    BY <2>1 DEF Explored
  <2>3. S = next_state(T, y)
    BY <2>1 DEF Successors
  <2>4. ~ NoSuccessor(T)
    BY <1>5, <2>3 DEF NoSuccessor
  <2>5. S \in DOMAIN discovered
    BY <1>1, <1>3, <2>2, <2>3, <2>4 DEF Built, DigitsAgree
  <2>6. discovered[S] \in Allocated /\ StandsFor(discovered[S], S)
    BY <1>1, <2>5 DEF Built, IndexesAreNames, StandsFor
  <2>7. S \in DfaState
    BY <2>3, NextStateType DEF Types
  <2>8. QED
    BY <1>4, <2>6, <2>7
<1>6. ASSUME NEW x \in Interpretation
      PROVE  <<InitialState, x>> \in Explored
  <2>1. 1 \in Allocated
    BY <1>1, TypeFacts DEF Allocated, Started
  <2>2. InitialState \in DfaState /\ StandsFor(1, InitialState)
    BY InputAssumption DEF InitialState, DfaState, StandsFor
  <2>3. QED
    BY <1>4, <2>1, <2>2
<1>7. (Construction!Reached \ {{}}) \X Interpretation \subseteq Explored
  BY <1>5, <1>6, ReachedIs
<1>8. Explored' = Explored /\ Successors' = Successors /\ (pc = "done")' = TRUE
  BY <1>2 DEF Explored, Allocated, StandsFor, Processed, Successors, next_state
<1>9. QED
  BY <1>7, <1>8 DEF Construction!Finish, Explored, Successors

LEMMA StepImplements == IInv /\ [Next]_vars => [Construction!Next]_Construction!vars
<1> SUFFICES ASSUME IInv, [Next]_vars PROVE [Construction!Next]_Construction!vars
  OBVIOUS
<1>1. CASE Start
  BY <1>1, StartStutters
<1>2. CASE Visit
  BY <1>2, VisitExplores DEF Construction!Next
<1>3. ASSUME NEW t \in pending, Discover(t) \/ Revisit(t)
      PROVE  [Construction!Next]_Construction!vars
  BY <1>3, TransitionExplores DEF Construction!Next
<1>4. CASE Overflow
  BY <1>4, UnchangedStutters DEF Overflow
<1>5. CASE Return
  BY <1>5, ReturnFinishes DEF Construction!Next
<1>6. CASE UNCHANGED vars
  BY <1>6, UnchangedStutters DEF vars
<1>7. QED
  BY <1>1, <1>2, <1>3, <1>4, <1>5, <1>6 DEF Next

(* Both strategies implement the subset construction: they explore only     *)
(* sets of NFA states that are reached, and return only when every reached  *)
(* set but the empty one is explored under every interpretation (naive.cpp  *)
(* 24-91, bdd/base.cpp 30-132).                                             *)
THEOREM Refinement == Spec => ImplementsSubsetConstruction
<1>1. Init => Construction!Init
  BY InitImplements
<1>2. IInv /\ [Next]_vars => [Construction!Next]_Construction!vars
  BY StepImplements
<1>3. QED
  BY <1>1, <1>2, Invariance, PTL DEF Spec, ImplementsSubsetConstruction, Construction!Spec

-----------------------------------------------------------------------------
(* The second invariant counts: every discovered set has one index, apart   *)
(* from the sink's and from the first one of the initial state, and every   *)
(* discovered set can be reached.  A failure found a set without an index.  *)

Counted ==
  /\ DOMAIN discovered \subseteq ReachedSets
  /\ Started => Cardinality(DOMAIN discovered) + 2 = automaton.nb_states

FailedForASet ==
  pc = "failed" =>
    /\ add_state_throws(automaton)
    /\ Started => \E t \in pending : t[2] \notin DOMAIN discovered

(* The sets that the input can reach are closed under transitions.          *)
LEMMA ReachedSetsClosed ==
  ASSUME nfa \in Nfas, strategy \in {"naive", "bdd"},
         NEW S \in DfaState, S = InitialState \/ S \in ReachedSets,
         NEW t \in next_transitions(S)
  PROVE  t[2] \in ReachedSets
<1>1. t[2] \in DfaState
  BY TransitionsPartition
<1>2. ASSUME NEW R \in SUBSET DfaState, Step(R) \subseteq R
      PROVE  t[2] \in R
  <2>1. S \in R \union {InitialState}
    BY <1>2 DEF ReachedSets
  <2>2. t[2] \in Step(R)
    BY <2>1 DEF Step
  <2>3. QED
    BY <1>2, <2>2
<1>3. QED
  BY <1>1, <1>2 DEF ReachedSets

LEMMA ReachedSetsUnchanged ==
  ASSUME UNCHANGED <<strategy, nfa>>
  PROVE  ReachedSets' = ReachedSets
<1>1. \A S : next_transitions(S)' = next_transitions(S)
  BY DEF next_transitions, naive_transitions, bdd_transitions, next_state, Label
<1>2. \A R : Step(R)' = Step(R)
  BY <1>1 DEF Step
<1>3. QED
  BY <1>2 DEF ReachedSets

(* A pending transition leads to a set that can be reached.                 *)
LEMMA PendingIsReached ==
  ASSUME IInv, Counted, NEW t \in pending
  PROVE  t[2] \in ReachedSets
<1>1. StandsFor(current[2], current[1]) /\ Started /\ Built
  BY PendingFacts
<1>2. current[1] \in DfaState /\ nfa \in Nfas /\ strategy \in {"naive", "bdd"}
  BY TypeFacts DEF IInv, Types
<1>3. current[1] = InitialState \/ current[1] \in ReachedSets
  BY <1>1 DEF StandsFor, Counted
<1>4. t \in next_transitions(current[1])
  BY <1>1 DEF Built, PendingAreTransitions
<1>5. QED
  BY <1>2, <1>3, <1>4, ReachedSetsClosed

LEMMA CountedInit == Init => Counted /\ FailedForASet
<1> SUFFICES ASSUME Init PROVE Counted /\ FailedForASet
  OBVIOUS
<1>1. DOMAIN discovered = {} /\ pc = "start" /\ automaton.nb_states = 1
  BY DEF Init, new_dfa
<1>2. QED
  BY <1>1 DEF Counted, FailedForASet, Started

(* The new set is counted with its index.                                   *)
LEMMA DiscoverCounts ==
  ASSUME IsFiniteSet(NfaStates), IInv, Counted, NEW t \in pending, Discover(t)
  PROVE  Counted'
<1>1. t[2] \in ReachedSets /\ Started
  BY PendingIsReached, PendingFacts
<1>2. /\ DOMAIN discovered' = DOMAIN discovered \union {t[2]}
      /\ t[2] \notin DOMAIN discovered
      /\ UNCHANGED <<strategy, nfa>>
  BY DEF Discover
<1>3. automaton'.nb_states = automaton.nb_states + 1
  BY DEF IInv, Types, Discover, add_transition, WithFinal, set_final_state, add_state, Automata
<1>4. IsFiniteSet(DOMAIN discovered)
  <2>1. IsFiniteSet(DfaState)
    BY FS_SUBSET DEF DfaState
  <2>2. DOMAIN discovered \subseteq DfaState
    BY DEF IInv, Types
  <2>3. QED
    BY <2>1, <2>2, FS_Subset
<1>5. /\ Cardinality(DOMAIN discovered') = Cardinality(DOMAIN discovered) + 1
      /\ Cardinality(DOMAIN discovered) \in Nat
  BY <1>2, <1>4, FS_AddElement, FS_CardinalityType
<1>6. ReachedSets' = ReachedSets
  BY <1>2, ReachedSetsUnchanged
<1>7. Cardinality(DOMAIN discovered') + 2 = automaton'.nb_states
  BY <1>1, <1>3, <1>5 DEF Counted
<1>8. QED
  BY <1>1, <1>2, <1>6, <1>7 DEF Counted

LEMMA CountedStep ==
  ASSUME IsFiniteSet(NfaStates), IInv, IInv', Counted, FailedForASet, [Next]_vars
  PROVE  Counted' /\ FailedForASet'
<1>1. CASE Start
  <2>1. /\ automaton.nb_states = 1 /\ DOMAIN discovered = {}
        /\ UNCHANGED <<strategy, nfa, discovered>> /\ pc' = "loop"
    BY <1>1 DEF IInv, Phase, Start
  <2>2. automaton'.nb_states = 2
    <3>1. automaton \in Automata
      BY DEF IInv, Types
    <3>2. QED
      BY <1>1, <2>1, <3>1
      DEF Start, WithFinal, set_final_state, set_initial_state, add_state, Automata
  <2>3. QED
    BY <2>1, <2>2, FS_EmptySet DEF Counted, FailedForASet
<1>2. CASE Visit
  <2>1. UNCHANGED <<strategy, nfa, automaton, discovered, pc>> /\ pc = "loop"
    BY <1>2 DEF Visit
  <2>2. QED
    BY <2>1, ReachedSetsUnchanged DEF Counted, FailedForASet, Started
<1>3. ASSUME NEW t \in pending, Discover(t)
      PROVE  Counted' /\ FailedForASet'
  <2>1. pc' = "loop"
    BY <1>3 DEF Discover
  <2>2. QED
    BY <1>3, <2>1, DiscoverCounts DEF FailedForASet
<1>4. ASSUME NEW t \in pending, Revisit(t)
      PROVE  Counted' /\ FailedForASet'
  <2>1. /\ UNCHANGED <<strategy, nfa, discovered, pc>> /\ pc = "loop"
    BY <1>4 DEF Revisit
  <2>2. automaton'.nb_states = automaton.nb_states
    BY <1>4 DEF IInv, Types, Revisit, add_transition, Automata
  <2>3. QED
    BY <2>1, <2>2, ReachedSetsUnchanged DEF Counted, FailedForASet, Started
<1>5. CASE Overflow
  <2>1. /\ UNCHANGED <<strategy, nfa, automaton, discovered, current, pending>>
        /\ add_state_throws(automaton)
        /\ pc = "start" \/ \E t \in pending : t[2] \notin DOMAIN discovered
    BY <1>5 DEF Overflow
  <2>2. Started => pc # "start"
    BY DEF IInv, Phase
  <2>3. Counted'
    BY <2>1, ReachedSetsUnchanged DEF Counted, Started
  <2>4. FailedForASet'
    BY <2>1, <2>2 DEF FailedForASet, Started, add_state_throws
  <2>5. QED
    BY <2>3, <2>4
<1>6. CASE Return
  <2>1. UNCHANGED <<strategy, nfa, automaton, discovered>> /\ pc' = "done"
    BY <1>6 DEF Return
  <2>2. QED
    BY <2>1, ReachedSetsUnchanged DEF Counted, FailedForASet, Started
<1>7. CASE UNCHANGED vars
  <2>1. UNCHANGED <<strategy, nfa, automaton, discovered, pending, pc>>
    BY <1>7 DEF vars
  <2>2. QED
    BY <2>1, ReachedSetsUnchanged DEF Counted, FailedForASet, Started, add_state_throws
<1>8. QED
  BY <1>1, <1>2, <1>3, <1>4, <1>5, <1>6, <1>7 DEF Next

(* What the count says of a failure.                                        *)
LEMMA FailureIsFull ==
  ASSUME IsFiniteSet(NfaStates), IInv, Counted, FailedForASet
  PROVE  FailsOnlyWhenFull
<1> SUFFICES ASSUME pc = "failed"
             PROVE  2 + Cardinality(ReachedSets) > pow2[automaton.nb_bits]
  BY DEF FailsOnlyWhenFull
<1>1. pow2[automaton.nb_bits] \in 1 .. automaton.nb_states /\ automaton.nb_states \in Nat
  <2>1. automaton.nb_states \in Index /\ automaton.nb_bits \in 0 .. MaxBits
        /\ automaton.nb_states \in Nat
    BY TypeFacts DEF IInv
  <2>2. automaton.nb_bits < bit_length(automaton.nb_states)
    BY DEF FailedForASet, add_state_throws
  <2>3. QED
    BY <2>1, <2>2, PowersFacts
<1>2. IsFiniteSet(ReachedSets) /\ Cardinality(ReachedSets) \in Nat
  <2>1. IsFiniteSet(DfaState)
    BY FS_SUBSET DEF DfaState
  <2>2. ReachedSets \subseteq DfaState
    BY DEF ReachedSets
  <2>3. QED
    BY <2>1, <2>2, FS_Subset, FS_CardinalityType
<1>3. CASE Started
  <2>1. PICK t \in pending : t[2] \notin DOMAIN discovered
    BY <1>3 DEF FailedForASet
  <2>2. t[2] \in ReachedSets /\ DOMAIN discovered \subseteq ReachedSets
    BY PendingIsReached DEF Counted
  <2>3. IsFiniteSet(DOMAIN discovered)
    BY <1>2, <2>2, FS_Subset
  <2>4. Cardinality(DOMAIN discovered \union {t[2]}) = Cardinality(DOMAIN discovered) + 1
    BY <2>1, <2>3, FS_AddElement
  <2>5. Cardinality(DOMAIN discovered \union {t[2]}) <= Cardinality(ReachedSets)
    <3>1. DOMAIN discovered \union {t[2]} \in SUBSET ReachedSets
      BY <2>2
    <3>2. QED
      BY <3>1, <1>2, FS_Subset
  <2>6. /\ Cardinality(DOMAIN discovered) \in Nat
        /\ Cardinality(DOMAIN discovered) + 2 = automaton.nb_states
    BY <1>3, <2>3, FS_CardinalityType DEF Counted
  <2>7. QED
    BY <1>1, <1>2, <2>4, <2>5, <2>6
<1>4. CASE ~ Started
  <2>1. automaton.nb_states = 1
    BY <1>4 DEF IInv, Phase
  <2>2. QED
    BY <1>1, <1>2, <2>1
<1>5. QED
  BY <1>3, <1>4

(* When there are finitely many NFA states, to_dfa throws only if the sets  *)
(* that the input can reach, with the sink and the index that the initial   *)
(* state costs too much, are more than the bits can name (dfa.cpp 311-328,  *)
(* naive.cpp 52-79, bdd/base.cpp 55-81).                                    *)
THEOREM ThrowsOnlyWhenFull ==
  ASSUME IsFiniteSet(NfaStates)
  PROVE  Spec => []FailsOnlyWhenFull
<1>1. Init => Counted /\ FailedForASet
  BY CountedInit
<1>2. IInv /\ IInv' /\ (Counted /\ FailedForASet) /\ [Next]_vars => (Counted /\ FailedForASet)'
  BY CountedStep
<1>3. IInv /\ Counted /\ FailedForASet => FailsOnlyWhenFull
  BY FailureIsFull
<1>4. QED
  BY <1>1, <1>2, <1>3, Invariance, PTL DEF Spec

-----------------------------------------------------------------------------
(* The language.  What to_dfa leaves behind when it returns: nothing to     *)
(* visit, and the initial state where Start put it.                         *)
Finished ==
  /\ pc = "done" => pending = {} /\ to_be_visited = << >>
  /\ Started => automaton.initial_state = 1

LEMMA FinishedInit == Init => Finished
  BY DEF Init, Finished, Started, new_dfa

LEMMA FinishedStep == IInv /\ Finished /\ [Next]_vars => Finished'
<1> SUFFICES ASSUME IInv, Finished, [Next]_vars PROVE Finished'
  OBVIOUS
<1>1. /\ automaton \in Automata /\ current[2] \in Index /\ automaton.nb_states \in Nat
      /\ automaton.nb_states \in Index
      /\ pending \subseteq (SUBSET Interpretation) \X DfaState
  BY TypeFacts DEF IInv, Types
<1>2. CASE Start
  <2>1. ~ add_state_throws(automaton) /\ pc' = "loop"
        /\ automaton' = WithFinal(set_initial_state(add_state(automaton), 1), InitialState, 1)
    BY <1>2 DEF Start
  <2>2. automaton'.initial_state = 1
    <3>1. set_initial_state(add_state(automaton), 1).initial_state = 1
      BY <1>1, <2>1, AddStateType DEF set_initial_state, Automata
    <3>2. QED
      BY <2>1, <3>1 DEF WithFinal, set_final_state
  <2>3. QED
    BY <2>1, <2>2 DEF Finished
<1>3. CASE Visit
  BY <1>3 DEF Visit, Finished, Started
<1>4. ASSUME NEW t \in pending, Discover(t) PROVE Finished'
  <2> DEFINE k == automaton.nb_states
  <2>1. ~ add_state_throws(automaton) /\ UNCHANGED pc /\ pc = "loop"
        /\ automaton' = add_transition(WithFinal(add_state(automaton), t[2], k), current[2], t[1], k)
    BY <1>4 DEF Discover
  <2>2. add_state(automaton).initial_state = automaton.initial_state
    BY <1>1, <2>1, AddStateType DEF Automata
  <2>3. automaton'.initial_state = automaton.initial_state
    BY <2>1, <2>2 DEF add_transition, WithFinal, set_final_state
  <2>4. Started
    BY <1>4, <2>1 DEF IInv, Phase
  <2>5. QED
    BY <2>1, <2>3, <2>4 DEF Finished
<1>5. ASSUME NEW t \in pending, Revisit(t) PROVE Finished'
  <2>1. UNCHANGED pc /\ pc = "loop"
        /\ automaton' = add_transition(automaton, current[2], t[1], discovered[t[2]])
    BY <1>5 DEF Revisit
  <2>2. automaton'.initial_state = automaton.initial_state
        /\ automaton'.nb_states = automaton.nb_states
    BY <2>1 DEF add_transition
  <2>3. QED
    BY <2>1, <2>2 DEF Finished, Started
<1>6. CASE Overflow
  BY <1>6 DEF Overflow, Finished, Started
<1>7. CASE Return
  BY <1>7 DEF Return, Finished, Started
<1>8. CASE UNCHANGED vars
  BY <1>8 DEF vars, Finished, Started
<1>9. QED
  BY <1>2, <1>3, <1>4, <1>5, <1>6, <1>7, <1>8 DEF Next

(* The NFA states in which the runs of i steps along a word end.            *)
IsRun(run, word, i) ==
  /\ run \in [1 .. i + 1 -> NfaStates]
  /\ run[1] = InitialNfa
  /\ \A j \in 1 .. i : run[j + 1] \in nfa.delta[run[j]][word[j]]
Ends(word, i) == {n \in NfaStates : \E run : IsRun(run, word, i) /\ run[i + 1] = n}

LEMMA EndsStart == \A word : Ends(word, 0) = InitialState
<1> TAKE word
<1>1. ASSUME NEW run, IsRun(run, word, 0) PROVE run[0 + 1] = InitialNfa
  BY <1>1 DEF IsRun
<1>2. IsRun([j \in 1 .. 0 + 1 |-> InitialNfa], word, 0)
  BY InputAssumption DEF IsRun
<1>3. [j \in 1 .. 0 + 1 |-> InitialNfa][0 + 1] = InitialNfa
  OBVIOUS
<1>4. InitialNfa \in Ends(word, 0)
  BY <1>2, <1>3, InputAssumption DEF Ends
<1>5. QED
  BY <1>1, <1>4 DEF Ends, InitialState

LEMMA EndsStep ==
  ASSUME nfa \in Nfas, NEW word, NEW i \in Nat, word[i + 1] \in Interpretation
  PROVE  Ends(word, i + 1) = next_state(Ends(word, i), word[i + 1])
<1> DEFINE x == word[i + 1]
<1>1. ASSUME NEW n \in Ends(word, i + 1) PROVE n \in next_state(Ends(word, i), x)
  <2>1. PICK run : IsRun(run, word, i + 1) /\ run[(i + 1) + 1] = n
    BY DEF Ends
  <2> DEFINE prefix == [j \in 1 .. i + 1 |-> run[j]]
  <2>2. /\ run \in [1 .. (i + 1) + 1 -> NfaStates] /\ run[1] = InitialNfa
        /\ \A j \in 1 .. i + 1 : run[j + 1] \in nfa.delta[run[j]][word[j]]
    BY <2>1 DEF IsRun
  <2>3. IsRun(prefix, word, i)
    <3>1. prefix \in [1 .. i + 1 -> NfaStates] /\ prefix[1] = InitialNfa
      BY <2>2
    <3>2. ASSUME NEW j \in 1 .. i PROVE prefix[j + 1] \in nfa.delta[prefix[j]][word[j]]
      <4>1. j \in 1 .. i + 1 /\ j + 1 \in 1 .. i + 1
        OBVIOUS
      <4>2. prefix[j + 1] = run[j + 1] /\ prefix[j] = run[j]
        BY <4>1
      <4>3. QED
        BY <2>2, <4>1, <4>2
    <3> HIDE DEF prefix
    <3>3. QED
      BY <3>1, <3>2 DEF IsRun
  <2>4. i + 1 \in 1 .. i + 1 /\ prefix[i + 1] = run[i + 1] /\ run[i + 1] \in NfaStates
    BY <2>2
  <2>5. run[i + 1] \in Ends(word, i)
    <3> HIDE DEF prefix
    <3>1. QED
      BY <2>3, <2>4 DEF Ends
  <2>6. n \in nfa.delta[run[i + 1]][x]
    BY <2>1, <2>2, <2>4
  <2>7. QED
    BY <2>5, <2>6 DEF next_state
<1>2. ASSUME NEW n \in next_state(Ends(word, i), x) PROVE n \in Ends(word, i + 1)
  <2>1. PICK m \in Ends(word, i) : n \in nfa.delta[m][x]
    BY DEF next_state
  <2>2. m \in NfaStates /\ n \in NfaStates
    BY <2>1 DEF Ends, Nfas
  <2>3. PICK run : IsRun(run, word, i) /\ run[i + 1] = m
    BY <2>1 DEF Ends
  <2> DEFINE longer == [j \in 1 .. (i + 1) + 1 |-> IF j = (i + 1) + 1 THEN n ELSE run[j]]
  <2>4. /\ run \in [1 .. i + 1 -> NfaStates] /\ run[1] = InitialNfa
        /\ \A j \in 1 .. i : run[j + 1] \in nfa.delta[run[j]][word[j]]
    BY <2>3 DEF IsRun
  <2>5. /\ \A j \in 1 .. i + 1 : longer[j] = run[j]
        /\ longer[(i + 1) + 1] = n
        /\ longer \in [1 .. (i + 1) + 1 -> NfaStates]
    BY <2>2, <2>4
  <2> HIDE DEF longer
  <2>6. ASSUME NEW j \in 1 .. i + 1 PROVE longer[j + 1] \in nfa.delta[longer[j]][word[j]]
    <3>1. CASE j = i + 1
      BY <2>1, <2>3, <2>5, <3>1
    <3>2. CASE j \in 1 .. i
      <4>1. j + 1 \in 1 .. i + 1 /\ j \in 1 .. i + 1
        BY <3>2
      <4>2. QED
        BY <2>4, <2>5, <3>2, <4>1
    <3>3. QED
      BY <3>1, <3>2
  <2>7. longer[1] = InitialNfa
    BY <2>4, <2>5
  <2>8. IsRun(longer, word, i + 1)
    BY <2>5, <2>6, <2>7 DEF IsRun
  <2>9. QED
    BY <2>2, <2>5, <2>8 DEF Ends
<1>3. QED
  BY <1>1, <1>2

LEMMA AcceptedIs ==
  ASSUME NEW word, NEW l \in Nat, Len(word) = l
  PROVE  NfaAccepts(word) <=> dfa_is_final(Ends(word, l))
<1>1. \A run : run \in [1 .. Len(word) + 1 -> NfaStates] => run[l + 1] \in NfaStates
  OBVIOUS
<1>2. NfaAccepts(word) <=> \E run : IsRun(run, word, l) /\ run[l + 1] \in nfa.final
  BY DEF NfaAccepts, IsRun
<1>3. \A run : IsRun(run, word, l) => run[l + 1] \in NfaStates
  BY <1>1 DEF IsRun
<1>4. QED
  BY <1>2, <1>3 DEF dfa_is_final, Ends

LEMMA WordLetters ==
  ASSUME NEW word \in Words
  PROVE  Len(word) \in Nat /\ \A i \in 1 .. Len(word) : word[i] \in Interpretation
<1>1. PICK n \in 0 .. MaxWord : word \in [1 .. n -> Interpretation]
  BY DEF Words
<1>2. n \in Nat
  BY <1>1, InputAssumption
<1>3. Len(word) = n
  BY <1>1, <1>2
<1>4. QED
  BY <1>1, <1>2, <1>3

(* The digits that accepts computes name the set of the NFA states that the *)
(* runs reach; the sink, that they reach none.                              *)
Names(d, S) ==
  \/ S = {} /\ d = {}
  \/ \E k \in Allocated : StandsFor(k, S) /\ d = state2bin(k)

LEMMA SinkIsBlank ==
  ASSUME IInv, Started
  PROVE  /\ {} \notin automaton.finalstates
         /\ \A x \in Interpretation : successor_digits(automaton, {}, x) = {}
<1>1. \A k \in Allocated : k \in Index /\ k # 0
  BY TypeFacts DEF IInv, Allocated
<1>2. \A k \in Allocated : {} # state2bin(k)
  BY <1>1, NoDigits, DigitsInjective
<1>3. {} \in Digits
  BY DEF Digits
<1>4. QED
  BY <1>2, <1>3 DEF IInv, Blank

LEMMA SuccessorIsNamed ==
  ASSUME IInv, Finished, pc = "done", NEW S \in DfaState, NEW d, Names(d, S),
         NEW x \in Interpretation
  PROVE  Names(successor_digits(automaton, d, x), next_state(S, x))
<1> USE DEF IInv
<1>1. Started /\ Built /\ pending = {} /\ to_be_visited = << >>
  BY DEF Phase, Finished
<1>2. CASE S = {} /\ d = {}
  <2>1. next_state({}, x) = {}
    BY DEF next_state
  <2>2. QED
    BY <1>1, <1>2, <2>1, SinkIsBlank DEF Names
<1>3. ASSUME NEW k \in Allocated, StandsFor(k, S), d = state2bin(k)
      PROVE  Names(successor_digits(automaton, d, x), next_state(S, x))
  <2>1. Processed(k, x)
    <3>1. current[2] = automaton.nb_states - 1
      BY <1>1, TypeFacts DEF Built, QueueIsLatest
    <3>2. QED
      BY <1>1, <3>1, TypeFacts DEF Processed, Allocated
  <2>2. /\ ~ NoSuccessor(S) => next_state(S, x) \in DOMAIN discovered
        /\ Agrees(k, S, x)
    BY <1>1, <1>3, <2>1 DEF Built, DigitsAgree
  <2>3. CASE NoSuccessor(S)
    <3>1. next_state(S, x) = {}
      BY <2>3 DEF NoSuccessor
    <3>2. successor_digits(automaton, d, x) = {}
      BY <1>3, <2>2, <2>3 DEF Agrees
    <3>3. QED
      BY <3>1, <3>2 DEF Names
  <2>4. CASE ~ NoSuccessor(S)
    <3> DEFINE T == next_state(S, x)
    <3>1. T \in DOMAIN discovered /\ successor_digits(automaton, d, x) = state2bin(discovered[T])
      BY <1>3, <2>1, <2>2, <2>4 DEF Agrees
    <3> HIDE DEF T
    <3>2. discovered[T] \in Allocated /\ StandsFor(discovered[T], T)
      BY <1>1, <3>1 DEF Built, IndexesAreNames, StandsFor
    <3>3. Names(successor_digits(automaton, d, x), T)
      BY <3>1, <3>2 DEF Names
    <3>4. QED
      BY <3>3 DEF T
  <2>5. QED
    BY <2>3, <2>4
<1>4. QED
  BY <1>2, <1>3 DEF Names

LEMMA EndsAreNamed ==
  ASSUME IInv, Finished, pc = "done", NEW word \in Words
  PROVE  Names(states_along(automaton, word)[Len(word)], Ends(word, Len(word)))
<1> DEFINE l == Len(word)
<1> DEFINE along == states_along(automaton, word)
<1> DEFINE P == {i \in Nat : Names(along[i], Ends(word, i))}
<1>1. Started /\ automaton.initial_state = 1 /\ automaton \in Automata /\ nfa \in Nfas
  BY DEF IInv, Types, Phase, Finished
<1>2. l \in Nat /\ \A i \in 1 .. l : word[i] \in Interpretation
  BY WordLetters
<1>3. /\ along[0] = state2bin(1)
      /\ \A i \in 1 .. l : along[i] = successor_digits(automaton, along[i - 1], word[i])
  <2>1. Len(word) = l
    OBVIOUS
  <2> HIDE DEF l
  <2>2. QED
    BY <1>1, <1>2, <2>1, AcceptsLoop
<1> HIDE DEF l, along
<1>4. 0 \in P
  <2>1. 1 \in Allocated /\ StandsFor(1, InitialState)
    BY <1>1, TypeFacts DEF IInv, Allocated, Started, StandsFor
  <2>2. Names(along[0], Ends(word, 0))
    BY <1>3, <2>1, EndsStart DEF Names
  <2>3. QED
    BY <2>2
<1>5. ASSUME NEW i \in 0 .. l - 1, i \in P PROVE i + 1 \in P
  <2>1. i \in Nat /\ i + 1 \in 1 .. l /\ (i + 1) - 1 = i
    BY <1>2
  <2>2. /\ word[i + 1] \in Interpretation
        /\ along[i + 1] = successor_digits(automaton, along[i], word[i + 1])
    BY <1>2, <1>3, <2>1
  <2>3. Ends(word, i) \in DfaState
    BY DEF Ends, DfaState
  <2>4. Ends(word, i + 1) = next_state(Ends(word, i), word[i + 1])
    BY <1>1, <2>1, <2>2, EndsStep
  <2>5. Names(along[i], Ends(word, i))
    BY <1>5
  <2>6. Names(along[i + 1], Ends(word, i + 1))
    BY <2>2, <2>3, <2>4, <2>5, SuccessorIsNamed
  <2>7. QED
    BY <2>1, <2>6
<1>6. \A i \in 0 .. l : i \in P
  <2> HIDE DEF P
  <2>1. P \in SUBSET Nat
    BY DEF P
  <2>2. QED
    BY <1>2, <1>4, <1>5, <2>1, InductionUpTo
<1>7. Names(along[l], Ends(word, l))
  BY <1>2, <1>6
<1>8. QED
  BY <1>7 DEF l, along

(* When to_dfa returns, of either strategy, accepts of the automaton it     *)
(* built is acceptance by a run of the NFA (dfa.cpp 292-309, naive.cpp      *)
(* 24-91, bdd/base.cpp 30-132).                                             *)
THEOREM LanguageIsKept == Spec => []LanguageAgrees
<1>1. ASSUME IInv, Finished PROVE LanguageAgrees
  <2> SUFFICES ASSUME pc = "done", NEW word \in Words
               PROVE  accepts(automaton, word) <=> NfaAccepts(word)
    BY DEF LanguageAgrees
  <2> DEFINE d == states_along(automaton, word)[Len(word)]
  <2> DEFINE S == Ends(word, Len(word))
  <2>1. Started /\ Built
    BY <1>1 DEF IInv, Phase
  <2>2. Names(d, S) /\ S \in DfaState
    BY <1>1, EndsAreNamed DEF Ends, DfaState
  <2>3. d \in automaton.finalstates <=> dfa_is_final(S)
    <3> HIDE DEF d, S
    <3>1. CASE S = {} /\ d = {}
      BY <1>1, <2>1, <3>1, SinkIsBlank DEF dfa_is_final
    <3>2. ASSUME NEW k \in Allocated, StandsFor(k, S), d = state2bin(k)
          PROVE  d \in automaton.finalstates <=> dfa_is_final(S)
      BY <2>1, <2>2, <3>2 DEF Built, FinalDigitsAgree
    <3>3. QED
      BY <2>2, <3>1, <3>2 DEF Names
  <2>4. NfaAccepts(word) <=> dfa_is_final(S)
    BY WordLetters, AcceptedIs
  <2>5. QED
    BY <2>3, <2>4 DEF accepts
<1>2. IInv /\ Finished => LanguageAgrees
  BY <1>1
<1>3. QED
  BY <1>2, FinishedInit, FinishedStep, Invariance, PTL DEF Spec
==============================================================================
