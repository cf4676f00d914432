---------------------------- MODULE Determinization ----------------------------
(***************************************************************************)
(* The worklist of NaiveStrategy::to_dfa and BDDStrategy::to_dfa, which     *)
(* build the same deterministic automaton on the fly.  Both explore sets of *)
(* NFA states breadth first and write what they find in a symbolic          *)
(* automaton that can hold 2^nb_bits states.  They differ in the            *)
(* transitions they take: one for every interpretation, or one for every    *)
(* set of NFA states with the interpretations that lead to it.              *)
(*                                                                          *)
(* The NFA is an input: what the delta function computes for the formulas   *)
(* of a state.  Interpretations are taken in any order.                     *)
(***************************************************************************)
EXTENDS SymbolicDfa

CONSTANTS
  NfaStates,      \* NFAState: the sets of formulas that delta can reach
  InitialNfa,     \* the set that holds the input formula only
  BitBudgets,     \* the values of max_nb_bits
  MaxWord         \* bound: the length of the words the language is compared on

ASSUME InputAssumption ==
  /\ InitialNfa \in NfaStates
  /\ BitBudgets \subseteq 0 .. MaxBits
  /\ MaxWord \in Nat

VARIABLES
  strategy,       \* which strategy runs
  nfa,            \* the input
  automaton,      \* the symbolic automaton under construction
  discovered,     \* the index given to each set of NFA states found so far
  to_be_visited,  \* the queue of pairs <<set of NFA states, index>>
  current,        \* the pair being visited
  pending,        \* its transitions <<guard, next state>> not yet added
  pc

vars == <<strategy, nfa, automaton, discovered, to_be_visited, current, pending, pc>>

Nfas == [delta : [NfaStates -> [Interpretation -> SUBSET NfaStates]],
         final : SUBSET NfaStates]

DfaState == SUBSET NfaStates
InitialState == {InitialNfa}

\* Only NFA states that are all final make a set final.
dfa_is_final_all(S) == S \subseteq nfa.final
dfa_is_final(S) == \E n \in S : n \in nfa.final

next_state(S, x) == UNION {nfa.delta[n][x] : n \in S}

naive_transitions(S) ==
  {<<guard(symbol_of(x, FALSE)), next_state(S, x)>> : x \in Interpretation}

(* No transition when no NFA state has a successor; otherwise one for every *)
(* combination of successors whose label is not the zero BDD.               *)
Label(S, T) == {x \in Interpretation : next_state(S, x) = T}
bdd_transitions(S) ==
  IF \A x \in Interpretation : next_state(S, x) = {} THEN {}
  ELSE {<<Label(S, next_state(S, x)), next_state(S, x)>> : x \in Interpretation}

next_transitions(S) ==
  IF strategy = "naive" THEN naive_transitions(S) ELSE bdd_transitions(S)

-----------------------------------------------------------------------------
Init ==
  /\ strategy \in {"naive", "bdd"}
  /\ nfa \in Nfas
  /\ \E bits \in BitBudgets : automaton = new_dfa(bits)
  /\ discovered = [S \in {} |-> 0]
  /\ to_be_visited = << >>
  /\ current = <<InitialState, 0>>
  /\ pending = {}
  /\ pc = "start"

WithFinal(a, S, k) == IF dfa_is_final(S) THEN set_final_state(a, k, TRUE) ELSE a

(* The initial state gets index 1, but is not put in discovered.            *)
Start ==
  /\ pc = "start"
  /\ ~ add_state_throws(automaton)
  /\ automaton' = WithFinal(set_initial_state(add_state(automaton), 1), InitialState, 1)
  /\ to_be_visited' = << <<InitialState, 1>> >>
  /\ pc' = "loop"
  /\ UNCHANGED <<strategy, nfa, discovered, current, pending>>

\* The pair is visited, but stays in the queue.
VisitKeeping ==
  /\ pc = "loop"
  /\ pending = {}
  /\ to_be_visited # << >>
  /\ current' = Head(to_be_visited)
  /\ pending' = next_transitions(Head(to_be_visited)[1])
  /\ UNCHANGED <<strategy, nfa, automaton, discovered, to_be_visited, pc>>

Visit ==
  /\ pc = "loop"
  /\ pending = {}
  /\ to_be_visited # << >>
  /\ current' = Head(to_be_visited)
  /\ to_be_visited' = Tail(to_be_visited)
  /\ pending' = next_transitions(Head(to_be_visited)[1])
  /\ UNCHANGED <<strategy, nfa, automaton, discovered, pc>>

\* The new set is not recorded as discovered, like the initial state.
DiscoverForgetting(t) ==
  LET k == automaton.nb_states
  IN  /\ pc = "loop"
      /\ t[2] \notin DOMAIN discovered
      /\ ~ add_state_throws(automaton)
      /\ automaton' = add_transition(WithFinal(add_state(automaton), t[2], k),
                                     current[2], t[1], k)
      /\ to_be_visited' = Append(to_be_visited, <<t[2], k>>)
      /\ pending' = pending \ {t}
      /\ UNCHANGED <<strategy, nfa, discovered, current, pc>>

(* A transition to a set that is not discovered yet, which gets an index.   *)
Discover(t) ==
  LET k == automaton.nb_states
  IN  /\ pc = "loop"
      /\ t[2] \notin DOMAIN discovered
      /\ ~ add_state_throws(automaton)
      /\ automaton' = add_transition(WithFinal(add_state(automaton), t[2], k),
                                     current[2], t[1], k)
      /\ discovered' = [S \in DOMAIN discovered \union {t[2]} |->
                          IF S = t[2] THEN k ELSE discovered[S]]
      /\ to_be_visited' = Append(to_be_visited, <<t[2], k>>)
      /\ pending' = pending \ {t}
      /\ UNCHANGED <<strategy, nfa, current, pc>>

(* A transition to a set that has an index.                                 *)
Revisit(t) ==
  /\ pc = "loop"
  /\ t[2] \in DOMAIN discovered
  /\ automaton' = add_transition(automaton, current[2], t[1], discovered[t[2]])
  /\ pending' = pending \ {t}
  /\ UNCHANGED <<strategy, nfa, discovered, to_be_visited, current, pc>>

(* add_state throws, and the exception leaves to_dfa.                       *)
Overflow ==
  /\ \/ pc = "start"
     \/ pc = "loop" /\ \E t \in pending : t[2] \notin DOMAIN discovered
  /\ add_state_throws(automaton)
  /\ pc' = "failed"
  /\ UNCHANGED <<strategy, nfa, automaton, discovered, to_be_visited, current, pending>>

\* The loop ends with the last transition of the visited set.
ReturnEarly ==
  /\ pc = "loop"
  /\ pending = {}
  /\ pc' = "done"
  /\ UNCHANGED <<strategy, nfa, automaton, discovered, to_be_visited, current, pending>>

Return ==
  /\ pc = "loop"
  /\ pending = {}
  /\ to_be_visited = << >>
  /\ pc' = "done"
  /\ UNCHANGED <<strategy, nfa, automaton, discovered, to_be_visited, current, pending>>

Next ==
  \/ Start
  \/ Visit
  \/ \E t \in pending : Discover(t) \/ Revisit(t)
  \/ Overflow
  \/ Return

(* A sequential program: it runs as long as it can.                         *)
Spec == Init /\ [][Next]_vars /\ WF_vars(Next)

-----------------------------------------------------------------------------
Types ==
  /\ strategy \in {"naive", "bdd"}
  /\ nfa \in Nfas
  /\ automaton \in Automata
  /\ \E D \in SUBSET DfaState : discovered \in [D -> Index]
  /\ to_be_visited \in Seq(DfaState \X Index)
  /\ current \in DfaState \X Index
  /\ pending \subseteq (SUBSET Interpretation) \X DfaState
  /\ pc \in {"start", "loop", "done", "failed"}

(* The digits of every allocated state fit in the nb_bits of the automaton. *)
Fits ==
  \A k \in States(automaton) : state2bin(k) \subseteq 0 .. automaton.nb_bits - 1

(* Every variable keeps its type, and no index is handed out that the bits  *)
(* of the automaton cannot name (add_state, dfa.cpp 311-328).               *)
TypeOK == Types /\ Fits

(* Index k of the automaton stands for the set S of NFA states.             *)
StandsFor(k, S) ==
  \/ k = 1 /\ S = InitialState
  \/ S \in DOMAIN discovered /\ discovered[S] = k

Allocated == 1 .. automaton.nb_states - 1

(* The loops have dealt with interpretation x in the state of index k.      *)
Processed(k, x) ==
  \/ k < current[2]
  \/ k = current[2] /\ \A t \in pending : x \notin t[1]

(* Every index but the sink's stands for exactly one set, and no two        *)
(* discovered sets share one: the only set that may have two indexes is the *)
(* initial state, which to_dfa forgets to put in discovered (naive.cpp      *)
(* 52-79, bdd/base.cpp 55-81).                                              *)
IndexesAreNames ==
  /\ \A k \in Allocated : \E S \in DfaState : StandsFor(k, S)
  /\ \A S \in DOMAIN discovered : discovered[S] \in Allocated \ {1}
  /\ \A S, T \in DOMAIN discovered : discovered[S] = discovered[T] => S = T

(* The queue holds the latest indexes, oldest first, each with the set it   *)
(* stands for, and the state being visited is the one just before them:     *)
(* no index is skipped, visited twice or visited under another's name.      *)
QueueIsLatest ==
  /\ current[2] + Len(to_be_visited) = automaton.nb_states - 1
  /\ \A i \in DOMAIN to_be_visited :
       /\ to_be_visited[i][2] = current[2] + i
       /\ StandsFor(to_be_visited[i][2], to_be_visited[i][1])
  /\ current[2] > 0 => StandsFor(current[2], current[1])

(* The bits OR-ed into the roots spell, for every index and interpretation, *)
(* the index of the successor set once it has been processed, and the sink  *)
(* until then.  Only the BDD strategy may leave the sink there for good, in *)
(* a state with no successor at all.                                        *)
NoSuccessor(S) == strategy = "bdd" /\ \A x \in Interpretation : next_state(S, x) = {}
SuccessorsAgree ==
  \A k \in Allocated, S \in DfaState, x \in Interpretation : StandsFor(k, S) =>
    LET d == get_successor(automaton, k, x)
    IN  IF Processed(k, x) /\ ~ NoSuccessor(S)
          THEN next_state(S, x) \in DOMAIN discovered /\ discovered[next_state(S, x)] = d
          ELSE d = 0

(* An index is final iff the set it stands for is, and the sink never is.   *)
FinalsAgree ==
  /\ \A k \in Allocated, S \in DfaState :
       StandsFor(k, S) => (is_final(automaton, k) <=> dfa_is_final(S))
  /\ ~ is_final(automaton, 0)
  /\ \A x \in Interpretation : get_successor(automaton, 0, x) = 0

Started == automaton.nb_states > 1
Simulation ==
  Started => IndexesAreNames /\ QueueIsLatest /\ SuccessorsAgree /\ FinalsAgree

(* When to_dfa returns, accepts() of the automaton it built is acceptance   *)
(* by a run of the NFA, on every word of at most MaxWord interpretations.   *)
Words == UNION {[1 .. n -> Interpretation] : n \in 0 .. MaxWord}
NfaAccepts(word) ==
  \E run \in [1 .. Len(word) + 1 -> NfaStates] :
    /\ run[1] = InitialNfa
    /\ \A i \in 1 .. Len(word) : run[i + 1] \in nfa.delta[run[i]][word[i]]
    /\ run[Len(word) + 1] \in nfa.final
LanguageAgrees ==
  pc = "done" => \A word \in Words : accepts(automaton, word) <=> NfaAccepts(word)

(* to_dfa gives up only if the sets the input can reach, with the sink and  *)
(* the initial state, really need more than 2^nb_bits indexes: the initial  *)
(* state is the only one that costs an index too many (dfa.cpp 311-328).    *)
Step(R) == {t[2] : t \in UNION {next_transitions(S) : S \in R \union {InitialState}}}
ReachedSets == {S \in DfaState : \A R \in SUBSET DfaState : Step(R) \subseteq R => S \in R}
FailsOnlyWhenFull ==
  pc = "failed" => 2 + Cardinality(ReachedSets) > pow2[automaton.nb_bits]

(* to_dfa never runs on forever: it returns, or throws.                     *)
Terminates == <>(pc \in {"done", "failed"})

(* Both strategies are the subset construction: every step explores a set   *)
(* that was reached, and they return only when no reached set is left.      *)
Construction == INSTANCE SubsetConstruction WITH
  Symbols <- Interpretation, initial <- InitialState,
  successor <- [S \in DfaState |-> [x \in Interpretation |-> next_state(S, x)]],
  explored <- {p \in DfaState \X Interpretation :
                 \E k \in Allocated : StandsFor(k, p[1]) /\ Processed(k, p[2])},
  done <- (pc = "done")
ImplementsSubsetConstruction == Construction!Spec
==============================================================================
