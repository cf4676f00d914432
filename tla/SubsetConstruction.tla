-------------------------- MODULE SubsetConstruction --------------------------
(***************************************************************************)
(* What a strategy promises when it turns a nondeterministic automaton into *)
(* a deterministic one: it explores sets of states, only sets it has        *)
(* reached, in any order, and is done only when every set it has reached    *)
(* has been explored under every symbol.  The empty set rejects every word, *)
(* and need not be explored.                                                *)
(***************************************************************************)
CONSTANT Symbols

VARIABLES
  initial,     \* the input: the set of states every word starts from
  successor,   \* the input: the successor of a set of states under a symbol
  explored,    \* the pairs (set of states, symbol) explored so far
  done

vars == <<initial, successor, explored, done>>

Reached == {initial} \union {successor[p[1]][p[2]] : p \in explored}

Init == explored = {} /\ done = FALSE

Explore(S, symbols) ==
  /\ ~ done
  /\ S \in Reached
  /\ explored' = explored \union ({S} \X symbols)
  /\ UNCHANGED <<initial, successor, done>>

Finish ==
  /\ (Reached \ {{}}) \X Symbols \subseteq explored
  /\ done' = TRUE
  /\ UNCHANGED <<initial, successor, explored>>

Next ==
  \/ \E S \in Reached, symbols \in SUBSET Symbols : Explore(S, symbols)
  \/ Finish

Spec == Init /\ [][Next]_vars
==============================================================================
