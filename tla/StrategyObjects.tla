--------------------------- MODULE StrategyObjects ---------------------------
(***************************************************************************)
(* The objects that outlive a call of to_dfa: the CUDD manager, to whose    *)
(* variables every automaton adds its own; the strategy, with its tables of *)
(* atoms and subformulas; and the automata that were built.  A BDD variable *)
(* is its index in the manager, the position under which Eval and the cubes *)
(* of CUDD know it, while the code counts positions of its own: 0 for the   *)
(* first digit of the state, nb_bits for the first proposition, and so on.  *)
(* A caller may use a manager and a strategy for one formula, as the tests  *)
(* of the symbolic strategies do, or for several: nothing in the code stops *)
(* it, and only the compositional strategy is made for it.                  *)
(***************************************************************************)
EXTENDS Integers, FiniteSets, FiniteSetsExt, SequencesExt

CONSTANTS
  NbAtoms,        \* the atoms are 1 .. NbAtoms, in the order of their names
  Subformulas,    \* the formulas quoted by delta_symbolic
  MaxBits,        \* max_nb_bits of a strategy, nb_bits of a file
  MaxAutomata     \* bound on the automata that a manager is used for

ASSUME BoundsAssumption ==
  NbAtoms \in Nat /\ MaxBits \in Nat /\ MaxAutomata \in Nat

Atoms == 1 .. NbAtoms

VARIABLES
  size,       \* the number of variables of the manager in use
  automata,   \* the automata built with the manager, the last one at the end
  strategy,   \* the strategy object in use
  atoms,      \* the atoms of the formula that the strategy last translated
  running     \* whether BDDStrategy::to_dfa is in its loop over the states

vars == <<size, automata, strategy, atoms, running>>

(* The symbolic strategies have a manager and max_nb_bits, the third has    *)
(* neither.                                                                 *)
Kinds == {"naive", "bdd"} \X (1 .. MaxBits) \union {<<"compositional", 0>>}

(* The tables of a strategy that nothing was translated with.               *)
NewStrategyOf(kind) ==
  [kind |-> kind[1], max_nb_bits |-> kind[2],
   atom2ids |-> <<>>, id2atoms |-> <<>>, indices |-> <<>>,
   subformula2id |-> <<>>, id2subformula |-> <<>>, subformula_bddvars |-> <<>>]

\* Mutant: CompositionalStrategy::reset that forgets the map.
reset_but_atom2ids(s) == [s EXCEPT !.id2atoms = <<>>, !.indices = <<>>]
reset(s) == [s EXCEPT !.atom2ids = <<>>, !.id2atoms = <<>>, !.indices = <<>>]

(* A set of atoms in the order of their names, as the loops go through it.  *)
in_order(as) ==
  CHOOSE s \in [1 .. Cardinality(as) -> as] :
    \A i, j \in 1 .. Cardinality(as) : i < j => s[i] < s[j]

\* Mutant: atom2ids.emplace(atom, index), which keeps the number of an atom
\* that an earlier formula had.
number_kept(s, as) ==
  LET ordered == in_order(as)
      ids == [a \in as |-> CHOOSE i \in 0 .. Cardinality(as) - 1 : ordered[i + 1] = a]
  IN  [s EXCEPT !.atom2ids = [a \in as \union DOMAIN @ |->
                                IF a \in DOMAIN s.atom2ids THEN s.atom2ids[a] ELSE ids[a]],
                !.id2atoms = @ \o ordered]
(* atom2ids[atom] = index, id2atoms.push_back(atom), for the atoms in order *)
number(s, as) ==
  LET ordered == in_order(as)
      ids == [a \in as |-> CHOOSE i \in 0 .. Cardinality(as) - 1 : ordered[i + 1] = a]
  IN  [s EXCEPT !.atom2ids = [a \in as \union DOMAIN @ |->
                                IF a \in as THEN ids[a] ELSE s.atom2ids[a]],
                !.id2atoms = @ \o ordered]

(* indices = 0, 1, ... as many as there are atoms in the map.               *)
with_indices(s) ==
  [s EXCEPT !.indices = [i \in 1 .. Cardinality(DOMAIN s.atom2ids) |-> i - 1]]

\* Mutant: the variables of the propositions are made before the digits'.
dfa_digits_last(base, bits, n) ==
  [nb_bits |-> bits,
   bddvars |-> [i \in 1 .. bits + n |->
                  base + (IF i <= bits THEN n + i - 1 ELSE i - bits - 1)]]
(* Both constructors call mgr.bddVar() once for each digit and proposition, *)
(* which adds a variable at the end of the manager.                         *)
dfa(base, bits, n) ==
  [nb_bits |-> bits, bddvars |-> [i \in 1 .. bits + n |-> base + i - 1]]

automaton == Last(automata)
nb_variables == Len(automaton.bddvars) - automaton.nb_bits

Build(bits, n) ==
  /\ Len(automata) < MaxAutomata
  /\ automata' = Append(automata, dfa(size, bits, n))
  /\ size' = size + bits + n

-----------------------------------------------------------------------------
Init ==
  /\ size = 0
  /\ automata = <<>>
  /\ strategy \in {NewStrategyOf(kind) : kind \in Kinds}
  /\ atoms = {}
  /\ running = FALSE

(* The caller makes another strategy object for the manager it has ...      *)
NewStrategy(kind) ==
  /\ strategy' = NewStrategyOf(kind)
  /\ atoms' = {}
  /\ running' = FALSE
  /\ UNCHANGED <<size, automata>>

(* ... or a new manager too, as each test does.                             *)
NewManager(kind) ==
  /\ size' = 0
  /\ automata' = <<>>
  /\ strategy' = NewStrategyOf(kind)
  /\ atoms' = {}
  /\ running' = FALSE

(* NaiveStrategy::to_dfa and BDDStrategy::to_dfa, up to the automaton; only *)
(* the second keeps the numbers of the atoms, and no table is ever emptied. *)
ToSymbolicDfa(as) ==
  /\ strategy.kind # "compositional"
  /\ Build(strategy.max_nb_bits, Cardinality(as))
  /\ strategy' = IF strategy.kind = "bdd" THEN number(strategy, as) ELSE strategy
  /\ atoms' = as
  /\ running' = (strategy.kind = "bdd")

(* CompositionalStrategy::to_dfa, up to the visitor, which has no use for   *)
(* the caller's manager.                                                    *)
ToComposedDfa(as) ==
  /\ strategy.kind = "compositional"
  /\ strategy' = with_indices(number(reset(strategy), as))
  /\ atoms' = as
  /\ running' = FALSE
  /\ UNCHANGED <<size, automata>>

(* dfa::read_from_file with the manager in use.                             *)
ReadFile(bits, n) ==
  /\ Build(bits, n)
  /\ running' = FALSE
  /\ UNCHANGED <<strategy, atoms>>

(* BDDDeltaSymbolicVisitor: the variable of a quoted formula, made when the *)
(* formula is met for the first time.                                       *)
\* Mutant: the identifier is taken after the formula was added to the map.
subformula_id_after(s) == Cardinality(DOMAIN s.subformula2id) + 1
subformula_id(s) == Cardinality(DOMAIN s.subformula2id)

VisitQuoted(f) ==
  /\ running
  /\ f \notin DOMAIN strategy.subformula2id
  /\ strategy' =
       [strategy EXCEPT
          !.subformula2id = [g \in DOMAIN @ \union {f} |->
                               IF g = f THEN subformula_id(strategy) ELSE @[g]],
          !.id2subformula = Append(@, f),
          !.subformula_bddvars = Append(@, size)]
  /\ size' = size + 1
  /\ UNCHANGED <<automata, atoms, running>>

(* The variable that the visitor returns for an atom and for a formula.     *)
VariableOfAtom(a) == automaton.bddvars[automaton.nb_bits + strategy.atom2ids[a] + 1]
VariableOfFormula(f) == strategy.subformula_bddvars[strategy.subformula2id[f] + 1]

\* Mutant: the digits of the state are forgotten in the sum.
nb_all_variables_but_bits == nb_variables + Len(strategy.id2subformula)
nb_all_variables == Len(automaton.bddvars) + Len(strategy.id2subformula)

(* What next_transitions(NFAState) reads from a prime of the successor      *)
(* function, which says of each of the manager's variables 0, 1, or 2 for   *)
(* nothing: the values of the propositions' variables and the next state.   *)
read_prime(cube) ==
  LET nb_automaton_variables == Len(automaton.bddvars)
  IN  [symbol |->
         {<<automaton.bddvars[i + 1], cube[i]>> :
            i \in {j \in automaton.nb_bits .. nb_automaton_variables - 1 : cube[j] # 2}},
       next_state |->
         {strategy.id2subformula[i - nb_automaton_variables + 1] :
            i \in {j \in nb_automaton_variables .. nb_all_variables - 1 : cube[j] = 1}}]

Next ==
  \/ \E kind \in Kinds : NewStrategy(kind) \/ NewManager(kind)
  \/ \E as \in SUBSET Atoms : ToSymbolicDfa(as) \/ ToComposedDfa(as)
  \/ \E bits \in 1 .. MaxBits, n \in 1 .. NbAtoms : ReadFile(bits, n)
  \/ \E f \in Subformulas : VisitQuoted(f)

Spec == Init /\ [][Next]_vars

-----------------------------------------------------------------------------
(* The primes of functions of the formula's atoms and the quoted formulas,  *)
(* and what a prime says of them.                                           *)
Primes ==
  LET given == {VariableOfAtom(a) : a \in atoms}
                 \union {VariableOfFormula(f) : f \in DOMAIN strategy.subformula2id}
  IN  {[v \in 0 .. size - 1 |-> IF v \in given THEN c[v] ELSE 2] : c \in [given -> 0 .. 2]}

Meaning(cube) ==
  [symbol |-> {<<VariableOfAtom(a), cube[VariableOfAtom(a)]>> :
                 a \in {b \in atoms : cube[VariableOfAtom(b)] # 2}},
   next_state |-> {f \in DOMAIN strategy.subformula2id : cube[VariableOfFormula(f)] = 1}]

(* An atom or a quoted formula that has a number has a variable of the      *)
(* manager, and no two of them have the same (delta_bdd.cpp:29-52 indexes   *)
(* its vectors with the numbers).                                           *)
TypeOK ==
  /\ size \in Nat /\ Len(automata) \in 0 .. MaxAutomata
  /\ <<strategy.kind, strategy.max_nb_bits>> \in Kinds
  /\ atoms \subseteq Atoms
  /\ running => strategy.kind = "bdd" /\ automata # <<>>
  /\ \A i \in DOMAIN automata : ToSet(automata[i].bddvars) \subseteq 0 .. size - 1
  /\ strategy.kind = "bdd" =>
       /\ IsInjective(strategy.subformula_bddvars)
       /\ \A f \in DOMAIN strategy.subformula2id :
            /\ strategy.subformula2id[f] + 1 \in DOMAIN strategy.subformula_bddvars
            /\ VariableOfFormula(f) \in 0 .. size - 1

(* dfa::get_successor and is_final give Eval an array with the digits first *)
(* and the propositions after them, in which Eval looks a variable up under *)
(* its index in the manager.  For the first automaton of a manager that is  *)
(* the variable's own place, whatever the manager is used for later; in any *)
(* other automaton each variable is looked up in a place not its own.       *)
EvalReadsOnlyTheFirst ==
  \A i \in DOMAIN automata :
    \A j \in DOMAIN automata[i].bddvars : automata[i].bddvars[j] = j - 1 <=> i = 1

(* While a formula is translated into the first automaton of a manager,     *)
(* next_transitions reads every prime by position as what it says, however  *)
(* many formulas were quoted.  When the strategy, or only the manager, is   *)
(* used again for a formula that has atoms, some prime is misread: the      *)
(* positions start from 0 and the variables do not.                         *)
PrimeIsReadBack ==
  running =>
    /\ Len(automata) = 1 => \A cube \in Primes : read_prime(cube) = Meaning(cube)
    /\ Len(automata) > 1 /\ atoms # {} =>
         \E cube \in Primes : read_prime(cube) # Meaning(cube)

(* After any number of formulas, a strategy numbers the atoms of the last   *)
(* one from 0 in their order, which is the order of the names that mona_dfa *)
(* prints and of the propositions' variables.  In a BDDStrategy the numbers *)
(* of the atoms of earlier formulas stay in the map; the compositional one, *)
(* which resets it, has no other and projects exactly these indices.        *)
IndicesAreThoseOfTheFormula ==
  /\ strategy.kind # "naive" =>
       /\ atoms \subseteq DOMAIN strategy.atom2ids
       /\ {strategy.atom2ids[a] : a \in atoms} = 0 .. Cardinality(atoms) - 1
       /\ \A a, b \in atoms : a < b => strategy.atom2ids[a] < strategy.atom2ids[b]
  /\ strategy.kind = "compositional" =>
       /\ DOMAIN strategy.atom2ids = atoms
       /\ \A a \in atoms : strategy.id2atoms[strategy.atom2ids[a] + 1] = a
       /\ Len(strategy.indices) = Cardinality(atoms)
=============================================================================
