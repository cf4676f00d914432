# Lydia in TLA+

Lydia translates formulas of LTLf and LDLf (temporal logics over finite words) into
deterministic automata. This directory holds TLA+ models of the translation, TLC
configurations that check them on small instances, and proofs that hold for all
instances. Paths below are relative to the repository (`lib/src/...`).

## The system

Lydia is one sequential C++ program. `app/lydia/src/main.cpp` parses a formula, turns LTLf
into LDLf, and hands it to a `Translator` that holds one of three strategies.

| component | state it keeps | operations | hard behaviour | what makes it correct |
|---|---|---|---|---|
| symbolic dfa (`dfa/dfa.cpp`) | bits, number of states, initial state, one BDD per bit of the successor, a BDD of the final states | `add_state`, `set_initial_state`, `set_final_state`, `add_transition`, `get_successor`, `is_final`, `accepts`, `read_from_file` | transitions are only ever OR-ed into shared BDDs; a state is a number, and its digits have to fit; variables are those of a manager that others use too | it is the transition table the caller thinks it builds, or the automaton of the file |
| naive strategy (`to_dfa/strategies/naive.cpp`) | the queue, the discovered sets and their indexes, the automaton | `to_dfa` | a set is numbered when found and written when visited; the automaton may be full | the subset construction; same language as the formula |
| bdd strategy (`to_dfa/strategies/bdd/base.cpp`) | the same, and tables of atoms and subformulas kept between calls | `to_dfa`, `next_transitions` | transitions by label instead of by interpretation; states with no successor; stale tables; primes read by position | the same automaton as the naive strategy, up to the sink |
| compositional strategy (`.../compositional/base.cpp`) | DFA handles owned by visitors, atoms | one visitor per operator | every handle freed once; early exits | the language of the operator |
| star construction (`.../compositional/star.cpp`) | states found breadth first, guards, auxiliary propositions | `star` | alternation encoded in extra propositions, guards that should have a common length, projected again | the language of the starred expression |
| universal projection (`mona_ext/project.cpp`) | the table of sets, lazily computed BDDs, the list of reached sets | `dfaUniversalProject` | hash-consing, laziness, recursion through recorded decompositions, two numberings | accepts a word iff the input does for all values of the proposition |
| mona extensions (`mona_ext/mona_ext_base.cpp`) | - | concatenation, closure, next, sinks | encoded nondeterminism with one extra proposition | the operation on languages |
| delta, normal forms, evaluation (`to_dfa/delta*.cpp`, `nnf.cpp`, `logic/`) | - | recursive functions on formulas | duality, end of word, tests | the semantics of LDLf and LTLf |
| ast manager (`ast/`), comparison of nodes (`basic.cpp`, `compare.hpp`, `logic/*/base.cpp`) | the table of formulas | `make*`; `is_equal`, `compare` | a call returns an older object that compares equal; equality and order are separate recursions, and sets of formulas need both | one object per formula, which stands for the formula asked for; one order |
| mona automaton wrapper (`dfa/mona_dfa.cpp`) | an automaton of MONA | `get_successor`, `is_final`, `export_dfa`, the destructor | a file format whose lines are told apart by words in them | what is read back is the automaton that was written |
| command line (`app/lydia/src/main.cpp`) | the parsed formula, the pointer that is translated | `--logic`, `--no-empty`, the call of the translator | the options change the formula after its translation; a logic for which the pointer is never set | the automaton of the formula and the options |
| parsers, logger | - | generated code, I/O, printing | - | - |
| external: MONA, CUDD, Syft+, CLI11, spdlog | - | - | - | modelled where the code uses them |

Interaction is by calls. There is no concurrency or communication, and nothing is persisted
but files that are written and read as a whole, so the hazards are of other kinds: a long
sequence of legal calls that writes a wrong automaton, an index or an identifier that is
stale or counted wrongly, data computed in one order and read in another, tables that
outlive the call they were filled for, an object freed while another still uses it, a
resource that runs out in the middle. `PROJECT.json` lists them at their lines.

## Modules

| module | models | state and actions |
|---|---|---|
| `SymbolicDfa` | `dfa.cpp`, digits (`strings.cpp`, `misc.hpp`) | no state: the automaton is a record, every method an operator of the same name. A BDD is the set of its satisfying assignments, the digits of a state the set of its non-zero positions |
| `DfaContract` | the interface `abstract_dfa.hpp` | abstract: an explicit transition table |
| `DfaClient` | a caller of `dfa.cpp` | `automaton`; one action per method, `Throw` for `std::invalid_argument` |
| `MonaFile` | `mona_dfa.cpp`, `dfa::read_from_file`, `construct_bdd_from_mona`, `try_get` | MONA's automaton as a table of shared BDD nodes; `file` (the lines to be read) and `reader` (the local variables); `ReadLine`, `Construct`, and `Read`, one letter in both automata |
| `StrategyObjects` | what outlives a call of `to_dfa` | the size of the CUDD manager, its automata and their variables, the tables of the strategy; `NewStrategy` on the same manager, `NewManager`, `ToSymbolicDfa`, `ToComposedDfa`, `ReadFile`, `VisitQuoted` (a formula met by `delta_symbolic`); `read_prime` is what `next_transitions` reads from a cube |
| `SubsetConstruction` | what a strategy promises | abstract: the pairs (set of states, symbol) explored |
| `Determinization` | both `to_dfa` worklists | `Start` (before the loop), `Visit` (pop), `Discover` and `Revisit` (the two branches of the inner loop), `Overflow` (the exception of `add_state`), `Return` |
| `UniversalProject` | `project.cpp` | `Join` (`proj_term1`, `proj_term2`, `make_sset`), `Complete`, `Evaluate` and `Recur` (`eval_bdd` with its call stack), `Number` (`proj_term3`), `VisitNext`, `Return` |
| `Formulas` | nodes and their makers (`ast/pl.cpp`, `ast/ltlf.cpp`, `ast/ldlf.cpp`, `ast/regex.cpp`, what `ast/base.hpp` flattens and simplifies) | no state: a formula is a tree, a maker an operator |
| `Propositional` | `logic/pl/` | no state: functions and visitors are operators |
| `Ldlf` | `logic/ldlf/base.cpp` (duals), `nnf.cpp`, `atom_visitor.cpp`, composite nodes of the LDLf driver | no state |
| `Delta` | `delta.cpp`, `delta_symbolic.cpp`, the next states of the naive and the bdd strategy | no state; `PrimeCovers` leaves open which primes CUDD enumerates |
| `LdlfSemantics`, `LtlfSemantics` | nothing of the code: the meaning of formulas on a finite word, and the normal form | reference definitions |
| `Progression` | both symbolic strategies on one word | `formula`, `word`, the states `naive` and `bdd`; `Read` is one transition of both automata |
| `Ltlf` | `nnf.cpp` and `duality.cpp`, `to_ldlf.cpp` | no state |
| `Mona` | the automata of MONA as its callers see them (external) | no state: an automaton is a table |
| `MonaExt` | `mona_ext_base.cpp` | no state |
| `Compositional` | `compositional/base.cpp`, `delta_compositional.cpp`, `star.cpp` | no state: what a visitor leaves in `result` |
| `Composition` | from a formula to an automaton and its runs, as the command line or a program that calls `Translator::to_dfa` | `ldlf_parsed_formula` (a pointer), `my_dfa`, `next` (what the program does next); `ToLdlf`, `NoEmpty`, `Crash` (the null pointer is dereferenced), `ToDfa`, and `Read`, a transition of the automaton |
| `DfaHandles` | the same strategy, as far as it allocates and frees automata: `compositional/base.cpp`, `base.hpp`, `star.cpp`, `mona_ext_base.cpp` | `stack` (the calls, with their variables and what they still have to do) and `live` (allocated automata). Every function is a program of a few statements; one action per kind of statement, and `Again` for the next formula |
| `AstManager` | `ast/`, `basic.cpp`, `compare.hpp`, the classes of `logic/*/base.cpp` | `heap` (objects), `table`, and what a client has (`given`); one action per kind of constructor, with one entry of `unary` or `binary` per class that only copies its arguments |
| `MC...` | inputs and formulas of bounded depth for the modules above; `MCLtlfFormulas` is used by `MCComposition` | |
| `SymbolicDfaProofs` | lemmas about loops written as recursive functions, binary digits and the methods of `SymbolicDfa` | |
| `DfaClientProofs`, `DeterminizationProofs`, `UniversalProjectProofs`, `StrategyObjectsProofs`, `MonaFileProofs`, `DfaHandlesProofs`, `AstManagerProofs` | theorems about the modules they are named for | |

`Determinization` EXTENDS `SymbolicDfa`: the worklists write a real bit-level automaton, and
`MonaFile` reads one. `Ltlf` EXTENDS `Ldlf`, `Propositional` and `Formulas`; `AstManager` EXTENDS `Formulas`
alone, for the trees that its objects should stand for. `DfaClient` refines `DfaContract`; `Determinization` and
`UniversalProject` both refine `SubsetConstruction`. `Determinization` covers the worklists for any NFA,
`Progression` the NFAs that come from formulas. `Mona` takes `dfaUniversalProject` at its
result, which `UniversalProject` shows of the code. `Composition` composes the translation
of LTLf, the normal form, the compositional strategy and MONA's operations.

Abstractions. In `Determinization` the transitions of the NFA come from `delta`, which
is another component: there they are an input, any function at all. The two strategies then
differ only in the transitions they enumerate. Interpretations, and the leaves of a BDD,
are taken in any order, where the code has the order of its containers and of MONA. The
memory of the universal projection (growing `ssets`, freeing lists) is not modelled. Formulas are compared
by value: the table that shares nodes, and the order of their containers, are only visible in
`AstManager`, whose properties say that the others may leave them out. It leaves out hashes, because
`compute_hash` (`ast/base.hpp:39`) returns a `bool`, so that the table has one bucket.
In `MonaExt` and `Compositional` the letters stand for the paths through a BDD, so that a
guard fixes every proposition. `DeltaCompositional` represents a BDD without negations by its
primes. The atoms of all formulas of `Composition` are the same, `id2atoms`; a proposition
that a formula does not mention is ignored by every automaton. `past` is what MONA reads
behind the end of a guard that is too short, and only `star_guards` has such guards.
`DfaHandles` leaves out formulas and automata: a call visits any formula of its family, and
any automaton may turn out to be a sink, so that every early exit happens. In
`StrategyObjects` formulas are names, and a cube gives each variable that a quoted formula or
an atom has any of its three values; the manager has no variables but those of automata and
strategies. In `MonaFile` the table `tBDD`, which the code fills out of the order of its loop and takes a
filled entry of as it is (`dfa.cpp:91-94`, `139-185`), is a function of the nodes: an entry depends on the
node and its children only, so no order gives another. A line is a key (with `_` for a blank) and its
fields; the text of a name is the set of keywords it contains.

Fairness. Each model is one sequential program that runs as long as it can, so `WF_vars(Next)`
is what the processor gives; the callers in `DfaClient`, `StrategyObjects` and `AstManager` may stop
at any time and get none. Programs that end deadlock in their last state, and their runs
say `CHECK_DEADLOCK FALSE`. `DfaHandles` and `MonaFile` never end, and their runs
check for deadlock as well: no statement of the strategy, and no line of a file, is stuck.

## Runs

| run | instance | shows |
|---|---|---|
| `symbolic_dfa` | 2 bits (4 states), 1 proposition, 2 pairs of a state and an interpretation given a transition | a disciplined caller gets the transition table of the interface (`ImplementsContract`), and no run leaves the allocated states, even through transitions nobody added (`RunsStayAllocated`) |
| `set_not_final` | the same, any caller | a counterexample: `set_final_state(s, false)` makes all other states final |
| `determinization` | every NFA with 2 states over 1 proposition, every set of final states, room for 1, 2, 4 or 8 states, words of length up to 3 | the automaton is the subset construction at every step (`Simulation`), the language is that of the NFA, `to_dfa` ends, and throws only when the sets do not fit (`FailsOnlyWhenFull`) |
| `universal_project` | 3 states, any transitions when the other proposition is false, 2 permutations when it is true, 2 status vectors, words up to length 3 | `HashConsed`, `RecursionDescends`, `BddsAreUnions`, `ListIsNumbered` for the data structures, `ResultIsUniversal` for the language, refinement of the subset construction, termination |
| `progression` | 2 atoms (3 in some formulas); propositional expressions, tests, unions and sequences of two, their stars, a star of a star, sequences of three; diamonds and boxes over four bodies and their negations; words up to length 3 | both strategies accept exactly the words that satisfy the formula (`NaiveAgrees`, `BddAgrees`), and their states are formulas `delta` is defined for |
| `negations_of_atoms` | implications and equivalences in an expression | a counterexample: the normal form of `<(a & b) -> c>tt` negates a conjunction, which the compositional strategy excludes by an assertion |
| `composition` | 2 atoms; for the library, expressions as in `progression` with tests of the first letter and of the whole rest, stars with one test, two alternatives or a star inside; for the command line, LTLf operators nested up to three deep, with and without `--no-empty`; words up to length 3 | for stars whose states have guards of the same length, the automaton accepts exactly the words that satisfy the LDLf formula (`ComposedAgrees`; `star_guards` has the other stars), and is over the propositions only; with LTLf it accepts the words that the LTLf formula means, for either value of the option (`DecidesLtlf`), the option rejects the empty word (`EmptyIsRejected`), and `to_nnf` before `to_ldlf` changes nothing, not even on the empty word (`NormalFormAgrees`) |
| `star_guards` | one star whose states have three and two alternatives | a counterexample: with guards of different lengths `star` builds the automaton of another language |
| `dfa_handles` | calls nested up to five deep, three members at the first level and two below, up to two tests of a star; the allocator returns the lowest free address, so that addresses are reused at once | no statement reads or frees an automaton that is not allocated (`UsesAreAllocated`), every allocated automaton is held by an active call (`NothingLeaks`), and a visitor of expressions has its body back when a visit returns (`BodyStays`) |
| `strategy_objects` | 3 atoms, 2 quoted formulas, 2 bits, 3 automata of a manager, by any strategies or from files, in any order | `Eval` reads the first automaton of a manager as what was built, whatever follows, and no later one (`EvalReadsOnlyTheFirst`); primes are read back while the first is built, and some are misread after it (`PrimeIsReadBack`); the atoms of the last formula are numbered in their order, and `reset` leaves nothing of an earlier one (`IndicesAreThoseOfTheFormula`) |
| `mona_file` | every automaton with 1 or 2 states over 2 propositions, some with 3 and 5, nodes in two opposite orders, a name that contains two keywords | the automaton that is read goes with MONA's through every word (`SameAutomaton`); all its variables are read (`VariablesAreRead`) |
| `ast_manager` | a client that wants 6 to 8 formulas, of LTLf, of LDLf with expressions, or propositional, and asks for them in any order and in any way that gives them: nested conjunctions, constants as members, equal arguments from different calls | the returned object stands for the formula asked for (`ObjectsDenote`), there is one object per formula but for the constants outside of the table (`OneObject`), and `compare` is a total order with the equality of `is_equal` (`ComparisonOrders`) |

Bounds. Formulas of this depth take every branch of every visitor, with the empty word and
the last letter as the cases that differ; three letters are enough to go twice through a
star with a test or a sequence in it and to leave it. Deeper formulas combine the same
branches, whose results are again formulas or automata of the same kinds. Two NFA states give four sets, one more index than 2 bits have, so a full automaton
happens at every stage; 3 states of an automaton give sets of two and three elements, which
are what the two kinds of unions and the recursion of `eval_bdd` need, and the permutations
carry sets around unchanged, so that sets are met again through other decompositions.
Five nested calls hold every pair of a visitor inside another, with a sequence around a
union around a test, and a star in each of them; three members exercise the middle of a
queue, where products of products are freed. In files, 1, 2, 3 and 5 states need 1, 1, 2
and 3 digits, and two propositions give nodes that are shared between states and digits.
Three automata of a manager are a first, one that another strategy or the same builds on top of it, and one
more; three atoms leave a formula with one between two, and one before, that an earlier formula had. The wishes of `ast_manager` have each form of node (leaf, one argument, two, set, vector), a set that
starts with another, and formulas equal to a constant; `MaxArguments`, 3 in the run, bounds what a client
inserts in a set or a vector, and with three members nested sets meet in any order. Words longer than the bounds repeat states. `MaxTransitions` bounds the history of
`DfaClient`: two pairs are enough for two transitions of a state, or of two states, to meet in
one root.

Disciplines. `add_transition` never removes: two transitions of one state under one
interpretation merge into the state whose digits are the union of both. `DisciplinedSpec` states
what the strategies of the repository respect (a pair gets one transition, no state is
unset), and `Determinization` is where that is shown of the strategies themselves. `StrategyObjects`
has no discipline: its caller uses managers and strategies again as it likes, and the properties say
what still holds. Every test of the symbolic strategies makes a manager and a
strategy for its formula; that is the case in which automata and primes are read right.

## Proofs

For every value of the constants: NFAs and automata of any size, any number of
propositions, bits, atoms, formulas and calls, words of any length, any nesting of calls.

| module | theorems |
|---|---|
| `DeterminizationProofs` | `TypeCorrect`; `SimulationHolds` (the automaton is, at every step, the subset construction so far); `Refinement` (both worklists implement `SubsetConstruction`); `ThrowsOnlyWhenFull` (for finite NFAs, `FailsOnlyWhenFull`); `LanguageIsKept` (`LanguageAgrees`) |
| `UniversalProjectProofs` | `TypeCorrect`, `TableIsHashConsed`, `EvaluationDescends`, `CalculatedBdds`, `NumbersArePositions`, `Refinement` of `SubsetConstruction`; `ProjectionIsUniversal` (`ResultIsUniversal`) |
| `DfaClientProofs` | `TypeCorrect`, `StaysAllocated`, and `Refinement` of `DfaContract`, for a caller that keeps the discipline |
| `StrategyObjectsProofs` | `TypeCorrect`, `OnlyTheFirstIsEvaluated` (`EvalReadsOnlyTheFirst`), `IndicesFollowTheFormula`, `PrimesAreReadBack` |
| `MonaFileProofs` | `TypeCorrect`, `AutomataAgree` (`SameAutomaton`), `AllVariablesAreRead` |
| `DfaHandlesProofs` | `HandlesAreTyped`, `NoUseAfterFree` (`UsesAreAllocated`), `NoLeak` (`NothingLeaks`), `BodyIsRestored` (`BodyStays`) |
| `AstManagerProofs` | `AlwaysTypeOK`, `AlwaysOrdered` (`ComparisonOrders`), `AlwaysDenote` (`ObjectsDenote`), `AlwaysOneObject` (`OneObject`) |
| `SymbolicDfaProofs` | lemmas only |

The assumptions are those on the constants, and no others. Sizes and bounds are natural
numbers (`SizesAssumption`, `BoundsAssumption`, `BitsAssumption`), the inputs are automata
(`InputAssumption`, `InputsAssumption`), the names of symbols are strings and a client has wishes for each sort of
formulas (`NamesAssumption`, `RequestsAssumption`), the names in a file are single words that do not
mention "number" (`NamesAssumption`, see Findings), and the allocator returns an address that is not in
use (`HandlesAssumption`).

Each proof is an inductive invariant, a lemma per action, and the property from the
invariant. Loops over numbers are recursive functions, and what they compute is proved by
induction over a set: the naturals for which it holds contain 0 and the successor of each of
their members (`Induction`).

- Binary digits (`SymbolicDfaProofs`). `bin2state` undoes `state2bin`; a number of bit length k
  has its digits below k and is less than 2^k. For each method, a lemma says which digits of
  which states it changes.
- `Determinization`. `Simulation` is not inductive: it speaks of `get_successor`, the number
  whose digits the BDDs hold, and only of allocated states. `IInv` adds that the digits
  themselves agree (`DigitsAgree`, `FinalDigitsAgree`), that codes of states not allocated yet are blank in every
  BDD (`Blank`: `add_state` hands out a state without clearing anything), that digits fit (`Fits`),
  that what is pending are transitions of the visited set, and that what was discovered was
  reached by a processed pair (for the refinement). `TransitionPreserves` holds what `Discover` and `Revisit` share: an
  OR-ed guard changes the digits of one state under the interpretations of that guard, which
  are still blank because guards of the pending transitions are disjoint
  (`TransitionsPartition`). `ThrowsOnlyWhenFull` needs a second invariant on top of it, which counts:
  the discovered sets, all reachable, are two less than the states, and a failure comes with
  a reachable set that has no index. `LanguageIsKept` goes along the word: after a prefix the finished
  automaton is in the state of the set that the NFA reaches.
- `UniversalProject`. What has to be added is about the recursion of `eval_bdd`: a
  set that is not a singleton was made of two older ones with the same union (`Table`),
  each call on the stack is for a set that the caller was made of and that is not calculated
  (`Calls`), and the part of a BDD that is computed already leads to the successors
  (`Joining`, `Numbering`). A number is a position of the list and the other way round
  (`Listed`); a listed set is a successor of one before it (`Found`, for the refinement).
  Hash-consing is what makes a number of the list the number of one set.
  `ProjectionIsUniversal` then follows the positions of a word: the set that the result is in is that of
  the ends of all runs, and its status is the conjunction of theirs.
- `DfaClient`. The explicit table of the interface is a function of the automaton, so the
  refinement needs that every index leads to an allocated state, and to the sink until it
  is given a transition (`Table`), and that only allocated states are final.
- `StrategyObjects`. The automata of a manager stand on top of each other, and as each has bits only
  the first stands at 0 (`Stacked`); identifiers and variables of quoted formulas are in step
  (`Quoted`). The numbers of a sorted set's atoms are in their order whatever the map held before, and
  inverse to `id2atoms` if it held nothing. A strategy that builds the first automaton of a manager knew no
  formula before, so its digits, atoms and formulas fill the manager in this order (`Layout`); above it the
  prime that gives a single atom is misread (`Misread`), because the atom's variable and its position
  differ by where the automaton stands (`OnItsAutomaton`).
- `MonaFile`. MONA's BDDs are ordered, so the descent of `construct_bdd_from_mona` ends and
  reaches the leaf that `get_successor` reaches. The reader has consumed the first p lines
  after p steps, and what it holds is what those lines say; the digits of the states that
  are read are those of MONA's states, and a run agrees letter by letter.
- `DfaHandles`. The invariant has to say, for every point of every function, which variables
  own an automaton. That is an `Ownership`: the variables that the call has to free or to hand on
  (own), or that may be null (opt), that hold an automaton of a call below (ref), the body
  that the visitor was entered with (entry), and what is in the queue. Each statement has a
  rule (`Creates` ... `Merges`) from the ownership before it to the one behind it: a return needs that nothing but the
  result is owned, a loop that its body leads back to where it began. `Runs` is a
  program that follows rules, and `TranslateTyped` ... `ClosureTyped` show it of each function of the
  strategy. The second half shows the rules sound: `Inv` gives each call on the stack an ownership that
  its variables agree with and from which the rest of its program runs, and the calls
  own disjoint sets whose union is `live`. The four theorems are read off `Inv`. It is stated
  with an existential over ownerships of unbounded depth, which TLC cannot enumerate: its
  consequences are what the run checks.

- `AstManager`. None of the four properties is inductive. A call finds an old object with `compare`, so that its
  result stands for the right formula only if `compare` is 0 for equal formulas alone; that it is depends on the sets
  inside being in order; and these are in order only if `compare` orders their members. `Inv` therefore
  speaks of the heap: arguments are older than the object and as many as its type has
  (`WellFormed`), they are of the sorts that it takes (`Typed`), and sets are in strict order (`Canonical`). No two
  objects of the table are equal (`Unique`), which is what makes the answer of a look-up the only one,
  and true and false of each logic are in it (`HasConstants`: `and_or` returns them). Each object of the client
  has the sort and the formula that go with it, and is in the table or one of the three outside (`Knows`).
  Three results carry the steps. `RankLaw`: in any well-formed heap, whatever made it,
  `compare` is the order of a number that each object has; it goes by induction over the age of objects, where a node
  is placed by its type and by the list of the places of its arguments, and `is_equal` has to be
  followed along, because `unified_compare` asks it first. `SameDenotation`: in a sound heap, two objects of
  one sort that stand for one formula are equal; for a set, two strictly ordered lists of the same members are the same.
  `AllInsertedCollects`: what insertion leaves is in order and has, up to `is_equal`, the members that
  were inserted. From these, one lemma per maker (`MakingAnd`, `MakingSequence`, ...) says that what it returns stands
  for what the operator of `Formulas` makes of the formulas of the arguments, with absorbing and neutral
  members, flattening and single members. The symbols of the atoms stand for the same trees as the atoms, which
  is why the sort has to be part of what is compared.

Only model-checked: liveness (`Terminates` of two runs), because the provers do not reason about ENABLED; and `Progression` and
`Composition`, with their properties `NaiveAgrees`, `BddAgrees`, `ComposedAgrees`, `DecidesLtlf`,
`EmptyIsRejected` and `NormalFormAgrees`, and types. `delta`, the normal forms, `to_ldlf` and the composition of automata are
recursive over formulas, written with RECURSIVE operators, and what they compute for all formulas needs induction over
data, which the prover cannot do. In `AstManager`, `is_equal`, `compare` and what an object stands for are recursive too, but
over the objects of a heap, which are numbered: they are recursive functions on these numbers, and
induction is over them.

## Findings

- `dfa::set_final_state(s, false)` makes the other states final (`set_not_final`).
- The normal form does not visit the members of a propositional conjunction or disjunction
  (`nnf.cpp:174-179`); the compositional strategy, which the command line uses, asserts that
  negations are of atoms and otherwise looks up a conjunction as an atom (`negations_of_atoms`).
  The other strategies are not affected (`progression` has the same formulas).
- The guards of `star.cpp:217-226` are not padded to the common length. It shows when two
  states of a star with tests have different numbers of alternatives (`star_guards`); whatever
  MONA reads behind the end of a guard, 0, 1 or anything, some word is accepted wrongly.

Met while modelling, and stated where the model excludes or contains them:

- `main.cpp:132-152`: with `--logic ldlf` the pointer that is translated is never set, and is
  dereferenced. `Crash` of `Composition` is that step, and the client `ldlf` always takes it;
  `DecidesLtlf` says that LTLf never does.
- `dfa.cpp:212`: a proposition whose name contains "number" makes `read_from_file` skip
  the line of names. `NamesAssumption` of `MonaFile` excludes it; other keywords do no harm.
  It also excludes quoted names with blanks in them, whose words are read as names of their own.
- `dfa.cpp:38-41`, `391-435` and `bdd/base.cpp:148-183`: a manager cannot be used for a second symbolic
  automaton, nor a `BDDStrategy` for a second formula, although nothing says so: variables are added at
  the end of the manager, and `Eval` and the primes are read from 0 (`EvalReadsOnlyTheFirst`,
  `PrimeIsReadBack`).
- `misc.hpp:31-40`: `powerset` counts with an `int` what its assertion bounds by 63 elements.
  No formula of that many atoms gets this far.
- `cnf.cpp:75-104`: the conjunctive normal form of a disjunction of a clause and a product
  is not one. Only tests call it, with other formulas, and it is not modelled.

## Not modelled

- The grammars and scanners of the parsers are generated; of the drivers, only the nodes that
  are made of several others have anything to go wrong, and are in `Ldlf`.
- Hashing: the table of formulas has one bucket (see above), and `std::unordered_map`
  on NFA and DFA states is a map whatever the hash.
- Conjunctive normal form (`cnf.cpp`) and replacement (`replace.cpp`): nothing in the program calls them.
- Printing, AIGER and graph output, logging, and the opening of files: formatting and I/O.
- `--part` of the command line: it hands the automaton to Syft+, a library that is not in
  the repository. CLI11 and spdlog are not either; MONA and CUDD are modelled at what the code uses of them.
- `OnlyTestVisitor` and `dfa_transform.cpp` (the drawing of an automaton by Graphviz): only tests use them.
- The width of `int` in state numbers and of `size_t` in `pow(2, N)`: a formula would need 2^31
  states, or 31 successors of a state, to get there.
