---------------------------- MODULE Compositional ----------------------------
(***************************************************************************)
(* The compositional strategy (strategies/compositional/): an automaton per *)
(* subformula, composed with the operations of MONA and of MonaExt, and the *)
(* construction of star.cpp for expressions with tests.  Operators return   *)
(* the automaton that the visitor leaves in result.                         *)
(***************************************************************************)
EXTENDS Delta, MonaExt

CONSTANTS
  id2atoms,     \* the atoms of a formula, by variable
  past          \* the character MONA finds past the end of a guard

ASSUME AtomsAssumption == N = Len(id2atoms)

atom2ids(a) == CHOOSE k \in 0 .. N - 1 : id2atoms[k + 1] = a
Interpretation(x) == {id2atoms[k + 1] : k \in {j \in x : j < N}}

-----------------------------------------------------------------------------
(* dfa_and_or: the product of the automata, the two smallest first; one     *)
(* that decides the result ends it.                                         *)
dfa_and_or(dfas, type, is_positive) ==
  LET RECURSIVE Merge(_)
      Smallest(D) == CHOOSE d \in D : \A e \in D : d.ns <= e.ns
      Merge(queue) ==
        IF Cardinality(queue) = 1 THEN Smallest(queue)
        ELSE LET lhs == Smallest(queue)
                 rhs == Smallest(queue \ {lhs})
                 final == dfaMinimize(dfaProduct(lhs, rhs, type))
             IN IF is_sink(final, is_positive) THEN final
                ELSE Merge((queue \ {lhs, rhs}) \cup {final})
      sinks == {d \in dfas : is_sink(d, is_positive)}
  IN IF sinks # {} THEN CHOOSE d \in sinks : TRUE ELSE Merge(dfas)

(* ComposeDFARegexVisitor on propositional formulas.  The argument of a     *)
(* negation is taken for an atom.                                           *)
RECURSIVE ComposeProp(_)
ComposeProp(p) ==
  CASE Kind(p) = "true" -> dfaPropositionalTrue
    [] Kind(p) = "false" -> dfaLDLfFalse
    [] Kind(p) = "and" -> dfa_and_or({ComposeProp(a) : a \in Arg(p)}, dfaAND, FALSE)
    [] Kind(p) = "or" -> dfa_and_or({ComposeProp(a) : a \in Arg(p)}, dfaOR, TRUE)
    [] Kind(p) = "not" -> dfaNext(atom2ids(Arg(p)), FALSE)
    [] OTHER -> dfaNext(atom2ids(p), TRUE)

RECURSIVE is_test_free(_)
is_test_free(r) ==
  CASE Kind(r) = "prop" -> TRUE
    [] Kind(r) = "test" -> FALSE
    [] Kind(r) = "union" -> \A s \in Arg(r) : is_test_free(s)
    [] Kind(r) = "seq" -> \A s \in ToSet(Arg(r)) : is_test_free(s)
    [] Kind(r) = "star" -> is_test_free(Arg(r))

(* Mutant: any test and propositional expression are taken for it.          *)
is_atomic_until_any_test(r) ==
  /\ Kind(r) = "seq" /\ Len(Arg(r)) = 2
  /\ Kind(Arg(r)[1]) = "test" /\ Kind(Arg(r)[2]) = "prop"

(* is_atomic_until_test_: (<p>tt)?; true with propositional p.              *)
is_atomic_until_test(r) ==
  /\ Kind(r) = "seq" /\ Len(Arg(r)) = 2
  /\ Kind(Arg(r)[1]) = "test"
  /\ Arg(r)[2] = makePropRegex(makeTrue)
  /\ LET f == Arg(Arg(r)[1])
     IN Kind(f) = "diamond" /\ Kind(Regex(f)) = "prop" /\ Body(f) = makeLdlfTrue

-----------------------------------------------------------------------------
(* DeltaCompositionalVisitor builds a BDD over items, which are transitions *)
(* <prop>f, tests, and the formula Q after the star.  No item is negated,   *)
(* so that the BDD is represented by its primes: the minimal sets of items  *)
(* that make it true.                                                       *)
Minimal(primes) == {u \in primes : \A v \in primes : v \subseteq u => v = u}
bddOne == {{}}
bddZero == {}
bddVar(item) == {{item}}
bddOr(bdds) == Minimal(UNION bdds)
bddAnd(bdds) ==
  FoldSet(LAMBDA p, q : Minimal({u \cup v : u \in p, v \in q}), bddOne, bdds)

RECURSIVE DeltaCompositional(_)
DeltaCompositional(f) ==
  LET r == Regex(f)
      after(g) == makeLdlfDiamond(g, Body(f))
  IN CASE Kind(f) \in {"true", "T"} -> bddOne
       [] Kind(f) \in {"false", "F"} -> bddZero
       [] Kind(f) = "Q" -> bddVar(f)
       [] Kind(f) = "and" -> bddAnd({DeltaCompositional(a) : a \in Arg(f)})
       [] Kind(f) = "or" -> bddOr({DeltaCompositional(a) : a \in Arg(f)})
       [] Kind(f) = "diamond" ->
            CASE Kind(r) = "prop" -> bddVar(makeLdlfDiamond(r, Expand(Body(f))))
              [] Kind(r) = "test" -> bddAnd({bddVar(r), DeltaCompositional(Body(f))})
              [] Kind(r) = "union" -> bddOr({DeltaCompositional(after(s)) : s \in Arg(r)})
              [] Kind(r) = "seq" ->
                   DeltaCompositional(makeLdlfDiamond(Head(Arg(r)), after(TailRegex(Arg(r)))))
              [] Kind(r) = "star" ->
                   bddOr({DeltaCompositional(Body(f)),
                     DeltaCompositional(makeLdlfDiamond(Arg(r), makeLdlfF(f)))})

(* The transitions of a state: a sequence of alternatives, each a sequence  *)
(* of items that all have to be satisfied, for the primes (get_primes).     *)
existential_transitions(f) ==
  Enumerated({Enumerated(items) : items \in DeltaCompositional(f)})

(* The states of the construction: what the transitions lead to.            *)
NextStates(f) ==
  {Body(item) : item \in {i \in UNION {ToSet(u) : u \in ToSet(existential_transitions(f))} :
                            Kind(i) = "diamond"}}

-----------------------------------------------------------------------------
(* Guards of the construction: a letter of the propositions, then the       *)
(* number of the alternative and the number of the item in it, in binary,   *)
(* the least significant digit first.                                       *)
nb_bits(size) == CHOOSE k \in 0 .. size : 2^k >= size /\ \A j \in 0 .. k - 1 : 2^j < size
DontCare(k) == [j \in 1 .. k |-> "X"]
Binary(i, digits) ==
  [k \in 1 .. digits |-> IF (i \div 2^(k - 1)) % 2 = 1 THEN "1" ELSE "0"]
LetterGuard(x) == [k \in 1 .. N |-> IF k - 1 \in x THEN "1" ELSE "0"]

(* A number among size alternatives, of which another state may have more:  *)
(* the digits are those that size needs, and only one alternative is padded.*)
auxiliary_guard(i, size, max_bits) ==
  IF size = 1 THEN DontCare(max_bits) ELSE Binary(i, nb_bits(size))

(* remove_unreachable_states.                                               *)
remove_unreachable_states(a) == dfaMinimize(dfaProduct(a, dfaLDLfTrue, dfaAND))

(* The choices of items are projected universally, then the choices of      *)
(* alternatives existentially, each from the last variable on.              *)
ProjectUniversal(a, and_bits) ==
  FoldLeft(LAMBDA d, k : dfaMinimize(dfaUniversalProject(d)), a, DontCare(and_bits))

(* Mutant: the alternatives stay variables of the automaton.                *)
ProjectItems(a, and_bits, or_bits) == ProjectUniversal(a, and_bits)

ProjectChoices(a, and_bits, or_bits) ==
  FoldLeft(LAMBDA d, k : dfaMinimize(dfaProject(d)), ProjectUniversal(a, and_bits),
           DontCare(or_bits))

-----------------------------------------------------------------------------
(* CompositionalStrategy::star: from a state one alternative is chosen and  *)
(* all its items have to accept; the choices are variables after the        *)
(* propositions, projected existentially and universally in the end.        *)

(* The states: formulas, the one of the expression first.                   *)
id2state(formula) ==
  <<formula>> \o Enumerated(ReachableFrom(formula, NextStates) \ {formula})
transition_functions(states) ==
  [k \in DOMAIN states |-> existential_transitions(states[k])]
universal_transitions(transitions) == UNION {ToSet(t) : t \in ToSet(transitions)}

(* The formulas of the tests.                                               *)
id2test(states) ==
  LET items == UNION {ToSet(u) : u \in universal_transitions(transition_functions(states))}
  IN Enumerated({Arg(i) : i \in {j \in items : Kind(j) = "test"}})

(* The states of the automaton that is built: those of the expression, those*)
(* of each subautomaton (of the tests, and of body, the last), two sinks.   *)
offset(states, subautomata, k) ==
  Len(states) + FoldLeft(LAMBDA m, a : m + a.ns, 0, SubSeq(subautomata, 1, k - 1))

Layout(states, transitions, tests, subautomata) ==
  [states |-> states, transitions |-> transitions, tests |-> tests,
   subautomata |-> subautomata,
   offsets |-> [k \in DOMAIN subautomata |-> offset(states, subautomata, k)],
   accepting_sink |-> offset(states, subautomata, Len(subautomata) + 1),
   max_or_bits |-> Max({0} \cup {nb_bits(Len(t)) : t \in ToSet(transitions)}),
   max_and_bits |->
     Max({0} \cup {nb_bits(Len(u)) : u \in universal_transitions(transitions)})]

rejecting_sink(c) == c.accepting_sink + 1

(* Where an item leads from a state: pairs of a letter and a successor.     *)
StateTargets(c, item) ==
  {<<x, (CHOOSE k \in DOMAIN c.states : c.states[k] = Body(item)) - 1>> :
     x \in {y \in Letters(N) : eval(Arg(Regex(item)), Interpretation(y))}}
SubautomatonTargets(c, k) ==
  {<<x, c.subautomata[k].q[c.subautomata[k].s][x] + c.offsets[k]>> : x \in Letters(N)}
Targets(c, item) ==
  CASE Kind(item) = "diamond" -> StateTargets(c, item)
    [] Kind(item) = "Q" -> SubautomatonTargets(c, Len(c.subautomata))
    [] Kind(item) = "test" ->
         SubautomatonTargets(c, CHOOSE k \in DOMAIN c.tests : c.tests[k] = Arg(item))

(* The exceptions of one alternative u of a state: for each item where it   *)
(* leads, and the numbers of items that there are not, which accept.        *)
ItemExceptions(c, u, j, or_guard) ==
  {<<t[2], LetterGuard(t[1]) \o or_guard
             \o auxiliary_guard(j - 1, Len(u), c.max_and_bits)>> : t \in Targets(c, u[j])}
DefaultExceptions(c, digits, size, or_guard) ==
  {<<c.accepting_sink, DontCare(N) \o or_guard \o Binary(j, digits)
                         \o DontCare(c.max_and_bits - digits)>> :
     j \in size .. 2^digits - 1}
AlternativeExceptions(c, u, or_guard) ==
  UNION {ItemExceptions(c, u, j, or_guard)
           \cup DefaultExceptions(c, nb_bits(Len(u)), Len(u), or_guard) : j \in DOMAIN u}

StateRow(c, alternatives) ==
  [exceptions |-> UNION {
     AlternativeExceptions(c, alternatives[i],
                           auxiliary_guard(i - 1, Len(alternatives), c.max_or_bits)) :
     i \in DOMAIN alternatives},
   default |-> rejecting_sink(c)]
CopyRow(c, k, i) ==
  [exceptions |-> {<<c.subautomata[k].q[i][x] + c.offsets[k],
                     LetterGuard(x) \o DontCare(c.max_or_bits + c.max_and_bits)>> :
                     x \in Letters(N)},
   default |-> rejecting_sink(c)]
Copies(c, Row(_, _)) ==
  FlattenSeq([k \in DOMAIN c.subautomata |->
    [i \in 1 .. c.subautomata[k].ns |-> Row(k, i - 1)]])

Status(b) == IF b THEN "+" ELSE "-"
StarAutomaton(c) ==
  dfaBuild([k \in DOMAIN c.states |-> StateRow(c, c.transitions[k])]
             \o Copies(c, LAMBDA k, i : CopyRow(c, k, i))
             \o <<ConstantRow(c.accepting_sink), ConstantRow(rejecting_sink(c))>>,
           [k \in DOMAIN c.states |-> Status(eval(delta(c.states[k], {}, TRUE), {}))]
             \o Copies(c, LAMBDA k, i : Status(c.subautomata[k].f[i]))
             \o <<"+", "-">>,
           past, N + c.max_or_bits + c.max_and_bits)

StarProjected(c) ==
  ProjectChoices(remove_unreachable_states(dfaMinimize(StarAutomaton(c))),
                 c.max_and_bits, c.max_or_bits)

RECURSIVE ComposeDFA(_), ComposeRegex(_, _, _)

WithStates(states, tests, body) ==
  StarProjected(Layout(states, transition_functions(states), tests,
                       Append([k \in DOMAIN tests |-> ComposeDFA(tests[k])], body)))
star(r, body) ==
  LET q == makeLdlfQ(IF body.f[body.s] THEN makeTrue ELSE makeFalse)
      states == id2state(makeLdlfDiamond(r, q))
  IN WithStates(states, id2test(states), body)

(* ComposeDFAVisitor.                                                       *)
ComposeDFA(f) ==
  CASE Kind(f) = "true" -> dfaLDLfTrue
    [] Kind(f) = "false" -> dfaLDLfFalse
    [] Kind(f) = "and" -> dfa_and_or({ComposeDFA(a) : a \in Arg(f)}, dfaAND, FALSE)
    [] Kind(f) = "or" -> dfa_and_or({ComposeDFA(a) : a \in Arg(f)}, dfaOR, TRUE)
    [] Kind(f) = "not" -> dfaMinimize(dfaNegation(ComposeDFA(Arg(f))))
    [] Kind(f) = "diamond" -> ComposeRegex(Regex(f), ComposeDFA(Body(f)), TRUE)
    [] Kind(f) = "box" -> ComposeRegex(Regex(f), ComposeDFA(Body(f)), FALSE)

(* test_free_star_: a closure of the words of the expression, then body.    *)
test_free_star(r, body) ==
  LET regex == ComposeDFA(makeLdlfDiamond(Arg(r), makeLdlfEnd))
  IN dfa_concatenate(dfa_closure(dfa_accept_empty(regex)), body)

(* ComposeDFARegexVisitor: body is current_formula_, the automaton of what  *)
(* follows the expression.  A box is the dual of a diamond.                 *)
ComposeRegex(r, body, is_diamond) ==
  LET Dual(a) == IF is_diamond THEN a ELSE dfaNegation(a) IN
  CASE Kind(r) = "prop" -> Dual(dfaLDLfDiamondProp(ComposeProp(Arg(r)), Dual(body)))
    [] Kind(r) = "test" ->
         LET test == ComposeDFA(Arg(r)) IN
         dfaMinimize(dfaProduct(test, body, IF is_diamond THEN dfaAND ELSE dfaIMPL))
    [] Kind(r) = "union" ->
         FoldSet(LAMBDA s, final :
                   IF is_sink(final, is_diamond) THEN final
                   ELSE LET next == ComposeRegex(s, body, is_diamond)
                        IN dfaMinimize(dfaProduct(final, next,
                                                  IF is_diamond THEN dfaOR ELSE dfaAND)),
                 IF is_diamond THEN dfaLDLfFalse ELSE dfaLDLfTrue, Arg(r))
    [] Kind(r) = "seq" ->
         FoldRight(LAMBDA s, a : dfaMinimize(ComposeRegex(s, a, is_diamond)), Arg(r), body)
    [] Kind(r) = "star" ->
         dfaMinimize(Dual(IF is_test_free(r) \/ is_atomic_until_test(Arg(r))
                          THEN test_free_star(r, Dual(body))
                          ELSE star(r, Dual(body))))
=============================================================================
