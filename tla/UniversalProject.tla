--------------------------- MODULE UniversalProject ---------------------------
(***************************************************************************)
(* dfaUniversalProject of lib/src/mona_ext/project.cpp: from a MONA         *)
(* automaton over the proposition p and others, the automaton over the      *)
(* others that accepts a word iff every way of adding p to it is accepted.  *)
(* It is a subset construction whose sets of states are hash-consed in the  *)
(* table ssets, and whose transition BDDs are computed lazily, the BDD of a *)
(* set from those of the two sets it was first found to be the union of.    *)
(*                                                                          *)
(* A BDD over the remaining propositions is a function from their           *)
(* interpretations to leaves.  MONA computes a BDD by calling a function of *)
(* project.cpp for each leaf, in an order of its own: one action a call.    *)
(***************************************************************************)
EXTENDS Integers, FiniteSets, SequencesExt

CONSTANTS
  NbStates,      \* ns, the number of states of the input
  Rest,          \* the interpretations of the propositions other than p
  Inputs,        \* the input automata
  MaxWord        \* bound: the length of the words languages are compared on

State == 0 .. NbStates - 1

(* q[s][b][y] is the successor of s when p is b and the others are as in y. *)
MonaDfas == [q : [State -> [BOOLEAN -> [Rest -> State]]],
             f : [State -> {-1, 0, 1}], s : State]

ASSUME InputAssumption ==
  /\ NbStates \in Nat \ {0} /\ Rest # {} /\ Inputs \subseteq MonaDfas
  /\ MaxWord \in Nat

VARIABLES
  a,          \* the input automaton
  ssets,      \* the table of sets of states, by identifier
  next_sset,  \* the number of sets in it
  stack,      \* the sets whose BDD is being computed, the innermost call last
  bdd,        \* the part of the BDD under construction that is computed
  lst,        \* the list of reachable sets, in order of discovery
  new_roots,  \* the BDDs of the result; its length is the position lh in lst
  res,        \* the result
  pc

vars == <<a, ssets, next_sset, stack, bdd, lst, new_roots, res, pc>>

Nothing == [y \in {} |-> 0]                \* no leaf computed
NotCalculated == Nothing                   \* SET_BDD_NOT_CALCULATED

Calculated(id) == ssets[id].sq # NotCalculated

sset(elements, d1, d2) ==
  [elements |-> elements, sq |-> NotCalculated, decomp1 |-> d1, decomp2 |-> d2,
   permanent |-> -1]

Plus(f, y, leaf) == [z \in DOMAIN f \union {y} |-> IF z = y THEN leaf ELSE f[z]]

(* The number the next set of the list gets: next_state in the code.        *)
next_state == Len(lst)

-----------------------------------------------------------------------------
(* The table starts with the singletons, ssets[s] = {s}.                    *)
Init ==
  /\ a \in Inputs
  /\ ssets = [s \in State |-> sset({s}, -1, -1)]
  /\ next_sset = NbStates
  /\ stack = <<0>>
  /\ bdd = Nothing
  /\ lst = << >>
  /\ new_roots = << >>
  /\ res = [q |-> << >>, f |-> << >>, s |-> -1]
  /\ pc = "project"

Top == stack[Len(stack)]

(* The two sets a leaf of the BDD of Top joins: the successors when p is    *)
(* false and true, or the leaves of the two sets that Top decomposes into.  *)
\* The leaves are those of the first set, twice.
JoinedOnce(y) ==
  IF pc = "project" THEN <<a.q[Top][FALSE][y], a.q[Top][FALSE][y]>>
  ELSE <<ssets[ssets[Top].decomp1].sq[y], ssets[ssets[Top].decomp1].sq[y]>>

Joined(y) ==
  IF pc = "project" THEN <<a.q[Top][FALSE][y], a.q[Top][TRUE][y]>>
  ELSE <<ssets[ssets[Top].decomp1].sq[y], ssets[ssets[Top].decomp2].sq[y]>>

Union(pair) == ssets[pair[1]].elements \union ssets[pair[2]].elements

(* proj_term1 and proj_term2, called for the leaf under y: find the union   *)
(* in the table, or add it there.                                           *)
\* The table holds id + 1, and the 1 is not subtracted.
JoinKnownPlusOne(y, id) ==
  /\ ssets[id].elements = Union(Joined(y))
  /\ bdd' = Plus(bdd, y, id + 1)
  /\ UNCHANGED <<ssets, next_sset>>

JoinKnown(y, id) ==
  /\ ssets[id].elements = Union(Joined(y))
  /\ bdd' = Plus(bdd, y, id)
  /\ UNCHANGED <<ssets, next_sset>>

\* The set is added as if it could not be decomposed.
JoinNewSingleton(y) ==
  /\ \A id \in DOMAIN ssets : ssets[id].elements # Union(Joined(y))
  /\ ssets' = Plus(ssets, next_sset, sset(Union(Joined(y)), Joined(y)[1], Joined(y)[1]))
  /\ next_sset' = next_sset + 1
  /\ bdd' = Plus(bdd, y, next_sset)

\* The set is added without looking it up.
JoinNewNoLookup(y) ==
  /\ ssets' = Plus(ssets, next_sset,
                   sset(Union(Joined(y)), Joined(y)[1], Joined(y)[2]))
  /\ next_sset' = next_sset + 1
  /\ bdd' = Plus(bdd, y, next_sset)

JoinNew(y) ==
  /\ \A id \in DOMAIN ssets : ssets[id].elements # Union(Joined(y))
  /\ ssets' = Plus(ssets, next_sset,
                   sset(Union(Joined(y)), Joined(y)[1], Joined(y)[2]))
  /\ next_sset' = next_sset + 1
  /\ bdd' = Plus(bdd, y, next_sset)

(* eval_bdd evaluates the first, then the second set of the decomposition.  *)
Missing ==
  {id \in {ssets[Top].decomp1, ssets[Top].decomp2} : ~ Calculated(id)}

Ready == stack # << >> /\ (pc = "visit" => Missing = {})

Join(y) ==
  /\ Ready
  /\ y \notin DOMAIN bdd
  /\ JoinNew(y) \/ \E id \in DOMAIN ssets : JoinKnown(y, id)
  /\ UNCHANGED <<a, stack, lst, new_roots, res, pc>>

(* The BDD of Top is complete.  The first loop goes on with the next state; *)
(* when there is none, the initial state starts the list.                   *)
Complete ==
  /\ Ready
  /\ DOMAIN bdd = Rest
  /\ bdd' = Nothing
  /\ IF pc = "project" /\ Top = NbStates - 1
     THEN /\ ssets' = [ssets EXCEPT ![Top].sq = bdd, ![a.s].permanent = 0]
          /\ lst' = <<a.s>>
          /\ stack' = << >>
          /\ pc' = "visit"
     ELSE /\ ssets' = [ssets EXCEPT ![Top].sq = bdd]
          /\ stack' = IF pc = "project" THEN <<Top + 1>>
                      ELSE SubSeq(stack, 1, Len(stack) - 1)
          /\ UNCHANGED <<lst, pc>>
  /\ UNCHANGED <<a, next_sset, new_roots, res>>

(* A call of eval_bdd on a set whose BDD is not calculated yet: the set     *)
(* being visited, or one that Top decomposes into.                          *)
Visited == lst[Len(new_roots) + 1]
Visiting == pc = "visit" /\ Len(new_roots) < Len(lst)

Evaluate ==
  /\ Visiting
  /\ stack = << >>
  /\ ~ Calculated(Visited)
  /\ stack' = <<Visited>>
  /\ UNCHANGED <<a, ssets, next_sset, bdd, lst, new_roots, res, pc>>

Recur ==
  /\ Visiting
  /\ stack # << >>
  /\ Missing # {}
  /\ stack' = Append(stack, IF Calculated(ssets[Top].decomp1) THEN ssets[Top].decomp2
                                                            ELSE ssets[Top].decomp1)
  /\ UNCHANGED <<a, ssets, next_sset, bdd, lst, new_roots, res, pc>>

(* proj_term3, called for a leaf of the visited set: queue the set unless   *)
(* it has a number, and return its number.                                  *)
\* The set gets the number of the next one.
NumberNext(y) ==
  LET id == ssets[Visited].sq[y]
  IN  /\ Visiting
      /\ stack = << >>
      /\ Calculated(Visited)
      /\ y \notin DOMAIN bdd
      /\ IF ssets[id].permanent < 0
         THEN /\ lst' = Append(lst, id)
              /\ ssets' = [ssets EXCEPT ![id].permanent = next_state + 1]
              /\ bdd' = Plus(bdd, y, next_state)
         ELSE /\ bdd' = Plus(bdd, y, ssets[id].permanent)
              /\ UNCHANGED <<lst, ssets>>
      /\ UNCHANGED <<a, next_sset, stack, new_roots, res, pc>>

Number(y) ==
  LET id == ssets[Visited].sq[y]
  IN  /\ Visiting
      /\ stack = << >>
      /\ Calculated(Visited)
      /\ y \notin DOMAIN bdd
      /\ IF ssets[id].permanent < 0
         THEN /\ lst' = Append(lst, id)
              /\ ssets' = [ssets EXCEPT ![id].permanent = next_state]
              /\ bdd' = Plus(bdd, y, next_state)
         ELSE /\ bdd' = Plus(bdd, y, ssets[id].permanent)
              /\ UNCHANGED <<lst, ssets>>
      /\ UNCHANGED <<a, next_sset, stack, new_roots, res, pc>>

\* The loop goes on with the same set.
VisitSame ==
  /\ Visiting
  /\ stack = << >>
  /\ DOMAIN bdd = Rest
  /\ bdd' = Nothing
  /\ UNCHANGED <<a, ssets, next_sset, stack, lst, new_roots, res, pc>>

VisitNext ==
  /\ Visiting
  /\ stack = << >>
  /\ DOMAIN bdd = Rest
  /\ new_roots' = Append(new_roots, bdd)
  /\ bdd' = Nothing
  /\ UNCHANGED <<a, ssets, next_sset, stack, lst, res, pc>>

\* A set accepts as soon as one of its states does.
status_any(elements) == IF \E e \in elements : a.f[e] = 1 THEN 1 ELSE -1
status(elements) ==
  IF \A e \in elements : a.f[e] = 0 THEN 0
  ELSE IF \E e \in elements : a.f[e] # 1 THEN -1 ELSE 1

\* The loop over the list ends one set too early.
ReturnEarly ==
  /\ pc = "visit"
  /\ Len(new_roots) = Len(lst) - 1
  /\ pc' = "done"
  /\ UNCHANGED <<a, ssets, next_sset, stack, bdd, lst, new_roots, res>>

(* State k of the result is the k-th set of the list.                       *)
Return ==
  /\ pc = "visit"
  /\ Len(new_roots) = Len(lst)
  /\ res' = [q |-> [k \in 0 .. next_state - 1 |-> new_roots[k + 1]],
             f |-> [k \in 0 .. next_state - 1 |-> status(ssets[lst[k + 1]].elements)],
             s |-> ssets[a.s].permanent]
  /\ pc' = "done"
  /\ UNCHANGED <<a, ssets, next_sset, stack, bdd, lst, new_roots>>

Next ==
  \/ \E y \in Rest : Join(y) \/ Number(y)
  \/ Complete
  \/ Evaluate
  \/ Recur
  \/ VisitNext
  \/ Return

(* A sequential program: it runs as long as it can.                         *)
Spec == Init /\ [][Next]_vars /\ WF_vars(Next)

-----------------------------------------------------------------------------
Ids == 0 .. next_sset - 1
IsBdd(f, leaves) == DOMAIN f \subseteq Rest /\ f \in [DOMAIN f -> leaves]

TypeOK ==
  /\ a \in MonaDfas
  /\ next_sset \in Nat
  /\ ssets \in [Ids -> [elements : SUBSET State, sq : {ssets[id].sq : id \in Ids},
                        decomp1 : Ids \union {-1}, decomp2 : Ids \union {-1},
                        permanent : Int]]
  /\ \A id \in Ids : ssets[id].elements # {} /\ IsBdd(ssets[id].sq, Ids)
  /\ stack \in Seq(Ids)
  /\ IsBdd(bdd, Nat)
  /\ lst \in Seq(Ids)
  /\ new_roots \in Seq([Rest -> Nat])
  /\ pc \in {"project", "visit", "done"}

(* A set of states has one identifier: the table never holds it twice       *)
(* (project.cpp 117-125 and 160-168).                                       *)
HashConsed ==
  \A id1, id2 \in Ids : ssets[id1].elements = ssets[id2].elements => id1 = id2

(* eval_bdd only ever recurs into older sets, and never into the -1 of a    *)
(* singleton: the recursion is well founded, and every element of the stack *)
(* is waiting for the one above it (project.cpp 184-196).                   *)
RecursionDescends ==
  /\ \A id \in Ids \ State :
       /\ {ssets[id].decomp1, ssets[id].decomp2} \subseteq 0 .. id - 1
       /\ ssets[id].elements = ssets[ssets[id].decomp1].elements
                               \union ssets[ssets[id].decomp2].elements
  /\ \A n \in 1 .. Len(stack) - 1 :
       stack[n + 1] \in {ssets[stack[n]].decomp1, ssets[stack[n]].decomp2}
  /\ \A n \in DOMAIN stack : pc = "visit" => stack[n] \notin State /\ ~ Calculated(stack[n])

(* However it was decomposed, the BDD of a set leads to the set of all      *)
(* successors of its states, for both values of p.                          *)
Successors(S, y) == {a.q[s][b][y] : s \in S, b \in BOOLEAN}
BddsAreUnions ==
  \A id \in Ids : Calculated(id) =>
    \A y \in Rest : ssets[ssets[id].sq[y]].elements = Successors(ssets[id].elements, y)

(* permanent is the position in the list, the list holds no set twice, and  *)
(* the roots computed so far lead to positions of the list, which is what   *)
(* the final walk of the list relies on (project.cpp 258-277).              *)
ListIsNumbered ==
  /\ \A id \in Ids : LET p == ssets[id].permanent
                     IN  p # -1 => p \in 0 .. next_state - 1 /\ lst[p + 1] = id
  /\ \A k \in DOMAIN lst : ssets[lst[k]].permanent = k - 1
  /\ \A k \in DOMAIN new_roots, y \in Rest :
       /\ new_roots[k][y] < next_state
       /\ ssets[lst[new_roots[k][y] + 1]].elements = Successors(ssets[lst[k]].elements, y)

(* What happens to a word is what happens to it, in the input, under every  *)
(* choice of p: accepted (or "don't care") if it is under all of them, and  *)
(* rejected otherwise.                                                      *)
Words == UNION {[1 .. n -> Rest] : n \in 0 .. MaxWord}
Runs(word, n) ==
  {run \in [0 .. n -> State] :
     /\ run[0] = a.s
     /\ \A i \in 1 .. n : \E b \in BOOLEAN : run[i] = a.q[run[i - 1]][b][word[i]]}
Outcomes(word) == {a.f[run[Len(word)]] : run \in Runs(word, Len(word))}
numbers_along(word) ==
  LET k[i \in 0 .. Len(word)] == IF i = 0 THEN res.s ELSE res.q[k[i - 1]][word[i]]
  IN  k
Outcome(word) == res.f[numbers_along(word)[Len(word)]]
ResultIsUniversal ==
  pc = "done" => \A word \in Words :
    Outcome(word) = CASE Outcomes(word) = {1} -> 1
                      [] Outcomes(word) = {0} -> 0
                      [] OTHER -> -1

(* The projection always returns: eval_bdd finishes, and the list ends.     *)
Terminates == <>(pc = "done")

(* The projection is the subset construction of the automaton that guesses  *)
(* p: nothing reachable is left out of the result.                          *)
Construction == INSTANCE SubsetConstruction WITH
  Symbols <- Rest, initial <- {a.s},
  successor <- [S \in (SUBSET State) \ {{}} |-> [y \in Rest |-> Successors(S, y)]],
  explored <- {ssets[lst[k]].elements : k \in DOMAIN new_roots} \X Rest,
  done <- (pc = "done")
ImplementsSubsetConstruction == Construction!Spec
==============================================================================
