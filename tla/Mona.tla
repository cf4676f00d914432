-------------------------------- MODULE Mona ---------------------------------
(***************************************************************************)
(* The part of the MONA library that Lydia composes automata with, as far   *)
(* as the callers can see it.  An automaton over n variables is a record    *)
(*   [n, ns, s, f, q]:  states 0 .. ns-1, initial state s, f[i] whether i   *)
(* accepts, q[i][x] the successor of i under the letter x, the set of the   *)
(* variables that are true.  Names and arguments are those of MONA.  The    *)
(* initial state of a new automaton is 0, which mona_ext_base.cpp relies    *)
(* on; the other states are numbered in some order.                         *)
(***************************************************************************)
EXTENDS Integers, FiniteSets, Sequences, SequencesExt

Letters(n) == SUBSET (0 .. n - 1)
States(a) == 0 .. a.ns - 1

(* What Step leads to from init in any number of steps.                     *)
ReachableFrom(init, Step(_)) ==
  LET RECURSIVE Close(_)
      Close(S) == LET T == S \cup UNION {Step(x) : x \in S}
                  IN IF T = S THEN S ELSE Close(T)
  IN Close({init})

Enumerated(S) == FoldSet(LAMBDA x, s : Append(s, x), <<>>, S)

(* The automaton with the members of S as states, numbered from init on.    *)
Numbered(S, init, Final(_), Step(_, _), n) ==
  LET order == <<init>> \o Enumerated(S \ {init})
      number == [x \in S |-> CHOOSE k \in 0 .. Len(order) - 1 : order[k + 1] = x]
  IN [n |-> n, ns |-> Len(order), s |-> number[init],
      f |-> [i \in 0 .. Len(order) - 1 |-> Final(order[i + 1])],
      q |-> [i \in 0 .. Len(order) - 1 |->
               [x \in Letters(n) |-> number[Step(order[i + 1], x)]]]]

(* dfaSetup, dfaAllocExceptions, dfaStoreException, dfaStoreState, dfaBuild.*)
(* A row is the exceptions of a state, pairs of a successor and a guard,    *)
(* and the successor of all other letters.  A guard has a character "0",    *)
(* "1" or "X" per variable; past stands for what is read past its end.      *)
Matches(x, guard, past, n) ==
  \A k \in 1 .. n :
     LET c == IF k <= Len(guard) THEN guard[k] ELSE past
     IN c = "X" \/ (c = "1" <=> k - 1 \in x)

dfaBuild(rows, statuses, past, n) ==
  [n |-> n, ns |-> Len(rows), s |-> 0,
   f |-> [i \in 0 .. Len(rows) - 1 |-> statuses[i + 1] = "+"],
   q |-> [i \in 0 .. Len(rows) - 1 |-> [x \in Letters(n) |->
            LET row == rows[i + 1]
                matching == {e \in row.exceptions : Matches(x, e[2], past, n)}
            IN IF matching = {} THEN row.default
               ELSE (CHOOSE e \in matching : TRUE)[1]]]]

dfaNegation(a) == [a EXCEPT !.f = [i \in States(a) |-> ~a.f[i]]]

(* dfaProductType.                                                          *)
dfaAND == "and"
dfaOR == "or"
dfaIMPL == "impl"
Combined(type, x, y) ==
  CASE type = dfaAND -> x /\ y
    [] type = dfaOR -> x \/ y
    [] type = dfaIMPL -> x => y

(* The states reachable in a product.  b may have fewer variables than a    *)
(* and ignores the others.                                                  *)
dfaProduct(a, b, type) ==
  LET Step(p, x) == <<a.q[p[1]][x], b.q[p[2]][x \cap (0 .. b.n - 1)]>>
      pairs == ReachableFrom(<<a.s, b.s>>, LAMBDA p : {Step(p, x) : x \in Letters(a.n)})
  IN Numbered(pairs, <<a.s, b.s>>, LAMBDA p : Combined(type, a.f[p[1]], b.f[p[2]]),
              Step, a.n)

(* Equivalent states become one; unreachable states stay.                   *)
dfaMinimize(a) ==
  LET RECURSIVE Refine(_)
      Refine(block) ==
        LET row == [i \in States(a) |-> [x \in Letters(a.n) |-> block[a.q[i][x]]]]
            finer == [i \in States(a) |-> {j \in block[i] : row[j] = row[i]}]
        IN IF finer = block THEN block ELSE Refine(finer)
      blocks == Refine([i \in States(a) |-> {j \in States(a) : a.f[j] = a.f[i]}])
      Member(B) == CHOOSE i \in B : TRUE
  IN Numbered({blocks[i] : i \in States(a)}, blocks[a.s], LAMBDA B : a.f[Member(B)],
              LAMBDA B, x : blocks[a.q[Member(B)][x]], a.n)

(* dfaProject and dfaUniversalProject, for the last variable: the result    *)
(* accepts when some choice of it does, or every choice.                    *)
Subsets(a, Accepting(_)) ==
  LET Step(S, x) == {a.q[i][x \cup y] : i \in S, y \in {{}, {a.n - 1}}}
      sets == ReachableFrom({a.s}, LAMBDA S : {Step(S, x) : x \in Letters(a.n - 1)})
  IN Numbered(sets, {a.s}, Accepting, Step, a.n - 1)

dfaProject(a) == Subsets(a, LAMBDA S : \E i \in S : a.f[i])
dfaUniversalProject(a) == Subsets(a, LAMBDA S : \A i \in S : a.f[i])
=============================================================================
