------------------------------- MODULE MonaExt -------------------------------
(***************************************************************************)
(* The automata and operations that mona_ext/mona_ext_base.cpp adds to      *)
(* MONA.  Nondeterminism is encoded in one more variable, which is then     *)
(* projected.  All automata are over the propositions 0 .. N-1 of a formula *)
(* (the "indices" of the code); those set up with fewer ignore the others.  *)
(***************************************************************************)
EXTENDS Mona

CONSTANT N
ASSUME NAssumption == N \in Nat

(* An automaton whose states have exceptions of one guard at most.          *)
Free == [k \in 1 .. N |-> "X"]
ConstantRow(to) == [exceptions |-> {}, default |-> to]
Constant(defaults, statuses) ==
  dfaBuild([i \in DOMAIN defaults |-> ConstantRow(defaults[i])], statuses, "X", N)

dfaLDLfTrue == Constant(<<0>>, <<"+">>)
dfaLDLfFalse == Constant(<<0>>, <<"-">>)
only_empty == Constant(<<1, 1>>, <<"+", "-">>)
dfaPropositionalTrue == Constant(<<1, 2, 2>>, <<"-", "+", "-">>)
dfaNext(a, is_positive) ==
  LET guard == [Free EXCEPT ![a + 1] = IF is_positive THEN "1" ELSE "0"]
  IN dfaBuild(<<[exceptions |-> {<<1, guard>>}, default |-> 2],
                ConstantRow(2), ConstantRow(2)>>, <<"-", "+", "-">>, "X", N)

dfa_accept_empty(a) == dfaProduct(a, only_empty, dfaOR)

(* is_sink: one state, that accepts or not as asked.                        *)
is_sink(a, is_positive) == a.ns = 1 /\ a.f[0] = is_positive

(* dfa_concatenate: the states of a, those of b after them, and a sink.     *)
(* With the new variable a final state of a goes where b goes from its      *)
(* initial state.  The paths of a BDD stand for its letters.                *)
dfa_concatenate(a, b) ==
  LET offset == a.ns
      sink == a.ns + b.ns
      new_var == N
      Status(i) == IF i < offset THEN a.f[i] /\ b.f[b.s]
                   ELSE i < sink /\ b.f[i - offset]
      Step(i, x) ==
        LET y == x \ {new_var} IN
        CASE i < offset /\ new_var \notin x -> a.q[i][y]
          [] i < offset /\ new_var \in x /\ a.f[i] -> b.q[b.s][y] + offset
          [] i \in offset .. sink - 1 /\ new_var \notin x -> b.q[i - offset][y] + offset
          [] OTHER -> sink
  IN dfaMinimize(dfaProject(
       [n |-> N + 1, ns |-> sink + 1, s |-> 0,
        f |-> [i \in 0 .. sink |-> Status(i)],
        q |-> [i \in 0 .. sink |-> [x \in Letters(N + 1) |-> Step(i, x)]]]))

(* dfa_closure: one or more words of a.  With the new variable a final      *)
(* state goes where the initial state goes.                                 *)
dfa_closure(a) ==
  LET sink == a.ns
      new_var == N
      Step(i, x) ==
        LET y == x \ {new_var} IN
        CASE i < sink /\ new_var \notin x -> a.q[i][y]
          [] i < sink /\ new_var \in x /\ a.f[i] -> a.q[a.s][y]
          [] OTHER -> sink
  IN dfaMinimize(dfaProject(
       [n |-> N + 1, ns |-> sink + 1, s |-> 0,
        f |-> [i \in 0 .. sink |-> i < sink /\ a.f[i]],
        q |-> [i \in 0 .. sink |-> [x \in Letters(N + 1) |-> Step(i, x)]]]))

dfaLDLfDiamondProp(prop_regex, body) == dfa_concatenate(prop_regex, body)
=============================================================================
