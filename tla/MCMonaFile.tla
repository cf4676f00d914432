------------------------------ MODULE MCMonaFile ------------------------------
(***************************************************************************)
(* Automata over two propositions for MonaFile.  The names are ones that    *)
(* the parsers accept for atoms.                                            *)
(***************************************************************************)
EXTENDS MonaFile

Automaton(rows, f, s) == [ns |-> Cardinality(DOMAIN rows), s |-> s, f |-> f, q |-> rows]
Row(n) == [Interpretation -> 0 .. n - 1]

(* With one or two states, every table; with three and with five, rows that *)
(* test both propositions, one or none.                                     *)
Small == UNION {{Automaton(rows, f, 0) : rows \in [0 .. n - 1 -> Row(n)], f \in [0 .. n - 1 -> {-1, 1}]} :
                n \in {1, 2}}
Larger ==
  LET g(n, k, x) == (k + (IF 0 \in x THEN 1 ELSE 0) + (IF 1 \in x THEN k ELSE 0)) % n
      finals(n) == {[i \in 0 .. n - 1 |-> IF i = k THEN 1 ELSE IF i = 0 THEN 0 ELSE -1] : k \in 0 .. n - 1}
  IN UNION {{Automaton([i \in 0 .. n - 1 |->
                 IF i = 0 THEN row ELSE [x \in Interpretation |-> g(n, i, x)]], f, s) :
               row \in Row(3), f \in finals(n), s \in {0, n - 1}} : n \in {3, 5}}

MCInputs == Small \cup Larger

(* One of the names contains two keywords of the file.                      *)
MCNames == << <<"a">>, <<"final_states">> >>
MCMentioned(word) == IF word = "final_states" THEN {"final", "states"} ELSE {}
=============================================================================
