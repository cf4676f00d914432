------------------------------- MODULE MonaFile -------------------------------
(***************************************************************************)
(* An automaton of MONA (dfa/mona_dfa.cpp), its file, and the symbolic      *)
(* automaton that dfa::read_from_file makes of the file (dfa/dfa.cpp).      *)
(* MONA keeps the transitions of all states in one BDD whose leaves are     *)
(* states; the symbolic automaton has one BDD per digit of the successor.   *)
(*                                                                         *)
(* A node is <<variable, low, high>>, or <<-1, state, 0>> if it is a leaf.  *)
(* A line of a file has a key, which is the text before its fields, here    *)
(* with _ for a blank and without a colon.                                  *)
(***************************************************************************)
EXTENDS SymbolicDfa

CONSTANTS
  Inputs,        \* the automata, as tables: ns, s, f, q[state][interpretation]
  Names,         \* the names of the propositions, by the words they consist of
  Mentioned(_)   \* the keywords that a word of a name contains

ASSUME BitsAssumption == MaxBits > 0

(* The automata of MONA that MaxBits digits can number.                     *)
IsAutomaton(a) ==
  /\ a.ns \in 1 .. pow2[MaxBits] /\ a.s \in 0 .. a.ns - 1
  /\ a.f \in [0 .. a.ns - 1 -> {-1, 0, 1}]
  /\ a.q \in [0 .. a.ns - 1 -> [Interpretation -> 0 .. a.ns - 1]]

ASSUME InputsAssumption == \A a \in Inputs : IsAutomaton(a)

(* The reader takes each word of a name for a variable, and skips a line of *)
(* names that mentions "number".  The parsers accept propositions of either *)
(* kind, quoted ones with spaces: the model leaves them out.                *)
ASSUME NamesAssumption ==
  /\ NbVariables > 0
  /\ Names \in [1 .. NbVariables -> Seq(STRING)]
  /\ \A i \in 1 .. NbVariables :
       Len(Names[i]) = 1 /\ {"number", "number_of_variables"} \cap Mentioned(Names[i][1]) = {}

VARIABLES
  mona,          \* the automaton
  file,          \* the lines that are not read yet
  reader,        \* the local variables of read_from_file
  automaton,     \* the symbolic automaton, when it is built
  next,          \* what happens next
  mona_state, digits   \* where a word leads in both

vars == <<mona, file, reader, automaton, next, mona_state, digits>>

-----------------------------------------------------------------------------
(* MONA's side.  The nodes of reduced ordered BDDs are the cofactors by the *)
(* first variables, each once.                                              *)
Cofactor(g, i, y) == [x \in Interpretation |-> g[y \cup {v \in x : v >= i}]]
Cofactors(a) ==
  UNION {{Cofactor(a.q[s], i, y) : y \in SUBSET (0 .. i - 1)} :
         s \in DOMAIN a.q, i \in 0 .. NbVariables}
Root(g) ==
  LET tested == {v \in Variables : \E x \in Interpretation : g[x \cup {v}] # g[x \ {v}]}
  IN IF tested = {} THEN -1 ELSE Min(tested)
NodeTable(a, functions) ==
  LET Node(g) == CHOOSE i \in DOMAIN functions : functions[i] = g
      Child(g, x) == Node([y \in Interpretation |-> g[(y \ {Root(g)}) \cup x]])
  IN [ns |-> a.ns, s |-> a.s, f |-> a.f,
      q |-> [s \in DOMAIN a.q |-> Node(a.q[s])],
      nodes |-> [i \in DOMAIN functions |->
        LET g == functions[i] IN
        IF Root(g) = -1 THEN <<-1, g[{}], 0>>
        ELSE <<Root(g), Child(g, {}), Child(g, {Root(g)})>>]]

(* mona_dfa::get_successor walks from the root of a state to a leaf.        *)
leaves(a, symbol) ==
  LET walk[node \in DOMAIN a.nodes] ==
        LET n == a.nodes[node] IN
        IF n[1] = -1 THEN n[2] ELSE walk[IF n[1] \in symbol THEN n[3] ELSE n[2]]
  IN walk
mona_get_successor(a, s, symbol) == leaves(a, symbol)[a.q[s]]
mona_is_final(a, s) == a.f[s] = 1

(* What dfaExport writes.  Numbers of nodes and states are 0-based.         *)
Numbers(f) == [i \in 1 .. Cardinality(DOMAIN f) |-> f[i - 1]]
Line(key, fields) == [key |-> key, fields |-> fields]
dfaExport(a) ==
  << Line("number_of_variables", <<Len(Names)>>), Line("variables", FlattenSeq(Names)),
     Line("orders", <<2>>), Line("states", <<a.ns>>), Line("initial", <<a.s>>),
     Line("bdd_nodes", <<Cardinality(DOMAIN a.nodes)>>),
     Line("final", Numbers(a.f)), Line("behaviour", Numbers(a.q)), Line("bdd", <<>>) >>
  \o [i \in DOMAIN Numbers(a.nodes) |-> Line("", Numbers(a.nodes)[i])]
  \o << Line("end", <<>>) >>

-----------------------------------------------------------------------------
(* read_from_file.  strfind looks in the whole line, names included.        *)
strfind(line, target) ==
  \/ line.key = target
  \/ line.key = "number_of_variables" /\ target \in {"number", "variables"}
  \/ line.key = "variables" /\ \E i \in DOMAIN line.fields : target \in Mentioned(line.fields[i])

NothingRead ==
  [nb_variables |-> -1, variables |-> <<>>, nb_states |-> -1, initial_state |-> -1,
   nb_nodes |-> -1, final_states |-> {}, behaviour |-> <<>>, mona_bdd_nodes |-> <<>>,
   flag |-> FALSE]

(* Mutant: the names of the variables are looked for last.                  *)
VariablesLast(line) ==
  LET keys == <<"states", "initial", "bdd_nodes", "final", "behaviour", "bdd">>
      found == {i \in DOMAIN keys : strfind(line, keys[i])}
  IN IF found # {} THEN keys[Min(found)]
     ELSE IF strfind(line, "variables") /\ ~strfind(line, "number") THEN "variables" ELSE ""

(* The tests of the header lines are in this order.                         *)
Recognized(line) ==
  LET keys == <<"states", "initial", "bdd_nodes", "final", "behaviour", "bdd">>
      found == {i \in DOMAIN keys : strfind(line, keys[i])}
  IN IF strfind(line, "variables") /\ ~strfind(line, "number") THEN "variables"
     ELSE IF found = {} THEN "" ELSE keys[Min(found)]

ReadHeader(r, line) ==
  LET key == Recognized(line)
      Field(k, old) == IF key = k THEN line.fields[1] ELSE old
  IN [nb_variables |-> IF strfind(line, "number_of_variables") THEN line.fields[1]
                       ELSE r.nb_variables,
      variables |-> IF key = "variables" THEN line.fields ELSE r.variables,
      nb_states |-> Field("states", r.nb_states),
      initial_state |-> Field("initial", r.initial_state),
      nb_nodes |-> Field("bdd_nodes", r.nb_nodes),
      final_states |-> IF key = "final"
                       THEN {i - 1 : i \in {j \in DOMAIN line.fields : line.fields[j] = 1}}
                       ELSE r.final_states,
      behaviour |-> IF key = "behaviour" THEN line.fields ELSE r.behaviour,
      mona_bdd_nodes |-> r.mona_bdd_nodes, flag |-> (key = "bdd")]

(* Mutant: the bits of the number of states before the last.                *)
bits_for_fewer(nb_states) == IF nb_states <= 2 THEN 1 ELSE bit_length(nb_states - 2)

(* state2bin(nb_states - 1).length(); 0 is written with one digit.          *)
bits_for(nb_states) == IF nb_states = 1 THEN 1 ELSE bit_length(nb_states - 1)

(* construct_bdd_from_mona: per node, a BDD for each digit of the leaves    *)
(* (tBDD, which try_get fills), then the roots and the final states.        *)

(* Mutant: low and high are exchanged.                                      *)
ItePermuted(variable, high, low) ==
  {x \in Interpretation : IF variable \in x THEN x \in low ELSE x \in high}

Ite(variable, high, low) ==
  {x \in Interpretation : IF variable \in x THEN x \in high ELSE x \in low}

try_get(nodes, nb_bits) ==
  LET tBDD[i \in DOMAIN nodes] ==
        LET node == nodes[i] IN
        [k \in 0 .. nb_bits - 1 |->
           IF node[1] = -1 THEN IF k \in state2bin(node[2]) THEN Interpretation ELSE {}
           ELSE Ite(node[1], tBDD[node[3] + 1][k], tBDD[node[2] + 1][k])]
  IN tBDD

construct_bdd_from_mona(r) ==
  LET nb_bits == bits_for(r.nb_states)
      tBDD == try_get(r.mona_bdd_nodes, nb_bits)
      Rows(k) == UNION {{state2bin(j)} \X tBDD[r.behaviour[j + 1] + 1][k] :
                        j \in 0 .. r.nb_states - 1}
  IN [nb_bits |-> nb_bits, nb_states |-> r.nb_states, initial_state |-> r.initial_state,
      finalstates |-> {state2bin(s) : s \in r.final_states},
      root |-> [k \in 0 .. MaxBits - 1 |-> IF k < nb_bits THEN Rows(k) ELSE {}]]

-----------------------------------------------------------------------------
(* In some order, and in the opposite one.                                  *)
One(functions) == CHOOSE g \in functions : TRUE
Others(functions) == functions \ {One(functions)}
remaining(functions) ==
  LET rest[i \in 0 .. Cardinality(functions)] ==
        IF i = 0 THEN functions ELSE Others(rest[i - 1])
  IN rest
Listed(functions) ==
  LET rest == remaining(functions) IN [i \in 1 .. Cardinality(functions) |-> One(rest[i - 1])]

Init ==
  /\ \E a \in Inputs : \E functions \in {Listed(Cofactors(a)), Reverse(Listed(Cofactors(a)))} :
         mona = NodeTable(a, [i \in 0 .. Len(functions) - 1 |-> functions[i + 1]])
  /\ file = dfaExport(mona)
  /\ reader = NothingRead /\ automaton = new_dfa(0)
  /\ next = "read_from_file"
  /\ mona_state = mona.s /\ digits = {}

ReadLine ==
  /\ next = "read_from_file"
  /\ LET line == Head(file) IN
       /\ file' = Tail(file)
       /\ CASE ~reader.flag -> reader' = ReadHeader(reader, line) /\ UNCHANGED next
            [] reader.flag /\ line.key # "end" ->
                 /\ reader' = [reader EXCEPT !.mona_bdd_nodes = Append(@, line.fields)]
                 /\ UNCHANGED next
            [] reader.flag /\ line.key = "end" -> next' = "check" /\ UNCHANGED reader
  /\ UNCHANGED <<mona, automaton, mona_state, digits>>

(* The assertions, and the constructor.                                     *)
Consistent(r) ==
  /\ r.nb_variables > 0 /\ r.nb_states > 0
  /\ r.initial_state \in 0 .. r.nb_states - 1
  /\ r.final_states \subseteq 0 .. r.nb_states - 1
  /\ Len(r.mona_bdd_nodes) = r.nb_nodes

Construct ==
  /\ next = "check" /\ Consistent(reader)
  /\ automaton' = construct_bdd_from_mona(reader)
  /\ digits' = state2bin(automaton'.initial_state)
  /\ next' = "accepts"
  /\ UNCHANGED <<mona, file, reader, mona_state>>

(* One letter of accepts, in both automata.                                 *)
Read(x) ==
  /\ next = "accepts"
  /\ mona_state' = mona_get_successor(mona, mona_state, x)
  /\ digits' = successor_digits(automaton, digits, x)
  /\ UNCHANGED <<mona, file, reader, automaton, next>>

Next == ReadLine \/ Construct \/ \E x \in Interpretation : Read(x)

Spec == Init /\ [][Next]_vars

-----------------------------------------------------------------------------
(* TypeOK: every state that the file mentions has digits that fit in the    *)
(* automaton, and every variable that a node tests is one of its variables  *)
(* (dfa.cpp:272-286, where the sizes are computed from the file).           *)
TypeOK ==
  /\ next \in {"read_from_file", "check", "accepts"}
  /\ mona_state \in 0 .. mona.ns - 1
  /\ next = "accepts" =>
       /\ automaton.nb_bits > 0
       /\ automaton.nb_states \in 1 .. pow2[automaton.nb_bits]
       /\ \A i \in DOMAIN reader.mona_bdd_nodes :
            LET node == reader.mona_bdd_nodes[i] IN
            IF node[1] = -1 THEN state2bin(node[2]) \subseteq 0 .. automaton.nb_bits - 1
            ELSE node[1] < Len(reader.variables)

(* SameAutomaton: whatever word they read, the symbolic automaton is in the *)
(* state that MONA's is in, and both accept or neither does: the shared     *)
(* nodes and the binary digits of the states keep each transition, in any   *)
(* order of the nodes in the file.                                          *)
SameAutomaton ==
  next = "accepts" =>
    /\ digits = state2bin(mona_state)
    /\ digits \in automaton.finalstates <=> mona_is_final(mona, mona_state)

(* VariablesAreRead: the automaton has the variables that the file has,     *)
(* although their names may contain the words by which the other lines are  *)
(* told apart.  That holds of all words but "number" (dfa.cpp:206-252).     *)
VariablesAreRead == next = "check" => Len(reader.variables) = reader.nb_variables
=============================================================================
