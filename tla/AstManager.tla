----------------------------- MODULE AstManager ------------------------------
(***************************************************************************)
(* The table of formulas (ast/base.hpp, ast/base.cpp, ast/*.cpp) with the   *)
(* comparison of nodes (basic.cpp, compare.hpp, logic/*/base.cpp) that it   *)
(* and every container of formulas rely on.  Formulas are objects here, and *)
(* their arguments are other objects; the other modules take them for trees *)
(* that are the same when they have the same contents, and the properties   *)
(* say that they may.                                                       *)
(*                                                                          *)
(* A client asks for formulas whose arguments it has been given.  Objects   *)
(* are numbered; one that nobody gets (a temporary whose equal is in the    *)
(* table) is not kept.  compute_hash of ast/base.hpp returns a bool, true   *)
(* for every formula: the table is one bucket, and hashes are left out.     *)
(***************************************************************************)
EXTENDS Integers, Formulas

CONSTANTS
  Names,         \* the names of symbols, a sequence in their order as strings
  Requests,      \* what a client may want: formulas by sort
  MaxArguments   \* bound: the formulas a client puts in a set or a vector

VARIABLES
  heap,        \* the objects, a sequence of nodes
  table,       \* the objects in the table of the manager
  given,       \* what the client has: objects, with the formulas they stand for
  wanted       \* what this client wants

vars == <<heap, table, given, wanted>>

Sorts == {"prop", "ltlf", "ldlf", "regex"}
ASSUME NamesAssumption == Names \in Seq(STRING)
ASSUME RequestsAssumption == \A R \in Requests : DOMAIN R = Sorts
ASSUME MaxArgumentsAssumption == MaxArguments \in Nat

(* TypeID, in order.                                                        *)
TypeID ==
  <<"Symbol", "LTLfTrue", "LTLfFalse", "LTLfAtom", "LTLfAnd", "LTLfOr", "LTLfNot",
    "LTLfNext", "LTLfWeakNext", "LTLfUntil", "LTLfRelease", "LTLfEventually",
    "LTLfAlways", "LDLfTrue", "LDLfFalse", "LDLfAnd", "LDLfOr", "LDLfNot",
    "LDLfDiamond", "LDLfBox", "PropositionalRegExp", "TestRegExp", "UnionRegExp",
    "SequenceRegExp", "StarRegExp", "LDLfF", "LDLfT", "LDLfQ", "NFAState", "DFAState",
    "PropositionalTrue", "PropositionalFalse", "PropositionalAtom",
    "PropositionalAnd", "PropositionalOr", "PropositionalNot", "QuotedFormula">>
Types == ToSet(TypeID)

(* How the classes compare: a leaf is equal to any of its type, a name by   *)
(* its characters, one argument and two arguments in their order, a set and *)
(* a vector member by member.                                               *)
symbol_form == [Symbol |-> "name"]
pl_form == [PropositionalTrue |-> "leaf", PropositionalFalse |-> "leaf",
            PropositionalAtom |-> "one", PropositionalNot |-> "one",
            PropositionalAnd |-> "members", PropositionalOr |-> "members"]
ltlf_form == [LTLfTrue |-> "leaf", LTLfFalse |-> "leaf", LTLfAtom |-> "one",
              LTLfAnd |-> "members", LTLfOr |-> "members", LTLfNot |-> "one",
              LTLfNext |-> "one", LTLfWeakNext |-> "one", LTLfUntil |-> "two",
              LTLfRelease |-> "two", LTLfEventually |-> "one", LTLfAlways |-> "one"]
ldlf_form == [LDLfTrue |-> "leaf", LDLfFalse |-> "leaf", LDLfAnd |-> "members",
              LDLfOr |-> "members", LDLfNot |-> "one",
              LDLfDiamond |-> "two", LDLfBox |-> "two"]
regex_form == [PropositionalRegExp |-> "one", TestRegExp |-> "one", StarRegExp |-> "one",
               UnionRegExp |-> "members", SequenceRegExp |-> "members"]
marker_form == [LDLfF |-> "one", LDLfT |-> "one", LDLfQ |-> "one", QuotedFormula |-> "one"]

form ==
  [t \in Types |->
     CASE t \in DOMAIN symbol_form -> symbol_form[t]
       [] t \in DOMAIN pl_form -> pl_form[t]
       [] t \in DOMAIN ltlf_form -> ltlf_form[t]
       [] t \in DOMAIN ldlf_form -> ldlf_form[t]
       [] t \in DOMAIN regex_form -> regex_form[t]
       [] t \in DOMAIN marker_form -> marker_form[t]
       [] OTHER -> "state"]

Node(type, args) == [type |-> type, name |-> "none", args |-> args]
Named(n) == [type |-> "Symbol", name |-> n, args |-> <<>>]
Objects == DOMAIN heap

-----------------------------------------------------------------------------
(* Basic::is_equal, of the objects of the heap h: equal[i][j].              *)
ordered_eq(equal, s, t) ==
  Len(s) = Len(t) /\ \A k \in DOMAIN s : equal[s[k]][t[k]]

equal_by(equal, a, b) ==
  /\ a.type = b.type
  /\ IF form[a.type] = "name" THEN a.name = b.name ELSE ordered_eq(equal, a.args, b.args)

equality(h) ==
  LET equal[i \in DOMAIN h] == [j \in DOMAIN h |-> equal_by(equal, h[i], h[j])] IN equal
is_equal(h, i, j) == equality(h)[i][j]

Order(a, b) == CASE a < b -> -1 [] a = b -> 0 [] a > b -> 1
Positions(s) == [x \in ToSet(s) |-> CHOOSE k \in DOMAIN s : s[k] = x]
type_code == Positions(TypeID)
name_order == Positions(Names)

(* The first result that tells two sequences apart.                         *)
FirstDifference(results) ==
  LET differences == {k \in DOMAIN results : results[k] # 0}
  IN IF differences = {} THEN 0 ELSE results[Min(differences)]

(* Basic::compare: compared[i][j], with the recursion compared.             *)
(* Mutant: what is not less is greater.                                     *)
less_or_greater(h, compared, i, j) == IF compared[i][j] = -1 THEN -1 ELSE 1

unified_compare(h, compared, i, j) ==
  IF is_equal(h, i, j) THEN 0 ELSE IF compared[i][j] = -1 THEN -1 ELSE 1

ordered_compare(h, compared, s, t) ==
  IF Len(s) # Len(t) THEN Order(Len(s), Len(t))
  ELSE FirstDifference([k \in DOMAIN s |-> unified_compare(h, compared, s[k], t[k])])

compare_(h, compared, a, b) ==
  LET how == form[a.type] IN
  CASE how = "leaf" -> 0
    [] how = "name" -> Order(name_order[a.name], name_order[b.name])
    [] how = "one" -> compared[a.args[1]][b.args[1]]
    [] how = "two" ->
         FirstDifference([k \in 1 .. 2 |-> unified_compare(h, compared, a.args[k], b.args[k])])
    [] how = "members" -> ordered_compare(h, compared, a.args, b.args)

compare_by(h, compared, a, b) ==
  IF a.type = b.type THEN compare_(h, compared, a, b)
  ELSE Order(type_code[a.type], type_code[b.type])

comparison(h) ==
  LET compared[i \in DOMAIN h] == [j \in DOMAIN h |-> compare_by(h, compared, h[i], h[j])]
  IN compared
compare(h, i, j) == comparison(h)[i][j]

(* SharedComparator, and what a std::set with it does: its members are in   *)
(* order, and one that is neither less nor greater is not inserted.         *)
Less(h, i, j) == compare(h, i, j) = -1
Inserted(h, s, x) ==
  IF \E k \in DOMAIN s : ~Less(h, s[k], x) /\ ~Less(h, x, s[k]) THEN s
  ELSE InsertAt(s, Cardinality({k \in DOMAIN s : Less(h, s[k], x)}) + 1, x)

(* The set s after the members of the sequence xs were inserted.            *)
AllInserted(h, s, xs) ==
  LET after[k \in 0 .. Len(xs)] == IF k = 0 THEN s ELSE Inserted(h, after[k - 1], xs[k])
  IN after[Len(xs)]

-----------------------------------------------------------------------------
(* The manager m is its heap and its table, and what a call returns.        *)
Same(h, i, j) == i = j                  \* Mutant: pointers are compared.
ast_eq_proc(h, i, j) == i = j \/ compare(h, i, j) = 0

(* The object tmp of the heap h, which is freed when the table of m has an  *)
(* equal one.                                                               *)
insert_if_not_available_(m, h, tmp) ==
  LET found == {e \in m.table : ast_eq_proc(h, e, tmp)}
  IN IF found = {} THEN [heap |-> h, table |-> m.table \cup {tmp}, result |-> tmp]
     ELSE [heap |-> m.heap, table |-> m.table, result |-> CHOOSE e \in found : TRUE]

make(m, node) ==
  insert_if_not_available_(m, Append(m.heap, node), Len(m.heap) + 1)
makeSymbol(m, name) == make(m, Named(name))

(* An atom makes its symbol first.                                          *)
makeNamedAtom(m, type, name) ==
  LET symbol == makeSymbol(m, name) IN make(symbol, Node(type, <<symbol.result>>))

(* quote makes a new object every time, which is not in the table.          *)
makeQuotedAtom(m, f) ==
  insert_if_not_available_(m,
    m.heap \o <<Node("QuotedFormula", <<f>>), Node("PropositionalAtom", <<Len(m.heap) + 1>>)>>,
    Len(m.heap) + 2)

makeBool(m, type) == CHOOSE i \in m.table : m.heap[i].type = type

(* and_or and flatten_bin_op_*: the arguments of a nested node of the same  *)
(* type are inserted in its place, those that do not matter are dropped; no *)
(* node is made for one argument.                                           *)
NotFlattened(h, a, caller) == <<a>>     \* Mutant.
Container(h, a, caller) == IF h[a].type = caller THEN h[a].args ELSE <<a>>

Inserts(h, s, dropped, caller) ==
  FlattenSeq([k \in DOMAIN s |->
    IF h[s[k]].type \in dropped THEN <<>> ELSE Container(h, s[k], caller)])
flatten_bin_op_set(h, s, dropped, caller) ==
  AllInserted(h, <<>>, Inserts(h, s, dropped, caller))

MadeAlways(m, args, caller) == make(m, Node(caller, args))    \* Mutant.
Made(m, args, caller) ==
  IF Len(args) = 1 THEN insert_if_not_available_(m, m.heap, args[1])
  ELSE make(m, Node(caller, args))

make_and_or(m, s, caller, absorbing, neutral) ==
  LET absorbed == {a \in ToSet(s) : m.heap[a].type = absorbing}
      args == flatten_bin_op_set(m.heap, s, {neutral}, caller)
  IN CASE absorbed # {} ->
            insert_if_not_available_(m, m.heap, CHOOSE a \in absorbed : TRUE)
       [] absorbed = {} /\ args = <<>> ->
            insert_if_not_available_(m, m.heap, makeBool(m, neutral))
       [] OTHER -> Made(m, args, caller)

makeUnion(m, s) == Made(m, flatten_bin_op_set(m.heap, s, {}, "UnionRegExp"), "UnionRegExp")
makeSequence(m, s) == Made(m, Inserts(m.heap, s, {}, "SequenceRegExp"), "SequenceRegExp")

-----------------------------------------------------------------------------
(* The calls.  With the object goes the formula it should stand for, which  *)
(* the operators of Propositional, Ldlf and Ltlf make of the formulas of    *)
(* the arguments.                                                           *)
manager == [heap |-> heap, table |-> table, result |-> 0]
Handle(i, sort, f) == [object |-> i, sort |-> sort, formula |-> f]
Given(sort) == {g \in given : g.sort = sort}

Receive(m, sort, f) ==
  /\ f \in wanted[sort]
  /\ heap' = m.heap
  /\ table' = m.table
  /\ given' = given \cup {Handle(m.result, sort, f)}
  /\ UNCHANGED wanted

True == [prop |-> "PropositionalTrue", ltlf |-> "LTLfTrue", ldlf |-> "LDLfTrue"]
False == [prop |-> "PropositionalFalse", ltlf |-> "LTLfFalse", ldlf |-> "LDLfFalse"]
And == [prop |-> "PropositionalAnd", ltlf |-> "LTLfAnd", ldlf |-> "LDLfAnd"]
Or == [prop |-> "PropositionalOr", ltlf |-> "LTLfOr", ldlf |-> "LDLfOr"]
Atom == [prop |-> "PropositionalAtom", ltlf |-> "LTLfAtom"]

(* AstManager::init.  Three formulas are kept outside of the table.         *)
outside == {5, 6, 7}
Init ==
  /\ heap = <<Node("PropositionalTrue", <<>>), Node("PropositionalFalse", <<>>),
              Node("LTLfTrue", <<>>), Node("LTLfFalse", <<>>),
              Node("LTLfWeakNext", <<4>>), Node("LTLfAlways", <<4>>),
              Node("LTLfEventually", <<3>>),
              Node("LDLfTrue", <<>>), Node("LDLfFalse", <<>>)>>
  /\ table = DOMAIN heap \ outside
  /\ given = {Handle(1, "prop", makeTrue), Handle(2, "prop", makeFalse),
              Handle(3, "ltlf", makeLtlfTrue), Handle(4, "ltlf", makeLtlfFalse),
              Handle(5, "ltlf", makeLtlfWeakNext(makeLtlfFalse)), Handle(6, "ltlf", makeLtlfEnd),
              Handle(7, "ltlf", makeLtlfEventually(makeLtlfTrue)),
              Handle(8, "ldlf", makeLdlfTrue), Handle(9, "ldlf", makeLdlfFalse)}
  /\ wanted \in Requests

MakeAtom(sort, name) ==
  Receive(makeNamedAtom(manager, Atom[sort], name), sort, makePropAtom(name))

MakeQuotedAtom(f) ==
  Receive(makeQuotedAtom(manager, f.object), "prop", QuotedAtom(f.formula))

(* The types with one and with two arguments, which are copied: the sorts   *)
(* of the arguments and of the formula.  kind is the one of Formulas.       *)
unary == {<<"PropositionalNot", "prop", "prop">>,
          <<"LTLfNot", "ltlf", "ltlf">>, <<"LTLfNext", "ltlf", "ltlf">>,
          <<"LTLfWeakNext", "ltlf", "ltlf">>, <<"LTLfEventually", "ltlf", "ltlf">>,
          <<"LTLfAlways", "ltlf", "ltlf">>,
          <<"LDLfNot", "ldlf", "ldlf">>, <<"LDLfF", "ldlf", "ldlf">>,
          <<"LDLfT", "ldlf", "ldlf">>, <<"LDLfQ", "ldlf", "ldlf">>,
          <<"PropositionalRegExp", "prop", "regex">>,
          <<"TestRegExp", "ldlf", "regex">>, <<"StarRegExp", "regex", "regex">>}
binary == {<<"LTLfUntil", "ltlf", "ltlf", "ltlf">>, <<"LTLfRelease", "ltlf", "ltlf", "ltlf">>,
           <<"LDLfDiamond", "regex", "ldlf", "ldlf">>, <<"LDLfBox", "regex", "ldlf", "ldlf">>}

kind == [PropositionalTrue |-> "true", PropositionalFalse |-> "false",
         PropositionalNot |-> "not", PropositionalAnd |-> "and", PropositionalOr |-> "or",
         LTLfTrue |-> "true", LTLfFalse |-> "false", LTLfNot |-> "not", LTLfAnd |-> "and",
         LTLfOr |-> "or", LTLfNext |-> "X", LTLfWeakNext |-> "WX", LTLfUntil |-> "U",
         LTLfRelease |-> "R", LTLfEventually |-> "E", LTLfAlways |-> "G",
         LDLfTrue |-> "true", LDLfFalse |-> "false", LDLfNot |-> "not", LDLfAnd |-> "and",
         LDLfOr |-> "or", LDLfDiamond |-> "diamond", LDLfBox |-> "box",
         LDLfF |-> "F", LDLfT |-> "T", LDLfQ |-> "Q", PropositionalRegExp |-> "prop",
         TestRegExp |-> "test", StarRegExp |-> "star", UnionRegExp |-> "union",
         SequenceRegExp |-> "seq"]

MakeUnary(c) ==
  \E a \in Given(c[2]) :
    Receive(make(manager, Node(c[1], <<a.object>>)), c[3], <<kind[c[1]], a.formula>>)

MakeBinary(c) ==
  \E a \in Given(c[2]), b \in Given(c[3]) :
    Receive(make(manager, Node(c[1], <<a.object, b.object>>)), c[4],
            <<kind[c[1]], a.formula, b.formula>>)

(* The formulas a client puts in a vector, or inserts in a std::set.        *)
Chosen(sort) == UNION {[1 .. n -> Given(sort)] : n \in 1 .. MaxArguments}
objects(s) == [k \in DOMAIN s |-> s[k].object]
formulas(s) == [k \in DOMAIN s |-> s[k].formula]
SetOf(s) == AllInserted(heap, <<>>, objects(s))

MakeAnd(sort) ==
  \E s \in Chosen(sort) :
    Receive(make_and_or(manager, SetOf(s), And[sort], False[sort], True[sort]),
            sort, makeAnd(ToSet(formulas(s))))
MakeOr(sort) ==
  \E s \in Chosen(sort) :
    Receive(make_and_or(manager, SetOf(s), Or[sort], True[sort], False[sort]),
            sort, makeOr(ToSet(formulas(s))))
MakeUnionRegex ==
  \E s \in Chosen("regex") :
    Receive(makeUnion(manager, SetOf(s)), "regex", makeUnionRegex(ToSet(formulas(s))))
MakeSeqRegex ==
  \E s \in Chosen("regex") :
    Receive(makeSequence(manager, objects(s)), "regex", makeSeqRegex(formulas(s)))

Next ==
  \/ \E sort \in DOMAIN Atom, k \in DOMAIN Names : MakeAtom(sort, Names[k])
  \/ \E f \in Given("ldlf") : MakeQuotedAtom(f)
  \/ \E c \in unary : MakeUnary(c)
  \/ \E c \in binary : MakeBinary(c)
  \/ \E sort \in DOMAIN And : MakeAnd(sort) \/ MakeOr(sort)
  \/ MakeUnionRegex
  \/ MakeSeqRegex

Spec == Init /\ [][Next]_vars

-----------------------------------------------------------------------------
(* TypeOK: arguments are objects that were there before; a conjunction and  *)
(* a disjunction have two arguments at least, or their constructors throw   *)
(* (is_canonical in logic/*/base.cpp); what the client has is an object.    *)
TypeOK ==
  /\ \A i \in Objects :
       /\ heap[i].type \in Types
       /\ \A k \in DOMAIN heap[i].args : heap[i].args[k] \in 1 .. i - 1
       /\ form[heap[i].type] = "members" => Len(heap[i].args) > 1
  /\ table \subseteq Objects
  /\ \A g \in given : g.object \in Objects /\ g.sort \in Sorts

(* The formulas that the objects of a heap stand for: the one of a node,    *)
(* whose arguments stand for the formulas of.                               *)
Meaning(node, of) ==
  CASE node.type = "Symbol" -> makePropAtom(node.name)
    [] node.type = "QuotedFormula" -> QuotedAtom(of[1])
    [] node.type \in {"PropositionalAtom", "LTLfAtom"} -> of[1]
    [] node.type = "SequenceRegExp" -> <<"seq", of>>
    [] node.type # "SequenceRegExp" /\ form[node.type] = "members" ->
         <<kind[node.type], ToSet(of)>>
    [] form[node.type] = "leaf" -> <<kind[node.type]>>
    [] node.type \in {c[1] : c \in unary} -> <<kind[node.type], of[1]>>
    [] form[node.type] = "two" -> <<kind[node.type], of[1], of[2]>>

denotations(h) ==
  LET denoted[i \in DOMAIN h] ==
        Meaning(h[i], [k \in DOMAIN h[i].args |-> denoted[h[i].args[k]]])
  IN denoted

(* ObjectsDenote: the object a call returns, which may be an old one of the *)
(* table or an argument, stands for the formula that was asked for: sharing *)
(* objects and keeping arguments in sets never changes a formula            *)
(* (insert_if_not_available_, and_or, flatten_bin_op_set, SharedComparator).*)
ObjectsDenote == \A g \in given : denotations(heap)[g.object] = g.formula

(* OneObject: a client gets one object for a formula, whatever the order of *)
(* its calls and however the formula was put together, but for formulas     *)
(* equal to one of the three kept outside of the table (AstManager::init).  *)
(* The tests compare pointers for it (test_ltlf.cpp:73, 86).               *)
OneObject ==
  \A g, g2 \in given :
    g.sort = g2.sort /\ g.formula = g2.formula =>
      g.object = g2.object \/ {g.object, g2.object} \cap outside # {}

(* ComparisonOrders: compare is 0 exactly for objects that are equal, and   *)
(* otherwise one of the two is less, along one order of all objects: what   *)
(* a std::set needs to find its members again (Basic::compare,              *)
(* unified_compare, ordered_compare, SharedComparator).                     *)
ComparisonOrders ==
  LET compared == [i \in Objects |-> [j \in Objects |-> compare(heap, i, j)]]
      rank == [i \in Objects |-> Cardinality({j \in Objects : compared[j][i] = -1})]
  IN \A i, j \in Objects :
       /\ compared[i][j] = Order(rank[i], rank[j])
       /\ compared[i][j] = 0 <=> is_equal(heap, i, j)
=============================================================================
