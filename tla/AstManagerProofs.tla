--------------------------- MODULE AstManagerProofs ---------------------------
(***************************************************************************)
(* Proofs about AstManager: compare orders the objects of every heap, the   *)
(* table holds one object of each formula, and a call returns an object     *)
(* that stands for the formula it was asked for, whatever the names, the    *)
(* wishes of the client and the number of members it inserts.               *)
(***************************************************************************)
EXTENDS AstManager, TLAPS, SequenceTheorems, FiniteSetTheorems

-----------------------------------------------------------------------------
(* Induction on the natural numbers, for a property given as the set of     *)
(* the numbers that have it.                                                *)
NatLess == {p \in Nat \X Nat : p[1] < p[2]}

LEMMA NatLessIsWellFounded == IsWellFoundedOn(NatLess, Nat)
  BY NatLessThanWellFounded DEF OpToRel, NatLess

LEMMA Induction ==
  ASSUME NEW P \in SUBSET Nat, 0 \in P, \A n \in P : n + 1 \in P
  PROVE  P = Nat
<1>1. SUFFICES ASSUME Nat \ P # {} PROVE FALSE
  OBVIOUS
<1>2. PICK x \in Nat \ P : \A y \in Nat \ P : ~ (<<y, x>> \in NatLess)
  BY <1>1, NatLessIsWellFounded, WFMin, Nat \ P \subseteq Nat
<1>3. x - 1 \in Nat /\ <<x - 1, x>> \in NatLess /\ (x - 1) + 1 = x
  BY DEF NatLess
<1>4. x - 1 \in P
  BY <1>2, <1>3
<1>5. QED
  BY <1>3, <1>4

(* The same up to n.                                                        *)
LEMMA InductionUpTo ==
  ASSUME NEW n \in Nat, NEW P \in SUBSET Nat, 0 \in P,
         \A i \in 0 .. n - 1 : i \in P => i + 1 \in P
  PROVE  \A i \in 0 .. n : i \in P
<1> DEFINE Q == {i \in Nat : i <= n => i \in P}
<1>1. 0 \in Q
  OBVIOUS
<1>2. ASSUME NEW i \in Q PROVE i + 1 \in Q
  <2>1. i \in Nat /\ (i <= n => i \in P)
    OBVIOUS
  <2>2. i + 1 <= n => i \in 0 .. n - 1 /\ i <= n
    BY <2>1
  <2>3. QED
    BY <2>1, <2>2
<1>3. Q = Nat
  <2> HIDE DEF Q
  <2>1. Q \in SUBSET Nat
    BY DEF Q
  <2>2. QED
    BY <1>1, <1>2, <2>1, Induction
<1>4. QED
  BY <1>3

(* A loop of n rounds that starts with c, and computes step[i] of its value *)
(* in round i: h[i] is the value after i rounds.                            *)
Rounds(n, S) == [1 .. n -> [S -> S]]
Computes(h, n, c, step) == h[0] = c /\ \A i \in 1 .. n : h[i] = step[i][h[i - 1]]

(* The loop has a value after every round.                                  *)
LEMMA LoopExists ==
  ASSUME NEW n, n \in Nat, NEW S, NEW c, c \in S, NEW step, step \in Rounds(n, S)
  PROVE  \E h : h \in [0 .. n -> S] /\ Computes(h, n, c, step)
<1> USE DEF Computes, Rounds
<1> DEFINE Upto(h, m) ==  h \in [0 .. m -> S] /\ Computes(h, m, c, step)
<1> DEFINE P == {m \in Nat : m <= n => \E h : Upto(h, m)}
<1>1. 0 \in P
  <2>1. Upto([i \in 0 .. 0 |-> c], 0)
    OBVIOUS
  <2>2. QED
    BY <2>1
<1>2. ASSUME NEW m \in P PROVE m + 1 \in P
  <2>1. m \in Nat
    OBVIOUS
  <2>2. SUFFICES ASSUME m + 1 <= n PROVE \E h : Upto(h, m + 1)
    <3> HIDE DEF Upto
    <3>1. QED
      BY <2>1
  <2>3. PICK h : Upto(h, m)
    BY <2>1, <2>2
  <2>4. m + 1 \in 1 .. n /\ h[m] \in S
    BY <2>1, <2>2, <2>3
  <2>5. step[m + 1][h[m]] \in S
    BY <2>4
  <2> DEFINE g == [i \in 0 .. m + 1 |-> IF i = m + 1 THEN step[m + 1][h[m]] ELSE h[i]]
  <2>6. g \in [0 .. m + 1 -> S] /\ g[0] = c
    BY <2>1, <2>3, <2>5
  <2>7. ASSUME NEW i \in 1 .. m + 1 PROVE g[i] = step[i][g[i - 1]]
    <3>1. g[i - 1] = h[i - 1]
      BY <2>1
    <3>2. CASE i = m + 1
      BY <2>1, <3>1, <3>2
    <3>3. CASE i \in 1 .. m
      BY <2>1, <2>3, <3>1, <3>3
    <3>4. QED
      BY <2>1, <3>2, <3>3
  <2>8. Upto(g, m + 1)
    BY <2>6, <2>7
  <2>9. QED
    BY <2>8
<1>3. P = Nat
  <2> HIDE DEF P
  <2>1. P \in SUBSET Nat
    BY DEF P
  <2>2. QED
    BY <1>1, <1>2, <2>1, Induction
<1>4. \E h : Upto(h, n)
  <2> HIDE DEF Upto
  <2>1. n \in P
    BY <1>3
  <2>2. QED
    BY <2>1
<1>5. QED
  BY <1>4

-----------------------------------------------------------------------------
(* Heaps.  The arguments of an object are older than it is, and are as many *)
(* as the objects of its type have.                                         *)
Nodes == [type : Types, name : ToSet(Names) \cup {"none"}, args : Seq(Nat)]
Forms == {"leaf", "name", "one", "two", "members"}

Arity(how, l) ==
  /\ how = "leaf" => l = 0
  /\ how = "name" => l = 0
  /\ how = "one" => l = 1
  /\ how = "two" => l = 2
  /\ how = "members" => l > 1

(* A node that object i may be.                                             *)
Fits(node, i) ==
  /\ form[node.type] \in Forms
  /\ \A k \in DOMAIN node.args : node.args[k] \in 1 .. i - 1
  /\ Arity(form[node.type], Len(node.args))
  /\ form[node.type] = "name" => node.name \in ToSet(Names)

WellFormed(h) == h \in Seq(Nodes) /\ \A i \in DOMAIN h : Fits(h[i], i)

LEMMA HeapType ==
  ASSUME NEW h, WellFormed(h)
  PROVE  /\ Len(h) \in Nat /\ DOMAIN h = 1 .. Len(h)
         /\ \A i \in DOMAIN h : /\ i \in Nat /\ h[i] \in Nodes /\ h[i].type \in Types
                                /\ Fits(h[i], i)
<1>1. h \in Seq(Nodes) /\ \A i \in DOMAIN h : Fits(h[i], i)
  BY DEF WellFormed
<1>2. \A i \in DOMAIN h : h[i] \in Nodes /\ i \in 1 .. Len(h)
  BY <1>1
<1>3. \A i \in DOMAIN h : h[i].type \in Types
  BY <1>2 DEF Nodes
<1>4. QED
  BY <1>1, <1>2, <1>3

LEMMA ArgsType ==
  ASSUME NEW h, WellFormed(h), NEW i \in DOMAIN h
  PROVE  /\ Len(h[i].args) \in Nat /\ DOMAIN h[i].args = 1 .. Len(h[i].args)
         /\ \A k \in DOMAIN h[i].args : /\ h[i].args[k] \in 1 .. i - 1
                                        /\ h[i].args[k] \in DOMAIN h
<1>1. h[i] \in Nodes /\ Fits(h[i], i) /\ i \in 1 .. Len(h) /\ Len(h) \in Nat /\ DOMAIN h = 1 .. Len(h)
  BY HeapType
<1>2. h[i].args \in Seq(Nat)
  BY <1>1 DEF Nodes
<1>3. QED
  BY <1>1, <1>2 DEF Fits

-----------------------------------------------------------------------------
(* The recursions have values.                                              *)
LEMMA EqualityIs ==
  ASSUME NEW h, WellFormed(h)
  PROVE  equality(h) = [i \in DOMAIN h |-> [j \in DOMAIN h |-> equal_by(equality(h), h[i], h[j])]]
<1> DEFINE n == Len(h)
           Row(f, i) == [j \in DOMAIN h |-> equal_by(f, h[i], h[j])]
           Total(f) == [i \in DOMAIN h |-> Row(f, i)]
           Upto(f, m) == \A i \in 1 .. m : f[i] = Row(f, i)
           P == {m \in Nat : m <= n => \E f : Upto(f, m)}
<1>0. n \in Nat /\ DOMAIN h = 1 .. n
  BY HeapType
<1>1. ASSUME NEW f, NEW g, NEW i \in DOMAIN h, \A k \in 1 .. i - 1 : f[k] = g[k]
      PROVE  Row(f, i) = Row(g, i)
  <2>1. \A k \in DOMAIN h[i].args : f[h[i].args[k]] = g[h[i].args[k]]
    BY <1>1, ArgsType
  <2>2. \A j \in DOMAIN h : equal_by(f, h[i], h[j]) = equal_by(g, h[i], h[j])
    BY <2>1 DEF equal_by, ordered_eq
  <2>3. QED
    BY <2>2
<1>2. 0 \in P
  OBVIOUS
<1>3. ASSUME NEW m \in P PROVE m + 1 \in P
  <2>1. m \in Nat
    OBVIOUS
  <2>2. SUFFICES ASSUME m + 1 <= n PROVE \E f : Upto(f, m + 1)
    <3> HIDE DEF Upto
    <3>1. QED
      BY <2>1
  <2>3. PICK f : Upto(f, m)
    <3>1. n \in Nat /\ m <= n
      BY <1>0, <2>1, <2>2
    <3> HIDE DEF Upto, n
    <3>2. \E f : Upto(f, m)
      BY <2>1, <3>1
    <3>3. QED
      BY <3>2
  <2> DEFINE g == [i \in 1 .. m + 1 |-> IF i = m + 1 THEN Row(f, m + 1) ELSE f[i]]
  <2>4. ASSUME NEW i \in 1 .. m + 1 PROVE g[i] = Row(f, i) /\ Row(f, i) = Row(g, i)
    <3>1. g[i] = Row(f, i)
      <4> HIDE DEF Row
      <4>1. QED
        BY <2>1, <2>3
    <3>2. \A k \in 1 .. i - 1 : f[k] = g[k]
      <4> HIDE DEF Row
      <4>1. QED
        BY <2>1
    <3>3. i \in DOMAIN h
      BY <1>0, <2>1, <2>2
    <3> HIDE DEF g, Row
    <3>4. QED
      BY <1>1, <3>1, <3>2, <3>3
  <2>5. Upto(g, m + 1)
    <3> HIDE DEF g, Row
    <3>1. QED
      BY <2>4
  <2>6. QED
    <3> HIDE DEF g, Upto
    <3>1. QED
      BY <2>5
<1>4. P = Nat
  <2> HIDE DEF P
  <2>1. P \in SUBSET Nat
    BY DEF P
  <2>2. QED
    BY <1>2, <1>3, <2>1, Induction
<1>5. PICK f : Upto(f, n)
  <2> HIDE DEF Upto
  <2>1. n \in P
    BY <1>0, <1>4
  <2>2. QED
    BY <1>0, <2>1
<1> DEFINE g == [i \in DOMAIN h |-> f[i]]
<1>6. \A i \in DOMAIN h : g[i] = Row(g, i)
  <2> HIDE DEF Row
  <2>1. ASSUME NEW i \in DOMAIN h PROVE Row(f, i) = Row(g, i)
    <3>1. \A k \in 1 .. i - 1 : f[k] = g[k]
      BY <1>0
    <3> HIDE DEF g
    <3>2. QED
      BY <1>1, <3>1
  <2>2. QED
    BY <1>0, <1>5, <2>1
<1>7. g = Total(g)
  BY <1>6
<1>8. equality(h) = CHOOSE e : e = Total(e)
  BY DEF equality
<1> HIDE DEF Total, g
<1>9. equality(h) = Total(equality(h))
  BY <1>7, <1>8
<1>10. QED
  BY <1>9 DEF Total

(* Comparing two nodes looks no further than at the arguments of the first. *)
LEMMA SameCompare ==
  ASSUME NEW h, NEW f, NEW g, NEW a, NEW b,
         Arity(form[a.type], Len(a.args)), DOMAIN a.args = 1 .. Len(a.args),
         \A k \in DOMAIN a.args : f[a.args[k]] = g[a.args[k]]
  PROVE  compare_by(h, f, a, b) = compare_by(h, g, a, b)
<1> DEFINE how == form[a.type]
<1>1. CASE how = "one"
  BY <1>1 DEF Arity, compare_by, compare_
<1>2. CASE how = "two"
  <2>1. \A k \in 1 .. 2 :
          unified_compare(h, f, a.args[k], b.args[k]) = unified_compare(h, g, a.args[k], b.args[k])
    BY <1>2 DEF Arity, unified_compare
  <2>2. [k \in 1 .. 2 |-> unified_compare(h, f, a.args[k], b.args[k])]
        = [k \in 1 .. 2 |-> unified_compare(h, g, a.args[k], b.args[k])]
    BY <2>1
  <2>3. QED
    BY <1>2, <2>2 DEF compare_by, compare_
<1>3. CASE how = "members"
  <2>1. \A k \in DOMAIN a.args :
          unified_compare(h, f, a.args[k], b.args[k]) = unified_compare(h, g, a.args[k], b.args[k])
    BY DEF unified_compare
  <2>2. [k \in DOMAIN a.args |-> unified_compare(h, f, a.args[k], b.args[k])]
        = [k \in DOMAIN a.args |-> unified_compare(h, g, a.args[k], b.args[k])]
    BY <2>1
  <2>3. QED
    BY <1>3, <2>2 DEF compare_by, compare_, ordered_compare
<1>4. CASE how \notin {"one", "two", "members"}
  BY <1>4 DEF compare_by, compare_
<1>5. QED
  BY <1>1, <1>2, <1>3, <1>4

LEMMA ComparisonIs ==
  ASSUME NEW h, WellFormed(h)
  PROVE  comparison(h) = [i \in DOMAIN h |-> [j \in DOMAIN h |-> compare_by(h, comparison(h), h[i], h[j])]]
<1> DEFINE n == Len(h)
           Row(f, i) == [j \in DOMAIN h |-> compare_by(h, f, h[i], h[j])]
           Total(f) == [i \in DOMAIN h |-> Row(f, i)]
           Upto(f, m) == \A i \in 1 .. m : f[i] = Row(f, i)
           P == {m \in Nat : m <= n => \E f : Upto(f, m)}
<1>0. n \in Nat /\ DOMAIN h = 1 .. n
  BY HeapType
<1>1. ASSUME NEW f, NEW g, NEW i \in DOMAIN h, \A k \in 1 .. i - 1 : f[k] = g[k]
      PROVE  Row(f, i) = Row(g, i)
  <2>1. \A k \in DOMAIN h[i].args : f[h[i].args[k]] = g[h[i].args[k]]
    BY <1>1, ArgsType
  <2>2. Arity(form[h[i].type], Len(h[i].args)) /\ DOMAIN h[i].args = 1 .. Len(h[i].args)
    BY ArgsType, HeapType DEF Fits
  <2>3. ASSUME NEW j \in DOMAIN h PROVE compare_by(h, f, h[i], h[j]) = compare_by(h, g, h[i], h[j])
    BY <2>1, <2>2, SameCompare
  <2>4. QED
    BY <2>3
<1>2. 0 \in P
  OBVIOUS
<1>3. ASSUME NEW m \in P PROVE m + 1 \in P
  <2>1. m \in Nat
    OBVIOUS
  <2>2. SUFFICES ASSUME m + 1 <= n PROVE \E f : Upto(f, m + 1)
    <3> HIDE DEF Upto
    <3>1. QED
      BY <2>1
  <2>3. PICK f : Upto(f, m)
    <3>1. n \in Nat /\ m <= n
      BY <1>0, <2>1, <2>2
    <3> HIDE DEF Upto, n
    <3>2. \E f : Upto(f, m)
      BY <2>1, <3>1
    <3>3. QED
      BY <3>2
  <2> DEFINE g == [i \in 1 .. m + 1 |-> IF i = m + 1 THEN Row(f, m + 1) ELSE f[i]]
  <2>4. ASSUME NEW i \in 1 .. m + 1 PROVE g[i] = Row(f, i) /\ Row(f, i) = Row(g, i)
    <3>1. g[i] = Row(f, i)
      <4> HIDE DEF Row
      <4>1. QED
        BY <2>1, <2>3
    <3>2. \A k \in 1 .. i - 1 : f[k] = g[k]
      <4> HIDE DEF Row
      <4>1. QED
        BY <2>1
    <3>3. i \in DOMAIN h
      BY <1>0, <2>1, <2>2
    <3> HIDE DEF g, Row
    <3>4. QED
      BY <1>1, <3>1, <3>2, <3>3
  <2>5. Upto(g, m + 1)
    <3> HIDE DEF g, Row
    <3>1. QED
      BY <2>4
  <2>6. QED
    <3> HIDE DEF g, Upto
    <3>1. QED
      BY <2>5
<1>4. P = Nat
  <2> HIDE DEF P
  <2>1. P \in SUBSET Nat
    BY DEF P
  <2>2. QED
    BY <1>2, <1>3, <2>1, Induction
<1>5. PICK f : Upto(f, n)
  <2> HIDE DEF Upto
  <2>1. n \in P
    BY <1>0, <1>4
  <2>2. QED
    BY <1>0, <2>1
<1> DEFINE g == [i \in DOMAIN h |-> f[i]]
<1>6. \A i \in DOMAIN h : g[i] = Row(g, i)
  <2> HIDE DEF Row
  <2>1. ASSUME NEW i \in DOMAIN h PROVE Row(f, i) = Row(g, i)
    <3>1. \A k \in 1 .. i - 1 : f[k] = g[k]
      BY <1>0
    <3> HIDE DEF g
    <3>2. QED
      BY <1>1, <3>1
  <2>2. QED
    BY <1>0, <1>5, <2>1
<1>7. g = Total(g)
  BY <1>6
<1>8. comparison(h) = CHOOSE e : e = Total(e)
  BY DEF comparison
<1> HIDE DEF Total, g
<1>9. comparison(h) = Total(comparison(h))
  BY <1>7, <1>8
<1>10. QED
  BY <1>9 DEF Total

LEMMA DenotationsAre ==
  ASSUME NEW h, WellFormed(h)
  PROVE  denotations(h) = [i \in DOMAIN h |-> Meaning(h[i], [k \in DOMAIN h[i].args |-> denotations(h)[h[i].args[k]]])]
<1> DEFINE n == Len(h)
           Row(f, i) == Meaning(h[i], [k \in DOMAIN h[i].args |-> f[h[i].args[k]]])
           Total(f) == [i \in DOMAIN h |-> Row(f, i)]
           Upto(f, m) == \A i \in 1 .. m : f[i] = Row(f, i)
           P == {m \in Nat : m <= n => \E f : Upto(f, m)}
<1>0. n \in Nat /\ DOMAIN h = 1 .. n
  BY HeapType
<1>1. ASSUME NEW f, NEW g, NEW i \in DOMAIN h, \A k \in 1 .. i - 1 : f[k] = g[k]
      PROVE  Row(f, i) = Row(g, i)
  <2>1. \A k \in DOMAIN h[i].args : f[h[i].args[k]] = g[h[i].args[k]]
    BY <1>1, ArgsType
  <2>2. [k \in DOMAIN h[i].args |-> f[h[i].args[k]]] = [k \in DOMAIN h[i].args |-> g[h[i].args[k]]]
    BY <2>1
  <2>3. QED
    BY <2>2
<1>2. 0 \in P
  OBVIOUS
<1>3. ASSUME NEW m \in P PROVE m + 1 \in P
  <2>1. m \in Nat
    OBVIOUS
  <2>2. SUFFICES ASSUME m + 1 <= n PROVE \E f : Upto(f, m + 1)
    <3> HIDE DEF Upto
    <3>1. QED
      BY <2>1
  <2>3. PICK f : Upto(f, m)
    <3> HIDE DEF Upto
    <3>1. QED
      BY <1>0, <2>1, <2>2
  <2> DEFINE g == [i \in 1 .. m + 1 |-> IF i = m + 1 THEN Row(f, m + 1) ELSE f[i]]
  <2>4. ASSUME NEW i \in 1 .. m + 1 PROVE g[i] = Row(f, i) /\ Row(f, i) = Row(g, i)
    <3>1. g[i] = Row(f, i)
      <4> HIDE DEF Row
      <4>1. QED
        BY <2>1, <2>3
    <3>2. \A k \in 1 .. i - 1 : f[k] = g[k]
      <4> HIDE DEF Row
      <4>1. QED
        BY <2>1
    <3>3. i \in DOMAIN h
      BY <1>0, <2>1, <2>2
    <3> HIDE DEF g, Row
    <3>4. QED
      BY <1>1, <3>1, <3>2, <3>3
  <2>5. Upto(g, m + 1)
    <3> HIDE DEF g, Row
    <3>1. QED
      BY <2>4
  <2>6. QED
    <3> HIDE DEF g, Upto
    <3>1. QED
      BY <2>5
<1>4. P = Nat
  <2> HIDE DEF P
  <2>1. P \in SUBSET Nat
    BY DEF P
  <2>2. QED
    BY <1>2, <1>3, <2>1, Induction
<1>5. PICK f : Upto(f, n)
  <2> HIDE DEF Upto
  <2>1. n \in P
    BY <1>0, <1>4
  <2>2. QED
    BY <1>0, <2>1
<1> DEFINE g == [i \in DOMAIN h |-> f[i]]
<1>6. \A i \in DOMAIN h : g[i] = Row(g, i)
  <2> HIDE DEF Row
  <2>1. ASSUME NEW i \in DOMAIN h PROVE Row(f, i) = Row(g, i)
    <3>1. \A k \in 1 .. i - 1 : f[k] = g[k]
      BY <1>0
    <3> HIDE DEF g
    <3>2. QED
      BY <1>1, <3>1
  <2>2. QED
    BY <1>0, <1>5, <2>1
<1>7. g = Total(g)
  BY <1>6
<1>8. denotations(h) = CHOOSE e : e = Total(e)
  BY DEF denotations
<1> HIDE DEF Total, g
<1>9. denotations(h) = Total(denotations(h))
  BY <1>7, <1>8
<1>10. QED
  BY <1>9 DEF Total

-----------------------------------------------------------------------------
(* Results of comparisons.  Three of them fit together as those of x with   *)
(* y, of y with z and of x with z do.                                       *)
Signs == {-1, 0, 1}
Between(a, b, d) ==
  /\ a = 0 => d = b
  /\ b = 0 => d = a
  /\ a = b => d = a

LEMMA OrderLaws ==
  ASSUME NEW a \in Int, NEW b \in Int
  PROVE  /\ Order(a, b) \in Signs
         /\ Order(a, b) = 0 <=> a = b
         /\ Order(a, b) + Order(b, a) = 0
  BY DEF Order, Signs

LEMMA OrderBetween ==
  ASSUME NEW a \in Int, NEW b \in Int, NEW d \in Int
  PROVE  Between(Order(a, b), Order(b, d), Order(a, d))
  BY DEF Order, Between

(* The code of a type is a number that no other type has.                   *)
LEMMA TypeCodes ==
  ASSUME NEW s \in Types, NEW t \in Types
  PROVE  type_code[t] \in Int /\ (type_code[s] = type_code[t] => s = t)
<1>1. DOMAIN TypeID \subseteq Int
  BY DEF TypeID
<1>2. \A x \in Types : type_code[x] \in DOMAIN TypeID /\ TypeID[type_code[x]] = x
  <2>1. ASSUME NEW x \in Types PROVE type_code[x] \in DOMAIN TypeID /\ TypeID[type_code[x]] = x
    <3>1. PICK k \in DOMAIN TypeID : TypeID[k] = x
      BY DEF Types, ToSet
    <3>2. type_code[x] = CHOOSE l \in DOMAIN TypeID : TypeID[l] = x
      BY DEF type_code, Positions, Types
    <3>3. QED
      BY <3>1, <3>2
  <2>2. QED
    BY <2>1
<1>3. QED
  BY <1>1, <1>2

LEMMA NameOrder ==
  ASSUME NEW s \in ToSet(Names), NEW t \in ToSet(Names)
  PROVE  name_order[t] \in Int /\ (name_order[s] = name_order[t] => s = t)
<1>1. DOMAIN Names \subseteq Int
  BY NamesAssumption
<1>2. \A x \in ToSet(Names) : name_order[x] \in DOMAIN Names /\ Names[name_order[x]] = x
  <2>1. ASSUME NEW x \in ToSet(Names)
        PROVE  name_order[x] \in DOMAIN Names /\ Names[name_order[x]] = x
    <3>1. PICK k \in DOMAIN Names : Names[k] = x
      BY DEF ToSet
    <3>2. name_order[x] = CHOOSE l \in DOMAIN Names : Names[l] = x
      BY DEF name_order, Positions
    <3>3. QED
      BY <3>1, <3>2
  <2>2. QED
    BY <2>1
<1>3. QED
  BY <1>1, <1>2

(* A set of numbers has a least member.                                     *)
LEMMA LeastMember ==
  ASSUME NEW n \in Nat, NEW S \in SUBSET (1 .. n), S # {}
  PROVE  Min(S) \in S /\ \A k \in S : Min(S) <= k
<1>1. PICK x \in S : \A y \in S : ~ (<<y, x>> \in NatLess)
  BY NatLessIsWellFounded, WFMin, S \subseteq Nat
<1>2. ASSUME NEW y \in S PROVE x <= y
  <2>1. x \in Nat /\ y \in Nat /\ <<y, x>> \in Nat \X Nat
    OBVIOUS
  <2>2. ~ (y < x)
    BY <1>1, <2>1 DEF NatLess
  <2>3. QED
    BY <2>1, <2>2
<1>3. QED
  BY <1>2 DEF Min

(* The first difference is the first result that is not 0.                  *)
Results(n) == [1 .. n -> Signs]
IsFirst(r, k) == r[k] # 0 /\ \A l \in 1 .. k - 1 : r[l] = 0

LEMMA FirstDifferenceIs ==
  ASSUME NEW n \in Nat, NEW r \in Results(n)
  PROVE  \/ FirstDifference(r) = 0 /\ \A k \in 1 .. n : r[k] = 0
         \/ \E k \in 1 .. n : IsFirst(r, k) /\ FirstDifference(r) = r[k]
<1> DEFINE D == {k \in 1 .. n : r[k] # 0}
<1>1. FirstDifference(r) = IF D = {} THEN 0 ELSE r[Min(D)]
  BY DEF FirstDifference, Results
<1>2. CASE D = {}
  BY <1>1, <1>2
<1>3. CASE D # {}
  <2>1. Min(D) \in D /\ \A k \in D : Min(D) <= k
    BY <1>3, LeastMember
  <2>2. \A l \in 1 .. Min(D) - 1 : l \in 1 .. n /\ l \notin D
    BY <2>1
  <2>3. IsFirst(r, Min(D))
    BY <2>1, <2>2 DEF IsFirst
  <2>4. QED
    BY <1>1, <1>3, <2>1, <2>3
<1>4. QED
  BY <1>2, <1>3

LEMMA FirstIsFirst ==
  ASSUME NEW n \in Nat, NEW r \in Results(n), NEW k \in 1 .. n, IsFirst(r, k)
  PROVE  FirstDifference(r) = r[k]
<1>1. PICK l \in 1 .. n : IsFirst(r, l) /\ FirstDifference(r) = r[l]
  BY FirstDifferenceIs DEF IsFirst
<1>2. l = k
  BY <1>1 DEF IsFirst
<1>3. QED
  BY <1>1, <1>2

LEMMA DifferenceLaws ==
  ASSUME NEW n \in Nat, NEW p \in Results(n), NEW q \in Results(n)
  PROVE  /\ FirstDifference(p) \in Signs
         /\ FirstDifference(p) = 0 <=> \A k \in 1 .. n : p[k] = 0
         /\ (\A k \in 1 .. n : p[k] + q[k] = 0) => FirstDifference(p) + FirstDifference(q) = 0
<1>1. FirstDifference(p) \in Signs
  BY FirstDifferenceIs DEF Results, Signs
<1>2. FirstDifference(p) = 0 <=> \A k \in 1 .. n : p[k] = 0
  BY FirstDifferenceIs DEF IsFirst
<1>3. ASSUME \A k \in 1 .. n : p[k] + q[k] = 0 PROVE FirstDifference(p) + FirstDifference(q) = 0
  <2>1. CASE \A k \in 1 .. n : p[k] = 0
    <3>1. \A k \in 1 .. n : q[k] = 0
      BY <1>3, <2>1 DEF Results, Signs
    <3>2. FirstDifference(p) = 0 /\ FirstDifference(q) = 0
      BY <2>1, <3>1, FirstDifferenceIs DEF IsFirst
    <3>3. QED
      BY <3>2
  <2>2. CASE \E k \in 1 .. n : p[k] # 0
    <3>1. PICK k \in 1 .. n : IsFirst(p, k) /\ FirstDifference(p) = p[k]
      BY <2>2, FirstDifferenceIs
    <3>2. IsFirst(q, k)
      BY <1>3, <3>1 DEF IsFirst, Results, Signs
    <3>3. QED
      BY <1>3, <3>1, <3>2, FirstIsFirst
  <2>3. QED
    BY <2>1, <2>2
<1>4. QED
  BY <1>1, <1>2, <1>3

LEMMA DifferenceBetween ==
  ASSUME NEW n \in Nat, NEW p \in Results(n), NEW q \in Results(n), NEW r \in Results(n),
         \A k \in 1 .. n : Between(p[k], q[k], r[k])
  PROVE  Between(FirstDifference(p), FirstDifference(q), FirstDifference(r))
<1> DEFINE a == FirstDifference(p)
           b == FirstDifference(q)
           d == FirstDifference(r)
<1>1. ASSUME a = 0 PROVE d = b
  <2>1. \A k \in 1 .. n : r[k] = q[k]
    BY <1>1, DifferenceLaws DEF Between
  <2>2. r = q
    BY <2>1 DEF Results
  <2>3. QED
    BY <2>2
<1>2. ASSUME b = 0 PROVE d = a
  <2>1. \A k \in 1 .. n : r[k] = p[k]
    BY <1>2, DifferenceLaws DEF Between
  <2>2. r = p
    BY <2>1 DEF Results
  <2>3. QED
    BY <2>2
<1>3. ASSUME a = b, a # 0 PROVE d = a
  <2>1. PICK k \in 1 .. n : IsFirst(p, k) /\ a = p[k]
    BY <1>3, FirstDifferenceIs
  <2>2. PICK l \in 1 .. n : IsFirst(q, l) /\ b = q[l]
    BY <1>3, FirstDifferenceIs
  <2>3. CASE k <= l
    <3>1. \A m \in 1 .. k - 1 : r[m] = 0
      BY <2>1, <2>2, <2>3 DEF IsFirst, Between
    <3>2. r[k] = p[k]
      <4>1. CASE k = l
        BY <1>3, <2>1, <2>2, <4>1 DEF Between
      <4>2. CASE k < l
        BY <2>2, <4>2 DEF IsFirst, Between
      <4>3. QED
        BY <2>3, <4>1, <4>2
    <3>3. IsFirst(r, k)
      BY <2>1, <3>1, <3>2 DEF IsFirst
    <3>4. QED
      BY <2>1, <3>2, <3>3, FirstIsFirst
  <2>4. CASE l < k
    <3>1. \A m \in 1 .. l - 1 : r[m] = 0
      BY <2>1, <2>2, <2>4 DEF IsFirst, Between
    <3>2. r[l] = q[l]
      BY <1>3, <2>1, <2>2, <2>4 DEF IsFirst, Between
    <3>3. IsFirst(r, l)
      BY <2>2, <3>1, <3>2 DEF IsFirst
    <3>4. QED
      BY <1>3, <2>2, <3>2, <3>3, FirstIsFirst
  <2>5. QED
    BY <2>3, <2>4
<1>4. QED
  BY <1>1, <1>2, <1>3 DEF Between

-----------------------------------------------------------------------------
(* The order of the objects of a heap.  Laws are those of the comparison of *)
(* the first n objects.                                                     *)
Laws(h, n) ==
  /\ \A i, j \in 1 .. n : /\ compare(h, i, j) \in Signs
                          /\ compare(h, i, j) = 0 <=> is_equal(h, i, j)
                          /\ compare(h, i, j) + compare(h, j, i) = 0
  /\ \A i, j, l \in 1 .. n : Between(compare(h, i, j), compare(h, j, l), compare(h, i, l))

LEMMA EqualIs ==
  ASSUME NEW h, WellFormed(h), NEW i \in DOMAIN h, NEW j \in DOMAIN h
  PROVE  is_equal(h, i, j) = equal_by(equality(h), h[i], h[j])
<1> DEFINE e == equality(h)
<1>1. e = [a \in DOMAIN h |-> [b \in DOMAIN h |-> equal_by(e, h[a], h[b])]]
  BY EqualityIs
<1> HIDE DEF e
<1>2. e[i][j] = equal_by(e, h[i], h[j])
  BY <1>1
<1>3. QED
  BY <1>2 DEF is_equal, e

LEMMA CompareIs ==
  ASSUME NEW h, WellFormed(h), NEW i \in DOMAIN h, NEW j \in DOMAIN h
  PROVE  compare(h, i, j) = compare_by(h, comparison(h), h[i], h[j])
<1> DEFINE c == comparison(h)
<1>1. c = [a \in DOMAIN h |-> [b \in DOMAIN h |-> compare_by(h, c, h[a], h[b])]]
  BY ComparisonIs
<1> HIDE DEF c
<1>2. c[i][j] = compare_by(h, c, h[i], h[j])
  BY <1>1
<1>3. QED
  BY <1>2 DEF compare, c

(* unified_compare, which asks for equality first, gives what compare does. *)
LEMMA UnifiedIsCompare ==
  ASSUME NEW h, NEW n \in Nat, Laws(h, n), NEW i \in 1 .. n, NEW j \in 1 .. n
  PROVE  unified_compare(h, comparison(h), i, j) = compare(h, i, j)
<1>1. compare(h, i, j) \in Signs /\ (compare(h, i, j) = 0 <=> is_equal(h, i, j))
  BY DEF Laws
<1>2. unified_compare(h, comparison(h), i, j)
      = IF is_equal(h, i, j) THEN 0 ELSE IF compare(h, i, j) = -1 THEN -1 ELSE 1
  BY DEF unified_compare, compare
<1>3. QED
  BY <1>1, <1>2 DEF Signs

(* The results of comparing two sequences of the same length.               *)
Compared(h, s, t) == [k \in DOMAIN s |-> compare(h, s[k], t[k])]

LEMMA ComparedType ==
  ASSUME NEW h, NEW n \in Nat, Laws(h, n), NEW s \in Seq(1 .. n), NEW t \in Seq(1 .. n),
         Len(s) = Len(t)
  PROVE  /\ Compared(h, s, t) \in Results(Len(s))
         /\ ordered_compare(h, comparison(h), s, t) = FirstDifference(Compared(h, s, t))
<1>1. \A k \in DOMAIN s : s[k] \in 1 .. n /\ t[k] \in 1 .. n
  OBVIOUS
<1>2. \A k \in DOMAIN s : unified_compare(h, comparison(h), s[k], t[k]) = compare(h, s[k], t[k])
  BY <1>1, UnifiedIsCompare
<1>3. [k \in DOMAIN s |-> unified_compare(h, comparison(h), s[k], t[k])] = Compared(h, s, t)
  BY <1>2 DEF Compared
<1>4. \A k \in DOMAIN s : compare(h, s[k], t[k]) \in Signs
  BY <1>1 DEF Laws
<1>5. QED
  BY <1>3, <1>4 DEF Compared, Results, ordered_compare

(* Sequences of objects are ordered if objects are.                         *)
LEMMA OrderedCompareLaws ==
  ASSUME NEW h, NEW n \in Nat, Laws(h, n), NEW s \in Seq(1 .. n), NEW t \in Seq(1 .. n)
  PROVE  /\ ordered_compare(h, comparison(h), s, t) \in Signs
         /\ ordered_compare(h, comparison(h), s, t) = 0 <=> ordered_eq(equality(h), s, t)
         /\ ordered_compare(h, comparison(h), s, t) + ordered_compare(h, comparison(h), t, s) = 0
<1>0. Len(s) \in Int /\ Len(t) \in Int /\ DOMAIN s = 1 .. Len(s) /\ DOMAIN t = 1 .. Len(t)
  OBVIOUS
<1>1. CASE Len(s) # Len(t)
  <2>1. /\ ordered_compare(h, comparison(h), s, t) = Order(Len(s), Len(t))
        /\ ordered_compare(h, comparison(h), t, s) = Order(Len(t), Len(s))
    BY <1>1 DEF ordered_compare
  <2>2. ~ ordered_eq(equality(h), s, t)
    BY <1>1 DEF ordered_eq
  <2>3. /\ Order(Len(s), Len(t)) \in Signs /\ Order(Len(s), Len(t)) # 0
        /\ Order(Len(s), Len(t)) + Order(Len(t), Len(s)) = 0
    BY <1>0, <1>1, OrderLaws
  <2>4. QED
    BY <2>1, <2>2, <2>3
<1>2. CASE Len(s) = Len(t)
  <2> DEFINE p == Compared(h, s, t)
             q == Compared(h, t, s)
  <2>1. /\ p \in Results(Len(s)) /\ q \in Results(Len(s))
        /\ ordered_compare(h, comparison(h), s, t) = FirstDifference(p)
        /\ ordered_compare(h, comparison(h), t, s) = FirstDifference(q)
    BY <1>2, ComparedType
  <2>2. \A k \in 1 .. Len(s) :
          /\ s[k] \in 1 .. n /\ t[k] \in 1 .. n
          /\ p[k] = compare(h, s[k], t[k]) /\ q[k] = compare(h, t[k], s[k])
    BY <1>0, <1>2 DEF Compared
  <2>3. \A k \in 1 .. Len(s) : p[k] + q[k] = 0
    BY <2>2 DEF Laws
  <2>4. \A k \in 1 .. Len(s) : p[k] = 0 <=> is_equal(h, s[k], t[k])
    BY <2>2 DEF Laws
  <2>5. ordered_eq(equality(h), s, t) <=> \A k \in 1 .. Len(s) : p[k] = 0
    BY <1>0, <1>2, <2>4 DEF ordered_eq, is_equal
  <2> HIDE DEF p, q
  <2>6. /\ FirstDifference(p) \in Signs
        /\ FirstDifference(p) = 0 <=> \A k \in 1 .. Len(s) : p[k] = 0
    BY <2>1, DifferenceLaws
  <2>7. FirstDifference(p) + FirstDifference(q) = 0
    BY <2>1, <2>3, DifferenceLaws
  <2>8. QED
    BY <2>1, <2>5, <2>6, <2>7
<1>3. QED
  BY <1>1, <1>2

LEMMA OrderedCompareBetween ==
  ASSUME NEW h, NEW n \in Nat, Laws(h, n),
         NEW s \in Seq(1 .. n), NEW t \in Seq(1 .. n), NEW w \in Seq(1 .. n)
  PROVE  Between(ordered_compare(h, comparison(h), s, t), ordered_compare(h, comparison(h), t, w),
                 ordered_compare(h, comparison(h), s, w))
<1> DEFINE oc(x, y) == ordered_compare(h, comparison(h), x, y)
<1>0. /\ Len(s) \in Int /\ Len(t) \in Int /\ Len(w) \in Int
      /\ DOMAIN s = 1 .. Len(s) /\ DOMAIN t = 1 .. Len(t) /\ DOMAIN w = 1 .. Len(w)
  OBVIOUS
<1>1. /\ Len(s) # Len(t) => oc(s, t) = Order(Len(s), Len(t))
      /\ Len(t) # Len(w) => oc(t, w) = Order(Len(t), Len(w))
      /\ Len(s) # Len(w) => oc(s, w) = Order(Len(s), Len(w))
  BY DEF ordered_compare
<1>2. CASE Len(s) = Len(t) /\ Len(t) = Len(w)
  <2> DEFINE p == Compared(h, s, t)
             q == Compared(h, t, w)
             r == Compared(h, s, w)
  <2>1. /\ p \in Results(Len(s)) /\ q \in Results(Len(s)) /\ r \in Results(Len(s))
        /\ oc(s, t) = FirstDifference(p)
        /\ oc(t, w) = FirstDifference(q)
        /\ oc(s, w) = FirstDifference(r)
    BY <1>2, ComparedType
  <2>2. \A k \in 1 .. Len(s) :
          /\ s[k] \in 1 .. n /\ t[k] \in 1 .. n /\ w[k] \in 1 .. n
          /\ p[k] = compare(h, s[k], t[k]) /\ q[k] = compare(h, t[k], w[k])
          /\ r[k] = compare(h, s[k], w[k])
    BY <1>0, <1>2 DEF Compared
  <2>3. \A k \in 1 .. Len(s) : Between(p[k], q[k], r[k])
    BY <2>2 DEF Laws
  <2> HIDE DEF p, q, r
  <2>4. Between(FirstDifference(p), FirstDifference(q), FirstDifference(r))
    BY <2>1, <2>3, DifferenceBetween
  <2>5. QED
    BY <2>1, <2>4
<1>3. CASE Len(s) = Len(t) /\ Len(t) # Len(w)
  <2>1. oc(s, t) \in Signs /\ oc(t, w) = oc(s, w) /\ oc(t, w) \in Signs /\ oc(t, w) # 0
    BY <1>0, <1>1, <1>3, OrderedCompareLaws, OrderLaws
  <2> HIDE DEF oc
  <2>2. Between(oc(s, t), oc(t, w), oc(s, w))
    BY <2>1 DEF Between
  <2>3. QED
    BY <2>2 DEF oc
<1>4. CASE Len(s) # Len(t) /\ Len(t) = Len(w)
  <2>1. oc(s, t) \in Signs /\ oc(s, t) = oc(s, w) /\ oc(t, w) \in Signs /\ oc(s, t) # 0
    BY <1>0, <1>1, <1>4, OrderedCompareLaws, OrderLaws
  <2> HIDE DEF oc
  <2>2. Between(oc(s, t), oc(t, w), oc(s, w))
    BY <2>1 DEF Between
  <2>3. QED
    BY <2>2 DEF oc
<1>5. CASE Len(s) # Len(t) /\ Len(t) # Len(w)
  <2>1. oc(s, t) = Order(Len(s), Len(t)) /\ oc(t, w) = Order(Len(t), Len(w))
        /\ Between(Order(Len(s), Len(t)), Order(Len(t), Len(w)), Order(Len(s), Len(w)))
    BY <1>0, <1>1, <1>5, OrderBetween
  <2>2. oc(s, t) # 0 /\ oc(t, w) # 0
    BY <1>0, <1>5, <2>1, OrderLaws
  <2>3. ASSUME oc(s, t) = oc(t, w) PROVE oc(s, w) = Order(Len(s), Len(w))
    <3>1. Order(Len(s), Len(w)) # 0
      BY <2>1, <2>2, <2>3 DEF Between
    <3>2. Len(s) # Len(w)
      BY <1>0, <3>1, OrderLaws
    <3>3. QED
      BY <1>1, <3>2
  <2> HIDE DEF oc
  <2>4. Between(oc(s, t), oc(t, w), oc(s, w))
    BY <2>1, <2>2, <2>3 DEF Between
  <2>5. QED
    BY <2>4 DEF oc
<1>6. QED
  BY <1>2, <1>3, <1>4, <1>5

(* What compare makes of two objects: first the types, then the names, or   *)
(* the arguments.                                                           *)
ByContents(h, a, b) ==
  IF form[a.type] = "name" THEN Order(name_order[a.name], name_order[b.name])
  ELSE ordered_compare(h, comparison(h), a.args, b.args)

LEMMA CompareContents ==
  ASSUME NEW h, WellFormed(h), NEW n \in Nat, Laws(h, n), NEW i \in DOMAIN h, NEW j \in DOMAIN h,
         h[i].args \in Seq(1 .. n), h[j].args \in Seq(1 .. n), h[i].type = h[j].type
  PROVE  compare(h, i, j) = ByContents(h, h[i], h[j])
<1> DEFINE s == h[i].args
           t == h[j].args
           c == comparison(h)
           how == form[h[i].type]
<1>1. /\ how \in Forms /\ Arity(how, Len(s)) /\ Arity(how, Len(t))
      /\ Len(s) \in Nat /\ DOMAIN s = 1 .. Len(s)
  BY HeapType, ArgsType DEF Fits
<1>2. compare(h, i, j) = compare_(h, c, h[i], h[j])
  BY CompareIs DEF compare_by
<1>3. CASE how = "name"
  BY <1>2, <1>3 DEF compare_, ByContents
<1>4. CASE how = "members"
  BY <1>2, <1>4 DEF compare_, ByContents
<1>5. CASE how = "leaf"
  <2>1. Len(s) = 0 /\ Len(t) = 0
    BY <1>1, <1>5 DEF Arity
  <2>2. /\ Compared(h, s, t) \in Results(Len(s))
        /\ ordered_compare(h, c, s, t) = FirstDifference(Compared(h, s, t))
    BY <2>1, ComparedType
  <2>3. FirstDifference(Compared(h, s, t)) = 0
    BY <2>1, <2>2, FirstDifferenceIs
  <2>4. compare_(h, c, h[i], h[j]) = 0
    BY <1>5 DEF compare_
  <2>5. QED
    BY <1>2, <1>5, <2>2, <2>3, <2>4 DEF ByContents
<1>6. CASE how = "one"
  <2>1. Len(s) = 1 /\ Len(t) = 1
    BY <1>1, <1>6 DEF Arity
  <2> DEFINE p == Compared(h, s, t)
  <2>2. p \in Results(Len(s)) /\ ordered_compare(h, c, s, t) = FirstDifference(p)
    BY <2>1, ComparedType
  <2>3. p[1] = compare(h, s[1], t[1])
    BY <1>1, <2>1 DEF Compared
  <2> HIDE DEF p
  <2>4. FirstDifference(p) = p[1]
    <3>1. \A k \in 1 .. Len(s) : k = 1
      BY <2>1
    <3>2. 1 \in 1 .. Len(s)
      BY <2>1
    <3>3. QED
      BY <1>1, <2>2, <3>1, <3>2, FirstDifferenceIs
  <2>5. compare_(h, c, h[i], h[j]) = compare(h, s[1], t[1])
    BY <1>6 DEF compare_, compare
  <2>6. QED
    BY <1>2, <1>6, <2>2, <2>3, <2>4, <2>5 DEF ByContents
<1>7. CASE how = "two"
  <2>1. Len(s) = 2 /\ Len(t) = 2 /\ DOMAIN s = 1 .. 2
    BY <1>1, <1>7 DEF Arity
  <2>2. compare_(h, c, h[i], h[j]) = ordered_compare(h, c, s, t)
    BY <1>7, <2>1 DEF compare_, ordered_compare
  <2>3. QED
    BY <1>2, <1>7, <2>2 DEF ByContents
<1>8. QED
  BY <1>1, <1>3, <1>4, <1>5, <1>6, <1>7 DEF Forms

LEMMA EqualContents ==
  ASSUME NEW h, WellFormed(h), NEW n \in Nat, Laws(h, n), NEW i \in DOMAIN h, NEW j \in DOMAIN h,
         h[i].args \in Seq(1 .. n), h[j].args \in Seq(1 .. n), h[i].type = h[j].type
  PROVE  is_equal(h, i, j) <=> ByContents(h, h[i], h[j]) = 0
<1>1. is_equal(h, i, j) <=> equal_by(equality(h), h[i], h[j])
  BY EqualIs
<1>2. CASE form[h[i].type] = "name"
  <2>1. h[i].name \in ToSet(Names) /\ h[j].name \in ToSet(Names)
    BY <1>2, HeapType DEF Fits
  <2>2. Order(name_order[h[i].name], name_order[h[j].name]) = 0 <=> h[i].name = h[j].name
    BY <2>1, NameOrder, OrderLaws
  <2>3. QED
    BY <1>1, <1>2, <2>2 DEF equal_by, ByContents
<1>3. CASE form[h[i].type] # "name"
  <2>1. ordered_compare(h, comparison(h), h[i].args, h[j].args) = 0
        <=> ordered_eq(equality(h), h[i].args, h[j].args)
    BY OrderedCompareLaws
  <2>2. QED
    BY <1>1, <1>3, <2>1 DEF equal_by, ByContents
<1>4. QED
  BY <1>2, <1>3

LEMMA ContentsLaws ==
  ASSUME NEW h, WellFormed(h), NEW n \in Nat, Laws(h, n), NEW i \in DOMAIN h, NEW j \in DOMAIN h,
         h[i].args \in Seq(1 .. n), h[j].args \in Seq(1 .. n), h[i].type = h[j].type
  PROVE  /\ ByContents(h, h[i], h[j]) \in Signs
         /\ ByContents(h, h[i], h[j]) + ByContents(h, h[j], h[i]) = 0
<1>1. CASE form[h[i].type] = "name"
  <2>1. h[i].name \in ToSet(Names) /\ h[j].name \in ToSet(Names)
    BY <1>1, HeapType DEF Fits
  <2>2. name_order[h[i].name] \in Int /\ name_order[h[j].name] \in Int
    BY <2>1, NameOrder
  <2>3. QED
    BY <1>1, <2>2, OrderLaws DEF ByContents
<1>2. CASE form[h[i].type] # "name"
  BY <1>2, OrderedCompareLaws DEF ByContents
<1>3. QED
  BY <1>1, <1>2

LEMMA ContentsBetween ==
  ASSUME NEW h, WellFormed(h), NEW n \in Nat, Laws(h, n),
         NEW i \in DOMAIN h, NEW j \in DOMAIN h, NEW l \in DOMAIN h,
         h[i].args \in Seq(1 .. n), h[j].args \in Seq(1 .. n), h[l].args \in Seq(1 .. n),
         h[i].type = h[j].type, h[j].type = h[l].type
  PROVE  Between(ByContents(h, h[i], h[j]), ByContents(h, h[j], h[l]), ByContents(h, h[i], h[l]))
<1>1. CASE form[h[i].type] = "name"
  <2>1. h[i].name \in ToSet(Names) /\ h[j].name \in ToSet(Names) /\ h[l].name \in ToSet(Names)
    BY <1>1, HeapType DEF Fits
  <2>2. /\ name_order[h[i].name] \in Int /\ name_order[h[j].name] \in Int
        /\ name_order[h[l].name] \in Int
    BY <2>1, NameOrder
  <2>3. QED
    BY <1>1, <2>2, OrderBetween DEF ByContents
<1>2. CASE form[h[i].type] # "name"
  BY <1>2, OrderedCompareBetween DEF ByContents
<1>3. QED
  BY <1>1, <1>2

(* The order of the first n objects gives the one of the next.              *)
LEMMA LawsStep ==
  ASSUME NEW h, WellFormed(h), NEW n \in Nat, n + 1 <= Len(h), Laws(h, n)
  PROVE  Laws(h, n + 1)
<1> DEFINE N == 1 .. n + 1
           code(i) == type_code[h[i].type]
<1>1. \A i \in N : i \in DOMAIN h /\ h[i].args \in Seq(1 .. n)
  <2>1. ASSUME NEW i \in N PROVE i \in DOMAIN h /\ h[i].args \in Seq(1 .. n)
    <3>1. i \in DOMAIN h
      BY HeapType
    <3>2. h[i].args \in Seq(Nat) /\ \A k \in DOMAIN h[i].args : h[i].args[k] \in 1 .. i - 1
      BY <3>1, HeapType, ArgsType DEF Nodes
    <3> DEFINE s == h[i].args
    <3>3. s \in Seq(Nat) /\ \A k \in DOMAIN s : s[k] \in 1 .. n
      BY <3>2
    <3>4. s \in Seq(1 .. n)
      <4> HIDE DEF s
      <4>1. QED
        BY <3>3, SeqDef, ElementOfSeq
    <3>5. QED
      BY <3>1, <3>4
  <2>2. QED
    BY <2>1
<1>2. \A i \in N : code(i) \in Int
  BY <1>1, HeapType, TypeCodes
<1>3. \A i, j \in N : code(i) = code(j) <=> h[i].type = h[j].type
  BY <1>1, HeapType, TypeCodes
<1>4. \A i, j \in N : h[i].type # h[j].type =>
        compare(h, i, j) = Order(code(i), code(j)) /\ ~ is_equal(h, i, j)
  BY <1>1, CompareIs, EqualIs DEF compare_by, equal_by
<1>5. \A i, j \in N : h[i].type = h[j].type =>
        /\ compare(h, i, j) = ByContents(h, h[i], h[j])
        /\ is_equal(h, i, j) <=> ByContents(h, h[i], h[j]) = 0
  BY <1>1, CompareContents, EqualContents
<1>6. ASSUME NEW i \in N, NEW j \in N
      PROVE  /\ compare(h, i, j) \in Signs
             /\ compare(h, i, j) = 0 <=> is_equal(h, i, j)
             /\ compare(h, i, j) + compare(h, j, i) = 0
  <2>1. CASE h[i].type = h[j].type
    <3>1. /\ ByContents(h, h[i], h[j]) \in Signs
          /\ ByContents(h, h[i], h[j]) + ByContents(h, h[j], h[i]) = 0
      BY <1>1, <2>1, ContentsLaws
    <3>2. QED
      BY <1>5, <2>1, <3>1
  <2>2. CASE h[i].type # h[j].type
    <3>1. /\ Order(code(i), code(j)) \in Signs /\ Order(code(i), code(j)) # 0
          /\ Order(code(i), code(j)) + Order(code(j), code(i)) = 0
      BY <1>2, <1>3, <2>2, OrderLaws
    <3> HIDE DEF code
    <3>2. QED
      BY <1>4, <2>2, <3>1
  <2>3. QED
    BY <2>1, <2>2
<1>7. ASSUME NEW i \in N, NEW j \in N, NEW l \in N
      PROVE  Between(compare(h, i, j), compare(h, j, l), compare(h, i, l))
  <2>1. CASE h[i].type = h[j].type /\ h[j].type = h[l].type
    BY <1>1, <1>5, <2>1, ContentsBetween
  <2>2. CASE h[i].type = h[j].type /\ h[j].type # h[l].type
    <3>1. compare(h, j, l) = compare(h, i, l) /\ compare(h, j, l) # 0
      BY <1>4, <1>6, <2>2
    <3>2. QED
      BY <3>1 DEF Between
  <2>3. CASE h[i].type # h[j].type /\ h[j].type = h[l].type
    <3>1. compare(h, i, j) = compare(h, i, l) /\ compare(h, i, j) # 0
      BY <1>4, <1>6, <2>3
    <3>2. QED
      BY <3>1 DEF Between
  <2>4. CASE h[i].type # h[j].type /\ h[j].type # h[l].type
    <3>1. /\ compare(h, i, j) = Order(code(i), code(j)) /\ compare(h, j, l) = Order(code(j), code(l))
          /\ compare(h, i, j) # 0 /\ compare(h, j, l) # 0
      BY <1>4, <1>6, <2>4
    <3>2. Between(Order(code(i), code(j)), Order(code(j), code(l)), Order(code(i), code(l)))
      BY <1>2, OrderBetween
    <3>3. ASSUME compare(h, i, j) = compare(h, j, l) PROVE compare(h, i, l) = compare(h, i, j)
      <4>1. Order(code(i), code(l)) = Order(code(i), code(j))
        BY <3>1, <3>2, <3>3 DEF Between
      <4>2. code(i) # code(l)
        BY <1>2, <3>1, <4>1, OrderLaws
      <4>3. QED
        BY <1>3, <1>4, <3>1, <4>1, <4>2
    <3>4. QED
      BY <3>1, <3>3 DEF Between
  <2>5. QED
    BY <2>1, <2>2, <2>3, <2>4
<1>8. QED
  BY <1>6, <1>7 DEF Laws

LEMMA HeapOrdered ==
  ASSUME NEW h, WellFormed(h)
  PROVE  Laws(h, Len(h))
<1> DEFINE P == {n \in Nat : Laws(h, n)}
<1>1. Len(h) \in Nat
  BY HeapType
<1>2. 0 \in P
  BY DEF Laws
<1>3. \A i \in 0 .. Len(h) - 1 : i \in P => i + 1 \in P
  BY <1>1, LawsStep
<1>4. \A i \in 0 .. Len(h) : i \in P
  <2> HIDE DEF P
  <2>1. P \in SUBSET Nat
    BY DEF P
  <2>2. QED
    BY <1>1, <1>2, <1>3, <2>1, InductionUpTo
<1>5. QED
  BY <1>1, <1>4

-----------------------------------------------------------------------------
(* The rank of an object: how many objects come before it.                  *)
Before(h, i) == {j \in DOMAIN h : Less(h, j, i)}
rank(h, i) == Cardinality(Before(h, i))

LEMMA LessLaws ==
  ASSUME NEW h, WellFormed(h)
  PROVE  /\ \A i, j \in DOMAIN h : /\ compare(h, i, j) \in Signs
                                   /\ compare(h, i, j) = 0 <=> is_equal(h, i, j)
                                   /\ compare(h, i, j) + compare(h, j, i) = 0
         /\ \A i, j, l \in DOMAIN h :
              /\ Less(h, i, j) /\ Less(h, j, l) => Less(h, i, l)
              /\ compare(h, j, l) = 0 => (Less(h, i, j) <=> Less(h, i, l))
<1>1. Laws(h, Len(h)) /\ DOMAIN h = 1 .. Len(h)
  BY HeapOrdered, HeapType
<1>2. QED
  BY <1>1 DEF Laws, Between, Less

LEMMA SmallerRank ==
  ASSUME NEW h, WellFormed(h), NEW i \in DOMAIN h, NEW j \in DOMAIN h, Less(h, i, j)
  PROVE  rank(h, i) < rank(h, j)
<1>1. IsFiniteSet(Before(h, j)) /\ IsFiniteSet(Before(h, i))
  <2>1. IsFiniteSet(DOMAIN h)
    BY HeapType, FS_Interval
  <2>2. Before(h, j) \in SUBSET DOMAIN h /\ Before(h, i) \in SUBSET DOMAIN h
    BY DEF Before
  <2>3. QED
    BY <2>1, <2>2, FS_Subset
<1>2. Before(h, i) \in SUBSET Before(h, j)
  BY LessLaws DEF Before
<1>3. i \in Before(h, j)
  BY DEF Before
<1>4. i \notin Before(h, i)
  <2>1. compare(h, i, i) \in Signs /\ compare(h, i, i) + compare(h, i, i) = 0
    BY LessLaws
  <2>2. compare(h, i, i) # -1
    BY <2>1 DEF Signs
  <2>3. QED
    BY <2>2 DEF Before, Less
<1>5. /\ Cardinality(Before(h, i)) <= Cardinality(Before(h, j))
      /\ Cardinality(Before(h, i)) # Cardinality(Before(h, j))
  BY <1>1, <1>2, <1>3, <1>4, FS_Subset
<1>6. Cardinality(Before(h, i)) \in Nat /\ Cardinality(Before(h, j)) \in Nat
  BY <1>1, FS_CardinalityType
<1>7. QED
  BY <1>5, <1>6 DEF rank

LEMMA RankLaw ==
  ASSUME NEW h, WellFormed(h), NEW i \in DOMAIN h, NEW j \in DOMAIN h
  PROVE  /\ rank(h, i) \in Nat /\ rank(h, j) \in Nat
         /\ compare(h, i, j) = Order(rank(h, i), rank(h, j))
         /\ compare(h, i, j) = 0 <=> is_equal(h, i, j)
<1>1. \A k \in DOMAIN h : rank(h, k) \in Nat
  <2>1. IsFiniteSet(DOMAIN h)
    BY HeapType, FS_Interval
  <2>2. ASSUME NEW k \in DOMAIN h PROVE rank(h, k) \in Nat
    <3>1. Before(h, k) \in SUBSET DOMAIN h
      BY DEF Before
    <3>2. IsFiniteSet(Before(h, k))
      BY <2>1, <3>1, FS_Subset
    <3>3. QED
      BY <3>2, FS_CardinalityType DEF rank
  <2>3. QED
    BY <2>2
<1>2. /\ compare(h, i, j) \in Signs
      /\ compare(h, i, j) = 0 <=> is_equal(h, i, j)
      /\ compare(h, i, j) + compare(h, j, i) = 0
  BY LessLaws
<1>3. CASE compare(h, i, j) = -1
  <2>1. rank(h, i) < rank(h, j)
    BY <1>3, SmallerRank DEF Less
  <2>2. QED
    BY <1>1, <1>2, <1>3, <2>1 DEF Order
<1>4. CASE compare(h, i, j) = 1
  <2>1. compare(h, j, i) = -1
    BY <1>2, <1>4, \A a, b \in Int : a = 1 /\ a + b = 0 => b = -1, LessLaws DEF Signs
  <2>2. rank(h, j) < rank(h, i)
    BY <2>1, SmallerRank DEF Less
  <2>3. QED
    BY <1>1, <1>2, <1>4, <2>2 DEF Order
<1>5. CASE compare(h, i, j) = 0
  <2>1. Before(h, i) = Before(h, j)
    BY <1>5, LessLaws DEF Before
  <2>2. QED
    BY <1>1, <1>2, <1>5, <2>1 DEF Order, rank
<1>6. QED
  BY <1>2, <1>3, <1>4, <1>5 DEF Signs

(* ComparisonOrders: a well-formed heap is ordered.                         *)
LEMMA Ordered ==
  ASSUME WellFormed(heap)
  PROVE  ComparisonOrders
<1> DEFINE C == [i \in Objects |-> [j \in Objects |-> compare(heap, i, j)]]
           R == [i \in Objects |-> Cardinality({j \in Objects : C[j][i] = -1})]
<1>1. \A i, j \in Objects : C[i][j] = compare(heap, i, j)
  OBVIOUS
<1>2. \A i \in Objects : R[i] = rank(heap, i)
  <2>1. ASSUME NEW i \in Objects PROVE R[i] = rank(heap, i)
    <3>1. {j \in Objects : C[j][i] = -1} = Before(heap, i)
      BY <1>1 DEF Before, Less, Objects
    <3> HIDE DEF C
    <3>2. QED
      BY <3>1 DEF rank
  <2>2. QED
    BY <2>1
<1> HIDE DEF C, R
<1>3. \A i, j \in Objects : C[i][j] = Order(R[i], R[j]) /\ (C[i][j] = 0 <=> is_equal(heap, i, j))
  BY <1>1, <1>2, RankLaw DEF Objects
<1>4. QED
  BY <1>3 DEF ComparisonOrders, C, R

-----------------------------------------------------------------------------
(* Heaps grow.  The old objects compare as before, and stand for the same   *)
(* formulas.                                                                *)
Extends(g, h) == Len(h) <= Len(g) /\ \A i \in DOMAIN h : g[i] = h[i]

LEMMA ExtendsType ==
  ASSUME NEW g, NEW h, WellFormed(g), WellFormed(h), Extends(g, h)
  PROVE  /\ \A i \in DOMAIN h : i \in DOMAIN g /\ g[i] = h[i]
         /\ \A i \in DOMAIN h : /\ h[i].args \in Seq(DOMAIN h)
                                /\ \A k \in DOMAIN h[i].args : h[i].args[k] \in 1 .. i - 1
<1>1. ASSUME NEW i \in DOMAIN h
      PROVE  /\ i \in DOMAIN g /\ g[i] = h[i] /\ h[i].args \in Seq(DOMAIN h)
             /\ \A k \in DOMAIN h[i].args : h[i].args[k] \in 1 .. i - 1
  <2>1. i \in DOMAIN g /\ g[i] = h[i]
    BY HeapType DEF Extends
  <2> DEFINE s == h[i].args
  <2>2. s \in Seq(Nat) /\ \A k \in DOMAIN s : s[k] \in DOMAIN h /\ s[k] \in 1 .. i - 1
    BY ArgsType, HeapType DEF Nodes
  <2>3. s \in Seq(DOMAIN h)
    <3> HIDE DEF s
    <3>1. QED
      BY <2>2, SeqDef
  <2>4. QED
    BY <2>1, <2>2, <2>3
<1>2. QED
  BY <1>1

LEMMA SameEquality ==
  ASSUME NEW g, NEW h, WellFormed(g), WellFormed(h), Extends(g, h)
  PROVE  \A i, j \in DOMAIN h : is_equal(g, i, j) <=> is_equal(h, i, j)
<1> DEFINE P == {m \in Nat : \A i, j \in DOMAIN h : i <= m => (is_equal(g, i, j) <=> is_equal(h, i, j))}
<1>1. 0 \in P
  BY HeapType
<1>2. ASSUME NEW m \in P PROVE m + 1 \in P
  <2>1. m \in Nat /\ \A i, j \in DOMAIN h : i <= m => (is_equal(g, i, j) <=> is_equal(h, i, j))
    OBVIOUS
  <2>2. ASSUME NEW i \in DOMAIN h, NEW j \in DOMAIN h, i <= m + 1
        PROVE  is_equal(g, i, j) <=> is_equal(h, i, j)
    <3> DEFINE s == h[i].args
               t == h[j].args
    <3>1. /\ is_equal(h, i, j) <=> equal_by(equality(h), h[i], h[j])
          /\ is_equal(g, i, j) <=> equal_by(equality(g), h[i], h[j])
      BY EqualIs, ExtendsType
    <3>2. s \in Seq(DOMAIN h) /\ t \in Seq(DOMAIN h) /\ \A k \in DOMAIN s : s[k] \in 1 .. i - 1
      BY ExtendsType
    <3>3. \A k \in DOMAIN s : s[k] <= m /\ s[k] \in DOMAIN h
      BY <2>1, <2>2, <3>2, HeapType
    <3>4. ordered_eq(equality(g), s, t) <=> ordered_eq(equality(h), s, t)
      <4>1. CASE Len(s) # Len(t)
        BY <4>1 DEF ordered_eq
      <4>2. CASE Len(s) = Len(t)
        <5> HIDE DEF s, t
        <5>1. \A k \in DOMAIN s : t[k] \in DOMAIN h
          BY <3>2, <4>2
        <5>2. \A k \in DOMAIN s : is_equal(g, s[k], t[k]) <=> is_equal(h, s[k], t[k])
          BY <2>1, <3>3, <5>1
        <5>3. QED
          BY <5>2 DEF ordered_eq, is_equal
      <4>3. QED
        BY <4>1, <4>2
    <3>5. QED
      BY <3>1, <3>4 DEF equal_by
  <2>3. QED
    BY <2>1, <2>2
<1>3. P = Nat
  <2> HIDE DEF P
  <2>1. P \in SUBSET Nat
    BY DEF P
  <2>2. QED
    BY <1>1, <1>2, <2>1, Induction
<1>4. Len(h) \in P /\ \A i \in DOMAIN h : i <= Len(h)
  BY <1>3, HeapType
<1>5. QED
  BY <1>4

LEMMA SameComparison ==
  ASSUME NEW g, NEW h, WellFormed(g), WellFormed(h), Extends(g, h)
  PROVE  \A i, j \in DOMAIN h : compare(g, i, j) = compare(h, i, j)
<1> DEFINE P == {m \in Nat : \A i, j \in DOMAIN h : i <= m => compare(g, i, j) = compare(h, i, j)}
           n == Len(h)
           l == Len(g)
<1>0. /\ n \in Nat /\ DOMAIN h = 1 .. n /\ l \in Nat /\ DOMAIN g = 1 .. l /\ n <= l
      /\ Laws(h, n) /\ Laws(g, l)
  BY HeapType, HeapOrdered DEF Extends
<1>1. 0 \in P
  BY <1>0
<1>2. ASSUME NEW m \in P PROVE m + 1 \in P
  <2>1. m \in Nat /\ \A i, j \in DOMAIN h : i <= m => compare(g, i, j) = compare(h, i, j)
    OBVIOUS
  <2>2. ASSUME NEW i \in DOMAIN h, NEW j \in DOMAIN h, i <= m + 1
        PROVE  compare(g, i, j) = compare(h, i, j)
    <3> DEFINE s == h[i].args
               t == h[j].args
    <3>1. i \in DOMAIN g /\ j \in DOMAIN g /\ g[i] = h[i] /\ g[j] = h[j]
      BY ExtendsType
    <3>2. /\ s \in Seq(1 .. n) /\ t \in Seq(1 .. n) /\ s \in Seq(1 .. l) /\ t \in Seq(1 .. l)
          /\ \A k \in DOMAIN s : s[k] \in 1 .. i - 1
      <4>1. s \in Seq(1 .. n) /\ t \in Seq(1 .. n) /\ \A k \in DOMAIN s : s[k] \in 1 .. i - 1
        BY <1>0, ExtendsType
      <4>2. 1 .. n \subseteq 1 .. l
        BY <1>0
      <4> HIDE DEF s, t
      <4>3. QED
        BY <4>1, <4>2, SeqMonotonic
    <3>3. CASE h[i].type # h[j].type
      <4>1. /\ compare(h, i, j) = Order(type_code[h[i].type], type_code[h[j].type])
            /\ compare(g, i, j) = Order(type_code[h[i].type], type_code[h[j].type])
        BY <3>1, <3>3, CompareIs DEF compare_by
      <4>2. QED
        BY <4>1
    <3>4. CASE h[i].type = h[j].type
      <4>1. /\ compare(h, i, j) = ByContents(h, h[i], h[j])
            /\ compare(g, i, j) = ByContents(g, h[i], h[j])
        <5> HIDE DEF P, n, l
        <5>1. compare(h, i, j) = ByContents(h, h[i], h[j])
          BY <1>0, <3>2, <3>4, CompareContents
        <5>2. compare(g, i, j) = ByContents(g, g[i], g[j])
          BY <1>0, <3>1, <3>2, <3>4, CompareContents
        <5>3. QED
          BY <3>1, <5>1, <5>2
      <4>2. ordered_compare(g, comparison(g), s, t) = ordered_compare(h, comparison(h), s, t)
        <5> HIDE DEF s, t, n, l
        <5>1. CASE Len(s) # Len(t)
          BY <5>1 DEF ordered_compare
        <5>2. CASE Len(s) = Len(t)
          <6>1. \A k \in DOMAIN s : s[k] \in 1 .. n /\ t[k] \in 1 .. n /\ s[k] <= m
            BY <1>0, <2>1, <2>2, <3>2, <5>2
          <6>2. \A k \in DOMAIN s : compare(g, s[k], t[k]) = compare(h, s[k], t[k])
            BY <1>0, <2>1, <6>1
          <6>3. Compared(g, s, t) = Compared(h, s, t)
            BY <6>2 DEF Compared
          <6>4. ordered_compare(h, comparison(h), s, t) = FirstDifference(Compared(h, s, t))
            BY <1>0, <3>2, <5>2, ComparedType
          <6>5. ordered_compare(g, comparison(g), s, t) = FirstDifference(Compared(g, s, t))
            BY <1>0, <3>2, <5>2, ComparedType
          <6>6. QED
            BY <6>3, <6>4, <6>5
        <5>3. QED
          BY <5>1, <5>2
      <4>3. QED
        BY <4>1, <4>2 DEF ByContents
    <3>5. QED
      BY <3>3, <3>4
  <2>3. QED
    BY <2>1, <2>2
<1>3. P = Nat
  <2> HIDE DEF P
  <2>1. P \in SUBSET Nat
    BY DEF P
  <2>2. QED
    BY <1>1, <1>2, <2>1, Induction
<1>4. n \in P /\ \A i \in DOMAIN h : i <= n
  BY <1>0, <1>3
<1>5. QED
  BY <1>4

LEMMA DenotationIs ==
  ASSUME NEW h, WellFormed(h), NEW i \in DOMAIN h
  PROVE  denotations(h)[i]
         = Meaning(h[i], [k \in DOMAIN h[i].args |-> denotations(h)[h[i].args[k]]])
<1> DEFINE d == denotations(h)
<1>1. d = [a \in DOMAIN h |-> Meaning(h[a], [k \in DOMAIN h[a].args |-> d[h[a].args[k]]])]
  BY DenotationsAre
<1> HIDE DEF d
<1>2. d[i] = Meaning(h[i], [k \in DOMAIN h[i].args |-> d[h[i].args[k]]])
  BY <1>1
<1>3. QED
  BY <1>2 DEF d

LEMMA SameDenotations ==
  ASSUME NEW g, NEW h, WellFormed(g), WellFormed(h), Extends(g, h)
  PROVE  \A i \in DOMAIN h : denotations(g)[i] = denotations(h)[i]
<1> DEFINE P == {m \in Nat : \A i \in DOMAIN h : i <= m => denotations(g)[i] = denotations(h)[i]}
<1>1. 0 \in P
  BY HeapType
<1>2. ASSUME NEW m \in P PROVE m + 1 \in P
  <2>1. m \in Nat /\ \A i \in DOMAIN h : i <= m => denotations(g)[i] = denotations(h)[i]
    OBVIOUS
  <2>2. ASSUME NEW i \in DOMAIN h, i <= m + 1 PROVE denotations(g)[i] = denotations(h)[i]
    <3> DEFINE s == h[i].args
    <3>1. i \in DOMAIN g /\ g[i] = h[i] /\ i \in Nat
      BY ExtendsType, HeapType
    <3>2. \A k \in DOMAIN s : s[k] \in DOMAIN h /\ s[k] <= m
      BY <2>1, <2>2, <3>1, ArgsType
    <3>3. \A k \in DOMAIN s : denotations(g)[s[k]] = denotations(h)[s[k]]
      BY <2>1, <3>2
    <3>4. [k \in DOMAIN s |-> denotations(g)[s[k]]] = [k \in DOMAIN s |-> denotations(h)[s[k]]]
      BY <3>3
    <3>5. /\ denotations(h)[i] = Meaning(h[i], [k \in DOMAIN s |-> denotations(h)[s[k]]])
          /\ denotations(g)[i] = Meaning(h[i], [k \in DOMAIN s |-> denotations(g)[s[k]]])
      BY <3>1, DenotationIs
    <3>6. QED
      BY <3>4, <3>5
  <2>3. QED
    BY <2>1, <2>2
<1>3. P = Nat
  <2> HIDE DEF P
  <2>1. P \in SUBSET Nat
    BY DEF P
  <2>2. QED
    BY <1>1, <1>2, <2>1, Induction
<1>4. Len(h) \in P /\ \A i \in DOMAIN h : i <= Len(h)
  BY <1>3, HeapType
<1>5. QED
  BY <1>4

-----------------------------------------------------------------------------
(* What the types are, and the sorts of their arguments: a name is a symbol *)
(* or a quoted formula, which only atoms take.                              *)
sort_of ==
  [t \in Types |->
     CASE t \in DOMAIN pl_form -> "prop"
       [] t \in DOMAIN ltlf_form -> "ltlf"
       [] t \in DOMAIN ldlf_form -> "ldlf"
       [] t \in {"LDLfF", "LDLfT", "LDLfQ"} -> "ldlf"
       [] t \in DOMAIN regex_form -> "regex"
       [] t \in {"Symbol", "QuotedFormula"} -> "name"
       [] OTHER -> "state"]
Atoms == {"PropositionalAtom", "LTLfAtom"}
first_sort ==
  [PropositionalAtom |-> "name", LTLfAtom |-> "name", QuotedFormula |-> "ldlf",
   TestRegExp |-> "ldlf", PropositionalRegExp |-> "prop",
   LDLfDiamond |-> "regex", LDLfBox |-> "regex"]
takes(t, k) == IF k = 1 /\ t \in DOMAIN first_sort THEN first_sort[t] ELSE sort_of[t]
UnaryTypes == {c[1] : c \in unary}
AllSorts == Sorts \cup {"name"}

LEMMA TypeCases ==
  \A t \in Types :
    \/ t \in DOMAIN pl_form \/ t \in DOMAIN ltlf_form \/ t \in DOMAIN ldlf_form
    \/ t \in DOMAIN regex_form \/ t \in {"LDLfF", "LDLfT", "LDLfQ"}
    \/ t \in {"Symbol", "QuotedFormula"} \/ t \in {"NFAState", "DFAState"}
  BY DEF Types, ToSet, TypeID, pl_form, ltlf_form, ldlf_form, regex_form

LEMMA AreTypes ==
  /\ \A t \in DOMAIN pl_form : t \in Types
  /\ \A t \in DOMAIN ltlf_form : t \in Types
  /\ \A t \in DOMAIN ldlf_form : t \in Types
  /\ \A t \in DOMAIN regex_form : t \in Types
  /\ \A t \in {"LDLfF", "LDLfT", "LDLfQ", "Symbol", "QuotedFormula"} : t \in Types
  BY DEF Types, ToSet, TypeID, pl_form, ltlf_form, ldlf_form, regex_form

LEMMA UnaryAre ==
  UnaryTypes = {"PropositionalNot", "LTLfNot", "LTLfNext", "LTLfWeakNext", "LTLfEventually",
                "LTLfAlways", "LDLfNot", "LDLfF", "LDLfT", "LDLfQ", "PropositionalRegExp",
                "TestRegExp", "StarRegExp"}
  BY DEF UnaryTypes, unary

LEMMA TypesDiffer ==
  /\ \A t \in DOMAIN pl_form : /\ t \notin DOMAIN symbol_form /\ t \notin DOMAIN ltlf_form
                                /\ t \notin DOMAIN ldlf_form /\ t \notin DOMAIN regex_form
                                /\ t \notin DOMAIN marker_form
  /\ \A t \in DOMAIN ltlf_form : /\ t \notin DOMAIN symbol_form /\ t \notin DOMAIN ldlf_form
                                  /\ t \notin DOMAIN regex_form /\ t \notin DOMAIN marker_form
  /\ \A t \in DOMAIN ldlf_form : /\ t \notin DOMAIN symbol_form /\ t \notin DOMAIN regex_form
                                  /\ t \notin DOMAIN marker_form
  /\ \A t \in DOMAIN regex_form : t \notin DOMAIN symbol_form /\ t \notin DOMAIN marker_form
  /\ {"LDLfF", "LDLfT", "LDLfQ"} \subseteq DOMAIN marker_form
  /\ {"Symbol", "QuotedFormula"} \subseteq DOMAIN symbol_form \cup DOMAIN marker_form
  BY DEF symbol_form, pl_form, ltlf_form, ldlf_form, regex_form, marker_form

LEMMA NameForms ==
  /\ "Symbol" \in Types /\ form["Symbol"] = "name" /\ sort_of["Symbol"] = "name"
  /\ "QuotedFormula" \in Types /\ form["QuotedFormula"] = "one"
  /\ sort_of["QuotedFormula"] = "name"
<1>1. "Symbol" \in Types /\ "QuotedFormula" \in Types
  BY AreTypes
<1>2. QED
  BY <1>1 DEF form, sort_of, symbol_form, pl_form, ltlf_form, ldlf_form, regex_form, marker_form

LEMMA PropForms ==
  ASSUME NEW t \in DOMAIN pl_form
  PROVE  t \in Types /\ form[t] = pl_form[t] /\ sort_of[t] = "prop"
<1>1. t \in Types
  BY AreTypes
<1>2. QED
  BY <1>1, TypesDiffer DEF form, sort_of

LEMMA LtlfForms ==
  ASSUME NEW t \in DOMAIN ltlf_form
  PROVE  t \in Types /\ form[t] = ltlf_form[t] /\ sort_of[t] = "ltlf"
<1>1. t \in Types
  BY AreTypes
<1>2. QED
  BY <1>1, TypesDiffer DEF form, sort_of

LEMMA LdlfForms ==
  ASSUME NEW t \in DOMAIN ldlf_form
  PROVE  t \in Types /\ form[t] = ldlf_form[t] /\ sort_of[t] = "ldlf"
<1>1. t \in Types
  BY AreTypes
<1>2. QED
  BY <1>1, TypesDiffer DEF form, sort_of

LEMMA MarkerForms ==
  ASSUME NEW t \in {"LDLfF", "LDLfT", "LDLfQ"}
  PROVE  t \in Types /\ form[t] = "one" /\ sort_of[t] = "ldlf"
<1>1. t \in Types
  BY AreTypes
<1>2. QED
  BY <1>1 DEF form, sort_of, symbol_form, pl_form, ltlf_form, ldlf_form, regex_form, marker_form

LEMMA RegexForms ==
  ASSUME NEW t \in DOMAIN regex_form
  PROVE  t \in Types /\ form[t] = regex_form[t] /\ sort_of[t] = "regex"
<1>1. t \in Types
  BY AreTypes
<1>2. QED
  BY <1>1, TypesDiffer DEF form, sort_of

LEMMA StateForms ==
  ASSUME NEW t \in {"NFAState", "DFAState"}, t \in Types
  PROVE  form[t] = "state" /\ sort_of[t] = "state"
  BY DEF form, sort_of, symbol_form, pl_form, ltlf_form, ldlf_form, regex_form, marker_form

(* The types of a form, and the kind that their formulas have.              *)
LEMMA FormFacts ==
  ASSUME NEW t \in Types
  PROVE  /\ form[t] = "name" => t = "Symbol"
         /\ form[t] = "one" <=> t \in UnaryTypes \/ t \in Atoms \/ t = "QuotedFormula"
         /\ form[t] \in Forms <=> sort_of[t] \in AllSorts
         /\ form[t] \in {"leaf", "two", "members"} => t \in DOMAIN kind
         /\ sort_of[t] = "name" => t \in {"Symbol", "QuotedFormula"}
<1>1. CASE t \in DOMAIN pl_form
  BY <1>1, PropForms, UnaryAre DEF pl_form, Atoms, Forms, AllSorts, Sorts, kind
<1>2. CASE t \in DOMAIN ltlf_form
  BY <1>2, LtlfForms, UnaryAre DEF ltlf_form, Atoms, Forms, AllSorts, Sorts, kind
<1>3. CASE t \in DOMAIN ldlf_form
  BY <1>3, LdlfForms, UnaryAre DEF ldlf_form, Atoms, Forms, AllSorts, Sorts, kind
<1>4. CASE t \in DOMAIN regex_form
  BY <1>4, RegexForms, UnaryAre DEF regex_form, Atoms, Forms, AllSorts, Sorts, kind
<1>5. CASE t \in {"LDLfF", "LDLfT", "LDLfQ"}
  BY <1>5, MarkerForms, UnaryAre DEF Atoms, Forms, AllSorts, Sorts
<1>6. CASE t \in {"Symbol", "QuotedFormula"}
  BY <1>6, NameForms, UnaryAre DEF Atoms, Forms, AllSorts, Sorts
<1>7. CASE t \in {"NFAState", "DFAState"}
  BY <1>7, StateForms, UnaryAre DEF Atoms, Forms, AllSorts, Sorts
<1>8. QED
  BY <1>1, <1>2, <1>3, <1>4, <1>5, <1>6, <1>7, TypeCases

-----------------------------------------------------------------------------
(* The formulas that objects stand for.                                     *)
Means(node, of, f) ==
  /\ node.type = "Symbol" => f = <<"atom", node.name>>
  /\ node.type = "QuotedFormula" => f = <<"quoted", of[1]>>
  /\ node.type \in Atoms => f = of[1]
  /\ node.type \in UnaryTypes => f = <<kind[node.type], of[1]>>
  /\ form[node.type] = "leaf" => f = <<kind[node.type]>>
  /\ form[node.type] = "two" => f = <<kind[node.type], of[1], of[2]>>
  /\ node.type = "SequenceRegExp" => f = <<"seq", of>>
  /\ form[node.type] = "members" /\ node.type # "SequenceRegExp" => f = <<kind[node.type], ToSet(of)>>

LEMMA MeaningIs ==
  ASSUME NEW node, node.type \in Types, form[node.type] \in Forms, NEW of
  PROVE  Means(node, of, Meaning(node, of))
<1> DEFINE t == node.type
<1>1. /\ form["Symbol"] = "name" /\ form["QuotedFormula"] = "one" /\ form["SequenceRegExp"] = "members"
      /\ \A x \in Atoms \cup UnaryTypes : x \in Types => form[x] = "one"
  BY NameForms, FormFacts, RegexForms DEF regex_form
<1>2. /\ "QuotedFormula" \notin UnaryTypes \cup Atoms /\ \A x \in Atoms : x \notin UnaryTypes
      /\ "Symbol" \notin UnaryTypes \cup Atoms /\ "SequenceRegExp" \notin UnaryTypes \cup Atoms
  BY UnaryAre DEF Atoms
<1>3. CASE t = "Symbol"
  <2>1. /\ t # "QuotedFormula" /\ t \notin Atoms /\ t # "SequenceRegExp" /\ t \notin UnaryTypes
        /\ form[t] # "members" /\ form[t] # "leaf" /\ form[t] # "two"
    BY <1>1, <1>2, <1>3
  <2>2. Meaning(node, of) = makePropAtom(node.name)
    BY <1>3, <2>1 DEF Meaning, Atoms, UnaryTypes
  <2>3. QED
    BY <1>1, <1>3, <2>1, <2>2 DEF Means, makePropAtom
<1>4. CASE t = "QuotedFormula"
  <2>1. /\ t # "Symbol" /\ t \notin Atoms /\ t # "SequenceRegExp" /\ t \notin UnaryTypes
        /\ form[t] # "members" /\ form[t] # "leaf" /\ form[t] # "two"
    BY <1>1, <1>2, <1>4
  <2>2. Meaning(node, of) = QuotedAtom(of[1])
    BY <1>4, <2>1 DEF Meaning, Atoms, UnaryTypes
  <2>3. QED
    BY <1>4, <2>1, <2>2 DEF Means, QuotedAtom
<1>5. CASE t \in Atoms
  <2>1. /\ t # "Symbol" /\ t # "QuotedFormula" /\ t # "SequenceRegExp" /\ t \notin UnaryTypes
        /\ form[t] # "members" /\ form[t] # "leaf" /\ form[t] # "two"
    BY <1>1, <1>2, <1>5
  <2>2. Meaning(node, of) = of[1]
    BY <1>5, <2>1 DEF Meaning, Atoms, UnaryTypes
  <2>3. QED
    BY <1>5, <2>1, <2>2 DEF Means
<1>6. CASE t \in UnaryTypes
  <2>1. /\ t # "Symbol" /\ t # "QuotedFormula" /\ t # "SequenceRegExp" /\ t \notin Atoms
        /\ form[t] # "members" /\ form[t] # "leaf" /\ form[t] # "two"
    BY <1>1, <1>2, <1>6
  <2>2. Meaning(node, of) = <<kind[t], of[1]>>
    BY <1>6, <2>1 DEF Meaning, Atoms, UnaryTypes
  <2>3. QED
    BY <1>6, <2>1, <2>2 DEF Means
<1>7. CASE t = "SequenceRegExp"
  <2>1. /\ t # "Symbol" /\ t # "QuotedFormula" /\ t \notin UnaryTypes /\ t \notin Atoms
        /\ form[t] # "leaf" /\ form[t] # "two"
    BY <1>1, <1>2, <1>7
  <2>2. Meaning(node, of) = <<"seq", of>>
    BY <1>7, <2>1 DEF Meaning, Atoms, UnaryTypes
  <2>3. QED
    BY <1>7, <2>1, <2>2 DEF Means
<1>8. CASE t # "SequenceRegExp" /\ form[t] \in {"leaf", "two", "members"}
  <2>1. /\ t # "Symbol" /\ t # "QuotedFormula" /\ t \notin UnaryTypes /\ t \notin Atoms
        /\ t # "SequenceRegExp"
    BY <1>1, <1>2, <1>8
  <2>2. CASE form[t] = "leaf"
    <3>1. form[t] # "two" /\ form[t] # "members"
      BY <2>2
    <3>2. Meaning(node, of) = <<kind[t]>>
      BY <2>1, <2>2, <3>1 DEF Meaning, Atoms, UnaryTypes
    <3>3. QED
      BY <2>1, <2>2, <3>1, <3>2 DEF Means
  <2>3. CASE form[t] = "two"
    <3>1. form[t] # "leaf" /\ form[t] # "members"
      BY <2>3
    <3>2. Meaning(node, of) = <<kind[t], of[1], of[2]>>
      BY <2>1, <2>3, <3>1 DEF Meaning, Atoms, UnaryTypes
    <3>3. QED
      BY <2>1, <2>3, <3>1, <3>2 DEF Means
  <2>4. CASE form[t] = "members"
    <3>1. form[t] # "leaf" /\ form[t] # "two"
      BY <2>4
    <3>2. Meaning(node, of) = <<kind[t], ToSet(of)>>
      BY <2>1, <2>4, <3>1 DEF Meaning, Atoms, UnaryTypes
    <3>3. QED
      BY <2>1, <2>4, <3>1, <3>2 DEF Means
  <2>5. QED
    BY <1>8, <2>2, <2>3, <2>4
<1>9. QED
  BY <1>3, <1>4, <1>5, <1>6, <1>7, <1>8, FormFacts DEF Forms

(* A name is not looked at but for a symbol.                                *)
LEMMA SameMeaning ==
  ASSUME NEW a, NEW b, a.type \in Types, a.type = b.type, form[a.type] \in Forms, NEW of,
         a.type = "Symbol" => a.name = b.name
  PROVE  Meaning(a, of) = Meaning(b, of)
<1> DEFINE f == Meaning(a, of)
           g == Meaning(b, of)
<1>1. Means(a, of, f) /\ Means(b, of, g)
  BY MeaningIs
<1>2. /\ form[a.type] = "name" => a.type = "Symbol"
      /\ form[a.type] = "one" => a.type \in UnaryTypes \/ a.type \in Atoms \/ a.type = "QuotedFormula"
  BY FormFacts
<1> HIDE DEF f, g
<1>3. f = g
  BY <1>1, <1>2 DEF Means, Forms
<1>4. QED
  BY <1>3 DEF f, g

(* The kind of a formula tells the types of a sort apart.                   *)
LEMMA KindFacts ==
  ASSUME NEW t \in Types, sort_of[t] \in Sorts, t \notin Atoms
  PROVE  /\ t \in DOMAIN kind /\ kind[t] \notin {"atom", "quoted"}
         /\ \A s \in Types : sort_of[s] = sort_of[t] /\ s \notin Atoms /\ kind[s] = kind[t] => s = t
<1>1. CASE t \in DOMAIN pl_form
  <2>1. ASSUME NEW s \in Types, sort_of[s] = sort_of[t], s \notin Atoms, kind[s] = kind[t] PROVE s = t
    <3>1. s \in DOMAIN pl_form
      BY <1>1, <2>1, TypeCases, PropForms, LtlfForms, LdlfForms, RegexForms, MarkerForms, NameForms, StateForms
    <3>2. QED
      BY <1>1, <2>1, <3>1 DEF pl_form, kind, Atoms
  <2>2. QED
    BY <1>1, <2>1 DEF pl_form, kind, Atoms
<1>2. CASE t \in DOMAIN ltlf_form
  <2>1. ASSUME NEW s \in Types, sort_of[s] = sort_of[t], s \notin Atoms, kind[s] = kind[t] PROVE s = t
    <3>1. s \in DOMAIN ltlf_form
      BY <1>2, <2>1, TypeCases, PropForms, LtlfForms, LdlfForms, RegexForms, MarkerForms, NameForms, StateForms
    <3>2. QED
      BY <1>2, <2>1, <3>1 DEF ltlf_form, kind, Atoms
  <2>2. QED
    BY <1>2, <2>1 DEF ltlf_form, kind, Atoms
<1>3. CASE t \in DOMAIN ldlf_form \cup {"LDLfF", "LDLfT", "LDLfQ"}
  <2>1. ASSUME NEW s \in Types, sort_of[s] = sort_of[t], s \notin Atoms, kind[s] = kind[t] PROVE s = t
    <3>1. s \in DOMAIN ldlf_form \cup {"LDLfF", "LDLfT", "LDLfQ"}
      BY <1>3, <2>1, TypeCases, PropForms, LtlfForms, LdlfForms, RegexForms, MarkerForms, NameForms, StateForms
    <3>2. QED
      BY <1>3, <2>1, <3>1 DEF ldlf_form, kind
  <2>2. QED
    BY <1>3, <2>1 DEF ldlf_form, kind
<1>4. CASE t \in DOMAIN regex_form
  <2>1. ASSUME NEW s \in Types, sort_of[s] = sort_of[t], s \notin Atoms, kind[s] = kind[t] PROVE s = t
    <3>1. s \in DOMAIN regex_form
      BY <1>4, <2>1, TypeCases, PropForms, LtlfForms, LdlfForms, RegexForms, MarkerForms, NameForms, StateForms
    <3>2. QED
      BY <1>4, <2>1, <3>1 DEF regex_form, kind
  <2>2. QED
    BY <1>4, <2>1 DEF regex_form, kind
<1>5. QED
  BY <1>1, <1>2, <1>3, <1>4, TypeCases, NameForms, StateForms DEF Sorts

(* Objects that are equal stand for the same formula.                       *)
LEMMA EqualDenotations ==
  ASSUME NEW h, WellFormed(h)
  PROVE  \A i, j \in DOMAIN h : is_equal(h, i, j) => denotations(h)[i] = denotations(h)[j]
<1> DEFINE P == {m \in Nat : \A i, j \in DOMAIN h :
                   i <= m /\ is_equal(h, i, j) => denotations(h)[i] = denotations(h)[j]}
<1>1. 0 \in P
  BY HeapType
<1>2. ASSUME NEW m \in P PROVE m + 1 \in P
  <2>1. m \in Nat /\ \A i, j \in DOMAIN h :
                       i <= m /\ is_equal(h, i, j) => denotations(h)[i] = denotations(h)[j]
    OBVIOUS
  <2>2. ASSUME NEW i \in DOMAIN h, NEW j \in DOMAIN h, i <= m + 1, is_equal(h, i, j)
        PROVE  denotations(h)[i] = denotations(h)[j]
    <3> DEFINE s == h[i].args
               t == h[j].args
               a == [k \in DOMAIN s |-> denotations(h)[s[k]]]
               b == [k \in DOMAIN t |-> denotations(h)[t[k]]]
    <3>1. denotations(h)[i] = Meaning(h[i], a) /\ denotations(h)[j] = Meaning(h[j], b)
      BY DenotationIs
    <3>2. h[i].type = h[j].type /\ h[i].type \in Types /\ equal_by(equality(h), h[i], h[j])
      BY <2>2, EqualIs, HeapType DEF equal_by
    <3>3. CASE form[h[i].type] = "name"
      <4>1. h[i].type = "Symbol" /\ h[i].name = h[j].name
        BY <3>2, <3>3, FormFacts DEF equal_by
      <4> HIDE DEF a, b
      <4>2. /\ Means(h[i], a, Meaning(h[i], a)) /\ Means(h[j], b, Meaning(h[j], b))
        BY <3>2, HeapType, MeaningIs DEF Fits
      <4>3. QED
        BY <3>1, <3>2, <4>1, <4>2 DEF Means
    <3>4. CASE form[h[i].type] # "name"
      <4>1. Len(s) = Len(t) /\ \A k \in DOMAIN s : equality(h)[s[k]][t[k]]
        BY <3>2, <3>4 DEF equal_by, ordered_eq
      <4>2. DOMAIN s = DOMAIN t
        BY <4>1, ArgsType
      <4>3. \A k \in DOMAIN s : /\ s[k] \in DOMAIN h /\ t[k] \in DOMAIN h /\ s[k] <= m
                                /\ is_equal(h, s[k], t[k])
        <5>1. \A k \in DOMAIN s : s[k] \in DOMAIN h /\ t[k] \in DOMAIN h /\ s[k] \in 1 .. i - 1
          BY <2>2, <4>2, ArgsType
        <5>2. i \in Nat /\ i <= m + 1
          BY <2>2, HeapType
        <5> HIDE DEF s, t
        <5>3. \A k \in DOMAIN s : s[k] <= m
          BY <2>1, <5>1, <5>2
        <5>4. QED
          BY <4>1, <5>1, <5>3 DEF is_equal
      <4>4. a = b
        BY <2>1, <4>2, <4>3
      <4>5. h[i].type # "Symbol"
        BY <3>4, NameForms
      <4> HIDE DEF a, b
      <4>6. Meaning(h[i], a) = Meaning(h[j], a)
        BY <3>2, <4>5, HeapType, SameMeaning DEF Fits
      <4>7. QED
        BY <3>1, <4>4, <4>6
    <3>5. QED
      BY <3>3, <3>4
  <2>3. QED
    BY <2>1, <2>2
<1>3. P = Nat
  <2> HIDE DEF P
  <2>1. P \in SUBSET Nat
    BY DEF P
  <2>2. QED
    BY <1>1, <1>2, <2>1, Induction
<1>4. Len(h) \in P /\ \A i \in DOMAIN h : i <= Len(h)
  BY <1>3, HeapType
<1>5. QED
  BY <1>4

-----------------------------------------------------------------------------
(* Sets of objects are kept as sequences in order.                          *)
InOrder(h, s) == \A k, l \in DOMAIN s : k < l => Less(h, s[k], s[l])

(* Increasing sequences with the same numbers are the same.                 *)
Increasing(u) == \A k, l \in DOMAIN u : k < l => u[k] < u[l]

Within(u, v) == \A k \in DOMAIN u : \E l \in DOMAIN v : u[k] = v[l]

(* A position up to n is one of a sequence that has an n + 1st.            *)
LEMMA Below ==
  ASSUME NEW n \in Nat, NEW l \in Nat, NEW m \in Nat, NEW k \in 1 .. m, n + 1 \in 1 .. l, k <= n
  PROVE  k \in 1 .. n /\ k \in 1 .. l /\ k < n + 1
  OBVIOUS

LEMMA SameStart ==
  ASSUME NEW u \in Seq(Nat), NEW v \in Seq(Nat), Increasing(u), Increasing(v),
         Within(u, v), Within(v, u)
  PROVE  \A k \in Nat : k \in DOMAIN u /\ k \in DOMAIN v => u[k] = v[k]
<1> DEFINE P == {n \in Nat : \A k \in 1 .. n : k \in DOMAIN u /\ k \in DOMAIN v => u[k] = v[k]}
<1>0. /\ Len(u) \in Nat /\ DOMAIN u = 1 .. Len(u) /\ Len(v) \in Nat /\ DOMAIN v = 1 .. Len(v)
      /\ \A k \in DOMAIN u : u[k] \in Nat
      /\ \A k \in DOMAIN v : v[k] \in Nat
  OBVIOUS
<1>1. 0 \in P
  OBVIOUS
<1>2. ASSUME NEW n \in P PROVE n + 1 \in P
  <2>1. n \in Nat /\ \A k \in 1 .. n : k \in DOMAIN u /\ k \in DOMAIN v => u[k] = v[k]
    OBVIOUS
  <2>2. ASSUME n + 1 \in DOMAIN u, n + 1 \in DOMAIN v PROVE u[n + 1] = v[n + 1]
    <3>1. PICK l \in DOMAIN v : u[n + 1] = v[l]
      BY <2>2 DEF Within
    <3>2. PICK k \in DOMAIN u : u[k] = v[n + 1]
      BY <2>2 DEF Within
    <3> HIDE DEF P
    <3>a. k \in 1 .. Len(u) /\ l \in 1 .. Len(v) /\ n + 1 \in 1 .. Len(u) /\ n + 1 \in 1 .. Len(v)
      BY <1>0, <2>2
    <3>b. k \in Nat /\ l \in Nat /\ n \in Nat /\ Len(u) \in Nat /\ Len(v) \in Nat
      BY <1>0, <2>1, <3>a
    <3>3. v[n + 1] <= u[n + 1]
      <4>1. CASE l <= n
        <5>1. l \in 1 .. n /\ l \in DOMAIN u /\ l < n + 1
          <6>1. l \in 1 .. n /\ l \in 1 .. Len(u) /\ l < n + 1
            BY <3>a, <3>b, <4>1, Below
          <6>2. QED
            BY <1>0, <6>1
        <5>2. u[l] = v[l]
          BY <2>1, <5>1
        <5>3. u[l] < u[n + 1]
          BY <2>2, <5>1 DEF Increasing
        <5>4. QED
          BY <1>0, <3>1, <5>1, <5>2, <5>3
      <4>2. CASE l = n + 1
        BY <1>0, <2>2, <3>1, <4>2
      <4>3. CASE l > n + 1
        <5>1. v[n + 1] < v[l]
          BY <2>2, <4>3 DEF Increasing
        <5>2. QED
          BY <1>0, <2>2, <3>1, <5>1
      <4>4. QED
        BY <3>b, <4>1, <4>2, <4>3
    <3>4. u[n + 1] <= v[n + 1]
      <4>1. CASE k <= n
        <5>1. k \in 1 .. n /\ k \in DOMAIN v /\ k < n + 1
          <6>1. k \in 1 .. n /\ k \in 1 .. Len(v) /\ k < n + 1
            BY <3>a, <3>b, <4>1, Below
          <6>2. QED
            BY <1>0, <6>1
        <5>2. u[k] = v[k]
          BY <2>1, <5>1
        <5>3. v[k] < v[n + 1]
          BY <2>2, <5>1 DEF Increasing
        <5>4. QED
          BY <1>0, <3>2, <5>1, <5>2, <5>3
      <4>2. CASE k = n + 1
        BY <1>0, <2>2, <3>2, <4>2
      <4>3. CASE k > n + 1
        <5>1. u[n + 1] < u[k]
          BY <2>2, <4>3 DEF Increasing
        <5>2. QED
          BY <1>0, <2>2, <3>2, <5>1
      <4>4. QED
        BY <3>b, <4>1, <4>2, <4>3
    <3>5. QED
      BY <1>0, <2>2, <3>3, <3>4
  <2>3. QED
    BY <2>1, <2>2
<1>3. P = Nat
  <2> HIDE DEF P
  <2>1. P \in SUBSET Nat
    BY DEF P
  <2>2. QED
    BY <1>1, <1>2, <2>1, Induction
<1>4. ASSUME NEW k \in Nat, k \in DOMAIN u, k \in DOMAIN v PROVE u[k] = v[k]
  <2>1. k \in 1 .. k
    BY <1>0, <1>4
  <2>2. k \in P
    <3> HIDE DEF P
    <3>1. QED
      BY <1>3
  <2>3. QED
    BY <1>4, <2>1, <2>2
<1>5. QED
  BY <1>4

LEMMA SameIncreasing ==
  ASSUME NEW u \in Seq(Nat), NEW v \in Seq(Nat), Increasing(u), Increasing(v),
         Within(u, v), Within(v, u)
  PROVE  Len(u) = Len(v) /\ \A k \in DOMAIN u : u[k] = v[k]
<1>0. /\ Len(u) \in Nat /\ DOMAIN u = 1 .. Len(u) /\ Len(v) \in Nat /\ DOMAIN v = 1 .. Len(v)
      /\ \A k \in DOMAIN u : u[k] \in Nat
      /\ \A k \in DOMAIN v : v[k] \in Nat
  OBVIOUS
<1>1. \A k \in Nat : k \in DOMAIN u /\ k \in DOMAIN v => u[k] = v[k]
  BY SameStart
<1>2. Len(u) <= Len(v)
  <2> DEFINE n == Len(v) + 1
  <2>1. ASSUME Len(v) < Len(u) PROVE FALSE
    <3>1. n \in DOMAIN u
      BY <1>0, <2>1
    <3>2. PICK l \in DOMAIN v : u[n] = v[l]
      BY <3>1 DEF Within
    <3>3. l \in DOMAIN u /\ u[l] = v[l] /\ l < n
      BY <1>0, <1>1, <2>1
    <3>4. u[l] < u[n]
      BY <3>1, <3>3 DEF Increasing
    <3>5. QED
      BY <1>0, <3>1, <3>2, <3>3, <3>4
  <2>2. QED
    BY <1>0, <2>1
<1>3. Len(v) <= Len(u)
  <2> DEFINE n == Len(u) + 1
  <2>1. ASSUME Len(u) < Len(v) PROVE FALSE
    <3>1. n \in DOMAIN v
      BY <1>0, <2>1
    <3>2. PICK k \in DOMAIN u : u[k] = v[n]
      BY <3>1 DEF Within
    <3>3. k \in DOMAIN v /\ u[k] = v[k] /\ k < n
      BY <1>0, <1>1, <2>1
    <3>4. v[k] < v[n]
      BY <3>1, <3>3 DEF Increasing
    <3>5. QED
      BY <1>0, <3>1, <3>2, <3>3, <3>4
  <2>2. QED
    BY <1>0, <2>1
<1>4. Len(u) = Len(v)
  <2>1. Len(u) \in Nat /\ Len(v) \in Nat
    OBVIOUS
  <2>2. \A x, y \in Nat : x <= y /\ y <= x => x = y
    OBVIOUS
  <2>3. QED
    BY <1>2, <1>3, <2>1, <2>2
<1>5. QED
  BY <1>0, <1>1, <1>4

(* Two sets with equal members are equal, member by member.                 *)
LEMMA SameMembers ==
  ASSUME NEW h, WellFormed(h), NEW s \in Seq(DOMAIN h), NEW t \in Seq(DOMAIN h),
         InOrder(h, s), InOrder(h, t),
         \A k \in DOMAIN s : \E l \in DOMAIN t : is_equal(h, s[k], t[l]),
         \A l \in DOMAIN t : \E k \in DOMAIN s : is_equal(h, s[k], t[l])
  PROVE  Len(s) = Len(t) /\ \A k \in DOMAIN s : is_equal(h, s[k], t[k])
<1> DEFINE u == [k \in DOMAIN s |-> rank(h, s[k])]
           v == [k \in DOMAIN t |-> rank(h, t[k])]
<1>0. /\ DOMAIN s = 1 .. Len(s) /\ Len(s) \in Nat /\ DOMAIN t = 1 .. Len(t) /\ Len(t) \in Nat
      /\ \A k \in DOMAIN s : s[k] \in DOMAIN h
      /\ \A k \in DOMAIN t : t[k] \in DOMAIN h
  OBVIOUS
<1>1. \A i, j \in DOMAIN h : /\ rank(h, i) \in Nat
                             /\ is_equal(h, i, j) <=> rank(h, i) = rank(h, j)
                             /\ Less(h, i, j) => rank(h, i) < rank(h, j)
  <2>1. ASSUME NEW i \in DOMAIN h, NEW j \in DOMAIN h
        PROVE  /\ rank(h, i) \in Nat
               /\ is_equal(h, i, j) <=> rank(h, i) = rank(h, j)
               /\ Less(h, i, j) => rank(h, i) < rank(h, j)
    <3>1. /\ rank(h, i) \in Nat /\ rank(h, j) \in Nat
          /\ compare(h, i, j) = Order(rank(h, i), rank(h, j))
          /\ compare(h, i, j) = 0 <=> is_equal(h, i, j)
      BY RankLaw
    <3>2. Order(rank(h, i), rank(h, j)) = 0 <=> rank(h, i) = rank(h, j)
      BY <3>1, OrderLaws
    <3>3. QED
      BY <3>1, <3>2, SmallerRank
  <2>2. QED
    BY <2>1
<1>2. u \in Seq(Nat) /\ v \in Seq(Nat) /\ Len(u) = Len(s) /\ Len(v) = Len(t)
  BY <1>0, <1>1
<1>3. /\ DOMAIN u = DOMAIN s /\ \A k \in DOMAIN s : u[k] = rank(h, s[k])
      /\ DOMAIN v = DOMAIN t /\ \A k \in DOMAIN t : v[k] = rank(h, t[k])
  OBVIOUS
<1> HIDE DEF u, v
<1>4. Increasing(u) /\ Increasing(v)
  <2>1. ASSUME NEW k \in DOMAIN u, NEW l \in DOMAIN u, k < l PROVE u[k] < u[l]
    <3>1. Less(h, s[k], s[l])
      BY <1>3, <2>1 DEF InOrder
    <3>2. QED
      BY <1>0, <1>1, <1>3, <3>1
  <2>2. ASSUME NEW k \in DOMAIN v, NEW l \in DOMAIN v, k < l PROVE v[k] < v[l]
    <3>1. Less(h, t[k], t[l])
      BY <1>3, <2>2 DEF InOrder
    <3>2. QED
      BY <1>0, <1>1, <1>3, <3>1
  <2>3. QED
    BY <2>1, <2>2 DEF Increasing
<1>5. Within(u, v) /\ Within(v, u)
  BY <1>0, <1>1, <1>3 DEF Within
<1>6. Len(u) = Len(v) /\ \A k \in DOMAIN u : u[k] = v[k]
  BY <1>2, <1>4, <1>5, SameIncreasing
<1>7. QED
  BY <1>0, <1>1, <1>2, <1>3, <1>6

-----------------------------------------------------------------------------
(* Heaps of formulas: the arguments of a node are of the sorts its type     *)
(* takes, and those of a set are in order.  Such a heap tells formulas      *)
(* apart: two objects of one sort that stand for one formula are equal.     *)
sort(h, i) == sort_of[h[i].type]
Typed(h) ==
  \A i \in DOMAIN h : \A k \in DOMAIN h[i].args : sort(h, h[i].args[k]) = takes(h[i].type, k)
Canonical(h) ==
  \A i \in DOMAIN h :
    form[h[i].type] = "members" /\ h[i].type # "SequenceRegExp" => InOrder(h, h[i].args)
Sound(h) == WellFormed(h) /\ Typed(h) /\ Canonical(h)

Arguments(h, i) == [k \in DOMAIN h[i].args |-> denotations(h)[h[i].args[k]]]

LEMMA ObjectMeans ==
  ASSUME NEW h, WellFormed(h), NEW i \in DOMAIN h
  PROVE  /\ h[i].type \in Types /\ form[h[i].type] \in Forms /\ sort(h, i) \in AllSorts
         /\ Means(h[i], Arguments(h, i), denotations(h)[i])
<1>1. h[i].type \in Types /\ form[h[i].type] \in Forms
  BY HeapType DEF Fits
<1>2. denotations(h)[i] = Meaning(h[i], Arguments(h, i))
  BY DenotationIs DEF Arguments
<1>3. QED
  BY <1>1, <1>2, MeaningIs, FormFacts DEF sort

(* How the formula of an object starts.                                     *)
LEMMA Tag ==
  ASSUME NEW h, Sound(h), NEW i \in DOMAIN h
  PROVE  /\ h[i].type = "Symbol" => denotations(h)[i][1] = "atom"
         /\ h[i].type = "QuotedFormula" => denotations(h)[i][1] = "quoted"
         /\ h[i].type \in Atoms => denotations(h)[i][1] \in {"atom", "quoted"}
         /\ sort(h, i) \in Sorts /\ h[i].type \notin Atoms => denotations(h)[i][1] = kind[h[i].type]
<1> DEFINE d == denotations(h)
<1>0. WellFormed(h) /\ Typed(h)
  BY DEF Sound
<1>1. ASSUME NEW j \in DOMAIN h, h[j].type = "Symbol" PROVE d[j][1] = "atom"
  BY <1>0, <1>1, ObjectMeans DEF Means
<1>2. ASSUME NEW j \in DOMAIN h, h[j].type = "QuotedFormula" PROVE d[j][1] = "quoted"
  BY <1>0, <1>2, ObjectMeans DEF Means
<1>3. ASSUME h[i].type \in Atoms PROVE d[i][1] \in {"atom", "quoted"}
  <2> DEFINE j == h[i].args[1]
  <2>1. h[i].type \in Types /\ form[h[i].type] = "one"
    BY <1>0, <1>3, ObjectMeans, FormFacts
  <2>2. 1 \in DOMAIN h[i].args
    BY <1>0, <2>1, HeapType, ArgsType DEF Fits, Arity
  <2>3. d[i] = d[j]
    <3>1. d[i] = Arguments(h, i)[1]
      BY <1>0, <1>3, ObjectMeans DEF Means
    <3>2. QED
      BY <2>2, <3>1 DEF Arguments
  <2>4. j \in DOMAIN h
    BY <1>0, <2>2, ArgsType
  <2>5. sort(h, j) = "name"
    <3>1. h[i].type \in DOMAIN first_sort /\ first_sort[h[i].type] = "name"
      BY <1>3 DEF first_sort, Atoms
    <3>2. takes(h[i].type, 1) = "name"
      BY <3>1 DEF takes
    <3>3. sort(h, j) = takes(h[i].type, 1)
      BY <1>0, <2>2 DEF Typed
    <3>4. QED
      BY <3>2, <3>3
  <2>6. h[j].type \in {"Symbol", "QuotedFormula"}
    BY <1>0, <2>4, <2>5, ObjectMeans, FormFacts DEF sort
  <2> HIDE DEF j
  <2>7. QED
    BY <1>1, <1>2, <2>3, <2>4, <2>6
<1>4. ASSUME sort(h, i) \in Sorts, h[i].type \notin Atoms PROVE d[i][1] = kind[h[i].type]
  <2> DEFINE t == h[i].type
  <2>1. /\ t \in Types /\ form[t] \in Forms /\ Means(h[i], Arguments(h, i), d[i])
        /\ form[t] = "one" => t \in UnaryTypes \/ t = "QuotedFormula"
        /\ form[t] = "name" => t = "Symbol"
    BY <1>0, <1>4, ObjectMeans, FormFacts
  <2>2. t # "Symbol" /\ t # "QuotedFormula"
    BY <1>4, NameForms DEF sort, Sorts
  <2>3. t = "SequenceRegExp" => kind[t] = "seq"
    BY DEF kind
  <2>4. QED
    BY <2>1, <2>2, <2>3 DEF Means, Forms
<1>5. QED
  BY <1>1, <1>2, <1>3, <1>4

LEMMA SameType ==
  ASSUME NEW h, Sound(h), NEW i \in DOMAIN h, NEW j \in DOMAIN h, sort(h, i) = sort(h, j),
         denotations(h)[i] = denotations(h)[j]
  PROVE  h[i].type = h[j].type
<1> DEFINE t == h[i].type
           u == h[j].type
<1>0. t \in Types /\ u \in Types /\ sort_of[t] \in AllSorts /\ sort_of[t] = sort_of[u]
  BY ObjectMeans DEF Sound, sort
<1>1. CASE sort_of[t] = "name"
  <2>1. t \in {"Symbol", "QuotedFormula"} /\ u \in {"Symbol", "QuotedFormula"}
    BY <1>0, <1>1, FormFacts
  <2>2. /\ t = "Symbol" => denotations(h)[i][1] = "atom"
        /\ t = "QuotedFormula" => denotations(h)[i][1] = "quoted"
        /\ u = "Symbol" => denotations(h)[j][1] = "atom"
        /\ u = "QuotedFormula" => denotations(h)[j][1] = "quoted"
    BY Tag
  <2>3. QED
    BY <2>1, <2>2
<1>2. CASE sort_of[t] \in Sorts
  <2>1. /\ t \in Atoms => denotations(h)[i][1] \in {"atom", "quoted"}
        /\ u \in Atoms => denotations(h)[j][1] \in {"atom", "quoted"}
        /\ t \notin Atoms => denotations(h)[i][1] = kind[t]
        /\ u \notin Atoms => denotations(h)[j][1] = kind[u]
    BY <1>0, <1>2, Tag DEF sort
  <2>2. /\ t \notin Atoms => kind[t] \notin {"atom", "quoted"}
        /\ u \notin Atoms => kind[u] \notin {"atom", "quoted"}
    BY <1>0, <1>2, KindFacts
  <2>3. t \in Atoms /\ u \in Atoms => t = u
    <3>1. sort_of["PropositionalAtom"] = "prop" /\ sort_of["LTLfAtom"] = "ltlf"
      BY PropForms, LtlfForms DEF pl_form, ltlf_form
    <3>2. QED
      BY <1>0, <3>1 DEF Atoms
  <2>4. t \notin Atoms /\ u \notin Atoms => t = u
    BY <1>0, <1>2, <2>1, KindFacts
  <2>5. QED
    BY <2>1, <2>2, <2>3, <2>4
<1>3. QED
  BY <1>0, <1>1, <1>2 DEF AllSorts

LEMMA SameDenotation ==
  ASSUME NEW h, Sound(h)
  PROVE  \A i, j \in DOMAIN h :
           sort(h, i) = sort(h, j) /\ denotations(h)[i] = denotations(h)[j] => is_equal(h, i, j)
<1> DEFINE d == denotations(h)
           P == {m \in Nat : \A i, j \in DOMAIN h :
                   i <= m /\ sort(h, i) = sort(h, j) /\ d[i] = d[j] => is_equal(h, i, j)}
<1>0. WellFormed(h) /\ Typed(h) /\ Canonical(h)
  BY DEF Sound
<1>1. 0 \in P
  BY <1>0, HeapType
<1>2. ASSUME NEW m \in P PROVE m + 1 \in P
  <2>1. m \in Nat /\ \A i, j \in DOMAIN h :
          i <= m /\ sort(h, i) = sort(h, j) /\ d[i] = d[j] => is_equal(h, i, j)
    OBVIOUS
  <2>2. ASSUME NEW i \in DOMAIN h, NEW j \in DOMAIN h, i <= m + 1, sort(h, i) = sort(h, j), d[i] = d[j]
        PROVE  is_equal(h, i, j)
    <3> DEFINE s == h[i].args
               t == h[j].args
               a == Arguments(h, i)
               b == Arguments(h, j)
               how == form[h[i].type]
    <3>1. h[i].type = h[j].type
      BY <2>2, SameType
    <3>2. /\ h[i].type \in Types /\ how \in Forms
          /\ Means(h[i], a, d[i]) /\ Means(h[j], b, d[i])
      BY <1>0, <2>2, ObjectMeans
    <3>3. /\ Arity(how, Len(s)) /\ Arity(how, Len(t)) /\ Len(s) \in Nat /\ Len(t) \in Nat
          /\ DOMAIN s = 1 .. Len(s) /\ DOMAIN t = 1 .. Len(t)
      BY <1>0, <3>1, HeapType, ArgsType DEF Fits
    <3>4. ASSUME NEW k \in DOMAIN s, NEW l \in DOMAIN t, a[k] = b[l],
                 takes(h[i].type, k) = takes(h[i].type, l)
          PROVE  is_equal(h, s[k], t[l])
      <4>1. s[k] \in DOMAIN h /\ t[l] \in DOMAIN h /\ s[k] <= m
        BY <1>0, <2>1, <2>2, ArgsType, HeapType
      <4>2. sort(h, s[k]) = sort(h, t[l])
        BY <1>0, <3>1, <3>4 DEF Typed
      <4>3. d[s[k]] = d[t[l]]
        BY <3>4 DEF Arguments
      <4> HIDE DEF s, t, d
      <4>4. QED
        BY <2>1, <4>1, <4>2, <4>3
    <3>5. is_equal(h, i, j) <=> equal_by(equality(h), h[i], h[j])
      BY <1>0, EqualIs
    <3>6. CASE how = "name"
      <4>1. h[i].type = "Symbol"
        BY <3>2, <3>6, FormFacts
      <4>2. h[i].name = h[j].name
        BY <3>1, <3>2, <4>1 DEF Means
      <4>3. QED
        BY <3>1, <3>5, <3>6, <4>2 DEF equal_by
    <3>7. CASE how # "name" /\ Len(s) = Len(t) /\ \A k \in DOMAIN s : is_equal(h, s[k], t[k])
      BY <3>1, <3>5, <3>7 DEF equal_by, ordered_eq, is_equal
    <3>8. CASE how = "leaf"
      BY <3>3, <3>7, <3>8 DEF Arity
    <3>9. CASE how = "one"
      <4>1. Len(s) = 1 /\ Len(t) = 1
        BY <3>3, <3>9 DEF Arity
      <4>2. h[i].type \in UnaryTypes \/ h[i].type \in Atoms \/ h[i].type = "QuotedFormula"
        BY <3>2, <3>9, FormFacts
      <4> HIDE DEF a, b
      <4>3. a[1] = b[1]
        BY <3>1, <3>2, <4>2 DEF Means
      <4>4. 1 \in DOMAIN s /\ 1 \in DOMAIN t /\ \A k \in DOMAIN s : k = 1
        BY <3>3, <4>1
      <4> HIDE DEF s, t
      <4>5. is_equal(h, s[1], t[1])
        BY <3>4, <4>3, <4>4
      <4>6. QED
        BY <3>7, <3>9, <4>1, <4>4, <4>5
    <3>10. CASE how = "two"
      <4>1. Len(s) = 2 /\ Len(t) = 2
        BY <3>3, <3>10 DEF Arity
      <4> HIDE DEF a, b
      <4>2. a[1] = b[1] /\ a[2] = b[2]
        BY <3>1, <3>2, <3>10 DEF Means
      <4>3. /\ 1 \in DOMAIN s /\ 1 \in DOMAIN t /\ 2 \in DOMAIN s /\ 2 \in DOMAIN t
            /\ \A k \in DOMAIN s : k = 1 \/ k = 2
        BY <3>3, <4>1
      <4> HIDE DEF s, t
      <4>4. is_equal(h, s[1], t[1]) /\ is_equal(h, s[2], t[2])
        BY <3>4, <4>2, <4>3
      <4>5. QED
        BY <3>7, <3>10, <4>1, <4>3, <4>4
    <3>11. CASE h[i].type = "SequenceRegExp"
      <4>1. how = "members" /\ takes(h[i].type, 1) = sort_of[h[i].type]
            /\ \A k \in DOMAIN s : takes(h[i].type, k) = sort_of[h[i].type]
        BY <3>11, RegexForms DEF takes, first_sort, regex_form
      <4>2. a = b
        <5> HIDE DEF a, b
        <5>1. QED
          BY <3>1, <3>2, <3>11 DEF Means
      <4>3. DOMAIN s = DOMAIN t /\ \A k \in DOMAIN s : a[k] = b[k]
        <5>1. DOMAIN a = DOMAIN s /\ DOMAIN b = DOMAIN t
          BY DEF Arguments
        <5>2. QED
          BY <4>2, <5>1
      <4>4. Len(s) = Len(t)
        BY <3>3, <4>3
      <4> HIDE DEF s, t, a, b
      <4>5. \A k \in DOMAIN s : is_equal(h, s[k], t[k])
        BY <3>4, <4>3
      <4>6. QED
        BY <3>7, <4>1, <4>4, <4>5
    <3>12. CASE how = "members" /\ h[i].type # "SequenceRegExp"
      <4>1. \A k, l \in Nat : takes(h[i].type, k) = takes(h[i].type, l)
        <5>1. h[i].type \notin DOMAIN first_sort
          <6>1. h[i].type \notin Atoms /\ h[i].type # "QuotedFormula" /\ h[i].type \notin UnaryTypes
            BY <3>2, <3>12, FormFacts
          <6>2. h[i].type # "LDLfDiamond" /\ h[i].type # "LDLfBox"
            BY <3>12, LdlfForms DEF ldlf_form
          <6>3. QED
            BY <6>1, <6>2, UnaryAre DEF first_sort, Atoms
        <5>2. QED
          BY <5>1 DEF takes
      <4>2. ToSet(a) = ToSet(b)
        <5> HIDE DEF a, b
        <5>1. QED
          BY <3>1, <3>2, <3>12 DEF Means
      <4>3. DOMAIN a = DOMAIN s /\ DOMAIN b = DOMAIN t
        BY DEF Arguments
      <4>4. s \in Seq(DOMAIN h) /\ t \in Seq(DOMAIN h)
        <5>1. Extends(h, h)
          BY <1>0, HeapType DEF Extends
        <5>2. QED
          BY <1>0, <5>1, ExtendsType
      <4>5. InOrder(h, s) /\ InOrder(h, t)
        BY <1>0, <3>1, <3>12 DEF Canonical
      <4> HIDE DEF a, b, s, t
      <4>6. \A k \in DOMAIN s : \E l \in DOMAIN t : is_equal(h, s[k], t[l])
        <5>1. ASSUME NEW k \in DOMAIN s PROVE \E l \in DOMAIN t : is_equal(h, s[k], t[l])
          <6>1. PICK l \in DOMAIN t : a[k] = b[l]
            BY <4>2, <4>3 DEF ToSet
          <6>2. is_equal(h, s[k], t[l])
            BY <3>3, <3>4, <4>1, <6>1
          <6>3. QED
            BY <6>2
        <5>2. QED
          BY <5>1
      <4>7. \A l \in DOMAIN t : \E k \in DOMAIN s : is_equal(h, s[k], t[l])
        <5>1. ASSUME NEW l \in DOMAIN t PROVE \E k \in DOMAIN s : is_equal(h, s[k], t[l])
          <6>1. PICK k \in DOMAIN s : a[k] = b[l]
            BY <4>2, <4>3 DEF ToSet
          <6>2. is_equal(h, s[k], t[l])
            BY <3>3, <3>4, <4>1, <6>1
          <6>3. QED
            BY <6>2
        <5>2. QED
          BY <5>1
      <4>8. Len(s) = Len(t) /\ \A k \in DOMAIN s : is_equal(h, s[k], t[k])
        BY <1>0, <4>4, <4>5, <4>6, <4>7, SameMembers
      <4>9. QED
        BY <3>7, <3>12, <4>8
    <3>13. QED
      BY <3>2, <3>6, <3>8, <3>9, <3>10, <3>11, <3>12 DEF Forms
  <2>3. QED
    BY <2>1, <2>2
<1>3. P = Nat
  <2> HIDE DEF P
  <2>1. P \in SUBSET Nat
    BY DEF P
  <2>2. QED
    BY <1>1, <1>2, <2>1, Induction
<1>4. Len(h) \in P /\ \A i \in DOMAIN h : i <= Len(h)
  BY <1>0, <1>3, HeapType
<1>5. QED
  BY <1>4

-----------------------------------------------------------------------------
(* The manager: its heap is sound, no two objects of its table are equal,   *)
(* and true and false of every logic are there.                             *)
Unique(h, T) == \A i, j \in T : is_equal(h, i, j) => i = j
HasType(h, T, t) == \E i \in T : h[i].type = t
HasConstants(h, T) == \A s \in DOMAIN And : HasType(h, T, True[s]) /\ HasType(h, T, False[s])
Managed(h, T) == Sound(h) /\ T \subseteq DOMAIN h /\ Unique(h, T) /\ HasConstants(h, T)

(* The call that leaves the manager as r, from m, returns an object of sort *)
(* s that stands for the formula f.                                         *)
Returned(m, r, s, f) ==
  /\ Managed(r.heap, r.table)
  /\ Extends(r.heap, m.heap)
  /\ m.table \subseteq r.table
  /\ r.result \in r.table
  /\ sort(r.heap, r.result) = s
  /\ denotations(r.heap)[r.result] = f

LEMMA EqualLaws ==
  ASSUME NEW h, WellFormed(h), NEW i \in DOMAIN h, NEW j \in DOMAIN h
  PROVE  /\ is_equal(h, i, j) => h[i].type = h[j].type /\ denotations(h)[i] = denotations(h)[j]
         /\ is_equal(h, i, j) => is_equal(h, j, i)
         /\ ast_eq_proc(h, i, j) <=> is_equal(h, i, j)
         /\ is_equal(h, i, i)
<1>1. /\ compare(h, i, j) = 0 <=> is_equal(h, i, j)
      /\ compare(h, j, i) = 0 <=> is_equal(h, j, i)
      /\ compare(h, i, i) = 0 <=> is_equal(h, i, i)
      /\ compare(h, i, j) \in Signs /\ compare(h, j, i) \in Signs /\ compare(h, i, i) \in Signs
      /\ compare(h, i, j) + compare(h, j, i) = 0
      /\ compare(h, i, i) + compare(h, i, i) = 0
  BY LessLaws
<1>2. \A x, y \in Signs : x + y = 0 /\ x = 0 => y = 0
  BY DEF Signs
<1>3. \A x \in Signs : x + x = 0 => x = 0
  BY DEF Signs
<1>4. is_equal(h, i, i) /\ (is_equal(h, i, j) => is_equal(h, j, i))
  BY <1>1, <1>2, <1>3
<1>5. ast_eq_proc(h, i, j) <=> is_equal(h, i, j)
  BY <1>1, <1>4 DEF ast_eq_proc
<1>6. is_equal(h, i, j) => h[i].type = h[j].type
  BY EqualIs DEF equal_by
<1>7. is_equal(h, i, j) => denotations(h)[i] = denotations(h)[j]
  BY EqualDenotations
<1>8. QED
  BY <1>4, <1>5, <1>6, <1>7

LEMMA Inserting ==
  ASSUME NEW m, Managed(m.heap, m.table), NEW h, Sound(h), Extends(h, m.heap), NEW tmp \in DOMAIN h
  PROVE  Returned(m, insert_if_not_available_(m, h, tmp), sort(h, tmp), denotations(h)[tmp])
<1> DEFINE r == insert_if_not_available_(m, h, tmp)
           found == {e \in m.table : ast_eq_proc(h, e, tmp)}
<1>0. /\ WellFormed(h) /\ WellFormed(m.heap) /\ m.table \subseteq DOMAIN m.heap
      /\ Unique(m.heap, m.table) /\ Sound(m.heap) /\ HasConstants(m.heap, m.table)
  BY DEF Managed, Sound
<1>1. \A i \in DOMAIN m.heap : i \in DOMAIN h /\ h[i] = m.heap[i]
  BY <1>0, ExtendsType
<1>2. CASE found = {}
  <2>1. r = [heap |-> h, table |-> m.table \cup {tmp}, result |-> tmp]
    BY <1>2 DEF insert_if_not_available_
  <2>2. \A e \in m.table : ~ is_equal(h, e, tmp) /\ ~ is_equal(h, tmp, e)
    BY <1>0, <1>1, <1>2, EqualLaws
  <2>3. \A i, j \in m.table : is_equal(h, i, j) => i = j
    BY <1>0, SameEquality DEF Unique
  <2>4. Unique(h, m.table \cup {tmp})
    BY <2>2, <2>3 DEF Unique
  <2>5. HasConstants(h, m.table \cup {tmp})
    <3>1. \A t : HasType(m.heap, m.table, t) => HasType(h, m.table \cup {tmp}, t)
      BY <1>0, <1>1 DEF HasType
    <3>2. QED
      BY <1>0, <3>1 DEF HasConstants
  <2>6. Managed(h, m.table \cup {tmp})
    BY <1>0, <1>1, <2>4, <2>5 DEF Managed
  <2>7. QED
    BY <2>1, <2>6 DEF Returned
<1>3. CASE found # {}
  <2> DEFINE e == CHOOSE e \in found : TRUE
  <2>1. r = [heap |-> m.heap, table |-> m.table, result |-> e]
    BY <1>3 DEF insert_if_not_available_
  <2>2. e \in m.table /\ e \in DOMAIN m.heap /\ e \in DOMAIN h /\ ast_eq_proc(h, e, tmp)
    BY <1>0, <1>1, <1>3
  <2> HIDE DEF e
  <2>3. h[e].type = h[tmp].type /\ denotations(h)[e] = denotations(h)[tmp]
    BY <1>0, <2>2, EqualLaws
  <2>4. denotations(m.heap)[e] = denotations(h)[e] /\ sort(m.heap, e) = sort(h, e)
    BY <1>0, <1>1, <2>2, SameDenotations DEF sort
  <2>5. Extends(m.heap, m.heap)
    BY <1>0, HeapType DEF Extends
  <2>6. sort(h, e) = sort(h, tmp)
    BY <2>3 DEF sort
  <2>7. QED
    BY <2>1, <2>2, <2>3, <2>4, <2>5, <2>6 DEF Returned
<1>4. QED
  BY <1>2, <1>3

(* A node whose arguments are objects of the heap h.                        *)
Suits(h, node) ==
  /\ node \in Nodes
  /\ Fits(node, Len(h) + 1)
  /\ \A k \in DOMAIN node.args : sort(h, node.args[k]) = takes(node.type, k)
  /\ form[node.type] = "members" /\ node.type # "SequenceRegExp" => InOrder(h, node.args)
Denoted(h, s) == [k \in DOMAIN s |-> denotations(h)[s[k]]]

LEMMA Appending ==
  ASSUME NEW h, Sound(h), NEW node, Suits(h, node)
  PROVE  /\ Sound(Append(h, node)) /\ Extends(Append(h, node), h)
         /\ Len(Append(h, node)) = Len(h) + 1 /\ Len(h) + 1 \in DOMAIN Append(h, node)
         /\ Append(h, node)[Len(h) + 1] = node
         /\ denotations(Append(h, node))[Len(h) + 1] = Meaning(node, Denoted(h, node.args))
<1> DEFINE g == Append(h, node)
           n == Len(h)
<1>0. WellFormed(h) /\ Typed(h) /\ Canonical(h) /\ h \in Seq(Nodes) /\ n \in Nat /\ DOMAIN h = 1 .. n
  BY HeapType DEF Sound, WellFormed
<1>1. node \in Nodes /\ Fits(node, n + 1)
  BY DEF Suits
<1>2. /\ g \in Seq(Nodes) /\ Len(g) = n + 1 /\ g[n + 1] = node
      /\ \A i \in DOMAIN h : g[i] = h[i]
      /\ DOMAIN g = 1 .. n + 1
  BY <1>0, <1>1, AppendProperties
<1> HIDE DEF g
<1>3. \A i \in DOMAIN g : i = n + 1 \/ i \in DOMAIN h
  BY <1>0, <1>2
<1>4. WellFormed(g)
  BY <1>0, <1>1, <1>2, <1>3 DEF WellFormed
<1>5. Extends(g, h)
  BY <1>0, <1>2 DEF Extends
<1>6. node.args \in Seq(Nat) /\ \A k \in DOMAIN node.args : node.args[k] \in DOMAIN h
  BY <1>0, <1>1 DEF Nodes, Fits
<1>7. \A i \in DOMAIN h : \A k \in DOMAIN h[i].args : h[i].args[k] \in DOMAIN h
  BY <1>0, ArgsType
<1>8. Typed(g)
  <2>1. \A i \in DOMAIN h : sort(g, i) = sort(h, i)
    BY <1>2 DEF sort
  <2>2. \A k \in DOMAIN node.args : sort(h, node.args[k]) = takes(node.type, k)
    BY DEF Suits
  <2>3. QED
    BY <1>0, <1>2, <1>3, <1>6, <1>7, <2>1, <2>2 DEF Typed
<1>9. Canonical(g)
  <2>1. \A i, j \in DOMAIN h : Less(g, i, j) <=> Less(h, i, j)
    BY <1>0, <1>4, <1>5, SameComparison DEF Less
  <2>2. \A s : InOrder(h, s) /\ (\A k \in DOMAIN s : s[k] \in DOMAIN h) => InOrder(g, s)
    BY <2>1 DEF InOrder
  <2>3. form[node.type] = "members" /\ node.type # "SequenceRegExp" => InOrder(h, node.args)
    BY DEF Suits
  <2>4. QED
    BY <1>0, <1>2, <1>3, <1>6, <1>7, <2>2, <2>3 DEF Canonical
<1>10. denotations(g)[n + 1] = Meaning(node, Denoted(h, node.args))
  <2>1. n + 1 \in DOMAIN g
    BY <1>0, <1>2
  <2>2. denotations(g)[n + 1] = Meaning(node, [k \in DOMAIN node.args |-> denotations(g)[node.args[k]]])
    BY <1>2, <1>4, <2>1, DenotationIs
  <2>3. \A k \in DOMAIN node.args : denotations(g)[node.args[k]] = denotations(h)[node.args[k]]
    BY <1>0, <1>4, <1>5, <1>6, SameDenotations
  <2>4. [k \in DOMAIN node.args |-> denotations(g)[node.args[k]]] = Denoted(h, node.args)
    BY <2>3 DEF Denoted
  <2>5. QED
    BY <2>2, <2>4
<1>11. QED
  BY <1>0, <1>2, <1>4, <1>5, <1>8, <1>9, <1>10 DEF Sound, g

LEMMA Making ==
  ASSUME NEW m, Managed(m.heap, m.table), NEW node, Suits(m.heap, node)
  PROVE  Returned(m, make(m, node), sort_of[node.type], Meaning(node, Denoted(m.heap, node.args)))
<1> DEFINE h == Append(m.heap, node)
           tmp == Len(m.heap) + 1
<1>1. Sound(m.heap)
  BY DEF Managed
<1>2. /\ Sound(h) /\ Extends(h, m.heap) /\ tmp \in DOMAIN h /\ h[tmp] = node
      /\ denotations(h)[tmp] = Meaning(node, Denoted(m.heap, node.args))
  BY <1>1, Appending
<1>3. make(m, node) = insert_if_not_available_(m, h, tmp)
  BY DEF make
<1> HIDE DEF h, tmp
<1>4. QED
  BY <1>2, <1>3, Inserting DEF sort

-----------------------------------------------------------------------------
(* The calls that make a node of a fixed number of arguments.               *)
LEMMA UnaryFacts ==
  ASSUME NEW c \in unary
  PROVE  /\ c[1] \in Types /\ form[c[1]] = "one" /\ c[1] \in UnaryTypes
         /\ takes(c[1], 1) = c[2] /\ sort_of[c[1]] = c[3]
<1>1. c[1] \in UnaryTypes
  BY DEF UnaryTypes
<1>2. c[1] \in DOMAIN pl_form => c[1] \in Types /\ sort_of[c[1]] = "prop"
  BY PropForms
<1>3. c[1] \in DOMAIN ltlf_form => c[1] \in Types /\ sort_of[c[1]] = "ltlf"
  BY LtlfForms
<1>4. c[1] \in DOMAIN ldlf_form \cup {"LDLfF", "LDLfT", "LDLfQ"} => c[1] \in Types /\ sort_of[c[1]] = "ldlf"
  BY LdlfForms, MarkerForms
<1>5. c[1] \in DOMAIN regex_form => c[1] \in Types /\ sort_of[c[1]] = "regex"
  BY RegexForms
<1>6. c[1] \in Types /\ sort_of[c[1]] = c[3]
  BY <1>2, <1>3, <1>4, <1>5 DEF unary, pl_form, ltlf_form, ldlf_form, regex_form
<1>7. form[c[1]] = "one"
  BY <1>1, <1>6, FormFacts
<1>8. takes(c[1], 1) = c[2]
  <2>1. c[1] \in DOMAIN first_sort => first_sort[c[1]] = c[2]
    BY DEF first_sort, unary
  <2>2. c[1] \notin DOMAIN first_sort => c[2] = c[3]
    BY DEF first_sort, unary
  <2>3. QED
    BY <1>6, <2>1, <2>2 DEF takes
<1>9. QED
  BY <1>1, <1>6, <1>7, <1>8

LEMMA BinaryFacts ==
  ASSUME NEW c \in binary
  PROVE  /\ c[1] \in Types /\ form[c[1]] = "two"
         /\ takes(c[1], 1) = c[2] /\ takes(c[1], 2) = c[3] /\ sort_of[c[1]] = c[4]
<1>1. c[1] \in DOMAIN ltlf_form => c[1] \in Types /\ sort_of[c[1]] = "ltlf" /\ form[c[1]] = ltlf_form[c[1]]
  BY LtlfForms
<1>2. c[1] \in DOMAIN ldlf_form => c[1] \in Types /\ sort_of[c[1]] = "ldlf" /\ form[c[1]] = ldlf_form[c[1]]
  BY LdlfForms
<1>3. c[1] \in Types /\ sort_of[c[1]] = c[4] /\ form[c[1]] = "two"
  BY <1>1, <1>2 DEF binary, ltlf_form, ldlf_form
<1>4. takes(c[1], 1) = c[2]
  <2>1. c[1] \in DOMAIN first_sort => first_sort[c[1]] = c[2]
    BY DEF first_sort, binary
  <2>2. c[1] \notin DOMAIN first_sort => c[2] = c[4]
    BY DEF first_sort, binary
  <2>3. QED
    BY <1>3, <2>1, <2>2 DEF takes
<1>5. takes(c[1], 2) = c[3]
  <2>1. c[3] = c[4]
    BY DEF binary
  <2>2. QED
    BY <1>3, <2>1 DEF takes
<1>6. QED
  BY <1>3, <1>4, <1>5

LEMMA AtomFacts ==
  ASSUME NEW s \in DOMAIN Atom
  PROVE  /\ Atom[s] \in Types /\ Atom[s] \in Atoms /\ form[Atom[s]] = "one"
         /\ takes(Atom[s], 1) = "name" /\ sort_of[Atom[s]] = s /\ s \in Sorts
<1>1. /\ "PropositionalAtom" \in Types /\ sort_of["PropositionalAtom"] = "prop"
      /\ "LTLfAtom" \in Types /\ sort_of["LTLfAtom"] = "ltlf"
  BY PropForms, LtlfForms DEF pl_form, ltlf_form
<1>2. Atom[s] \in Types /\ Atom[s] \in Atoms /\ sort_of[Atom[s]] = s /\ s \in Sorts
  BY <1>1 DEF Atom, Atoms, Sorts
<1>3. takes(Atom[s], 1) = "name"
  BY <1>2 DEF takes, first_sort, Atoms
<1>4. QED
  BY <1>2, <1>3, FormFacts

LEMMA MakingOne ==
  ASSUME NEW h, Sound(h), NEW t \in Types, form[t] = "one",
         NEW a \in DOMAIN h, sort(h, a) = takes(t, 1)
  PROVE  /\ Suits(h, Node(t, <<a>>)) /\ Node(t, <<a>>).type = t
         /\ Denoted(h, Node(t, <<a>>).args)[1] = denotations(h)[a]
<1> DEFINE node == Node(t, <<a>>)
<1>0. WellFormed(h) /\ a \in Nat /\ a \in 1 .. Len(h) /\ Len(h) \in Nat
  BY HeapType DEF Sound
<1>1. node.type = t /\ node.name = "none" /\ node.args = <<a>> /\ node = [type |-> t, name |-> "none", args |-> <<a>>]
  BY DEF Node
<1>2. node \in Nodes
  <2>1. <<a>> \in Seq(Nat)
    BY <1>0
  <2>2. [type |-> t, name |-> "none", args |-> <<a>>] \in [type : Types, name : ToSet(Names) \cup {"none"}, args : Seq(Nat)]
    BY <2>1
  <2>3. QED
    BY <1>1, <2>2 DEF Nodes
<1>3. Fits(node, Len(h) + 1)
  <2>1. a \in 1 .. Len(h) + 1 - 1
    BY <1>0
  <2>2. QED
    BY <1>1, <2>1 DEF Fits, Arity, Forms
<1>4. \A k \in DOMAIN <<a>> : k = 1
  OBVIOUS
<1> HIDE DEF node
<1>5. Suits(h, node)
  BY <1>1, <1>2, <1>3, <1>4 DEF Suits
<1>6. Denoted(h, node.args)[1] = denotations(h)[a]
  BY <1>1 DEF Denoted
<1>7. QED
  BY <1>1, <1>5, <1>6 DEF node

LEMMA MakingUnary ==
  ASSUME NEW m, Managed(m.heap, m.table), NEW c \in unary,
         NEW a \in DOMAIN m.heap, sort(m.heap, a) = c[2]
  PROVE  Returned(m, make(m, Node(c[1], <<a>>)), c[3], <<kind[c[1]], denotations(m.heap)[a]>>)
<1> DEFINE node == Node(c[1], <<a>>)
           of == Denoted(m.heap, node.args)
<1>1. /\ c[1] \in Types /\ form[c[1]] = "one" /\ c[1] \in UnaryTypes
      /\ takes(c[1], 1) = c[2] /\ sort_of[c[1]] = c[3]
  BY UnaryFacts
<1>2. Suits(m.heap, node) /\ node.type = c[1] /\ of[1] = denotations(m.heap)[a]
  BY <1>1, MakingOne DEF Managed
<1> HIDE DEF node
<1>3. Returned(m, make(m, node), sort_of[node.type], Meaning(node, of))
  BY <1>2, Making
<1>4. Means(node, of, Meaning(node, of))
  BY <1>1, <1>2, MeaningIs DEF Forms
<1>5. Meaning(node, of) = <<kind[c[1]], denotations(m.heap)[a]>>
  BY <1>1, <1>2, <1>4 DEF Means
<1>6. QED
  BY <1>1, <1>2, <1>3, <1>5 DEF node

LEMMA MakingBinary ==
  ASSUME NEW m, Managed(m.heap, m.table), NEW c \in binary,
         NEW a \in DOMAIN m.heap, sort(m.heap, a) = c[2],
         NEW b \in DOMAIN m.heap, sort(m.heap, b) = c[3]
  PROVE  Returned(m, make(m, Node(c[1], <<a, b>>)), c[4],
                  <<kind[c[1]], denotations(m.heap)[a], denotations(m.heap)[b]>>)
<1> DEFINE node == Node(c[1], <<a, b>>)
           h == m.heap
           of == Denoted(h, node.args)
<1>0. WellFormed(h) /\ a \in Nat /\ b \in Nat /\ a \in 1 .. Len(h) /\ b \in 1 .. Len(h) /\ Len(h) \in Nat
  BY HeapType DEF Sound, Managed
<1>1. /\ c[1] \in Types /\ form[c[1]] = "two"
      /\ takes(c[1], 1) = c[2] /\ takes(c[1], 2) = c[3] /\ sort_of[c[1]] = c[4]
  BY BinaryFacts
<1>2. /\ node.type = c[1] /\ node.name = "none" /\ node.args = <<a, b>>
      /\ node = [type |-> c[1], name |-> "none", args |-> <<a, b>>]
  BY DEF Node
<1>3. node \in Nodes
  <2>1. <<a, b>> \in Seq(Nat)
    BY <1>0
  <2>2. [type |-> c[1], name |-> "none", args |-> <<a, b>>] \in [type : Types, name : ToSet(Names) \cup {"none"}, args : Seq(Nat)]
    BY <1>1, <2>1
  <2>3. QED
    BY <1>2, <2>2 DEF Nodes
<1>4. \A k \in DOMAIN <<a, b>> : k = 1 \/ k = 2
  OBVIOUS
<1>5. Fits(node, Len(h) + 1)
  <2>1. a \in 1 .. Len(h) + 1 - 1 /\ b \in 1 .. Len(h) + 1 - 1
    BY <1>0
  <2>2. QED
    BY <1>1, <1>2, <1>4, <2>1 DEF Fits, Arity, Forms
<1> HIDE DEF node
<1>6. Suits(h, node)
  BY <1>1, <1>2, <1>3, <1>4, <1>5 DEF Suits
<1>7. of[1] = denotations(h)[a] /\ of[2] = denotations(h)[b]
  BY <1>2 DEF Denoted
<1> HIDE DEF of
<1>8. Returned(m, make(m, node), sort_of[node.type], Meaning(node, of))
  BY <1>6, Making DEF of
<1>9. Means(node, of, Meaning(node, of))
  BY <1>1, <1>2, MeaningIs DEF Forms
<1>10. Meaning(node, of) = <<kind[c[1]], denotations(h)[a], denotations(h)[b]>>
  BY <1>1, <1>2, <1>7, <1>9 DEF Means
<1>11. QED
  BY <1>1, <1>2, <1>8, <1>10 DEF node

LEMMA MakingNamedAtom ==
  ASSUME NEW m, Managed(m.heap, m.table), NEW s \in DOMAIN Atom, NEW n \in ToSet(Names)
  PROVE  Returned(m, makeNamedAtom(m, Atom[s], n), s, makePropAtom(n))
<1> DEFINE r == makeSymbol(m, n)
           node == Node(Atom[s], <<r.result>>)
           of == Denoted(r.heap, node.args)
<1>1. Returned(m, r, "name", <<"atom", n>>)
  <2> DEFINE symbol == Named(n)
             f == Meaning(symbol, Denoted(m.heap, symbol.args))
  <2>1. /\ symbol.type = "Symbol" /\ symbol.name = n /\ symbol.args = <<>>
        /\ symbol = [type |-> "Symbol", name |-> n, args |-> <<>>]
    BY DEF Named
  <2>2. symbol \in Nodes
    BY <2>1, NameForms DEF Nodes
  <2>3. Fits(symbol, Len(m.heap) + 1)
    BY <2>1, NameForms DEF Fits, Arity, Forms
  <2> HIDE DEF symbol
  <2>4. Suits(m.heap, symbol)
    BY <2>1, <2>2, <2>3, NameForms DEF Suits
  <2>5. Returned(m, make(m, symbol), sort_of["Symbol"], f)
    BY <2>1, <2>4, Making
  <2>6. Means(symbol, Denoted(m.heap, symbol.args), f)
    BY <2>1, NameForms, MeaningIs DEF Forms
  <2>7. f = <<"atom", n>>
    <3> HIDE DEF f
    <3>1. QED
      BY <2>1, <2>6 DEF Means
  <2>8. QED
    BY <2>5, <2>7, NameForms DEF makeSymbol, symbol
<1> HIDE DEF r
<1>2. /\ Managed(r.heap, r.table) /\ r.result \in DOMAIN r.heap /\ sort(r.heap, r.result) = "name"
      /\ denotations(r.heap)[r.result] = <<"atom", n>>
      /\ Extends(r.heap, m.heap) /\ m.table \subseteq r.table
  BY <1>1 DEF Returned, Managed
<1>3. /\ Atom[s] \in Types /\ Atom[s] \in Atoms /\ form[Atom[s]] = "one"
      /\ takes(Atom[s], 1) = "name" /\ sort_of[Atom[s]] = s
  BY AtomFacts
<1>4. Suits(r.heap, node) /\ node.type = Atom[s] /\ of[1] = <<"atom", n>>
  BY <1>2, <1>3, MakingOne DEF Managed
<1> HIDE DEF node
<1>5. Returned(r, make(r, node), s, Meaning(node, of))
  BY <1>2, <1>3, <1>4, Making
<1>6. Means(node, of, Meaning(node, of))
  BY <1>3, <1>4, MeaningIs DEF Forms
<1>7. Meaning(node, of) = <<"atom", n>>
  BY <1>3, <1>4, <1>6 DEF Means
<1> HIDE DEF of
<1>8. Returned(m, make(r, node), s, <<"atom", n>>)
  BY <1>2, <1>5, <1>7, HeapType DEF Returned, Extends, Managed, Sound
<1>9. QED
  BY <1>8 DEF makeNamedAtom, makePropAtom, node, r

LEMMA MakingQuotedAtom ==
  ASSUME NEW m, Managed(m.heap, m.table), NEW f \in DOMAIN m.heap, sort(m.heap, f) = "ldlf"
  PROVE  Returned(m, makeQuotedAtom(m, f), "prop", QuotedAtom(denotations(m.heap)[f]))
<1> DEFINE quoted == Node("QuotedFormula", <<f>>)
           n == Len(m.heap) + 1
           atom == Node("PropositionalAtom", <<n>>)
           g == Append(m.heap, quoted)
           h == Append(g, atom)
           ofq == Denoted(m.heap, quoted.args)
           ofa == Denoted(g, atom.args)
<1>0. Sound(m.heap)
  BY DEF Managed
<1>1. /\ "QuotedFormula" \in Types /\ form["QuotedFormula"] = "one"
      /\ sort_of["QuotedFormula"] = "name" /\ takes("QuotedFormula", 1) = "ldlf"
  BY NameForms DEF takes, first_sort
<1>2. /\ "PropositionalAtom" \in Types /\ form["PropositionalAtom"] = "one"
      /\ sort_of["PropositionalAtom"] = "prop" /\ takes("PropositionalAtom", 1) = "name"
      /\ "PropositionalAtom" \in Atoms
  BY PropForms DEF pl_form, takes, first_sort, Atoms
<1>3. Suits(m.heap, quoted) /\ quoted.type = "QuotedFormula" /\ ofq[1] = denotations(m.heap)[f]
  BY <1>0, <1>1, MakingOne
<1>4. /\ Sound(g) /\ Extends(g, m.heap) /\ n \in DOMAIN g /\ g[n] = quoted /\ Len(g) = n
      /\ denotations(g)[n] = Meaning(quoted, ofq)
  <2> HIDE DEF quoted
  <2>1. QED
    BY <1>0, <1>3, Appending
<1>5. denotations(g)[n] = <<"quoted", denotations(m.heap)[f]>>
  <2> HIDE DEF quoted, ofq
  <2>1. Means(quoted, ofq, Meaning(quoted, ofq))
    BY <1>1, <1>3, MeaningIs DEF Forms
  <2>2. QED
    BY <1>3, <1>4, <2>1 DEF Means
<1>6. sort(g, n) = "name"
  BY <1>1, <1>3, <1>4 DEF sort
<1> HIDE DEF g, quoted
<1>7. Suits(g, atom) /\ atom.type = "PropositionalAtom" /\ ofa[1] = denotations(g)[n]
  BY <1>2, <1>4, <1>6, MakingOne
<1> HIDE DEF atom
<1>8. /\ Sound(h) /\ Extends(h, g) /\ Len(g) + 1 \in DOMAIN h /\ h[Len(g) + 1] = atom
      /\ denotations(h)[Len(g) + 1] = Meaning(atom, ofa)
  BY <1>4, <1>7, Appending
<1>9. Meaning(atom, ofa) = denotations(g)[n]
  <2> HIDE DEF ofa
  <2>1. Means(atom, ofa, Meaning(atom, ofa))
    BY <1>2, <1>7, MeaningIs DEF Forms
  <2>2. QED
    BY <1>2, <1>7, <2>1 DEF Means
<1>10. h = m.heap \o <<quoted, atom>>
  <2>1. m.heap \in Seq(Nodes) /\ quoted \in Nodes /\ atom \in Nodes
    BY <1>0, <1>3, <1>7 DEF Sound, WellFormed, Suits
  <2>2. QED
    BY <2>1 DEF g
<1>11. /\ Sound(h) /\ Extends(h, m.heap) /\ n + 1 \in DOMAIN h /\ sort(h, n + 1) = "prop"
       /\ denotations(h)[n + 1] = <<"quoted", denotations(m.heap)[f]>>
  <2>1. Extends(h, m.heap)
    <3>1. WellFormed(m.heap) /\ WellFormed(g) /\ WellFormed(h)
      BY <1>0, <1>4, <1>8 DEF Sound
    <3>2. \A i \in DOMAIN m.heap : h[i] = m.heap[i]
      BY <1>4, <1>8, <3>1, ExtendsType
    <3>3. Len(m.heap) <= Len(h)
      BY <1>4, <1>8, <3>1, HeapType DEF Extends
    <3>4. QED
      BY <3>2, <3>3 DEF Extends
  <2>2. QED
    BY <1>2, <1>4, <1>5, <1>7, <1>8, <1>9, <2>1 DEF sort
<1>12. n + 1 = Len(m.heap) + 2
  BY <1>0, HeapType DEF Sound
<1>13. makeQuotedAtom(m, f) = insert_if_not_available_(m, h, n + 1)
  BY <1>10, <1>12 DEF makeQuotedAtom, quoted, atom
<1> HIDE DEF h, n
<1>14. QED
  BY <1>11, <1>13, Inserting DEF QuotedAtom

-----------------------------------------------------------------------------
(* FlattenSeq and AllInserted, which are loops.                             *)
Flattening(out, ss) ==
  out[0] = <<>> /\ \A i \in 1 .. Len(ss) : out[i] = out[i - 1] \o ss[i]

LEMMA FlatteningExists ==
  ASSUME NEW S, NEW ss \in Seq(Seq(S))
  PROVE  \E out \in [0 .. Len(ss) -> Seq(S)] : Flattening(out, ss)
<1> DEFINE n == Len(ss)
           T == Seq(S)
           step == [i \in 1 .. n |-> [s \in T |-> s \o ss[i]]]
<1>1. n \in Nat /\ <<>> \in T /\ \A i \in 1 .. n : ss[i] \in T
  OBVIOUS
<1>2. step \in Rounds(n, T)
  <2>1. \A i \in 1 .. n : [s \in T |-> s \o ss[i]] \in [T -> T]
    BY <1>1
  <2>2. QED
    BY <2>1 DEF Rounds
<1>3. \A i \in 1 .. n : \A s \in T : step[i][s] = s \o ss[i]
  OBVIOUS
<1> HIDE DEF step, T, n
<1>4. PICK out : out \in [0 .. n -> T] /\ Computes(out, n, <<>>, step)
  BY <1>1, <1>2, LoopExists
<1>5. ASSUME NEW i \in 1 .. n PROVE out[i] = out[i - 1] \o ss[i]
  <2>1. i - 1 \in 0 .. n
    BY <1>1
  <2>2. out[i] = step[i][out[i - 1]] /\ out[i - 1] \in T
    BY <1>4, <2>1 DEF Computes
  <2>3. QED
    BY <1>3, <2>2
<1>6. out \in [0 .. Len(ss) -> Seq(S)] /\ Flattening(out, ss)
  BY <1>4, <1>5 DEF Flattening, Computes, n, T
<1>7. QED
  BY <1>6

LEMMA FlattenIs ==
  ASSUME NEW S, NEW ss \in Seq(Seq(S))
  PROVE  \E out \in [0 .. Len(ss) -> Seq(S)] : Flattening(out, ss) /\ FlattenSeq(ss) = out[Len(ss)]
<1> DEFINE n == Len(ss)
           F(f) == [i \in 1 .. n |-> IF i = 1 THEN ss[i] ELSE f[i - 1] \o ss[i]]
           flatten == CHOOSE f : f = F(f)
<1>1. n \in Nat /\ \A i \in 1 .. n : ss[i] \in Seq(S)
  OBVIOUS
<1>2. PICK out \in [0 .. n -> Seq(S)] : Flattening(out, ss)
  BY FlatteningExists
<1>3. CASE n = 0
  <2>1. FlattenSeq(ss) = <<>>
    BY <1>3 DEF FlattenSeq
  <2>2. out[n] = <<>>
    BY <1>2, <1>3 DEF Flattening
  <2>3. QED
    BY <1>2, <2>1, <2>2
<1>4. CASE n # 0
  <2> DEFINE g == [i \in 1 .. n |-> out[i]]
  <2>1. ASSUME NEW i \in 1 .. n PROVE g[i] = IF i = 1 THEN ss[i] ELSE g[i - 1] \o ss[i]
    <3>1. out[i] = out[i - 1] \o ss[i]
      BY <1>2 DEF Flattening
    <3>2. CASE i = 1
      <4>1. out[i - 1] = <<>>
        BY <1>2, <3>2 DEF Flattening
      <4>2. <<>> \o ss[i] = ss[i]
        BY <1>1, ConcatEmptySeq
      <4>3. QED
        BY <3>1, <3>2, <4>1, <4>2
    <3>3. CASE i # 1
      <4>1. i - 1 \in 1 .. n
        BY <1>1, <3>3
      <4>2. g[i] = out[i] /\ g[i - 1] = out[i - 1]
        BY <4>1
      <4> HIDE DEF g
      <4>3. QED
        BY <3>1, <3>3, <4>2
    <3>4. QED
      BY <3>2, <3>3
  <2>2. g = F(g)
    <3> HIDE DEF g
    <3>1. g = [i \in 1 .. n |-> g[i]]
      BY DEF g
    <3>2. QED
      BY <2>1, <3>1
  <2>3. flatten = F(flatten)
    <3> HIDE DEF F, g
    <3>1. QED
      BY <2>2
  <2>4. FlattenSeq(ss) = flatten[n]
    BY <1>4 DEF FlattenSeq
  <2> HIDE DEF flatten
  <2>5. /\ \A i \in 1 .. n : flatten[i] = IF i = 1 THEN ss[i] ELSE flatten[i - 1] \o ss[i]
        /\ flatten = [i \in 1 .. n |-> flatten[i]]
    BY <2>3
  <2> DEFINE P == {k \in Nat : k \in 1 .. n => flatten[k] = out[k]}
  <2>6. 0 \in P
    OBVIOUS
  <2>7. ASSUME NEW k \in 0 .. n - 1, k \in P PROVE k + 1 \in P
    <3>1. k + 1 \in 1 .. n /\ k + 1 \in Nat /\ (k + 1) - 1 = k
      OBVIOUS
    <3>2. out[k + 1] = out[k] \o ss[k + 1]
      BY <1>2, <3>1 DEF Flattening
    <3>3. CASE k = 0
      <4>1. <<>> \o ss[1] = ss[1]
        BY <1>1, <3>1, <3>3, ConcatEmptySeq
      <4>2. out[0] = <<>>
        BY <1>2 DEF Flattening
      <4>3. flatten[1] = ss[1]
        <5>1. 1 \in 1 .. n
          BY <3>1, <3>3
        <5>2. QED
          BY <2>5, <5>1
      <4>4. QED
        BY <3>1, <3>2, <3>3, <4>1, <4>2, <4>3
    <3>4. CASE k # 0
      <4>1. k \in 1 .. n /\ k + 1 # 1
        BY <3>1, <3>4
      <4>2. flatten[k + 1] = flatten[k] \o ss[k + 1]
        BY <2>5, <3>1, <4>1
      <4>3. flatten[k] = out[k]
        BY <2>7, <4>1
      <4>4. QED
        BY <3>1, <3>2, <4>2, <4>3
    <3>5. QED
      BY <3>3, <3>4
  <2>8. \A k \in 0 .. n : k \in P
    <3> HIDE DEF P
    <3>1. P \in SUBSET Nat
      BY DEF P
    <3>2. QED
      BY <1>1, <2>6, <2>7, <3>1, InductionUpTo
  <2>9. flatten[n] = out[n]
    BY <1>1, <1>4, <2>8
  <2>10. QED
    BY <1>2, <2>4, <2>9
<1>5. QED
  BY <1>3, <1>4

-----------------------------------------------------------------------------
(* What a flattened sequence holds.                                         *)
LEMMA RangeOfConcat ==
  ASSUME NEW S, NEW s \in Seq(S), NEW t \in Seq(S)
  PROVE  ToSet(s \o t) = ToSet(s) \cup ToSet(t)
<1>1. /\ s \o t \in Seq(S) /\ Len(s \o t) = Len(s) + Len(t)
      /\ \A i \in 1 .. Len(s) + Len(t) : (s \o t)[i] = IF i <= Len(s) THEN s[i] ELSE t[i - Len(s)]
      /\ Len(s) \in Nat /\ Len(t) \in Nat /\ DOMAIN s = 1 .. Len(s) /\ DOMAIN t = 1 .. Len(t)
      /\ DOMAIN (s \o t) = 1 .. Len(s) + Len(t)
  BY ConcatProperties
<1> DEFINE c == s \o t
<1> HIDE DEF c
<1>2. \A x \in ToSet(c) : x \in ToSet(s) \cup ToSet(t)
  <2>1. ASSUME NEW i \in 1 .. Len(s) + Len(t) PROVE c[i] \in ToSet(s) \cup ToSet(t)
    <3>1. CASE i <= Len(s)
      BY <1>1, <3>1 DEF ToSet, c
    <3>2. CASE ~ (i <= Len(s))
      <4>1. i - Len(s) \in 1 .. Len(t)
        BY <1>1, <3>2
      <4>2. QED
        BY <1>1, <3>2, <4>1 DEF ToSet, c
    <3>3. QED
      BY <3>1, <3>2
  <2>2. QED
    BY <1>1, <2>1 DEF ToSet, c
<1>3. \A i \in DOMAIN s : s[i] \in ToSet(c)
  <2>1. ASSUME NEW i \in DOMAIN s PROVE s[i] \in ToSet(c)
    <3>1. i \in 1 .. Len(s) + Len(t) /\ i <= Len(s)
      BY <1>1
    <3>2. c[i] = s[i]
      BY <1>1, <3>1 DEF c
    <3>3. QED
      BY <1>1, <3>1, <3>2 DEF ToSet, c
  <2>2. QED
    BY <2>1
<1>4. \A i \in DOMAIN t : t[i] \in ToSet(c)
  <2>1. ASSUME NEW i \in DOMAIN t PROVE t[i] \in ToSet(c)
    <3>1. i + Len(s) \in 1 .. Len(s) + Len(t) /\ ~ (i + Len(s) <= Len(s)) /\ (i + Len(s)) - Len(s) = i
      BY <1>1
    <3>2. c[i + Len(s)] = t[i]
      BY <1>1, <3>1 DEF c
    <3>3. QED
      BY <1>1, <3>1, <3>2 DEF ToSet, c
  <2>2. QED
    BY <2>1
<1>5. QED
  BY <1>2, <1>3, <1>4 DEF ToSet, c

Elements(ss, n) == UNION {ToSet(ss[k]) : k \in 1 .. n}

LEMMA FlattenRange ==
  ASSUME NEW S, NEW ss \in Seq(Seq(S))
  PROVE  FlattenSeq(ss) \in Seq(S) /\ ToSet(FlattenSeq(ss)) = Elements(ss, Len(ss))
<1> DEFINE n == Len(ss)
<1>1. n \in Nat /\ \A i \in 1 .. n : ss[i] \in Seq(S)
  OBVIOUS
<1>2. PICK out \in [0 .. n -> Seq(S)] : Flattening(out, ss) /\ FlattenSeq(ss) = out[n]
  BY FlattenIs
<1> DEFINE P == {i \in Nat : i \in 0 .. n => ToSet(out[i]) = Elements(ss, i)}
<1>3. 0 \in P
  <2>1. out[0] = <<>>
    BY <1>2 DEF Flattening
  <2>2. ToSet(<<>>) = {} /\ Elements(ss, 0) = {}
    BY DEF ToSet, Elements
  <2>3. QED
    BY <2>1, <2>2
<1>4. ASSUME NEW i \in 0 .. n - 1, i \in P PROVE i + 1 \in P
  <2>1. i + 1 \in 1 .. n /\ i + 1 \in Nat /\ (i + 1) - 1 = i /\ i \in 0 .. n
    BY <1>1
  <2>2. out[i + 1] = out[i] \o ss[i + 1]
    BY <1>2, <2>1 DEF Flattening
  <2>3. out[i] \in Seq(S) /\ ss[i + 1] \in Seq(S)
    BY <1>1, <1>2, <2>1
  <2>4. ToSet(out[i + 1]) = ToSet(out[i]) \cup ToSet(ss[i + 1])
    BY <2>2, <2>3, RangeOfConcat
  <2>5. ToSet(out[i]) = Elements(ss, i)
    BY <1>4, <2>1
  <2>6. 1 .. i + 1 = (1 .. i) \cup {i + 1}
    BY <2>1
  <2>7. Elements(ss, i + 1) = Elements(ss, i) \cup ToSet(ss[i + 1])
    BY <2>6 DEF Elements
  <2>8. QED
    BY <2>1, <2>4, <2>5, <2>7
<1>5. \A i \in 0 .. n : i \in P
  <2> HIDE DEF P
  <2>1. P \in SUBSET Nat
    BY DEF P
  <2>2. QED
    BY <1>1, <1>3, <1>4, <2>1, InductionUpTo
<1>6. n \in 0 .. n
  BY <1>1
<1>7. QED
  BY <1>2, <1>5, <1>6

Mapped(f, s) == [k \in DOMAIN s |-> f[s[k]]]
Maps(f, S, V) == f \in [S -> V]

LEMMA MappedConcat ==
  ASSUME NEW S, NEW V, NEW f, Maps(f, S, V), NEW s \in Seq(S), NEW t \in Seq(S)
  PROVE  /\ Mapped(f, s) \in Seq(V) /\ Mapped(f, t) \in Seq(V)
         /\ Mapped(f, s \o t) = Mapped(f, s) \o Mapped(f, t)
<1> DEFINE a == Mapped(f, s)
           b == Mapped(f, t)
           c == s \o t
           d == Mapped(f, c)
<1>1. /\ c \in Seq(S) /\ Len(c) = Len(s) + Len(t)
      /\ \A i \in 1 .. Len(s) + Len(t) : c[i] = IF i <= Len(s) THEN s[i] ELSE t[i - Len(s)]
      /\ Len(s) \in Nat /\ Len(t) \in Nat /\ DOMAIN s = 1 .. Len(s) /\ DOMAIN t = 1 .. Len(t)
      /\ DOMAIN c = 1 .. Len(s) + Len(t)
  BY ConcatProperties
<1>2. /\ a \in Seq(V) /\ Len(a) = Len(s) /\ DOMAIN a = DOMAIN s
      /\ \A i \in DOMAIN s : a[i] = f[s[i]]
  <2>1. \A i \in DOMAIN s : f[s[i]] \in V
    BY DEF Maps
  <2>2. QED
    BY <1>1, <2>1 DEF Mapped
<1>3. /\ b \in Seq(V) /\ Len(b) = Len(t) /\ DOMAIN b = DOMAIN t
      /\ \A i \in DOMAIN t : b[i] = f[t[i]]
  <2>1. \A i \in DOMAIN t : f[t[i]] \in V
    BY DEF Maps
  <2>2. QED
    BY <1>1, <2>1 DEF Mapped
<1> HIDE DEF c
<1>4. /\ d \in Seq(V) /\ Len(d) = Len(c) /\ DOMAIN d = DOMAIN c
      /\ \A i \in DOMAIN c : d[i] = f[c[i]]
  <2>1. \A i \in DOMAIN c : f[c[i]] \in V
    BY <1>1 DEF Maps
  <2>2. QED
    BY <1>1, <2>1 DEF Mapped
<1> HIDE DEF a, b, d
<1>5. /\ a \o b \in Seq(V) /\ Len(a \o b) = Len(a) + Len(b)
      /\ \A i \in 1 .. Len(a) + Len(b) : (a \o b)[i] = IF i <= Len(a) THEN a[i] ELSE b[i - Len(a)]
  <2>1. a \in Seq(V) /\ b \in Seq(V)
    BY <1>2, <1>3
  <2>2. QED
    BY <2>1, ConcatProperties
<1>6. \A i \in 1 .. Len(d) : d[i] = (a \o b)[i]
  <2>1. ASSUME NEW i \in 1 .. Len(d) PROVE d[i] = (a \o b)[i]
    <3>1. i \in DOMAIN c /\ i \in 1 .. Len(s) + Len(t)
      BY <1>1, <1>4
    <3>2. CASE i <= Len(s)
      <4>1. i \in DOMAIN s /\ c[i] = s[i]
        BY <1>1, <3>1, <3>2
      <4>2. (a \o b)[i] = a[i]
        BY <1>2, <1>3, <1>5, <3>1, <3>2
      <4>3. QED
        BY <1>2, <1>4, <3>1, <4>1, <4>2
    <3>3. CASE ~ (i <= Len(s))
      <4>1. i - Len(s) \in DOMAIN t
        BY <1>1, <3>1, <3>3
      <4>2. QED
        BY <1>1, <1>2, <1>3, <1>4, <1>5, <3>1, <3>3, <4>1
    <3>4. QED
      BY <3>2, <3>3
  <2>2. QED
    BY <2>1
<1>7. d = a \o b
  BY <1>1, <1>2, <1>3, <1>4, <1>5, <1>6, SeqEqual
<1>8. QED
  BY <1>2, <1>3, <1>7 DEF a, b, c, d

LEMMA FlattenMapped ==
  ASSUME NEW S, NEW V, NEW f, Maps(f, S, V), NEW ss \in Seq(Seq(S))
  PROVE  FlattenSeq([k \in DOMAIN ss |-> Mapped(f, ss[k])]) = Mapped(f, FlattenSeq(ss))
<1> DEFINE n == Len(ss)
           vs == [k \in DOMAIN ss |-> Mapped(f, ss[k])]
<1>0. \A s, t \in Seq(S) : Mapped(f, s \o t) = Mapped(f, s) \o Mapped(f, t)
  <2>1. ASSUME NEW s \in Seq(S), NEW t \in Seq(S)
        PROVE  Mapped(f, s \o t) = Mapped(f, s) \o Mapped(f, t)
    <3> HIDE DEF n, vs
    <3>1. QED
      BY MappedConcat
  <2>2. QED
    BY <2>1
<1>1. n \in Nat /\ DOMAIN ss = 1 .. n /\ \A i \in 1 .. n : ss[i] \in Seq(S)
  OBVIOUS
<1>2. PICK out \in [0 .. n -> Seq(S)] : Flattening(out, ss) /\ FlattenSeq(ss) = out[n]
  BY FlattenIs
<1>3. /\ vs \in Seq(Seq(V)) /\ Len(vs) = n /\ \A i \in 1 .. n : vs[i] = Mapped(f, ss[i])
  <2>1. \A i \in 1 .. n : Mapped(f, ss[i]) \in Seq(V)
    BY <1>1, MappedConcat
  <2>2. QED
    BY <1>1, <2>1
<1> HIDE DEF vs
<1>4. PICK res \in [0 .. n -> Seq(V)] : Flattening(res, vs) /\ FlattenSeq(vs) = res[n]
  BY <1>3, FlattenIs
<1> DEFINE P == {i \in Nat : i \in 0 .. n => res[i] = Mapped(f, out[i])}
<1>5. 0 \in P
  <2>1. out[0] = <<>> /\ res[0] = <<>>
    BY <1>2, <1>4 DEF Flattening
  <2>2. Mapped(f, <<>>) = <<>>
    BY DEF Mapped
  <2>3. QED
    BY <2>1, <2>2
<1>6. ASSUME NEW i \in 0 .. n - 1, i \in P PROVE i + 1 \in P
  <2>1. i + 1 \in 1 .. n /\ i + 1 \in Nat /\ (i + 1) - 1 = i /\ i \in 0 .. n
    BY <1>1
  <2>2. out[i + 1] = out[i] \o ss[i + 1] /\ res[i + 1] = res[i] \o vs[i + 1]
    BY <1>2, <1>3, <1>4, <2>1 DEF Flattening
  <2>3. out[i] \in Seq(S) /\ ss[i + 1] \in Seq(S)
    BY <1>1, <1>2, <2>1
  <2>4. Mapped(f, out[i + 1]) = Mapped(f, out[i]) \o Mapped(f, ss[i + 1])
    BY <1>0, <2>2, <2>3
  <2>5. res[i] = Mapped(f, out[i]) /\ vs[i + 1] = Mapped(f, ss[i + 1])
    BY <1>3, <1>6, <2>1
  <2>6. QED
    BY <2>1, <2>2, <2>4, <2>5
<1>7. \A i \in 0 .. n : i \in P
  <2> HIDE DEF P
  <2>1. P \in SUBSET Nat
    BY DEF P
  <2>2. QED
    BY <1>1, <1>5, <1>6, <2>1, InductionUpTo
<1>8. res[n] = Mapped(f, out[n])
  BY <1>1, <1>7
<1>9. QED
  BY <1>2, <1>4, <1>8 DEF vs

-----------------------------------------------------------------------------
(* Sets of formulas: a member that is inserted goes behind those that are   *)
(* less.                                                                    *)
LEMMA LowerPart ==
  ASSUME NEW n \in Nat, NEW S \in SUBSET (1 .. n),
         \A k \in S : \A l \in 1 .. n : l <= k => l \in S
  PROVE  \E p \in 0 .. n : S = 1 .. p /\ Cardinality(S) = p
<1> DEFINE R == (1 .. n + 1) \ S
           p == Min(R) - 1
<1>1. n + 1 \in Nat /\ n + 1 \in R /\ R \in SUBSET (1 .. n + 1) /\ R # {}
  OBVIOUS
<1>2. Min(R) \in R /\ \A k \in R : Min(R) <= k
  <2> HIDE DEF R
  <2>1. QED
    BY <1>1, LeastMember
<1>3. Min(R) \in 1 .. n + 1 /\ p \in 0 .. n
  BY <1>1, <1>2
<1>4. ASSUME NEW k \in S PROVE k \in 1 .. p
  <2>1. k \in 1 .. n /\ ~ (Min(R) <= k)
    BY <1>2, <1>3
  <2>2. QED
    BY <1>3, <2>1
<1>5. ASSUME NEW k \in 1 .. p PROVE k \in S
  <2>1. k \in 1 .. n + 1 /\ ~ (Min(R) <= k)
    BY <1>3
  <2>2. QED
    BY <1>2, <2>1
<1> HIDE DEF p, R
<1>6. S = 1 .. p
  BY <1>4, <1>5
<1>7. Cardinality(1 .. p) = p
  <2>1. 1 \in Int /\ p \in Int /\ p \in Nat
    BY <1>3
  <2>2. Cardinality(1 .. p) = IF 1 > p THEN 0 ELSE p - 1 + 1
    BY <2>1, FS_Interval
  <2>3. QED
    BY <2>1, <2>2
<1>8. QED
  BY <1>3, <1>6, <1>7

(* The sequence r is s with x behind the first p members.                   *)
PutAfter(r, s, p, x) ==
  /\ Len(r) = Len(s) + 1
  /\ \A k \in 1 .. p : r[k] = s[k]
  /\ r[p + 1] = x
  /\ \A k \in p + 1 .. Len(s) : r[k + 1] = s[k]

LEMMA InsertAtIs ==
  ASSUME NEW S, NEW s \in Seq(S), NEW x \in S, NEW p \in 0 .. Len(s), NEW q, q = p + 1
  PROVE  InsertAt(s, q, x) \in Seq(S) /\ PutAfter(InsertAt(s, q, x), s, p, x)
<1> DEFINE a == SubSeq(s, 1, (p + 1) - 1)
           b == SubSeq(s, p + 1, Len(s))
           c == <<x>>
           n == Len(s)
<1>0. n \in Nat /\ p \in Nat /\ p <= n /\ (p + 1) - 1 = p /\ \A k \in 1 .. n : s[k] \in S
  OBVIOUS
<1>1. a \in Seq(S) /\ Len(a) = p /\ \A k \in 1 .. p : a[k] = s[k]
  <2>1. \A k \in 1 .. p : s[k] \in S
    BY <1>0
  <2>2. /\ SubSeq(s, 1, p) \in Seq(S)
        /\ Len(SubSeq(s, 1, p)) = IF 1 <= p THEN p - 1 + 1 ELSE 0
        /\ \A i \in 1 .. p - 1 + 1 : SubSeq(s, 1, p)[i] = s[1 + i - 1]
    BY <1>0, <2>1, SubSeqProperties
  <2>3. QED
    BY <1>0, <2>2
<1>2. b \in Seq(S) /\ Len(b) = n - p /\ \A k \in 1 .. n - p : b[k] = s[p + k]
  <2>1. \A k \in p + 1 .. n : s[k] \in S
    BY <1>0
  <2>2. /\ b \in Seq(S)
        /\ Len(b) = IF p + 1 <= n THEN n - (p + 1) + 1 ELSE 0
        /\ \A i \in 1 .. n - (p + 1) + 1 : b[i] = s[(p + 1) + i - 1]
    BY <1>0, <2>1, SubSeqProperties
  <2>3. QED
    BY <1>0, <2>2
<1>3. c \in Seq(S) /\ Len(c) = 1 /\ c[1] = x
  OBVIOUS
<1>4. InsertAt(s, p + 1, x) = (a \o c) \o b
  BY DEF InsertAt
<1> HIDE DEF a, b, c
<1>5. /\ a \o c \in Seq(S) /\ Len(a \o c) = p + 1
      /\ \A i \in 1 .. p + 1 : (a \o c)[i] = IF i <= p THEN a[i] ELSE c[i - p]
  <2>1. /\ a \o c \in Seq(S) /\ Len(a \o c) = Len(a) + Len(c)
        /\ \A i \in 1 .. Len(a) + Len(c) : (a \o c)[i] = IF i <= Len(a) THEN a[i] ELSE c[i - Len(a)]
    BY <1>1, <1>3, ConcatProperties
  <2>2. Len(a) = p /\ Len(a) + Len(c) = p + 1
    BY <1>0, <1>1, <1>3
  <2>3. QED
    BY <2>1, <2>2
<1> DEFINE d == a \o c
<1> HIDE DEF d
<1>6. /\ d \o b \in Seq(S) /\ Len(d \o b) = n + 1
      /\ \A i \in 1 .. n + 1 : (d \o b)[i] = IF i <= p + 1 THEN d[i] ELSE b[i - (p + 1)]
  <2>1. /\ d \o b \in Seq(S) /\ Len(d \o b) = Len(d) + Len(b)
        /\ \A i \in 1 .. Len(d) + Len(b) : (d \o b)[i] = IF i <= Len(d) THEN d[i] ELSE b[i - Len(d)]
    BY <1>2, <1>5, ConcatProperties DEF d
  <2>2. Len(d) = p + 1 /\ Len(d) + Len(b) = n + 1
    BY <1>0, <1>2, <1>5 DEF d
  <2>3. QED
    BY <2>1, <2>2
<1> DEFINE e == d \o b
<1> HIDE DEF e
<1>7. \A k \in 1 .. p : e[k] = s[k]
  BY <1>0, <1>1, <1>5, <1>6 DEF d, e
<1>8. e[p + 1] = x
  <2>1. p + 1 \in 1 .. n + 1 /\ p + 1 \in 1 .. p + 1 /\ ~ (p + 1 <= p) /\ (p + 1) - p = 1
    BY <1>0
  <2>2. e[p + 1] = d[p + 1]
    BY <1>6, <2>1 DEF e
  <2>3. d[p + 1] = c[1]
    BY <1>5, <2>1 DEF d
  <2>4. QED
    BY <1>3, <2>2, <2>3
<1>9. ASSUME NEW k \in p + 1 .. n PROVE e[k + 1] = s[k]
  <2>1. k + 1 \in 1 .. n + 1 /\ ~ (k + 1 <= p + 1) /\ (k + 1) - (p + 1) \in 1 .. n - p
        /\ p + ((k + 1) - (p + 1)) = k
    BY <1>0
  <2>2. e[k + 1] = b[(k + 1) - (p + 1)]
    BY <1>6, <2>1 DEF e
  <2>3. QED
    BY <1>2, <2>1, <2>2
<1>10. QED
  BY <1>4, <1>6, <1>7, <1>8, <1>9 DEF d, e, PutAfter

(* compare is a comparison of ranks.                                        *)
LEMMA LessIsRank ==
  ASSUME NEW h, WellFormed(h)
  PROVE  \A i, j \in DOMAIN h : /\ rank(h, i) \in Nat
                                /\ Less(h, i, j) <=> rank(h, i) < rank(h, j)
                                /\ is_equal(h, i, j) <=> rank(h, i) = rank(h, j)
<1>1. ASSUME NEW i \in DOMAIN h, NEW j \in DOMAIN h
      PROVE  /\ rank(h, i) \in Nat
             /\ Less(h, i, j) <=> rank(h, i) < rank(h, j)
             /\ is_equal(h, i, j) <=> rank(h, i) = rank(h, j)
  <2>1. /\ rank(h, i) \in Nat /\ rank(h, j) \in Nat
        /\ compare(h, i, j) = Order(rank(h, i), rank(h, j))
        /\ compare(h, i, j) = 0 <=> is_equal(h, i, j)
    BY RankLaw
  <2>2. Order(rank(h, i), rank(h, j)) = 0 <=> rank(h, i) = rank(h, j)
    BY <2>1, OrderLaws
  <2>3. Order(rank(h, i), rank(h, j)) = -1 <=> rank(h, i) < rank(h, j)
    BY <2>1 DEF Order
  <2>4. QED
    BY <2>1, <2>2, <2>3 DEF Less
<1>2. QED
  BY <1>1

(* What is in a set after x was inserted: an object that is equal to x, and *)
(* the members it had.                                                      *)
OrderedSets(h) == {s \in Seq(DOMAIN h) : InOrder(h, s)}
Adds(h, s, x, r) ==
  /\ r \in OrderedSets(h)
  /\ ToSet(r) \subseteq ToSet(s) \cup {x}
  /\ ToSet(s) \subseteq ToSet(r)
  /\ \E y \in ToSet(r) : is_equal(h, y, x)

LEMMA InsertedAdds ==
  ASSUME NEW h, WellFormed(h), NEW s \in OrderedSets(h), NEW x \in DOMAIN h
  PROVE  Adds(h, s, x, Inserted(h, s, x))
<1> DEFINE n == Len(s)
           L == {k \in DOMAIN s : Less(h, s[k], x)}
<1>0. /\ s \in Seq(DOMAIN h) /\ InOrder(h, s) /\ n \in Nat /\ DOMAIN s = 1 .. n
      /\ \A k \in DOMAIN s : s[k] \in DOMAIN h
  BY DEF OrderedSets
<1>1. \A i, j \in DOMAIN h : /\ rank(h, i) \in Nat
                             /\ Less(h, i, j) <=> rank(h, i) < rank(h, j)
                             /\ is_equal(h, i, j) <=> rank(h, i) = rank(h, j)
  BY LessIsRank
<1>2. CASE \E k \in DOMAIN s : ~Less(h, s[k], x) /\ ~Less(h, x, s[k])
  <2>1. Inserted(h, s, x) = s
    BY <1>2 DEF Inserted
  <2>2. PICK k \in DOMAIN s : ~Less(h, s[k], x) /\ ~Less(h, x, s[k])
    BY <1>2
  <2>3. is_equal(h, s[k], x)
    <3>1. s[k] \in DOMAIN h
      BY <1>0
    <3>2. QED
      BY <1>1, <2>2, <3>1
  <2>4. s[k] \in ToSet(s)
    BY DEF ToSet
  <2>5. QED
    BY <2>1, <2>3, <2>4 DEF Adds
<1>3. CASE \A k \in DOMAIN s : Less(h, s[k], x) \/ Less(h, x, s[k])
  <2>1. \A k, l \in DOMAIN s : k < l => Less(h, s[k], s[l])
    BY <1>0 DEF InOrder
  <2>2. \A k \in L : \A l \in 1 .. n : l <= k => l \in L
    <3>1. ASSUME NEW k \in L, NEW l \in 1 .. n, l <= k PROVE l \in L
      <4>1. k \in 1 .. n /\ Less(h, s[k], x) /\ s[k] \in DOMAIN h /\ s[l] \in DOMAIN h
        BY <1>0
      <4>2. CASE l < k
        BY <1>0, <1>1, <2>1, <4>1, <4>2
      <4>3. CASE l = k
        BY <4>3
      <4>4. QED
        BY <1>0, <3>1, <4>1, <4>2, <4>3
    <3>2. QED
      BY <3>1
  <2>3. PICK p \in 0 .. n : L = 1 .. p /\ Cardinality(L) = p
    <3>1. L \in SUBSET (1 .. n)
      BY <1>0
    <3> HIDE DEF L
    <3>2. QED
      BY <1>0, <2>2, <3>1, LowerPart
  <2>4. \A k \in 1 .. n : IF k <= p THEN Less(h, s[k], x) ELSE Less(h, x, s[k])
    <3>1. ASSUME NEW k \in 1 .. n PROVE IF k <= p THEN Less(h, s[k], x) ELSE Less(h, x, s[k])
      <4>1. k \in L <=> k <= p
        BY <2>3
      <4>2. QED
        BY <1>0, <1>3, <4>1
    <3>2. QED
      BY <3>1
  <2> DEFINE r == InsertAt(s, p + 1, x)
  <2>5. Inserted(h, s, x) = r
    BY <1>3, <2>3 DEF Inserted
  <2> HIDE DEF L
  <2>6. /\ r \in Seq(DOMAIN h) /\ Len(r) = n + 1
        /\ \A k \in 1 .. p : r[k] = s[k]
        /\ r[p + 1] = x
        /\ \A k \in p + 1 .. n : r[k + 1] = s[k]
    <3>1. r \in Seq(DOMAIN h) /\ PutAfter(r, s, p, x)
      BY <1>0, InsertAtIs
    <3> HIDE DEF r
    <3>2. QED
      BY <3>1 DEF PutAfter
  <2> HIDE DEF r
  <2>7. DOMAIN r = 1 .. n + 1
    BY <2>6
  <2>8. ASSUME NEW k \in 1 .. n + 1, k > p + 1
        PROVE  k - 1 \in p + 1 .. n /\ k - 1 \in 1 .. n /\ r[k] = s[k - 1] /\ Less(h, x, s[k - 1])
    <3>1. k - 1 \in p + 1 .. n /\ k - 1 \in 1 .. n /\ (k - 1) + 1 = k /\ ~ (k - 1 <= p)
      BY <1>0, <2>8
    <3>2. QED
      BY <2>4, <2>6, <3>1
  <2>9. ASSUME NEW k \in 1 .. p PROVE k \in 1 .. n /\ k <= p /\ r[k] = s[k] /\ Less(h, s[k], x)
    <3>1. k \in 1 .. n /\ k <= p
      BY <1>0
    <3>2. QED
      BY <2>4, <2>6, <3>1
  <2>10. InOrder(h, r)
    <3>1. ASSUME NEW k \in DOMAIN r, NEW l \in DOMAIN r, k < l PROVE Less(h, r[k], r[l])
      <4>0. k \in 1 .. n + 1 /\ l \in 1 .. n + 1 /\ k \in Int /\ l \in Int /\ p \in Int
        BY <1>0, <2>7
      <4>1. CASE l <= p
        <5>1. l \in 1 .. p /\ k \in 1 .. p
          BY <3>1, <4>0, <4>1
        <5>2. QED
          BY <1>0, <2>1, <2>9, <3>1, <5>1
      <4>2. CASE l = p + 1
        <5>1. k \in 1 .. p
          BY <3>1, <4>0, <4>2
        <5>2. QED
          BY <2>6, <2>9, <4>2, <5>1
      <4>3. CASE l > p + 1 /\ k <= p
        <5>1. k \in 1 .. p /\ k < l - 1
          BY <4>0, <4>3
        <5>2. QED
          BY <1>0, <2>1, <2>8, <2>9, <4>0, <4>3, <5>1
      <4>4. CASE l > p + 1 /\ k = p + 1
        BY <2>6, <2>8, <4>0, <4>4
      <4>5. CASE l > p + 1 /\ k > p + 1
        <5>1. k - 1 < l - 1
          BY <3>1, <4>0
        <5>2. QED
          BY <1>0, <2>1, <2>8, <4>0, <4>5, <5>1
      <4>6. QED
        BY <4>0, <4>1, <4>2, <4>3, <4>4, <4>5
    <3>2. QED
      BY <3>1 DEF InOrder
  <2>11. \A k \in DOMAIN r : r[k] \in ToSet(s) \cup {x}
    <3>0. \A l \in 1 .. n : s[l] \in ToSet(s)
      BY <1>0 DEF ToSet
    <3>1. ASSUME NEW k \in DOMAIN r PROVE r[k] \in ToSet(s) \cup {x}
      <4>0. k \in 1 .. n + 1 /\ k \in Int /\ p \in Int
        BY <1>0, <2>7
      <4>1. CASE k <= p
        <5>1. k \in 1 .. p
          BY <4>0, <4>1
        <5>2. QED
          BY <2>9, <3>0, <5>1
      <4>2. CASE k = p + 1
        BY <2>6, <4>2
      <4>3. CASE k > p + 1
        BY <2>8, <3>0, <4>0, <4>3
      <4>4. QED
        BY <4>0, <4>1, <4>2, <4>3
    <3>2. QED
      BY <3>1
  <2>12. \A k \in 1 .. n : \E l \in DOMAIN r : s[k] = r[l]
    <3>1. ASSUME NEW k \in 1 .. n PROVE \E l \in DOMAIN r : s[k] = r[l]
      <4>1. CASE k <= p
        <5>1. k \in 1 .. p /\ k \in 1 .. n + 1
          BY <1>0, <4>1
        <5>2. QED
          BY <2>7, <2>9, <5>1
      <4>2. CASE ~ (k <= p)
        <5>1. k \in p + 1 .. n /\ k + 1 \in 1 .. n + 1
          BY <1>0, <4>2
        <5>2. QED
          BY <2>6, <2>7, <5>1
      <4>3. QED
        BY <4>1, <4>2
    <3>2. QED
      BY <3>1
  <2>13. is_equal(h, x, x) /\ x \in ToSet(r)
    <3>1. p + 1 \in DOMAIN r
      BY <1>0, <2>7
    <3>2. QED
      BY <1>1, <2>6, <3>1 DEF ToSet
  <2>14. r \in OrderedSets(h)
    BY <2>6, <2>10 DEF OrderedSets
  <2>15. ToSet(r) \subseteq ToSet(s) \cup {x} /\ ToSet(s) \subseteq ToSet(r)
    BY <1>0, <2>11, <2>12 DEF ToSet
  <2>16. QED
    BY <2>5, <2>13, <2>14, <2>15 DEF Adds
<1>4. QED
  BY <1>2, <1>3

(* The set r after the first k of xs were inserted.                         *)
Collects(h, xs, r, k) ==
  /\ r \in OrderedSets(h)
  /\ \A x \in ToSet(r) : \E l \in 1 .. k : x = xs[l]
  /\ \A l \in 1 .. k : \E y \in ToSet(r) : is_equal(h, y, xs[l])

LEMMA AllInsertedCollects ==
  ASSUME NEW h, WellFormed(h), NEW xs \in Seq(DOMAIN h)
  PROVE  Collects(h, xs, AllInserted(h, <<>>, xs), Len(xs))
<1> DEFINE n == Len(xs)
           T == OrderedSets(h)
           step == [i \in 1 .. n |-> [s \in T |-> Inserted(h, s, xs[i])]]
           F(f) == [k \in 0 .. n |-> IF k = 0 THEN <<>> ELSE Inserted(h, f[k - 1], xs[k])]
           after == CHOOSE f : f = F(f)
<1>1. n \in Nat /\ \A i \in 1 .. n : xs[i] \in DOMAIN h
  OBVIOUS
<1>2. <<>> \in T
  BY DEF OrderedSets, InOrder
<1>3. \A i \in 1 .. n : \A s \in T : Adds(h, s, xs[i], Inserted(h, s, xs[i]))
  <2> HIDE DEF T
  <2>1. ASSUME NEW i \in 1 .. n, NEW s \in T PROVE Adds(h, s, xs[i], Inserted(h, s, xs[i]))
    <3>1. xs[i] \in DOMAIN h /\ s \in OrderedSets(h)
      BY <1>1 DEF T
    <3>2. QED
      BY <3>1, InsertedAdds
  <2>2. QED
    BY <2>1
<1>4. \A i \in 1 .. n : \A s \in T : Inserted(h, s, xs[i]) \in T
  BY <1>3 DEF Adds
<1>5. step \in Rounds(n, T)
  <2> HIDE DEF T, n
  <2>1. \A i \in 1 .. n : [s \in T |-> Inserted(h, s, xs[i])] \in [T -> T]
    BY <1>4
  <2>2. QED
    BY <2>1 DEF Rounds
<1>6. \A i \in 1 .. n : \A s \in T : step[i][s] = Inserted(h, s, xs[i])
  OBVIOUS
<1> HIDE DEF step, T, n
<1>7. PICK out : out \in [0 .. n -> T] /\ Computes(out, n, <<>>, step)
  BY <1>1, <1>2, <1>5, LoopExists
<1>8. \A k \in 0 .. n : out[k] = IF k = 0 THEN <<>> ELSE Inserted(h, out[k - 1], xs[k])
  <2>1. ASSUME NEW k \in 0 .. n, k # 0 PROVE out[k] = Inserted(h, out[k - 1], xs[k])
    <3>1. k \in 1 .. n /\ k - 1 \in 0 .. n
      BY <1>1, <2>1
    <3>2. out[k] = step[k][out[k - 1]] /\ out[k - 1] \in T
      BY <1>7, <3>1 DEF Computes
    <3>3. QED
      BY <1>6, <3>1, <3>2
  <2>2. out[0] = <<>>
    BY <1>7 DEF Computes
  <2>3. QED
    BY <2>1, <2>2
<1>9. out = F(out)
  <2>1. out = [k \in 0 .. n |-> out[k]]
    BY <1>7
  <2>2. QED
    BY <1>8, <2>1
<1>10. after = F(after)
  <2> HIDE DEF F
  <2>1. QED
    BY <1>9
<1>11. AllInserted(h, <<>>, xs) = after[n]
  BY DEF AllInserted, n
<1> HIDE DEF after
<1>12. \A k \in 0 .. n : after[k] = IF k = 0 THEN <<>> ELSE Inserted(h, after[k - 1], xs[k])
  BY <1>10
<1> DEFINE P == {k \in Nat : k \in 0 .. n => Collects(h, xs, after[k], k)}
<1>13. 0 \in P
  <2>1. after[0] = <<>> /\ ToSet(<<>>) = {}
    BY <1>1, <1>12 DEF ToSet
  <2>2. QED
    BY <1>2, <2>1 DEF Collects, T
<1>14. ASSUME NEW k \in 0 .. n - 1, k \in P PROVE k + 1 \in P
  <2>1. k + 1 \in 1 .. n /\ k + 1 \in 0 .. n /\ k + 1 # 0 /\ k + 1 \in Nat /\ (k + 1) - 1 = k /\ k \in 0 .. n
    BY <1>1
  <2>2. Collects(h, xs, after[k], k)
    BY <1>14, <2>1
  <2>3. after[k + 1] = Inserted(h, after[k], xs[k + 1])
    BY <1>12, <2>1
  <2>4. Adds(h, after[k], xs[k + 1], after[k + 1])
    BY <1>3, <2>1, <2>2, <2>3 DEF Collects, T
  <2>5. \A x \in ToSet(after[k + 1]) : \E l \in 1 .. k + 1 : x = xs[l]
    <3>1. \A l \in 1 .. k : l \in 1 .. k + 1
      BY <2>1
    <3>2. \A x \in ToSet(after[k + 1]) : x \in ToSet(after[k]) \/ x = xs[k + 1]
      BY <2>4 DEF Adds
    <3>3. QED
      BY <2>1, <2>2, <3>1, <3>2 DEF Collects
  <2>6. \A l \in 1 .. k + 1 : \E y \in ToSet(after[k + 1]) : is_equal(h, y, xs[l])
    <3>1. \A l \in 1 .. k + 1 : l \in 1 .. k \/ l = k + 1
      BY <2>1
    <3>2. \A y \in ToSet(after[k]) : y \in ToSet(after[k + 1])
      BY <2>4 DEF Adds
    <3>3. \E y \in ToSet(after[k + 1]) : is_equal(h, y, xs[k + 1])
      BY <2>4 DEF Adds
    <3>4. QED
      BY <2>2, <3>1, <3>2, <3>3 DEF Collects
  <2>7. Collects(h, xs, after[k + 1], k + 1)
    BY <2>4, <2>5, <2>6 DEF Collects, Adds
  <2>8. QED
    BY <2>1, <2>7
<1>15. \A k \in 0 .. n : k \in P
  <2> HIDE DEF P
  <2>1. P \in SUBSET Nat
    BY DEF P
  <2>2. QED
    BY <1>1, <1>13, <1>14, <2>1, InductionUpTo
<1>16. n \in 0 .. n
  BY <1>1
<1>17. QED
  BY <1>11, <1>15, <1>16 DEF n

-----------------------------------------------------------------------------
(* Sets and vectors of formulas of one sort, and the formulas they hold.    *)
AllOf(h, s, S) == s \in Seq(DOMAIN h) /\ \A k \in DOMAIN s : sort(h, s[k]) = S
Meant(h, s) == {denotations(h)[x] : x \in ToSet(s)}

(* A set r that holds what was inserted, the members of xs.                 *)
SetFor(h, xs, r, S) == AllOf(h, r, S) /\ InOrder(h, r) /\ Meant(h, r) = Meant(h, xs)

LEMMA SetMeans ==
  ASSUME NEW h, WellFormed(h), NEW S, NEW xs, AllOf(h, xs, S)
  PROVE  SetFor(h, xs, AllInserted(h, <<>>, xs), S)
<1> DEFINE r == AllInserted(h, <<>>, xs)
           d == denotations(h)
<1>0. xs \in Seq(DOMAIN h) /\ DOMAIN xs = 1 .. Len(xs) /\ \A k \in DOMAIN xs : xs[k] \in DOMAIN h
  BY DEF AllOf
<1>1. Collects(h, xs, r, Len(xs))
  BY <1>0, AllInsertedCollects
<1> HIDE DEF r
<1>2. /\ r \in Seq(DOMAIN h) /\ InOrder(h, r) /\ \A k \in DOMAIN r : r[k] \in DOMAIN h
      /\ \A x \in ToSet(r) : x \in ToSet(xs)
      /\ \A x \in ToSet(xs) : \E y \in ToSet(r) : is_equal(h, y, x)
  BY <1>0, <1>1 DEF Collects, OrderedSets, ToSet
<1>3. \A k \in DOMAIN r : sort(h, r[k]) = S
  <2>1. \A x \in ToSet(xs) : sort(h, x) = S
    BY DEF AllOf, ToSet
  <2>2. \A k \in DOMAIN r : r[k] \in ToSet(r)
    BY DEF ToSet
  <2>3. QED
    BY <1>2, <2>1, <2>2
<1>4. \A x \in ToSet(xs) : x \in DOMAIN h
  BY <1>0 DEF ToSet
<1>5. \A x \in ToSet(xs) : \E y \in ToSet(r) : d[x] = d[y]
  <2>1. \A y \in ToSet(r) : y \in DOMAIN h
    BY <1>2, <1>4
  <2>2. QED
    BY <1>2, <1>4, <2>1, EqualDenotations
<1>6. Meant(h, r) = Meant(h, xs)
  BY <1>2, <1>5 DEF Meant
<1>7. QED
  BY <1>2, <1>3, <1>6 DEF SetFor, AllOf, r

(* The types of conjunctions, disjunctions, unions and sequences.           *)
LEMMA MembersFacts ==
  ASSUME NEW t \in Types, form[t] = "members"
  PROVE  /\ t \in DOMAIN kind /\ t \notin Atoms /\ sort_of[t] \in Sorts
         /\ \A k \in Nat : takes(t, k) = sort_of[t]
         /\ t # "QuotedFormula" /\ t # "Symbol" /\ t \notin UnaryTypes
<1>1. form[t] \in Forms /\ form[t] # "one" /\ form[t] # "name" /\ form[t] # "two"
  BY DEF Forms
<1>2. t \notin Atoms /\ t # "QuotedFormula" /\ t \notin UnaryTypes /\ t # "Symbol"
  BY <1>1, FormFacts, NameForms
<1>3. t # "LDLfDiamond" /\ t # "LDLfBox"
  BY <1>1, LdlfForms DEF ldlf_form
<1>4. t \notin DOMAIN first_sort
  BY <1>2, <1>3, UnaryAre DEF first_sort, Atoms
<1>5. sort_of[t] \in Sorts
  <2>1. sort_of[t] \in AllSorts
    BY <1>1, FormFacts
  <2>2. sort_of[t] # "name"
    BY <1>2, FormFacts
  <2>3. QED
    BY <2>1, <2>2 DEF AllSorts
<1>6. QED
  BY <1>2, <1>4, <1>5, FormFacts DEF takes

LEMMA DenotedSet ==
  ASSUME NEW h, NEW s
  PROVE  ToSet(Denoted(h, s)) = Meant(h, s)
  BY DEF ToSet, Denoted, Meant

(* What is inserted for a member.                                           *)
Unfolds(h, a, caller, c) ==
  /\ AllOf(h, c, sort_of[caller]) /\ c # <<>>
  /\ h[a].type = caller <=> Kind(denotations(h)[a]) = kind[caller]
  /\ h[a].type # caller => c = <<a>>
  /\ h[a].type = caller => c = h[a].args
  /\ h[a].type = caller /\ caller # "SequenceRegExp" => Arg(denotations(h)[a]) = Meant(h, c)
  /\ h[a].type = caller /\ caller = "SequenceRegExp" => Arg(denotations(h)[a]) = Denoted(h, c)

LEMMA ContainerUnfolds ==
  ASSUME NEW h, Sound(h), NEW caller \in Types, form[caller] = "members",
         NEW a \in DOMAIN h, sort(h, a) = sort_of[caller]
  PROVE  Unfolds(h, a, caller, Container(h, a, caller))
<1> DEFINE t == h[a].type
           d == denotations(h)[a]
           c == Container(h, a, caller)
<1>0. WellFormed(h) /\ Typed(h) /\ t \in Types /\ sort(h, a) = sort_of[t]
  BY HeapType DEF Sound, sort
<1>1. /\ caller \in DOMAIN kind /\ caller \notin Atoms /\ sort_of[caller] \in Sorts
      /\ \A k \in Nat : takes(caller, k) = sort_of[caller]
  BY MembersFacts
<1>2. kind[caller] \notin {"atom", "quoted"}
  BY <1>1, KindFacts
<1>3. t = caller <=> Kind(d) = kind[caller]
  <2>1. CASE t \in Atoms
    <3>1. d[1] \in {"atom", "quoted"}
      BY <2>1, Tag
    <3>2. QED
      BY <1>1, <1>2, <2>1, <3>1 DEF Kind
  <2>2. CASE t \notin Atoms
    <3>1. d[1] = kind[t]
      BY <1>1, <2>2, Tag
    <3>2. kind[t] = kind[caller] => t = caller
      BY <1>0, <1>1, <2>2, KindFacts
    <3>3. QED
      BY <3>1, <3>2 DEF Kind
  <2>3. QED
    BY <2>1, <2>2
<1>4. CASE t # caller
  <2>1. c = <<a>>
    BY <1>4 DEF Container
  <2>2. <<a>> \in Seq(DOMAIN h) /\ <<a>> # <<>> /\ \A k \in DOMAIN <<a>> : <<a>>[k] = a
    OBVIOUS
  <2> HIDE DEF c
  <2>3. AllOf(h, c, sort_of[caller])
    BY <2>1, <2>2 DEF AllOf
  <2>4. QED
    BY <1>3, <1>4, <2>1, <2>2, <2>3 DEF Unfolds, c
<1>5. CASE t = caller
  <2>1. c = h[a].args
    BY <1>5 DEF Container
  <2> HIDE DEF c
  <2>2. /\ Len(c) \in Nat /\ DOMAIN c = 1 .. Len(c) /\ \A k \in DOMAIN c : c[k] \in DOMAIN h
        /\ c \in Seq(Nat)
    BY <1>0, <2>1, ArgsType, HeapType DEF Nodes
  <2>3. c \in Seq(DOMAIN h)
    BY <2>2
  <2>4. \A k \in DOMAIN c : sort(h, c[k]) = sort_of[caller]
    BY <1>0, <1>1, <1>5, <2>1, <2>2 DEF Typed
  <2>5. c # <<>>
    <3>1. Arity(form[t], Len(c))
      BY <1>0, <2>1, HeapType DEF Fits
    <3>2. Len(c) > 1
      BY <1>5, <3>1 DEF Arity
    <3>3. QED
      BY <3>2
  <2>6. Means(h[a], Arguments(h, a), d)
    BY <1>0, ObjectMeans
  <2>7. Arguments(h, a) = Denoted(h, c)
    BY <2>1 DEF Arguments, Denoted
  <2>8. caller # "SequenceRegExp" => d[2] = ToSet(Denoted(h, c))
    BY <1>5, <2>6, <2>7 DEF Means
  <2>9. caller = "SequenceRegExp" => d[2] = Denoted(h, c)
    BY <1>5, <2>6, <2>7 DEF Means
  <2>10. ToSet(Denoted(h, c)) = Meant(h, c)
    BY DenotedSet
  <2>11. AllOf(h, c, sort_of[caller])
    BY <2>3, <2>4 DEF AllOf
  <2>12. QED
    BY <1>3, <1>5, <2>1, <2>5, <2>8, <2>9, <2>10, <2>11 DEF Unfolds, Arg, c
<1>6. QED
  BY <1>4, <1>5

-----------------------------------------------------------------------------
(* flatten_bin_op_set and flatten_bin_op_vec: what they insert stands for   *)
(* the members of the flattened set, or of the flattened vector.            *)
Drops(h, s, dropped, D) == \A k \in DOMAIN s : h[s[k]].type \in dropped <=> denotations(h)[s[k]] \in D
Flat(h, s, D, caller, r) ==
  /\ AllOf(h, r, sort_of[caller])
  /\ caller # "SequenceRegExp" => Meant(h, r) = Flattened(Meant(h, s) \ D, kind[caller])

InsertedFor(h, s, dropped, caller) ==
  [k \in DOMAIN s |-> IF h[s[k]].type \in dropped THEN <<>> ELSE Container(h, s[k], caller)]

Parts(h, s, caller, ss) ==
  /\ ss \in Seq(Seq(DOMAIN h)) /\ DOMAIN ss = DOMAIN s
  /\ \A k \in DOMAIN s : AllOf(h, ss[k], sort_of[caller])

LEMMA PartsAre ==
  ASSUME NEW h, Sound(h), NEW caller \in Types, form[caller] = "members",
         NEW s, AllOf(h, s, sort_of[caller]), NEW dropped
  PROVE  Parts(h, s, caller, InsertedFor(h, s, dropped, caller))
<1> DEFINE ss == InsertedFor(h, s, dropped, caller)
<1>0. s \in Seq(DOMAIN h) /\ \A k \in DOMAIN s : s[k] \in DOMAIN h /\ sort(h, s[k]) = sort_of[caller]
  BY DEF AllOf
<1>1. DOMAIN s = 1 .. Len(s) /\ Len(s) \in Nat
  BY <1>0
<1>2. AllOf(h, <<>>, sort_of[caller])
  BY DEF AllOf
<1>3. \A k \in DOMAIN s : AllOf(h, Container(h, s[k], caller), sort_of[caller])
  <2>1. ASSUME NEW k \in DOMAIN s PROVE AllOf(h, Container(h, s[k], caller), sort_of[caller])
    <3>1. Unfolds(h, s[k], caller, Container(h, s[k], caller))
      BY <1>0, ContainerUnfolds
    <3>2. QED
      BY <3>1 DEF Unfolds
  <2>2. QED
    BY <2>1
<1>4. \A k \in DOMAIN s : AllOf(h, ss[k], sort_of[caller])
  BY <1>2, <1>3 DEF InsertedFor
<1>5. \A k \in DOMAIN s : ss[k] \in Seq(DOMAIN h)
  BY <1>4 DEF AllOf
<1>6. DOMAIN ss = DOMAIN s /\ ss = [k \in 1 .. Len(s) |-> ss[k]]
  BY <1>1 DEF InsertedFor
<1> HIDE DEF ss
<1>7. ss \in Seq(Seq(DOMAIN h))
  BY <1>1, <1>5, <1>6
<1>8. QED
  BY <1>4, <1>6, <1>7 DEF ss, Parts

LEMMA InsertsAre ==
  ASSUME NEW h, Sound(h), NEW caller \in Types, form[caller] = "members",
         NEW s, AllOf(h, s, sort_of[caller]), NEW dropped, NEW D, Drops(h, s, dropped, D)
  PROVE  Flat(h, s, D, caller, Inserts(h, s, dropped, caller))
<1> DEFINE ss == InsertedFor(h, s, dropped, caller)
           r == FlattenSeq(ss)
           d == denotations(h)
           S == sort_of[caller]
<1>1. /\ ss \in Seq(Seq(DOMAIN h)) /\ DOMAIN ss = DOMAIN s
      /\ \A k \in DOMAIN s : AllOf(h, ss[k], S)
  <2>1. Parts(h, s, caller, ss)
    BY PartsAre
  <2> HIDE DEF ss
  <2>2. QED
    BY <2>1 DEF Parts
<1>2. Inserts(h, s, dropped, caller) = r
  BY DEF Inserts, InsertedFor
<1>3. /\ \A k \in DOMAIN s : s[k] \in DOMAIN h /\ sort(h, s[k]) = S
      /\ \A k \in DOMAIN s : ss[k] = IF h[s[k]].type \in dropped THEN <<>> ELSE Container(h, s[k], caller)
  BY DEF AllOf, InsertedFor
<1>4. \A k \in DOMAIN s : Unfolds(h, s[k], caller, Container(h, s[k], caller))
  BY <1>3, ContainerUnfolds
<1> HIDE DEF ss
<1>5. r \in Seq(DOMAIN h) /\ ToSet(r) = Elements(ss, Len(ss)) /\ DOMAIN s = 1 .. Len(ss)
  BY <1>1, FlattenRange
<1> HIDE DEF r
<1>6. \A x : x \in ToSet(r) <=> \E k \in DOMAIN s : x \in ToSet(ss[k])
  BY <1>5 DEF Elements
<1>7. AllOf(h, r, S)
  <2>1. \A k \in DOMAIN s : \A x \in ToSet(ss[k]) : sort(h, x) = S
    BY <1>1 DEF AllOf, ToSet
  <2>2. \A k \in DOMAIN r : r[k] \in ToSet(r)
    BY DEF ToSet
  <2>3. QED
    BY <1>5, <1>6, <2>1, <2>2 DEF AllOf
<1>8. ASSUME caller # "SequenceRegExp" PROVE Meant(h, r) = Flattened(Meant(h, s) \ D, kind[caller])
  <2> DEFINE kd == kind[caller]
             piece(a) == IF Kind(a) = kd THEN Arg(a) ELSE {a}
             M == Meant(h, s) \ D
  <2>1. \A y : y \in Flattened(M, kd) <=> \E a \in M : y \in piece(a)
    BY DEF Flattened
  <2>2. \A a : a \in M <=> \E k \in DOMAIN s : a = d[s[k]] /\ h[s[k]].type \notin dropped
    BY DEF Meant, ToSet, Drops
  <2>3. \A k \in DOMAIN s : h[s[k]].type \notin dropped => Meant(h, ss[k]) = piece(d[s[k]])
    <3>1. ASSUME NEW k \in DOMAIN s, h[s[k]].type \notin dropped
          PROVE  Meant(h, ss[k]) = piece(d[s[k]])
      <4>1. ss[k] = Container(h, s[k], caller)
        BY <1>3, <3>1
      <4>2. Unfolds(h, s[k], caller, ss[k])
        BY <1>4, <4>1
      <4>3. CASE h[s[k]].type = caller
        BY <1>8, <4>2, <4>3 DEF Unfolds
      <4>4. CASE h[s[k]].type # caller
        <5>1. ss[k] = <<s[k]>> /\ Kind(d[s[k]]) # kd
          BY <4>2, <4>4 DEF Unfolds
        <5>2. ToSet(<<s[k]>>) = {s[k]}
          BY DEF ToSet
        <5>3. Meant(h, ss[k]) = {d[s[k]]}
          BY <5>1, <5>2 DEF Meant
        <5>4. QED
          BY <5>1, <5>3
      <4>5. QED
        BY <4>3, <4>4
    <3>2. QED
      BY <3>1
  <2>4. \A k \in DOMAIN s : h[s[k]].type \in dropped => ToSet(ss[k]) = {}
    <3>1. ToSet(<<>>) = {}
      BY DEF ToSet
    <3>2. QED
      BY <1>3, <3>1
  <2> HIDE DEF M, piece, kd
  <2>5. \A y : y \in Meant(h, r) <=> \E k \in DOMAIN s : y \in Meant(h, ss[k])
    BY <1>6 DEF Meant
  <2>6. \A y : y \in Meant(h, r) <=> \E k \in DOMAIN s : h[s[k]].type \notin dropped /\ y \in piece(d[s[k]])
    <3>1. \A k \in DOMAIN s : h[s[k]].type \in dropped => Meant(h, ss[k]) = {}
      BY <2>4 DEF Meant
    <3>2. QED
      BY <2>3, <2>5, <3>1
  <2>7. \A y : y \in Meant(h, r) <=> y \in Flattened(M, kd)
    BY <2>1, <2>2, <2>6
  <2>8. Meant(h, r) = Flattened(M, kd)
    BY <2>7
  <2>9. QED
    BY <2>8 DEF M, kd
<1>9. QED
  BY <1>2, <1>7, <1>8 DEF Flat

(* The members of a vector of regular expressions.                          *)
FlatFormulas(fs) ==
  FlattenSeq([k \in DOMAIN fs |-> IF Kind(fs[k]) = "seq" THEN Arg(fs[k]) ELSE <<fs[k]>>])

LEMMA SequenceInserts ==
  ASSUME NEW h, Sound(h), NEW s, AllOf(h, s, "regex")
  PROVE  Denoted(h, Inserts(h, s, {}, "SequenceRegExp")) = FlatFormulas(Denoted(h, s))
<1> DEFINE caller == "SequenceRegExp"
           ss == InsertedFor(h, s, {}, caller)
           d == denotations(h)
           fs == Denoted(h, s)
           gs == [k \in DOMAIN ss |-> Mapped(d, ss[k])]
           es == [k \in DOMAIN fs |-> IF Kind(fs[k]) = "seq" THEN Arg(fs[k]) ELSE <<fs[k]>>]
<1>1. caller \in Types /\ form[caller] = "members" /\ sort_of[caller] = "regex" /\ kind[caller] = "seq"
  BY RegexForms DEF regex_form, kind
<1> HIDE DEF caller
<1>2. ss \in Seq(Seq(DOMAIN h)) /\ DOMAIN ss = DOMAIN s
  <2>1. AllOf(h, s, sort_of[caller])
    BY <1>1
  <2>2. Parts(h, s, caller, ss)
    BY <1>1, <2>1, PartsAre
  <2> HIDE DEF ss
  <2>3. QED
    BY <2>2 DEF Parts
<1>3. Inserts(h, s, {}, "SequenceRegExp") = FlattenSeq(ss)
  BY DEF Inserts, InsertedFor, caller
<1>4. \A k \in DOMAIN s : s[k] \in DOMAIN h /\ sort(h, s[k]) = sort_of[caller] /\ ss[k] = Container(h, s[k], caller)
  BY <1>1 DEF AllOf, InsertedFor
<1>5. \A k \in DOMAIN s : Unfolds(h, s[k], caller, ss[k])
  <2>1. ASSUME NEW k \in DOMAIN s PROVE Unfolds(h, s[k], caller, ss[k])
    <3>1. Unfolds(h, s[k], caller, Container(h, s[k], caller))
      BY <1>1, <1>4, ContainerUnfolds
    <3>2. QED
      BY <1>4, <3>1
  <2>2. QED
    BY <2>1
<1> HIDE DEF ss
<1>6. DOMAIN fs = DOMAIN s /\ \A k \in DOMAIN s : fs[k] = d[s[k]]
  BY DEF Denoted
<1> HIDE DEF fs
<1>7. \A k \in DOMAIN s : Mapped(d, ss[k]) = IF Kind(fs[k]) = "seq" THEN Arg(fs[k]) ELSE <<fs[k]>>
  <2>1. ASSUME NEW k \in DOMAIN s, h[s[k]].type = caller
        PROVE  Kind(fs[k]) = "seq" /\ Mapped(d, ss[k]) = Arg(fs[k])
    <3>1. Kind(d[s[k]]) = "seq" /\ Arg(d[s[k]]) = Denoted(h, ss[k])
      BY <1>1, <1>5, <2>1 DEF Unfolds, caller
    <3>2. Denoted(h, ss[k]) = Mapped(d, ss[k])
      BY DEF Denoted, Mapped
    <3>3. QED
      BY <1>6, <3>1, <3>2
  <2>2. ASSUME NEW k \in DOMAIN s, h[s[k]].type # caller
        PROVE  Kind(fs[k]) # "seq" /\ Mapped(d, ss[k]) = <<fs[k]>>
    <3>1. Kind(d[s[k]]) # "seq" /\ ss[k] = <<s[k]>>
      BY <1>1, <1>5, <2>2 DEF Unfolds
    <3>2. Mapped(d, <<s[k]>>) = <<d[s[k]]>>
      BY DEF Mapped
    <3>3. QED
      BY <1>6, <3>1, <3>2
  <2>3. QED
    BY <2>1, <2>2
<1>8. gs = es
  <2>1. DOMAIN gs = DOMAIN es /\ \A k \in DOMAIN s : gs[k] = es[k]
    BY <1>2, <1>6, <1>7
  <2>2. gs = [k \in DOMAIN s |-> gs[k]] /\ es = [k \in DOMAIN s |-> es[k]]
    BY <1>2, <1>6
  <2> HIDE DEF gs, es
  <2>3. QED
    BY <2>1, <2>2
<1>9. FlattenSeq(gs) = Mapped(d, FlattenSeq(ss))
  <2> DEFINE V == {d[i] : i \in DOMAIN h}
  <2>1. WellFormed(h)
    BY DEF Sound
  <2>2. Maps(d, DOMAIN h, V)
    BY <2>1, DenotationsAre DEF Maps
  <2> HIDE DEF V, d
  <2>3. QED
    BY <1>2, <2>2, FlattenMapped
<1>10. Mapped(d, FlattenSeq(ss)) = Denoted(h, FlattenSeq(ss))
  BY DEF Mapped, Denoted
<1>11. QED
  BY <1>3, <1>8, <1>9, <1>10 DEF FlatFormulas, fs

(* A vector or a set that is not empty does not become empty.               *)
LEMMA InsertsSome ==
  ASSUME NEW h, Sound(h), NEW caller \in Types, form[caller] = "members",
         NEW s, AllOf(h, s, sort_of[caller]), s # <<>>
  PROVE  Inserts(h, s, {}, caller) # <<>>
<1> DEFINE ss == InsertedFor(h, s, {}, caller)
<1>1. ss \in Seq(Seq(DOMAIN h)) /\ DOMAIN ss = DOMAIN s
  <2>1. Parts(h, s, caller, ss)
    BY PartsAre
  <2> HIDE DEF ss
  <2>2. QED
    BY <2>1 DEF Parts
<1>2. s \in Seq(DOMAIN h) /\ 1 \in DOMAIN s /\ s[1] \in DOMAIN h /\ sort(h, s[1]) = sort_of[caller]
  <2>1. s \in Seq(DOMAIN h) /\ 1 \in DOMAIN s
    BY DEF AllOf
  <2>2. QED
    BY <2>1 DEF AllOf
<1>3. ss[1] = Container(h, s[1], caller)
  BY <1>2 DEF InsertedFor
<1>4. ss[1] # <<>>
  BY <1>2, <1>3, ContainerUnfolds DEF Unfolds
<1>5. Inserts(h, s, {}, caller) = FlattenSeq(ss)
  BY DEF Inserts, InsertedFor
<1> HIDE DEF ss
<1>6. ToSet(FlattenSeq(ss)) = Elements(ss, Len(ss)) /\ 1 \in 1 .. Len(ss)
  BY <1>1, <1>2, FlattenRange
<1>7. ss[1][1] \in ToSet(ss[1])
  <2>1. ss[1] \in Seq(DOMAIN h)
    BY <1>1, <1>6
  <2>2. 1 \in DOMAIN ss[1]
    BY <1>4, <2>1
  <2>3. QED
    BY <2>2 DEF ToSet
<1>8. ToSet(FlattenSeq(ss)) # {}
  BY <1>6, <1>7 DEF Elements
<1>9. ToSet(<<>>) = {}
  BY DEF ToSet
<1>10. QED
  BY <1>5, <1>8, <1>9

-----------------------------------------------------------------------------
(* A node of members, or the one member there is.                           *)
LEMMA SuitsMembers ==
  ASSUME NEW h, Sound(h), NEW caller \in Types, form[caller] = "members",
         NEW args, AllOf(h, args, sort_of[caller]), Len(args) > 1,
         caller # "SequenceRegExp" => InOrder(h, args)
  PROVE  /\ Suits(h, Node(caller, args)) /\ Node(caller, args).type = caller
         /\ Node(caller, args).args = args
<1> DEFINE node == Node(caller, args)
<1>0. WellFormed(h)
  BY DEF Sound
<1>1. node.type = caller /\ node.name = "none" /\ node.args = args
      /\ node = [type |-> caller, name |-> "none", args |-> args]
  BY DEF Node
<1>2. /\ args \in Seq(DOMAIN h) /\ \A k \in DOMAIN args : args[k] \in DOMAIN h
      /\ DOMAIN args = 1 .. Len(args) /\ Len(args) \in Nat
      /\ \A k \in DOMAIN args : sort(h, args[k]) = sort_of[caller]
  BY DEF AllOf
<1>3. Len(h) \in Nat /\ DOMAIN h = 1 .. Len(h)
  BY <1>0, HeapType
<1>4. args \in Seq(Nat)
  BY <1>2, <1>3
<1>5. node \in Nodes
  <2>1. [type |-> caller, name |-> "none", args |-> args] \in [type : Types, name : ToSet(Names) \cup {"none"}, args : Seq(Nat)]
    BY <1>4
  <2>2. QED
    BY <1>1, <2>1 DEF Nodes
<1>6. \A k \in DOMAIN args : args[k] \in 1 .. Len(h) + 1 - 1
  BY <1>2, <1>3
<1> HIDE DEF node
<1>7. Fits(node, Len(h) + 1)
  BY <1>1, <1>6 DEF Fits, Arity, Forms
<1>8. \A k \in DOMAIN args : sort(h, args[k]) = takes(caller, k)
  BY <1>2, MembersFacts
<1>9. Suits(h, node)
  BY <1>1, <1>5, <1>7, <1>8 DEF Suits
<1>10. QED
  BY <1>1, <1>9 DEF node

LEMMA Again ==
  ASSUME NEW m, Managed(m.heap, m.table), NEW x \in DOMAIN m.heap
  PROVE  Returned(m, insert_if_not_available_(m, m.heap, x), sort(m.heap, x), denotations(m.heap)[x])
<1>1. Sound(m.heap) /\ Len(m.heap) \in Nat
  BY HeapType DEF Managed, Sound
<1>2. Extends(m.heap, m.heap)
  BY <1>1 DEF Extends
<1>3. QED
  BY <1>1, <1>2, Inserting

LEMMA MadeOne ==
  ASSUME NEW m, Managed(m.heap, m.table), NEW caller, NEW args, Len(args) = 1,
         AllOf(m.heap, args, sort_of[caller])
  PROVE  /\ Returned(m, Made(m, args, caller), sort_of[caller], Denoted(m.heap, args)[1])
         /\ Denoted(m.heap, args)[1] = denotations(m.heap)[args[1]]
<1>1. args \in Seq(DOMAIN m.heap) /\ 1 \in DOMAIN args
  BY DEF AllOf
<1>2. args[1] \in DOMAIN m.heap /\ sort(m.heap, args[1]) = sort_of[caller]
  BY <1>1 DEF AllOf
<1>3. Made(m, args, caller) = insert_if_not_available_(m, m.heap, args[1])
  BY DEF Made
<1>4. Denoted(m.heap, args)[1] = denotations(m.heap)[args[1]]
  BY <1>1 DEF Denoted
<1>5. Returned(m, insert_if_not_available_(m, m.heap, args[1]), sort(m.heap, args[1]), denotations(m.heap)[args[1]])
  BY <1>2, Again
<1>6. QED
  BY <1>2, <1>3, <1>4, <1>5

LEMMA MadeMany ==
  ASSUME NEW m, Managed(m.heap, m.table), NEW caller \in Types, form[caller] = "members",
         NEW args, AllOf(m.heap, args, sort_of[caller]), Len(args) > 1,
         caller # "SequenceRegExp" => InOrder(m.heap, args)
  PROVE  Returned(m, Made(m, args, caller), sort_of[caller],
                  IF caller = "SequenceRegExp" THEN <<"seq", Denoted(m.heap, args)>>
                  ELSE <<kind[caller], Meant(m.heap, args)>>)
<1> DEFINE node == Node(caller, args)
           of == Denoted(m.heap, args)
           f == Meaning(node, of)
<1>1. Suits(m.heap, node) /\ node.type = caller /\ node.args = args
  BY SuitsMembers DEF Managed
<1>2. Len(args) # 1
  <2>1. Len(args) \in Nat
    BY DEF AllOf
  <2>2. \A x \in Nat : x > 1 => x # 1
    OBVIOUS
  <2>3. QED
    BY <2>1, <2>2
<1>3. Made(m, args, caller) = make(m, node)
  BY <1>2 DEF Made
<1> HIDE DEF node
<1>4. Returned(m, make(m, node), sort_of[caller], f)
  BY <1>1, Making
<1>5. Means(node, of, f)
  <2> HIDE DEF of
  <2>1. QED
    BY <1>1, MeaningIs DEF Forms
<1>6. ToSet(of) = Meant(m.heap, args)
  BY DenotedSet
<1> HIDE DEF of, f
<1>7. caller = "SequenceRegExp" => f = <<"seq", of>>
  BY <1>1, <1>5 DEF Means
<1>8. caller # "SequenceRegExp" => f = <<kind[caller], Meant(m.heap, args)>>
  BY <1>1, <1>5, <1>6 DEF Means
<1>9. QED
  BY <1>3, <1>4, <1>7, <1>8 DEF of

(* A set of formulas has as many members as the set of objects.             *)
LEMMA OneOrMany ==
  ASSUME NEW h, Sound(h), NEW S, NEW args, AllOf(h, args, S), InOrder(h, args), args # <<>>
  PROVE  Cardinality(Meant(h, args)) = 1 <=> Len(args) = 1
<1> DEFINE M == Meant(h, args)
           d == denotations(h)
           f == Denoted(h, args)
           n == Len(args)
<1>0. WellFormed(h) /\ args \in Seq(DOMAIN h) /\ n \in Nat /\ n # 0 /\ DOMAIN args = 1 .. n
      /\ \A k \in 1 .. n : args[k] \in DOMAIN h /\ sort(h, args[k]) = S
  BY DEF Sound, AllOf
<1>1. f \in Surjection(1 .. n, M)
  <2>1. DOMAIN f = 1 .. n /\ f = [k \in 1 .. n |-> f[k]]
    BY <1>0 DEF Denoted
  <2>2. \A k \in 1 .. n : f[k] \in M
    BY <1>0 DEF Denoted, Meant, ToSet
  <2>3. \A y \in M : \E k \in 1 .. n : f[k] = y
    BY <1>0 DEF Denoted, Meant, ToSet
  <2> HIDE DEF f, M, n
  <2>4. f \in [1 .. n -> M]
    BY <2>1, <2>2
  <2>5. QED
    BY <2>3, <2>4 DEF Surjection
<1>2. IsFiniteSet(M)
  <2>1. IsFiniteSet(1 .. n)
    BY <1>0, FS_Interval
  <2> HIDE DEF f, M, n
  <2>2. QED
    BY <1>1, <2>1, FS_Surjection
<1>3. Cardinality(M) = 1 <=> \E x : M = {x}
  <2> HIDE DEF M
  <2>1. QED
    BY <1>2, FS_Singleton
<1>4. CASE n = 1
  <2>1. ToSet(args) = {args[1]}
    BY <1>0, <1>4 DEF ToSet
  <2>2. M = {d[args[1]]}
    BY <2>1 DEF Meant
  <2>3. QED
    BY <1>3, <1>4, <2>2
<1>5. CASE n # 1
  <2>1. 1 \in 1 .. n /\ 2 \in 1 .. n
    BY <1>0, <1>5
  <2>2. Less(h, args[1], args[2])
    BY <1>0, <2>1 DEF InOrder
  <2>3. ~ is_equal(h, args[1], args[2])
    BY <1>0, <2>1, <2>2, LessIsRank
  <2>4. d[args[1]] # d[args[2]]
    BY <1>0, <2>1, <2>3, SameDenotation
  <2>5. d[args[1]] \in M /\ d[args[2]] \in M
    BY <1>0, <2>1 DEF Meant, ToSet
  <2>6. ~ (\E x : M = {x})
    <3> HIDE DEF M, d
    <3>1. QED
      BY <2>4, <2>5
  <2>7. QED
    BY <1>3, <1>5, <2>6
<1>6. QED
  BY <1>4, <1>5

LEMMA MadeMembers ==
  ASSUME NEW m, Managed(m.heap, m.table), NEW caller \in Types, form[caller] = "members",
         caller # "SequenceRegExp",
         NEW args, AllOf(m.heap, args, sort_of[caller]), InOrder(m.heap, args), args # <<>>
  PROVE  Returned(m, Made(m, args, caller), sort_of[caller],
                  NodeOver(Meant(m.heap, args), kind[caller]))
<1> DEFINE M == Meant(m.heap, args)
<1>0. Sound(m.heap) /\ args \in Seq(DOMAIN m.heap) /\ Len(args) \in Nat /\ Len(args) # 0
      /\ DOMAIN args = 1 .. Len(args)
  BY DEF Managed, AllOf
<1>1. Cardinality(M) = 1 <=> Len(args) = 1
  BY <1>0, OneOrMany
<1>2. CASE Len(args) = 1
  <2>1. /\ Returned(m, Made(m, args, caller), sort_of[caller], Denoted(m.heap, args)[1])
        /\ Denoted(m.heap, args)[1] = denotations(m.heap)[args[1]]
    BY <1>2, MadeOne
  <2>2. ToSet(args) = {args[1]}
    BY <1>0, <1>2 DEF ToSet
  <2>3. M = {denotations(m.heap)[args[1]]}
    BY <2>2 DEF Meant
  <2> HIDE DEF M
  <2>4. NodeOver(M, kind[caller]) = denotations(m.heap)[args[1]]
    BY <1>1, <1>2, <2>3 DEF NodeOver
  <2>5. QED
    BY <2>1, <2>4 DEF M
<1>3. CASE Len(args) # 1
  <2>1. Len(args) > 1
    BY <1>0, <1>3
  <2>2. Returned(m, Made(m, args, caller), sort_of[caller], <<kind[caller], M>>)
    BY <2>1, MadeMany
  <2> HIDE DEF M
  <2>3. NodeOver(M, kind[caller]) = <<kind[caller], M>>
    BY <1>1, <1>3 DEF NodeOver
  <2>4. QED
    BY <2>2, <2>3 DEF M
<1>4. QED
  BY <1>2, <1>3

-----------------------------------------------------------------------------
(* True and false among the members: an object of a leaf type is known by   *)
(* the formula it stands for.                                               *)
LEMMA LeafMeans ==
  ASSUME NEW h, Sound(h), NEW t \in Types, form[t] = "leaf", sort_of[t] \in Sorts,
         NEW a \in DOMAIN h, sort(h, a) = sort_of[t]
  PROVE  h[a].type = t <=> denotations(h)[a] = <<kind[t]>>
<1> DEFINE u == h[a].type
           d == denotations(h)[a]
<1>0. WellFormed(h) /\ u \in Types /\ sort_of[u] = sort_of[t]
  BY HeapType DEF Sound, sort
<1>1. t \notin Atoms
  BY FormFacts
<1>2. kind[t] \notin {"atom", "quoted"}
  BY <1>1, KindFacts
<1>3. ASSUME u = t PROVE d = <<kind[t]>>
  <2>1. Means(h[a], Arguments(h, a), d)
    BY <1>0, ObjectMeans
  <2>2. QED
    BY <1>3, <2>1 DEF Means
<1>4. ASSUME d = <<kind[t]>> PROVE u = t
  <2>1. d[1] = kind[t]
    BY <1>4
  <2>2. u \notin Atoms
    <3>1. u \in Atoms => d[1] \in {"atom", "quoted"}
      BY Tag
    <3>2. QED
      BY <1>2, <2>1, <3>1
  <2>3. d[1] = kind[u]
    BY <1>0, <2>2, Tag DEF sort
  <2>4. QED
    BY <1>0, <1>1, <2>1, <2>2, <2>3, KindFacts
<1>5. QED
  BY <1>3, <1>4

LEMMA ConnectiveFacts ==
  ASSUME NEW s \in DOMAIN And
  PROVE  /\ s \in Sorts
         /\ \A t \in {And[s], Or[s]} : t \in Types /\ form[t] = "members" /\ sort_of[t] = s /\ t # "SequenceRegExp"
         /\ \A t \in {True[s], False[s]} : t \in Types /\ form[t] = "leaf" /\ sort_of[t] = s
         /\ kind[And[s]] = "and" /\ kind[Or[s]] = "or"
         /\ kind[True[s]] = "true" /\ kind[False[s]] = "false"
<1>1. s = "prop" \/ s = "ltlf" \/ s = "ldlf"
  BY DEF And
<1>2. CASE s = "prop"
  <2>1. And[s] = "PropositionalAnd" /\ Or[s] = "PropositionalOr" /\ True[s] = "PropositionalTrue" /\ False[s] = "PropositionalFalse"
    BY <1>2 DEF And, Or, True, False
  <2>2. QED
    BY <1>2, <2>1, PropForms DEF pl_form, kind, Sorts
<1>3. CASE s = "ltlf"
  <2>1. And[s] = "LTLfAnd" /\ Or[s] = "LTLfOr" /\ True[s] = "LTLfTrue" /\ False[s] = "LTLfFalse"
    BY <1>3 DEF And, Or, True, False
  <2>2. QED
    BY <1>3, <2>1, LtlfForms DEF ltlf_form, kind, Sorts
<1>4. CASE s = "ldlf"
  <2>1. And[s] = "LDLfAnd" /\ Or[s] = "LDLfOr" /\ True[s] = "LDLfTrue" /\ False[s] = "LDLfFalse"
    BY <1>4 DEF And, Or, True, False
  <2>2. QED
    BY <1>4, <2>1, LdlfForms DEF ldlf_form, kind, Sorts
<1>5. QED
  BY <1>1, <1>2, <1>3, <1>4

(* flatten_bin_op_set.                                                      *)
FlatSet(h, s, D, caller, args) ==
  /\ AllOf(h, args, sort_of[caller]) /\ InOrder(h, args)
  /\ Meant(h, args) = Flattened(Meant(h, s) \ D, kind[caller])
  /\ args = <<>> <=> Meant(h, args) = {}

LEMMA FlattenedSet ==
  ASSUME NEW h, Sound(h), NEW caller \in Types, form[caller] = "members", caller # "SequenceRegExp",
         NEW s, AllOf(h, s, sort_of[caller]), NEW dropped, NEW D, Drops(h, s, dropped, D)
  PROVE  FlatSet(h, s, D, caller, flatten_bin_op_set(h, s, dropped, caller))
<1> DEFINE xs == Inserts(h, s, dropped, caller)
           args == AllInserted(h, <<>>, xs)
<1>1. Flat(h, s, D, caller, xs)
  BY InsertsAre
<1> HIDE DEF xs
<1>2. AllOf(h, xs, sort_of[caller]) /\ Meant(h, xs) = Flattened(Meant(h, s) \ D, kind[caller])
  BY <1>1 DEF Flat
<1>3. SetFor(h, xs, args, sort_of[caller])
  BY <1>2, SetMeans DEF Sound
<1>4. flatten_bin_op_set(h, s, dropped, caller) = args
  BY DEF flatten_bin_op_set, xs
<1> HIDE DEF args
<1>5. args = <<>> <=> Meant(h, args) = {}
  <2>1. args \in Seq(DOMAIN h)
    BY <1>3 DEF SetFor, AllOf
  <2>2. args # <<>> => 1 \in DOMAIN args
    BY <2>1
  <2>3. args # <<>> => ToSet(args) # {}
    BY <2>2 DEF ToSet
  <2>4. ToSet(<<>>) = {}
    BY DEF ToSet
  <2>5. QED
    BY <2>3, <2>4 DEF Meant
<1>6. QED
  BY <1>2, <1>3, <1>4, <1>5 DEF SetFor, FlatSet

LEMMA MakingUnion ==
  ASSUME NEW m, Managed(m.heap, m.table), NEW s, AllOf(m.heap, s, "regex"), s # <<>>
  PROVE  Returned(m, makeUnion(m, s), "regex", makeUnionRegex(Meant(m.heap, s)))
<1> DEFINE caller == "UnionRegExp"
           args == flatten_bin_op_set(m.heap, s, {}, caller)
           M == Meant(m.heap, s)
<1>0. Sound(m.heap)
  BY DEF Managed
<1>1. caller \in Types /\ form[caller] = "members" /\ sort_of[caller] = "regex" /\ kind[caller] = "union"
      /\ caller # "SequenceRegExp"
  BY RegexForms DEF regex_form, kind
<1>2. makeUnion(m, s) = Made(m, args, caller)
  BY DEF makeUnion
<1> HIDE DEF caller
<1>3. AllOf(m.heap, s, sort_of[caller])
  BY <1>1
<1>4. FlatSet(m.heap, s, {}, caller, args)
  <2>1. Drops(m.heap, s, {}, {})
    BY DEF Drops
  <2>2. QED
    BY <1>0, <1>1, <1>3, <2>1, FlattenedSet
<1>5. args # <<>>
  <2>1. Inserts(m.heap, s, {}, caller) # <<>>
    BY <1>0, <1>1, <1>3, InsertsSome
  <2> DEFINE xs == Inserts(m.heap, s, {}, caller)
  <2>2. Drops(m.heap, s, {}, {})
    BY DEF Drops
  <2>3. Flat(m.heap, s, {}, caller, xs)
    BY <1>0, <1>1, <1>3, <2>2, InsertsAre
  <2> HIDE DEF xs
  <2>4. /\ xs \in Seq(DOMAIN m.heap) /\ xs # <<>>
        /\ Meant(m.heap, xs) = Flattened(M \ {}, kind[caller])
    BY <1>1, <2>1, <2>3 DEF Flat, AllOf, xs
  <2>5. 1 \in DOMAIN xs
    BY <2>4
  <2>6. Meant(m.heap, xs) # {}
    BY <2>5 DEF Meant, ToSet
  <2> HIDE DEF M
  <2>7. QED
    BY <1>4, <2>4, <2>6 DEF FlatSet, M
<1>6. M \ {} = M
  OBVIOUS
<1> HIDE DEF args, M
<1>7. /\ AllOf(m.heap, args, sort_of[caller]) /\ InOrder(m.heap, args)
      /\ Meant(m.heap, args) = Flattened(M, "union")
  BY <1>1, <1>4, <1>6 DEF FlatSet, M
<1>8. Returned(m, Made(m, args, caller), sort_of[caller], NodeOver(Meant(m.heap, args), kind[caller]))
  BY <1>1, <1>5, <1>7, MadeMembers
<1>9. makeUnionRegex(M) = NodeOver(Meant(m.heap, args), kind[caller])
  BY <1>1, <1>7 DEF makeUnionRegex
<1>10. QED
  BY <1>1, <1>2, <1>8, <1>9 DEF M

LEMMA MakingSequence ==
  ASSUME NEW m, Managed(m.heap, m.table), NEW s, AllOf(m.heap, s, "regex"), s # <<>>
  PROVE  Returned(m, makeSequence(m, s), "regex", makeSeqRegex(Denoted(m.heap, s)))
<1> DEFINE caller == "SequenceRegExp"
           args == Inserts(m.heap, s, {}, caller)
           fs == FlatFormulas(Denoted(m.heap, s))
<1>0. Sound(m.heap)
  BY DEF Managed
<1>1. caller \in Types /\ form[caller] = "members" /\ sort_of[caller] = "regex" /\ kind[caller] = "seq"
  BY RegexForms DEF regex_form, kind
<1>2. makeSequence(m, s) = Made(m, args, caller)
  BY DEF makeSequence
<1>3. Denoted(m.heap, args) = fs
  BY <1>0, SequenceInserts
<1> DEFINE g == Denoted(m.heap, s)
<1>4. makeSeqRegex(g) = IF Len(fs) = 1 THEN fs[1] ELSE <<"seq", fs>>
  <2> HIDE DEF g
  <2>1. makeSeqRegex(g) = IF Len(FlatFormulas(g)) = 1 THEN FlatFormulas(g)[1] ELSE <<"seq", FlatFormulas(g)>>
    BY DEF makeSeqRegex, FlatFormulas
  <2>2. QED
    BY <2>1 DEF g
<1> HIDE DEF caller
<1>5. AllOf(m.heap, s, sort_of[caller])
  BY <1>1
<1>6. AllOf(m.heap, args, sort_of[caller])
  <2>1. Drops(m.heap, s, {}, {})
    BY DEF Drops
  <2>2. Flat(m.heap, s, {}, caller, args)
    BY <1>0, <1>1, <1>5, <2>1, InsertsAre
  <2>3. QED
    BY <2>2 DEF Flat
<1>7. args # <<>>
  BY <1>0, <1>1, <1>5, InsertsSome
<1> HIDE DEF args, fs, g
<1>8. args \in Seq(DOMAIN m.heap) /\ Len(args) \in Nat /\ Len(args) # 0
  BY <1>6, <1>7 DEF AllOf
<1>9. Len(fs) = Len(args)
  <2>1. DOMAIN fs = DOMAIN args
    BY <1>3 DEF Denoted
  <2>2. fs = [k \in 1 .. Len(args) |-> fs[k]]
    BY <1>3, <1>8 DEF Denoted
  <2>3. QED
    BY <1>8, <2>2
<1>10. CASE Len(args) = 1
  <2>1. Returned(m, Made(m, args, caller), sort_of[caller], Denoted(m.heap, args)[1])
    BY <1>6, <1>10, MadeOne
  <2>2. makeSeqRegex(g) = fs[1]
    BY <1>4, <1>9, <1>10
  <2>3. QED
    BY <1>1, <1>2, <1>3, <2>1, <2>2 DEF g
<1>11. CASE Len(args) # 1
  <2>1. Len(args) > 1
    <3>1. \A x \in Nat : x # 0 /\ x # 1 => x > 1
      OBVIOUS
    <3>2. QED
      BY <1>8, <1>11, <3>1
  <2>2. Returned(m, Made(m, args, caller), sort_of[caller], <<"seq", Denoted(m.heap, args)>>)
    BY <1>1, <1>6, <2>1, MadeMany DEF caller
  <2>3. makeSeqRegex(g) = <<"seq", fs>>
    BY <1>4, <1>9, <1>11
  <2>4. QED
    BY <1>1, <1>2, <1>3, <2>2, <2>3 DEF g
<1>12. QED
  BY <1>10, <1>11

(* makeAnd and makeOr of the three logics.                                  *)
LEMMA MakingAndOr ==
  ASSUME NEW m, Managed(m.heap, m.table),
         NEW caller \in Types, form[caller] = "members", caller # "SequenceRegExp",
         NEW absorbing \in Types, form[absorbing] = "leaf", sort_of[absorbing] = sort_of[caller],
         NEW neutral \in Types, form[neutral] = "leaf", sort_of[neutral] = sort_of[caller],
         HasType(m.heap, m.table, neutral),
         NEW s, AllOf(m.heap, s, sort_of[caller])
  PROVE  Returned(m, make_and_or(m, s, caller, absorbing, neutral), sort_of[caller],
                  and_or(Meant(m.heap, s), kind[caller], <<kind[neutral]>>, <<kind[absorbing]>>))
<1> DEFINE h == m.heap
           M == Meant(h, s)
           S == sort_of[caller]
           d == denotations(h)
           n == <<kind[neutral]>>
           z == <<kind[absorbing]>>
           absorbed == {a \in ToSet(s) : h[a].type = absorbing}
           args == flatten_bin_op_set(h, s, {neutral}, caller)
           flat == Flattened(M \ {n}, kind[caller])
           f == and_or(M, kind[caller], n, z)
           r == make_and_or(m, s, caller, absorbing, neutral)
<1>0. Sound(h) /\ m.table \subseteq DOMAIN h
  BY DEF Managed
<1>1. S \in Sorts
  BY MembersFacts
<1>2. /\ \A a \in ToSet(s) : a \in DOMAIN h /\ sort(h, a) = S
      /\ \A k \in DOMAIN s : s[k] \in ToSet(s)
  BY DEF AllOf, ToSet
<1>3. \A a \in DOMAIN h : sort(h, a) = S => (h[a].type = absorbing <=> d[a] = z)
  BY <1>0, <1>1, LeafMeans
<1>4. \A a \in DOMAIN h : sort(h, a) = S => (h[a].type = neutral <=> d[a] = n)
  BY <1>0, <1>1, LeafMeans
<1>5. z \in M <=> absorbed # {}
  <2> HIDE DEF z, d
  <2>1. \A y : y \in M <=> \E a \in ToSet(s) : y = d[a]
    BY DEF Meant, d
  <2> HIDE DEF M
  <2>2. QED
    BY <1>2, <1>3, <2>1
<1>6. FlatSet(h, s, {n}, caller, args)
  <2>1. Drops(h, s, {neutral}, {n})
    <3> HIDE DEF n
    <3>1. \A k \in DOMAIN s : h[s[k]].type \in {neutral} <=> d[s[k]] \in {n}
      BY <1>2, <1>4
    <3>2. QED
      BY <3>1 DEF Drops
  <2> HIDE DEF n
  <2>2. QED
    BY <1>0, <2>1, FlattenedSet
<1>7. AllOf(h, args, S) /\ InOrder(h, args) /\ Meant(h, args) = flat /\ (args = <<>> <=> flat = {})
  BY <1>6 DEF FlatSet
<1> HIDE DEF n, z
<1>8. CASE absorbed # {}
  <2> DEFINE a == CHOOSE a \in absorbed : TRUE
  <2>1. r = insert_if_not_available_(m, m.heap, a)
    BY <1>8, Zenon DEF make_and_or
  <2>2. a \in absorbed
    BY <1>8
  <2> HIDE DEF a
  <2>3. a \in DOMAIN h /\ sort(h, a) = S /\ d[a] = z
    BY <1>2, <1>3, <2>2
  <2>4. Returned(m, insert_if_not_available_(m, m.heap, a), sort(h, a), d[a])
    BY <2>3, Again
  <2>5. f = z
    <3>1. z \in M
      BY <1>5, <1>8
    <3> HIDE DEF M
    <3>2. QED
      BY <3>1, Zenon DEF and_or
  <2> HIDE DEF r, f
  <2>6. Returned(m, r, S, f)
    BY <2>1, <2>3, <2>4, <2>5
  <2>7. QED
    BY <2>6 DEF r, f, n, z
<1>9. CASE absorbed = {} /\ args = <<>>
  <2> DEFINE b == makeBool(m, neutral)
  <2>1. r = insert_if_not_available_(m, m.heap, b)
    BY <1>9, Zenon DEF make_and_or
  <2>2. b \in m.table /\ h[b].type = neutral
    BY DEF HasType, makeBool
  <2> HIDE DEF b
  <2>3. b \in DOMAIN h /\ sort(h, b) = S /\ d[b] = n
    BY <1>0, <1>4, <2>2 DEF sort
  <2>4. Returned(m, insert_if_not_available_(m, m.heap, b), sort(h, b), d[b])
    BY <2>3, Again
  <2>5. f = n
    <3>1. z \notin M /\ flat = {}
      BY <1>5, <1>7, <1>9
    <3> HIDE DEF M
    <3>2. QED
      BY <3>1, Zenon DEF and_or
  <2> HIDE DEF r, f
  <2>6. Returned(m, r, S, f)
    BY <2>1, <2>3, <2>4, <2>5
  <2>7. QED
    BY <2>6 DEF r, f, n, z
<1>10. CASE absorbed = {} /\ args # <<>>
  <2>1. r = Made(m, args, caller)
    BY <1>10, Zenon DEF make_and_or
  <2> DEFINE over == NodeOver(flat, kind[caller])
  <2>2. Returned(m, Made(m, args, caller), S, NodeOver(Meant(h, args), kind[caller]))
    <3> HIDE DEF args, flat
    <3>1. QED
      BY <1>7, <1>10, MadeMembers
  <2>3. f = over
    <3>1. z \notin M /\ flat # {}
      BY <1>5, <1>7, <1>10
    <3> HIDE DEF M
    <3>2. QED
      BY <3>1, Zenon DEF and_or
  <2> HIDE DEF r, f, args, flat
  <2>4. Returned(m, r, S, f)
    BY <1>7, <2>1, <2>2, <2>3
  <2>5. QED
    BY <2>4 DEF r, f, n, z
<1>11. QED
  BY <1>8, <1>9, <1>10

LEMMA MakingAnd ==
  ASSUME NEW m, Managed(m.heap, m.table), NEW S \in DOMAIN And, NEW s, AllOf(m.heap, s, S)
  PROVE  Returned(m, make_and_or(m, s, And[S], False[S], True[S]), S, makeAnd(Meant(m.heap, s)))
<1> DEFINE t == And[S]
           z == False[S]
           n == True[S]
           M == Meant(m.heap, s)
<1>1. /\ t \in Types /\ form[t] = "members" /\ sort_of[t] = S /\ t # "SequenceRegExp"
      /\ n \in Types /\ form[n] = "leaf" /\ sort_of[n] = S
      /\ z \in Types /\ form[z] = "leaf" /\ sort_of[z] = S
      /\ kind[t] = "and" /\ kind[n] = "true" /\ kind[z] = "false"
  BY ConnectiveFacts
<1>2. HasType(m.heap, m.table, n)
  BY DEF Managed, HasConstants
<1> HIDE DEF t, n, z
<1>3. AllOf(m.heap, s, sort_of[t])
  BY <1>1
<1>4. Returned(m, make_and_or(m, s, t, z, n), sort_of[t], and_or(M, kind[t], <<kind[n]>>, <<kind[z]>>))
  BY <1>1, <1>2, <1>3, MakingAndOr
<1>5. makeAnd(M) = and_or(M, kind[t], <<kind[n]>>, <<kind[z]>>)
  <2> HIDE DEF M
  <2>1. QED
    BY <1>1 DEF makeAnd, makeTrue, makeFalse
<1>6. QED
  BY <1>1, <1>4, <1>5 DEF t, z, n

LEMMA MakingOr ==
  ASSUME NEW m, Managed(m.heap, m.table), NEW S \in DOMAIN And, NEW s, AllOf(m.heap, s, S)
  PROVE  Returned(m, make_and_or(m, s, Or[S], True[S], False[S]), S, makeOr(Meant(m.heap, s)))
<1> DEFINE t == Or[S]
           z == True[S]
           n == False[S]
           M == Meant(m.heap, s)
<1>1. /\ t \in Types /\ form[t] = "members" /\ sort_of[t] = S /\ t # "SequenceRegExp"
      /\ n \in Types /\ form[n] = "leaf" /\ sort_of[n] = S
      /\ z \in Types /\ form[z] = "leaf" /\ sort_of[z] = S
      /\ kind[t] = "or" /\ kind[n] = "false" /\ kind[z] = "true"
  BY ConnectiveFacts
<1>2. HasType(m.heap, m.table, n)
  BY DEF Managed, HasConstants
<1> HIDE DEF t, n, z
<1>3. AllOf(m.heap, s, sort_of[t])
  BY <1>1
<1>4. Returned(m, make_and_or(m, s, t, z, n), sort_of[t], and_or(M, kind[t], <<kind[n]>>, <<kind[z]>>))
  BY <1>1, <1>2, <1>3, MakingAndOr
<1>5. makeOr(M) = and_or(M, kind[t], <<kind[n]>>, <<kind[z]>>)
  <2> HIDE DEF M
  <2>1. QED
    BY <1>1 DEF makeOr, makeTrue, makeFalse
<1>6. QED
  BY <1>1, <1>4, <1>5 DEF t, z, n

-----------------------------------------------------------------------------
(* The invariant: the manager is as the calls need it, and what the client  *)
(* has stands for what it asked for.                                        *)
Knows(h, T, g) ==
  /\ g.object \in DOMAIN h /\ g.object \in T \cup outside
  /\ g.sort \in Sorts /\ sort(h, g.object) = g.sort
  /\ denotations(h)[g.object] = g.formula
Inv == Managed(heap, table) /\ \A g \in given : Knows(heap, table, g)

(* The nine objects that a manager starts with.                             *)
FirstType == <<"PropositionalTrue", "PropositionalFalse", "LTLfTrue", "LTLfFalse", "LTLfWeakNext",
               "LTLfAlways", "LTLfEventually", "LDLfTrue", "LDLfFalse">>
FirstArgs == <<<<>>, <<>>, <<>>, <<>>, <<4>>, <<4>>, <<3>>, <<>>, <<>>>>

LEMMA InitInv ==
  ASSUME Init
  PROVE  Inv
<1> DEFINE h == heap
<1>1. /\ Len(h) = 9 /\ DOMAIN h = 1 .. 9
      /\ \A i \in 1 .. 9 : h[i].type = FirstType[i] /\ h[i].name = "none" /\ h[i].args = FirstArgs[i]
      /\ \A i \in 1 .. 9 : h[i] = [type |-> FirstType[i], name |-> "none", args |-> FirstArgs[i]]
      /\ h = [i \in 1 .. 9 |-> h[i]]
  <2>1. h = <<Node("PropositionalTrue", <<>>), Node("PropositionalFalse", <<>>),
              Node("LTLfTrue", <<>>), Node("LTLfFalse", <<>>),
              Node("LTLfWeakNext", <<4>>), Node("LTLfAlways", <<4>>),
              Node("LTLfEventually", <<3>>),
              Node("LDLfTrue", <<>>), Node("LDLfFalse", <<>>)>>
    BY DEF Init
  <2>2. Len(h) = 9 /\ DOMAIN h = 1 .. 9
    BY <2>1
  <2>3. \A i \in 1 .. 9 : h[i] = Node(FirstType[i], FirstArgs[i])
    BY <2>1 DEF FirstType, FirstArgs
  <2>4. h = [i \in 1 .. 9 |-> h[i]]
    BY <2>1
  <2>5. QED
    BY <2>2, <2>3, <2>4 DEF Node
<1>2. table = DOMAIN h \ outside /\ table \subseteq DOMAIN h
  BY DEF Init
<1>3. given = {Handle(1, "prop", makeTrue), Handle(2, "prop", makeFalse),
               Handle(3, "ltlf", makeLtlfTrue), Handle(4, "ltlf", makeLtlfFalse),
               Handle(5, "ltlf", makeLtlfWeakNext(makeLtlfFalse)), Handle(6, "ltlf", makeLtlfEnd),
               Handle(7, "ltlf", makeLtlfEventually(makeLtlfTrue)),
               Handle(8, "ldlf", makeLdlfTrue), Handle(9, "ldlf", makeLdlfFalse)}
  BY DEF Init
<1> HIDE DEF h
<1>4. /\ \A i \in {1, 2} : FirstType[i] \in Types /\ form[FirstType[i]] = "leaf" /\ sort_of[FirstType[i]] = "prop"
      /\ \A i \in {3, 4} : FirstType[i] \in Types /\ form[FirstType[i]] = "leaf" /\ sort_of[FirstType[i]] = "ltlf"
      /\ \A i \in {5, 6, 7} : FirstType[i] \in Types /\ form[FirstType[i]] = "one" /\ sort_of[FirstType[i]] = "ltlf"
      /\ \A i \in {8, 9} : FirstType[i] \in Types /\ form[FirstType[i]] = "leaf" /\ sort_of[FirstType[i]] = "ldlf"
  BY PropForms, LtlfForms, LdlfForms DEF FirstType, pl_form, ltlf_form, ldlf_form
<1>5. \A i \in 1 .. 9 : i \in {1, 2} \/ i \in {3, 4} \/ i \in {5, 6, 7} \/ i \in {8, 9}
  OBVIOUS
<1>6. /\ \A i \in {1, 2, 3, 4, 8, 9} : FirstArgs[i] = <<>>
      /\ \A i \in {5, 6} : FirstArgs[i] = <<4>>
      /\ FirstArgs[7] = <<3>>
  BY DEF FirstArgs
<1>7. WellFormed(h)
  <2>1. \A i \in 1 .. 9 : FirstType[i] \in Types /\ FirstArgs[i] \in Seq(Nat)
    <3>1. <<>> \in Seq(Nat) /\ <<4>> \in Seq(Nat) /\ <<3>> \in Seq(Nat)
      OBVIOUS
    <3>2. \A i \in {1, 2, 3, 4, 8, 9} : FirstArgs[i] \in Seq(Nat)
      BY <1>6, <3>1
    <3>3. FirstArgs[5] \in Seq(Nat) /\ FirstArgs[6] \in Seq(Nat) /\ FirstArgs[7] \in Seq(Nat)
      BY <1>6, <3>1
    <3>4. \A i \in 1 .. 9 : FirstType[i] \in Types
      BY <1>4, <1>5
    <3>5. QED
      BY <1>5, <3>2, <3>3, <3>4
  <2>2. \A i \in 1 .. 9 : h[i] \in Nodes
    <3>1. ASSUME NEW i \in 1 .. 9 PROVE h[i] \in Nodes
      <4>1. FirstType[i] \in Types /\ FirstArgs[i] \in Seq(Nat)
        BY <2>1
      <4>2. h[i] = [type |-> FirstType[i], name |-> "none", args |-> FirstArgs[i]]
        BY <1>1
      <4>3. QED
        BY <4>1, <4>2 DEF Nodes
    <3>2. QED
      BY <3>1
  <2>3. h \in Seq(Nodes)
    BY <1>1, <2>2
  <2>4. \A i \in {1, 2, 3, 4, 8, 9} : Fits(h[i], i)
    BY <1>1, <1>4, <1>6 DEF Fits, Arity, Forms
  <2>5. \A i \in {5, 6, 7} : Fits(h[i], i)
    <3>1. ASSUME NEW i \in {5, 6, 7} PROVE Fits(h[i], i)
      <4>1. PICK a \in {3, 4} : h[i].args = <<a>>
        BY <1>1, <1>6
      <4>2. form[h[i].type] = "one" /\ a \in 1 .. i - 1
        BY <1>1, <1>4
      <4>3. Len(<<a>>) = 1 /\ \A k \in DOMAIN <<a>> : <<a>>[k] = a
        OBVIOUS
      <4>4. QED
        BY <4>1, <4>2, <4>3 DEF Fits, Arity, Forms
    <3>2. QED
      BY <3>1
  <2>6. \A i \in DOMAIN h : Fits(h[i], i)
    BY <1>1, <1>5, <2>4, <2>5
  <2>7. QED
    BY <2>3, <2>6 DEF WellFormed
<1>8. Typed(h)
  <2>1. sort(h, 3) = "ltlf" /\ sort(h, 4) = "ltlf"
    BY <1>1, <1>4 DEF sort
  <2>2. \A i \in {5, 6, 7} : takes(FirstType[i], 1) = "ltlf"
    <3>1. \A i \in {5, 6, 7} : FirstType[i] \notin DOMAIN first_sort
      BY DEF FirstType, first_sort
    <3>2. QED
      BY <1>4, <3>1 DEF takes
  <2>3. ASSUME NEW i \in DOMAIN h, NEW k \in DOMAIN h[i].args PROVE sort(h, h[i].args[k]) = takes(h[i].type, k)
    <3>1. CASE i \in {5, 6, 7}
      <4>1. PICK a \in {3, 4} : h[i].args = <<a>>
        BY <1>1, <1>6, <3>1
      <4>2. k = 1 /\ h[i].args[k] = a
        BY <2>3, <4>1
      <4>3. sort(h, a) = "ltlf" /\ takes(h[i].type, 1) = "ltlf"
        BY <1>1, <2>1, <2>2, <3>1
      <4>4. QED
        BY <4>2, <4>3
    <3>2. CASE i \notin {5, 6, 7}
      <4>1. h[i].args = <<>>
        BY <1>1, <1>5, <1>6, <3>2
      <4>2. QED
        BY <2>3, <4>1
    <3>3. QED
      BY <3>1, <3>2
  <2>4. QED
    BY <2>3 DEF Typed
<1>9. Canonical(h)
  <2>1. \A i \in DOMAIN h : form[h[i].type] # "members"
    BY <1>1, <1>4, <1>5
  <2>2. QED
    BY <2>1 DEF Canonical
<1>10. Sound(h)
  BY <1>7, <1>8, <1>9 DEF Sound
<1>11. Unique(h, table)
  <2>1. ASSUME NEW i \in table, NEW j \in table, is_equal(h, i, j) PROVE i = j
    <3>1. i \in 1 .. 9 /\ j \in 1 .. 9 /\ h[i].type = h[j].type
      BY <1>1, <1>2, <1>7, <2>1, EqualLaws
    <3>2. FirstType[i] = FirstType[j]
      BY <1>1, <3>1
    <3>3. QED
      BY <3>1, <3>2 DEF FirstType
  <2>2. QED
    BY <2>1 DEF Unique
<1>12. HasConstants(h, table)
  <2>1. \A i \in {1, 2, 3, 4, 8, 9} : i \in table /\ h[i].type = FirstType[i]
    BY <1>1, <1>2 DEF outside
  <2>2. \A i \in {1, 2, 3, 4, 8, 9} : HasType(h, table, FirstType[i])
    BY <2>1 DEF HasType
  <2>3. /\ HasType(h, table, "PropositionalTrue") /\ HasType(h, table, "PropositionalFalse")
        /\ HasType(h, table, "LTLfTrue") /\ HasType(h, table, "LTLfFalse")
        /\ HasType(h, table, "LDLfTrue") /\ HasType(h, table, "LDLfFalse")
    BY <2>2 DEF FirstType
  <2>4. QED
    BY <2>3 DEF HasConstants, And, True, False
<1>13. Managed(h, table)
  BY <1>2, <1>10, <1>11, <1>12 DEF Managed
<1> DEFINE d == denotations(h)
<1>14. \A i \in 1 .. 9 : Means(h[i], Arguments(h, i), d[i])
  BY <1>1, <1>7, ObjectMeans
<1> HIDE DEF d
<1>15. ASSUME NEW i \in {1, 2, 3, 4, 8, 9} PROVE d[i] = <<kind[FirstType[i]]>>
  <2>1. i \in 1 .. 9
    OBVIOUS
  <2>2. h[i].type = FirstType[i] /\ form[FirstType[i]] = "leaf"
    BY <1>1, <1>4, <1>5, <2>1
  <2>3. Means(h[i], Arguments(h, i), d[i])
    BY <1>14, <2>1
  <2>4. QED
    BY <2>2, <2>3 DEF Means
<1>16. d[3] = <<"true">> /\ d[4] = <<"false">> /\ d[1] = <<"true">> /\ d[2] = <<"false">>
       /\ d[8] = <<"true">> /\ d[9] = <<"false">>
  BY <1>15 DEF FirstType, kind
<1>17. ASSUME NEW i \in {5, 6, 7} PROVE d[i] = <<kind[FirstType[i]], Arguments(h, i)[1]>>
  <2>1. FirstType[i] \in UnaryTypes
    BY UnaryAre DEF FirstType
  <2>2. h[i].type = FirstType[i] /\ Means(h[i], Arguments(h, i), d[i])
    BY <1>1, <1>14
  <2>3. QED
    BY <2>1, <2>2 DEF Means
<1>18. Arguments(h, 5)[1] = d[4] /\ Arguments(h, 6)[1] = d[4] /\ Arguments(h, 7)[1] = d[3]
  BY <1>1, <1>6 DEF Arguments, d
<1>19. d[5] = <<"WX", <<"false">>>> /\ d[6] = <<"G", <<"false">>>> /\ d[7] = <<"E", <<"true">>>>
  <2>1. d[5] = <<kind[FirstType[5]], d[4]>> /\ d[6] = <<kind[FirstType[6]], d[4]>> /\ d[7] = <<kind[FirstType[7]], d[3]>>
    BY <1>17, <1>18
  <2>2. kind[FirstType[5]] = "WX" /\ kind[FirstType[6]] = "G" /\ kind[FirstType[7]] = "E"
    BY DEF FirstType, kind
  <2>3. QED
    BY <1>16, <2>1, <2>2
<1>20. \A i \in 1 .. 9 : i \in DOMAIN h /\ i \in table \cup outside
  BY <1>1, <1>2
<1>21. \A i \in 1 .. 9 : sort(h, i) = sort_of[FirstType[i]]
  BY <1>1 DEF sort
<1>22. ASSUME NEW g \in given PROVE Knows(h, table, g)
  <2>1. PICK i \in 1 .. 9 : g.object = i /\ g.sort = sort_of[FirstType[i]] /\ g.sort \in Sorts /\ g.formula = d[i]
    BY <1>3, <1>4, <1>16, <1>19 DEF Handle, Sorts, makeTrue, makeFalse, makeLtlfTrue, makeLtlfFalse,
       makeLtlfWeakNext, makeLtlfEnd, makeLtlfAlways, makeLtlfEventually, makeLdlfTrue, makeLdlfFalse
  <2>2. QED
    BY <1>20, <1>21, <2>1 DEF Knows, d
<1>23. QED
  BY <1>13, <1>22 DEF Inv, h

-----------------------------------------------------------------------------
(* One step per call.                                                       *)
LEMMA Receiving ==
  ASSUME Inv, NEW m, NEW S \in Sorts, NEW f, Returned(manager, m, S, f), Receive(m, S, f)
  PROVE  Inv'
<1>0. manager.heap = heap /\ manager.table = table
  BY DEF manager
<1>1. /\ Managed(m.heap, m.table) /\ Extends(m.heap, heap) /\ table \subseteq m.table
      /\ m.result \in m.table /\ sort(m.heap, m.result) = S /\ denotations(m.heap)[m.result] = f
  BY <1>0 DEF Returned
<1>2. heap' = m.heap /\ table' = m.table /\ given' = given \cup {Handle(m.result, S, f)}
  BY DEF Receive
<1>3. WellFormed(m.heap) /\ WellFormed(heap) /\ m.table \subseteq DOMAIN m.heap
  BY <1>1 DEF Inv, Managed, Sound
<1>4. \A i \in DOMAIN heap : i \in DOMAIN m.heap /\ m.heap[i] = heap[i]
  BY <1>1, <1>3, ExtendsType
<1>5. \A i \in DOMAIN heap : denotations(m.heap)[i] = denotations(heap)[i]
  BY <1>1, <1>3, SameDenotations
<1>6. ASSUME NEW g \in given PROVE Knows(m.heap, m.table, g)
  <2>1. Knows(heap, table, g)
    BY DEF Inv
  <2>2. QED
    BY <1>1, <1>4, <1>5, <2>1 DEF Knows, sort
<1>7. Knows(m.heap, m.table, Handle(m.result, S, f))
  <2> DEFINE g == Handle(m.result, S, f)
  <2>1. g.object = m.result /\ g.sort = S /\ g.formula = f
    BY DEF Handle
  <2> HIDE DEF g
  <2>2. QED
    BY <1>1, <1>3, <2>1 DEF Knows, g
<1>8. \A g \in given' : Knows(m.heap, m.table, g)
  BY <1>2, <1>6, <1>7
<1>9. QED
  BY <1>1, <1>2, <1>8 DEF Inv

LEMMA ManagerIs ==
  ASSUME Inv
  PROVE  /\ manager.heap = heap /\ manager.table = table /\ Managed(manager.heap, manager.table)
         /\ \A S \in Sorts : \A g \in Given(S) :
              /\ g.object \in DOMAIN heap /\ sort(heap, g.object) = S
              /\ denotations(heap)[g.object] = g.formula
  BY DEF Inv, manager, Given, Knows

LEMMA MakeAtomStep ==
  ASSUME Inv, NEW S \in DOMAIN Atom, NEW k \in DOMAIN Names, MakeAtom(S, Names[k])
  PROVE  Inv'
<1> DEFINE m == makeNamedAtom(manager, Atom[S], Names[k])
           f == makePropAtom(Names[k])
<1>1. Names[k] \in ToSet(Names) /\ S \in Sorts
  BY AtomFacts DEF ToSet
<1>2. Managed(manager.heap, manager.table)
  BY ManagerIs
<1>3. Returned(manager, m, S, f)
  BY <1>1, <1>2, MakingNamedAtom
<1>4. Receive(m, S, f)
  BY DEF MakeAtom
<1> HIDE DEF m, f
<1>5. QED
  BY <1>1, <1>3, <1>4, Receiving

LEMMA MakeQuotedAtomStep ==
  ASSUME Inv, NEW g \in Given("ldlf"), MakeQuotedAtom(g)
  PROVE  Inv'
<1> DEFINE m == makeQuotedAtom(manager, g.object)
           f == QuotedAtom(g.formula)
<1>1. "prop" \in Sorts /\ "ldlf" \in Sorts
  BY DEF Sorts
<1>2. /\ manager.heap = heap /\ Managed(manager.heap, manager.table)
      /\ g.object \in DOMAIN heap /\ sort(heap, g.object) = "ldlf"
      /\ denotations(heap)[g.object] = g.formula
  BY <1>1, ManagerIs
<1>3. Returned(manager, m, "prop", f)
  <2>1. Returned(manager, m, "prop", QuotedAtom(denotations(manager.heap)[g.object]))
    BY <1>2, MakingQuotedAtom
  <2>2. QED
    BY <1>2, <2>1
<1>4. Receive(m, "prop", f)
  BY DEF MakeQuotedAtom
<1> HIDE DEF m, f
<1>5. QED
  BY <1>1, <1>3, <1>4, Receiving

LEMMA MakeUnaryStep ==
  ASSUME Inv, NEW c \in unary, MakeUnary(c)
  PROVE  Inv'
<1>1. c[2] \in Sorts /\ c[3] \in Sorts
  BY DEF unary, Sorts
<1>2. PICK a \in Given(c[2]) :
        Receive(make(manager, Node(c[1], <<a.object>>)), c[3], <<kind[c[1]], a.formula>>)
  BY DEF MakeUnary
<1> DEFINE m == make(manager, Node(c[1], <<a.object>>))
           f == <<kind[c[1]], a.formula>>
<1>3. /\ manager.heap = heap /\ Managed(manager.heap, manager.table)
      /\ a.object \in DOMAIN heap /\ sort(heap, a.object) = c[2]
      /\ denotations(heap)[a.object] = a.formula
  BY <1>1, ManagerIs
<1>4. Returned(manager, m, c[3], f)
  <2>1. Returned(manager, m, c[3], <<kind[c[1]], denotations(manager.heap)[a.object]>>)
    BY <1>3, MakingUnary
  <2>2. QED
    BY <1>3, <2>1
<1>5. Receive(m, c[3], f)
  BY <1>2
<1> HIDE DEF m, f
<1>6. QED
  BY <1>1, <1>4, <1>5, Receiving

LEMMA MakeBinaryStep ==
  ASSUME Inv, NEW c \in binary, MakeBinary(c)
  PROVE  Inv'
<1>1. c[2] \in Sorts /\ c[3] \in Sorts /\ c[4] \in Sorts
  BY DEF binary, Sorts
<1>2. PICK a \in Given(c[2]), b \in Given(c[3]) :
        Receive(make(manager, Node(c[1], <<a.object, b.object>>)), c[4],
                <<kind[c[1]], a.formula, b.formula>>)
  BY DEF MakeBinary
<1> DEFINE m == make(manager, Node(c[1], <<a.object, b.object>>))
           f == <<kind[c[1]], a.formula, b.formula>>
<1>3. /\ manager.heap = heap /\ Managed(manager.heap, manager.table)
      /\ a.object \in DOMAIN heap /\ sort(heap, a.object) = c[2]
      /\ b.object \in DOMAIN heap /\ sort(heap, b.object) = c[3]
      /\ denotations(heap)[a.object] = a.formula
      /\ denotations(heap)[b.object] = b.formula
  BY <1>1, ManagerIs
<1>4. Returned(manager, m, c[4], f)
  <2>1. Returned(manager, m, c[4], <<kind[c[1]], denotations(manager.heap)[a.object],
                                    denotations(manager.heap)[b.object]>>)
    BY <1>3, MakingBinary
  <2>2. QED
    BY <1>3, <2>1
<1>5. Receive(m, c[4], f)
  BY <1>2
<1> HIDE DEF m, f
<1>6. QED
  BY <1>1, <1>4, <1>5, Receiving

(* The formulas a client chose, as a vector and as a set.                   *)
LEMMA ChosenIs ==
  ASSUME Inv, NEW S \in Sorts, NEW s \in Chosen(S)
  PROVE  /\ AllOf(heap, objects(s), S) /\ objects(s) # <<>>
         /\ Denoted(heap, objects(s)) = formulas(s)
         /\ AllOf(heap, SetOf(s), S) /\ SetOf(s) # <<>>
         /\ Meant(heap, SetOf(s)) = ToSet(formulas(s))
<1> DEFINE xs == objects(s)
           fs == formulas(s)
<1>1. PICK n \in 1 .. MaxArguments : s \in [1 .. n -> Given(S)]
  BY DEF Chosen
<1>2. n \in Nat /\ n # 0 /\ DOMAIN s = 1 .. n
  BY <1>1, MaxArgumentsAssumption
<1>3. \A k \in 1 .. n : /\ s[k].object \in DOMAIN heap /\ sort(heap, s[k].object) = S
                        /\ denotations(heap)[s[k].object] = s[k].formula
  BY <1>1, ManagerIs
<1>4. /\ xs = [k \in 1 .. n |-> xs[k]] /\ fs = [k \in 1 .. n |-> fs[k]]
      /\ DOMAIN xs = 1 .. n /\ DOMAIN fs = 1 .. n
      /\ \A k \in 1 .. n : xs[k] = s[k].object /\ fs[k] = s[k].formula
  BY <1>2 DEF objects, formulas
<1> HIDE DEF xs, fs
<1>5. AllOf(heap, xs, S)
  <2>1. xs \in Seq(DOMAIN heap)
    BY <1>2, <1>3, <1>4
  <2>2. QED
    BY <1>3, <1>4, <2>1 DEF AllOf
<1>6. xs # <<>>
  <2>1. 1 \in DOMAIN xs
    BY <1>2, <1>4
  <2>2. QED
    BY <2>1
<1>7. Denoted(heap, xs) = fs
  <2> DEFINE g == Denoted(heap, xs)
  <2>1. g = [k \in 1 .. n |-> g[k]] /\ \A k \in 1 .. n : g[k] = denotations(heap)[xs[k]]
    BY <1>4 DEF Denoted
  <2> HIDE DEF g
  <2>2. \A k \in 1 .. n : g[k] = fs[k]
    BY <1>3, <1>4, <2>1
  <2>3. g = fs
    BY <1>4, <2>1, <2>2
  <2>4. QED
    BY <2>3 DEF g
<1>8. SetFor(heap, xs, SetOf(s), S)
  <2>1. WellFormed(heap)
    BY DEF Inv, Managed, Sound
  <2>2. SetOf(s) = AllInserted(heap, <<>>, xs)
    BY DEF SetOf, xs
  <2>3. QED
    BY <1>5, <2>1, <2>2, SetMeans
<1>9. Meant(heap, xs) = ToSet(fs)
  BY <1>7, DenotedSet
<1>10. Meant(heap, xs) # {}
  <2>1. 1 \in DOMAIN xs
    BY <1>2, <1>4
  <2>2. QED
    BY <2>1 DEF Meant, ToSet
<1>11. SetOf(s) # <<>>
  <2>1. ToSet(<<>>) = {}
    BY DEF ToSet
  <2>2. Meant(heap, <<>>) = {}
    BY <2>1 DEF Meant
  <2>3. Meant(heap, SetOf(s)) = Meant(heap, xs)
    BY <1>8 DEF SetFor
  <2>4. QED
    BY <1>10, <2>2, <2>3
<1>12. QED
  BY <1>5, <1>6, <1>7, <1>8, <1>9, <1>11 DEF SetFor, xs, fs

LEMMA MakeAndStep ==
  ASSUME Inv, NEW S \in DOMAIN And, MakeAnd(S)
  PROVE  Inv'
<1>1. PICK s \in Chosen(S) :
        Receive(make_and_or(manager, SetOf(s), And[S], False[S], True[S]), S, makeAnd(ToSet(formulas(s))))
  BY DEF MakeAnd
<1> DEFINE m == make_and_or(manager, SetOf(s), And[S], False[S], True[S])
           f == makeAnd(ToSet(formulas(s)))
<1>2. S \in Sorts
  BY ConnectiveFacts
<1>3. manager.heap = heap /\ Managed(manager.heap, manager.table)
  BY ManagerIs
<1>4. AllOf(heap, SetOf(s), S) /\ Meant(heap, SetOf(s)) = ToSet(formulas(s))
  BY <1>2, ChosenIs
<1>5. Returned(manager, m, S, f)
  <2>1. Returned(manager, m, S, makeAnd(Meant(manager.heap, SetOf(s))))
    BY <1>3, <1>4, MakingAnd
  <2>2. QED
    BY <1>3, <1>4, <2>1
<1>6. Receive(m, S, f)
  BY <1>1
<1> HIDE DEF m, f
<1>7. QED
  BY <1>2, <1>5, <1>6, Receiving

LEMMA MakeOrStep ==
  ASSUME Inv, NEW S \in DOMAIN And, MakeOr(S)
  PROVE  Inv'
<1>1. PICK s \in Chosen(S) :
        Receive(make_and_or(manager, SetOf(s), Or[S], True[S], False[S]), S, makeOr(ToSet(formulas(s))))
  BY DEF MakeOr
<1> DEFINE m == make_and_or(manager, SetOf(s), Or[S], True[S], False[S])
           f == makeOr(ToSet(formulas(s)))
<1>2. S \in Sorts
  BY ConnectiveFacts
<1>3. manager.heap = heap /\ Managed(manager.heap, manager.table)
  BY ManagerIs
<1>4. AllOf(heap, SetOf(s), S) /\ Meant(heap, SetOf(s)) = ToSet(formulas(s))
  BY <1>2, ChosenIs
<1>5. Returned(manager, m, S, f)
  <2>1. Returned(manager, m, S, makeOr(Meant(manager.heap, SetOf(s))))
    BY <1>3, <1>4, MakingOr
  <2>2. QED
    BY <1>3, <1>4, <2>1
<1>6. Receive(m, S, f)
  BY <1>1
<1> HIDE DEF m, f
<1>7. QED
  BY <1>2, <1>5, <1>6, Receiving

LEMMA MakeUnionStep ==
  ASSUME Inv, MakeUnionRegex
  PROVE  Inv'
<1>1. PICK s \in Chosen("regex") :
        Receive(makeUnion(manager, SetOf(s)), "regex", makeUnionRegex(ToSet(formulas(s))))
  BY DEF MakeUnionRegex
<1> DEFINE m == makeUnion(manager, SetOf(s))
           f == makeUnionRegex(ToSet(formulas(s)))
<1>2. "regex" \in Sorts
  BY DEF Sorts
<1>3. manager.heap = heap /\ Managed(manager.heap, manager.table)
  BY ManagerIs
<1>4. AllOf(heap, SetOf(s), "regex") /\ SetOf(s) # <<>> /\ Meant(heap, SetOf(s)) = ToSet(formulas(s))
  BY <1>2, ChosenIs
<1>5. Returned(manager, m, "regex", f)
  <2>1. Returned(manager, m, "regex", makeUnionRegex(Meant(manager.heap, SetOf(s))))
    BY <1>3, <1>4, MakingUnion
  <2>2. QED
    BY <1>3, <1>4, <2>1
<1>6. Receive(m, "regex", f)
  BY <1>1
<1> HIDE DEF m, f
<1>7. QED
  BY <1>2, <1>5, <1>6, Receiving

LEMMA MakeSeqStep ==
  ASSUME Inv, MakeSeqRegex
  PROVE  Inv'
<1>1. PICK s \in Chosen("regex") :
        Receive(makeSequence(manager, objects(s)), "regex", makeSeqRegex(formulas(s)))
  BY DEF MakeSeqRegex
<1> DEFINE m == makeSequence(manager, objects(s))
           f == makeSeqRegex(formulas(s))
<1>2. "regex" \in Sorts
  BY DEF Sorts
<1>3. manager.heap = heap /\ Managed(manager.heap, manager.table)
  BY ManagerIs
<1>4. AllOf(heap, objects(s), "regex") /\ objects(s) # <<>> /\ Denoted(heap, objects(s)) = formulas(s)
  BY <1>2, ChosenIs
<1>5. Returned(manager, m, "regex", f)
  <2>1. Returned(manager, m, "regex", makeSeqRegex(Denoted(manager.heap, objects(s))))
    BY <1>3, <1>4, MakingSequence
  <2>2. QED
    BY <1>3, <1>4, <2>1
<1>6. Receive(m, "regex", f)
  BY <1>1
<1> HIDE DEF m, f
<1>7. QED
  BY <1>2, <1>5, <1>6, Receiving

LEMMA NextInv ==
  ASSUME Inv, [Next]_vars
  PROVE  Inv'
<1>1. CASE UNCHANGED vars
  <2>1. heap' = heap /\ table' = table /\ given' = given
    BY <1>1 DEF vars
  <2>2. QED
    BY <2>1 DEF Inv
<1>2. CASE \E S \in DOMAIN Atom, k \in DOMAIN Names : MakeAtom(S, Names[k])
  BY <1>2, MakeAtomStep
<1>3. CASE \E f \in Given("ldlf") : MakeQuotedAtom(f)
  BY <1>3, MakeQuotedAtomStep
<1>4. CASE \E c \in unary : MakeUnary(c)
  BY <1>4, MakeUnaryStep
<1>5. CASE \E c \in binary : MakeBinary(c)
  BY <1>5, MakeBinaryStep
<1>6. CASE \E S \in DOMAIN And : MakeAnd(S) \/ MakeOr(S)
  BY <1>6, MakeAndStep, MakeOrStep
<1>7. CASE MakeUnionRegex
  BY <1>7, MakeUnionStep
<1>8. CASE MakeSeqRegex
  BY <1>8, MakeSeqStep
<1>9. QED
  BY <1>1, <1>2, <1>3, <1>4, <1>5, <1>6, <1>7, <1>8 DEF Next

-----------------------------------------------------------------------------
(* The theorems.                                                            *)
LEMMA InvTypeOK ==
  ASSUME Inv
  PROVE  TypeOK
<1>0. WellFormed(heap) /\ table \subseteq DOMAIN heap
  BY DEF Inv, Managed, Sound
<1>1. ASSUME NEW i \in DOMAIN heap
      PROVE  /\ heap[i].type \in Types
             /\ \A k \in DOMAIN heap[i].args : heap[i].args[k] \in 1 .. i - 1
             /\ form[heap[i].type] = "members" => Len(heap[i].args) > 1
  <2>1. heap[i].type \in Types /\ Fits(heap[i], i)
    BY <1>0, HeapType
  <2>2. QED
    BY <2>1 DEF Fits, Arity
<1>2. \A g \in given : g.object \in DOMAIN heap /\ g.sort \in Sorts
  BY DEF Inv, Knows
<1>3. QED
  BY <1>0, <1>1, <1>2 DEF TypeOK, Objects

LEMMA InvOneObject ==
  ASSUME Inv
  PROVE  OneObject
<1>1. ASSUME NEW g \in given, NEW g2 \in given, g.sort = g2.sort, g.formula = g2.formula,
             {g.object, g2.object} \cap outside = {}
      PROVE  g.object = g2.object
  <2>1. Knows(heap, table, g) /\ Knows(heap, table, g2) /\ Sound(heap) /\ Unique(heap, table)
    BY DEF Inv, Managed
  <2>2. g.object \in table /\ g2.object \in table
    BY <1>1, <2>1 DEF Knows
  <2>3. is_equal(heap, g.object, g2.object)
    BY <1>1, <2>1, SameDenotation DEF Knows
  <2>4. QED
    BY <2>1, <2>2, <2>3 DEF Unique
<1>2. QED
  BY <1>1 DEF OneObject

(* TypeOK: in every state the arguments of an object are older objects, a   *)
(* conjunction or disjunction has two at least, so that its constructor     *)
(* does not throw, and the client only has objects (AstManager::init,        *)
(* is_canonical in the base.cpp of the logics).                             *)
THEOREM AlwaysTypeOK == Spec => []TypeOK
<1>1. Init => Inv
  BY InitInv
<1>2. Inv /\ [Next]_vars => Inv'
  BY NextInv
<1>3. Inv => TypeOK
  BY InvTypeOK
<1>4. QED
  BY <1>1, <1>2, <1>3, PTL DEF Spec

(* ComparisonOrders: in every state compare is 0 exactly for equal objects  *)
(* and orders all others, so that a std::set of formulas finds its members  *)
(* (Basic::compare, unified_compare, ordered_compare, SharedComparator).    *)
THEOREM AlwaysOrdered == Spec => []ComparisonOrders
<1>1. Init => Inv
  BY InitInv
<1>2. Inv /\ [Next]_vars => Inv'
  BY NextInv
<1>3. Inv => ComparisonOrders
  BY Ordered DEF Inv, Managed, Sound
<1>4. QED
  BY <1>1, <1>2, <1>3, PTL DEF Spec

(* ObjectsDenote: whatever a call returns, an object that is new, one of    *)
(* the table or an argument, stands for the formula that was asked for      *)
(* (insert_if_not_available_, and_or, flatten_bin_op_*, SharedComparator).  *)
THEOREM AlwaysDenote == Spec => []ObjectsDenote
<1>1. Init => Inv
  BY InitInv
<1>2. Inv /\ [Next]_vars => Inv'
  BY NextInv
<1>3. Inv => ObjectsDenote
  BY DEF Inv, Knows, ObjectsDenote
<1>4. QED
  BY <1>1, <1>2, <1>3, PTL DEF Spec

(* OneObject: two calls for one formula return one object, however it was   *)
(* put together and in whatever order, but for the three formulas that init *)
(* keeps outside of the table (AstManager::insert_if_not_available_).       *)
THEOREM AlwaysOneObject == Spec => []OneObject
<1>1. Init => Inv
  BY InitInv
<1>2. Inv /\ [Next]_vars => Inv'
  BY NextInv
<1>3. Inv => OneObject
  BY InvOneObject
<1>4. QED
  BY <1>1, <1>2, <1>3, PTL DEF Spec
=============================================================================
