------------------------ MODULE UniversalProjectProofs ------------------------
(***************************************************************************)
(* Proofs about UniversalProject, for every automaton, every number of its  *)
(* states and every set of interpretations, and whatever the order in which *)
(* MONA calls back for the leaves of a BDD.                                 *)
(***************************************************************************)
EXTENDS UniversalProject, WellFoundedInduction, TLAPS

-----------------------------------------------------------------------------
(* Induction on the natural numbers, for a property given as the set of     *)
(* the numbers that have it, and the values of a loop.                      *)

(* The pairs of natural numbers in increasing order.                        *)
Less == {p \in Nat \X Nat : p[1] < p[2]}

LEMMA LessIsWellFounded == IsWellFoundedOn(Less, Nat)
  BY NatLessThanWellFounded DEF OpToRel, Less

(* A set of natural numbers that holds 0, and with n the number after n,    *)
(* holds them all.                                                          *)
LEMMA Induction ==
  ASSUME NEW P \in SUBSET Nat, 0 \in P, \A n \in P : n + 1 \in P
  PROVE  P = Nat
<1>1. SUFFICES ASSUME Nat \ P # {} PROVE FALSE
  OBVIOUS
<1>2. PICK x \in Nat \ P : \A y \in Nat \ P : ~ (<<y, x>> \in Less)
  BY <1>1, LessIsWellFounded, WFMin, Nat \ P \subseteq Nat
<1>3. x - 1 \in Nat /\ <<x - 1, x>> \in Less /\ (x - 1) + 1 = x
  BY DEF Less
<1>4. x - 1 \in P
  BY <1>2, <1>3
<1>5. QED
  BY <1>3, <1>4

(* The same up to n.                                                        *)
LEMMA InductionUpTo ==
  ASSUME NEW n \in Nat, NEW P \in SUBSET Nat, 0 \in P,
         \A i \in 0 .. n - 1 : i \in P => i + 1 \in P
  PROVE  \A i \in 0 .. n : i \in P
<1> DEFINE Q == {i \in Nat : i <= n => i \in P}
<1>1. 0 \in Q
  OBVIOUS
<1>2. ASSUME NEW i \in Q PROVE i + 1 \in Q
  <2>1. i \in Nat /\ (i <= n => i \in P)
    OBVIOUS
  <2>2. i + 1 <= n => i \in 0 .. n - 1 /\ i <= n
    BY <2>1
  <2>3. QED
    BY <2>1, <2>2
<1>3. Q = Nat
  <2> HIDE DEF Q
  <2>1. Q \in SUBSET Nat
    BY DEF Q
  <2>2. QED
    BY <1>1, <1>2, <2>1, Induction
<1>4. QED
  BY <1>3

(* A loop of n rounds that starts with c, and computes step[i] of its value *)
(* in round i: h[i] is the value after i rounds.                            *)
Rounds(n, S) == [1 .. n -> [S -> S]]
Computes(h, n, c, step) == h[0] = c /\ \A i \in 1 .. n : h[i] = step[i][h[i - 1]]

(* The loop has a value after every round.                                  *)
LEMMA LoopExists ==
  ASSUME NEW n, n \in Nat, NEW S, NEW c, c \in S, NEW step, step \in Rounds(n, S)
  PROVE  \E h : h \in [0 .. n -> S] /\ Computes(h, n, c, step)
<1> USE DEF Computes, Rounds
<1> DEFINE Upto(h, m) ==  h \in [0 .. m -> S] /\ Computes(h, m, c, step)
<1> DEFINE P == {m \in Nat : m <= n => \E h : Upto(h, m)}
<1>1. 0 \in P
  <2>1. Upto([i \in 0 .. 0 |-> c], 0)
    OBVIOUS
  <2>2. QED
    BY <2>1
<1>2. ASSUME NEW m \in P PROVE m + 1 \in P
  <2>1. m \in Nat
    OBVIOUS
  <2>2. SUFFICES ASSUME m + 1 <= n PROVE \E h : Upto(h, m + 1)
    <3> HIDE DEF Upto
    <3>1. QED
      BY <2>1
  <2>3. PICK h : Upto(h, m)
    BY <2>1, <2>2
  <2>4. m + 1 \in 1 .. n /\ h[m] \in S
    BY <2>1, <2>2, <2>3
  <2>5. step[m + 1][h[m]] \in S
    BY <2>4
  <2> DEFINE g == [i \in 0 .. m + 1 |-> IF i = m + 1 THEN step[m + 1][h[m]] ELSE h[i]]
  <2>6. g \in [0 .. m + 1 -> S] /\ g[0] = c
    BY <2>1, <2>3, <2>5
  <2>7. ASSUME NEW i \in 1 .. m + 1 PROVE g[i] = step[i][g[i - 1]]
    <3>1. g[i - 1] = h[i - 1]
      BY <2>1
    <3>2. CASE i = m + 1
      BY <2>1, <3>1, <3>2
    <3>3. CASE i \in 1 .. m
      BY <2>1, <2>3, <3>1, <3>3
    <3>4. QED
      BY <2>1, <3>2, <3>3
  <2>8. Upto(g, m + 1)
    BY <2>6, <2>7
  <2>9. QED
    BY <2>8
<1>3. P = Nat
  <2> HIDE DEF P
  <2>1. P \in SUBSET Nat
    BY DEF P
  <2>2. QED
    BY <1>1, <1>2, <2>1, Induction
<1>4. \E h : Upto(h, n)
  <2> HIDE DEF Upto
  <2>1. n \in P
    BY <1>3
  <2>2. QED
    BY <2>1
<1>5. QED
  BY <1>4

-----------------------------------------------------------------------------
(* The invariant of UniversalProject.                                      *)
SSet ==
  [elements : SUBSET State, sq : {Nothing} \union [Rest -> Nat],
   decomp1 : Int, decomp2 : Int, permanent : Int]

Types ==
  /\ a \in MonaDfas
  /\ next_sset \in Nat /\ NbStates <= next_sset
  /\ ssets \in [Ids -> SSet]
  /\ \A id \in Ids : ssets[id].elements # {}
  /\ \A id \in Ids : Calculated(id) => ssets[id].sq \in [Rest -> Ids]
  /\ stack \in Seq(Ids)
  /\ IsBdd(bdd, Nat)
  /\ lst \in Seq(Ids)
  /\ new_roots \in Seq([Rest -> Nat])
  /\ pc \in {"project", "visit", "done"}

(* What the table says of a set, whichever set it is.                       *)
Decomposed(id) ==
  /\ {ssets[id].decomp1, ssets[id].decomp2} \subseteq 0 .. id - 1
  /\ ssets[id].elements = ssets[ssets[id].decomp1].elements
                          \union ssets[ssets[id].decomp2].elements
Table ==
  /\ \A s \in State : /\ ssets[s].elements = {s}
                      /\ ssets[s].decomp1 = -1 /\ ssets[s].decomp2 = -1
  /\ HashConsed
  /\ \A id \in Ids \ State : Decomposed(id)
  /\ BddsAreUnions

(* The first loop: BDDs of singletons, in order, and no list yet.           *)
Projecting ==
  pc = "project" =>
    /\ Len(stack) = 1 /\ stack[1] \in State
    /\ \A s \in 0 .. stack[1] - 1 : Calculated(s)
    /\ lst = << >> /\ new_roots = << >>
    /\ \A id \in Ids : ssets[id].permanent = -1

(* Afterwards: the calls of eval_bdd, each for a set that the caller was    *)
(* made of, and all for sets that are not calculated.                       *)
Calls ==
  pc # "project" =>
    /\ \A s \in State : Calculated(s)
    /\ lst # << >> /\ lst[1] = a.s
    /\ stack # << >> => Visiting
    /\ \A n \in DOMAIN stack : stack[n] \notin State /\ ~ Calculated(stack[n])
    /\ \A m, n \in DOMAIN stack : m < n => stack[n] < stack[m]
    /\ \A n \in 1 .. Len(stack) - 1 :
         stack[n + 1] \in {ssets[stack[n]].decomp1, ssets[stack[n]].decomp2}

(* The part of a BDD that is computed: of the set on top of the stack ...   *)
Joining ==
  stack # << >> =>
    /\ \A y \in DOMAIN bdd :
         bdd[y] \in Ids /\ ssets[bdd[y]].elements = Successors(ssets[Top].elements, y)
    /\ pc # "project" /\ Missing # {} => bdd = Nothing

(* ... or, when it is empty, of the result, for the visited set.            *)
Numbering ==
  stack = << >> /\ bdd # Nothing =>
    /\ Visiting /\ Calculated(Visited)
    /\ \A y \in DOMAIN bdd :
         bdd[y] \in 0 .. Len(lst) - 1 /\ lst[bdd[y] + 1] = ssets[Visited].sq[y]

Listed ==
  /\ Len(new_roots) <= Len(lst)
  /\ \A id \in Ids : LET p == ssets[id].permanent
                     IN  p # -1 => p \in 0 .. Len(lst) - 1 /\ lst[p + 1] = id
  /\ \A k \in DOMAIN lst : ssets[lst[k]].permanent = k - 1
  /\ \A k \in DOMAIN new_roots :
       /\ Calculated(lst[k])
       /\ \A y \in Rest : /\ new_roots[k][y] < Len(lst)
                          /\ lst[new_roots[k][y] + 1] = ssets[lst[k]].sq[y]

(* A set of the list but the first is a successor of one that was listed    *)
(* before it, and that is visited.                                          *)
Found ==
  \A k \in 2 .. Len(lst) : \E j \in 1 .. k - 1, y \in Rest :
    /\ j <= Len(new_roots) + 1
    /\ ssets[lst[k]].elements = Successors(ssets[lst[j]].elements, y)

IInv ==
  /\ Types /\ Table /\ Projecting /\ Calls
  /\ Joining /\ Numbering /\ Listed /\ Found

-----------------------------------------------------------------------------
(* Partial BDDs.                                                            *)

LEMMA PlusIsBdd ==
  ASSUME NEW leaves, NEW f, IsBdd(f, leaves), NEW y \in Rest, NEW leaf \in leaves
  PROVE  IsBdd(Plus(f, y, leaf), leaves)
  BY DEF IsBdd, Plus

LEMMA NothingIsBdd ==
  /\ IsBdd(Nothing, Nat) /\ DOMAIN Nothing = {}
  /\ \A f \in [Rest -> Nat] : f # Nothing
  /\ \A f : IsBdd(f, Nat) /\ DOMAIN f = Rest => f \in [Rest -> Nat]
  /\ \A f : IsBdd(f, Nat) /\ DOMAIN f = {} => f = Nothing
  BY InputAssumption DEF IsBdd, Nothing

-----------------------------------------------------------------------------
(* The call of proj_term1 or proj_term2.                                    *)

LEMMA SuccessorsMembers ==
  ASSUME NEW S, NEW y, NEW v
  PROVE  v \in Successors(S, y) <=> \E s \in S, b \in BOOLEAN : v = a.q[s][b][y]
  BY DEF Successors

LEMMA SuccessorsType ==
  ASSUME a \in MonaDfas, NEW S \in SUBSET State, S # {}, NEW y \in Rest
  PROVE  Successors(S, y) \in SUBSET State /\ Successors(S, y) # {}
<1>1. \A s \in S, b \in BOOLEAN : a.q[s][b][y] \in State
  BY DEF MonaDfas
<1>2. PICK s \in S : TRUE
  OBVIOUS
<1>3. a.q[s][TRUE][y] \in Successors(S, y)
  BY <1>2, SuccessorsMembers
<1>4. \A v \in Successors(S, y) : v \in State
  BY <1>1, SuccessorsMembers
<1>5. QED
  BY <1>3, <1>4

LEMMA TopIsId == Types /\ stack # << >> => Top \in Ids
  BY DEF Types, Top

(* The two sets that are joined are in the table, and their union is the    *)
(* set of the successors of the states of Top.                              *)
LEMMA JoinedAreSuccessors ==
  ASSUME IInv, Ready, NEW y \in Rest
  PROVE  /\ Joined(y)[1] \in Ids /\ Joined(y)[2] \in Ids
         /\ Union(Joined(y)) = Successors(ssets[Top].elements, y)
         /\ Union(Joined(y)) \in SUBSET State /\ Union(Joined(y)) # {}
<1>1. Top \in Ids /\ stack # << >>
  BY TopIsId DEF IInv, Ready
<1>2. Joined(y)[1] \in Ids /\ Joined(y)[2] \in Ids
      /\ Union(Joined(y)) = Successors(ssets[Top].elements, y)
  <2>1. CASE pc = "project"
    <3>1. Top \in State
      BY <2>1 DEF IInv, Projecting, Top
    <3>2. ssets[Top].elements = {Top}
      BY <3>1 DEF IInv, Table
    <3>3. \A b \in BOOLEAN : a.q[Top][b][y] \in State
      BY <3>1 DEF IInv, Types, MonaDfas
    <3>4. \A s \in State : s \in Ids
      BY InputAssumption DEF IInv, Types, State, Ids
    <3>5. \A b \in BOOLEAN : ssets[a.q[Top][b][y]].elements = {a.q[Top][b][y]}
      BY <3>3 DEF IInv, Table
    <3>6. Union(Joined(y)) = {a.q[Top][FALSE][y]} \union {a.q[Top][TRUE][y]}
      BY <2>1, <3>5 DEF Union, Joined
    <3>7. Successors({Top}, y) = {a.q[Top][FALSE][y]} \union {a.q[Top][TRUE][y]}
      <4>1. \A v : v \in Successors({Top}, y)
                   <=> \E b \in BOOLEAN : v = a.q[Top][b][y]
        BY SuccessorsMembers
      <4>2. \A v : (\E b \in BOOLEAN : v = a.q[Top][b][y])
                   <=> v = a.q[Top][FALSE][y] \/ v = a.q[Top][TRUE][y]
        OBVIOUS
      <4>3. QED
        BY <4>1, <4>2
    <3>8. Joined(y)[1] = a.q[Top][FALSE][y] /\ Joined(y)[2] = a.q[Top][TRUE][y]
      BY <2>1 DEF Joined
    <3>9. a.q[Top][FALSE][y] \in Ids /\ a.q[Top][TRUE][y] \in Ids
      BY <3>3, <3>4
    <3>10. QED
      BY <3>2, <3>6, <3>7, <3>8, <3>9
  <2>2. CASE pc # "project"
    <3> DEFINE d1 == ssets[Top].decomp1
               d2 == ssets[Top].decomp2
    <3>1. pc = "visit"
      BY <1>1, <2>2 DEF IInv, Calls, Visiting
    <3>2. Top \in Ids \ State
      BY <1>1, <2>2 DEF IInv, Calls, Top, Types
    <3>3. Decomposed(Top)
      BY <3>2 DEF IInv, Table
    <3>4. d1 \in Ids /\ d2 \in Ids
      BY <1>1, <3>3 DEF Decomposed, Ids, IInv, Types
    <3>5. Calculated(d1) /\ Calculated(d2)
      BY <3>1 DEF Ready, Missing
    <3>6. ssets[d1].sq[y] \in Ids /\ ssets[d2].sq[y] \in Ids
      BY <3>4, <3>5 DEF IInv, Types
    <3>7. /\ ssets[ssets[d1].sq[y]].elements = Successors(ssets[d1].elements, y)
          /\ ssets[ssets[d2].sq[y]].elements = Successors(ssets[d2].elements, y)
      BY <3>4, <3>5 DEF IInv, Table, BddsAreUnions
    <3>8. Joined(y)[1] = ssets[d1].sq[y] /\ Joined(y)[2] = ssets[d2].sq[y]
      BY <2>2 DEF Joined
    <3>9. Successors(ssets[Top].elements, y)
            = Successors(ssets[d1].elements, y) \union Successors(ssets[d2].elements, y)
      BY <3>3 DEF Decomposed, Successors
    <3>10. QED
      BY <3>6, <3>7, <3>8, <3>9 DEF Union
  <2>3. QED
    BY <2>1, <2>2
<1>3. ssets[Top].elements \in SUBSET State /\ ssets[Top].elements # {}
  BY <1>1 DEF IInv, Types, SSet
<1>4. QED
  BY <1>2, <1>3, SuccessorsType DEF IInv, Types

(* What Join does to the table: it may add a set, at the end.               *)
Grown ==
  /\ \/ next_sset' = next_sset
     \/ /\ next_sset' = next_sset + 1
        /\ ssets'[next_sset].sq = Nothing
        /\ ssets'[next_sset].permanent = -1
        /\ ssets'[next_sset].elements # {}
        /\ \A id \in Ids : ssets[id].elements # ssets'[next_sset].elements
        /\ ssets'[next_sset].decomp1 \in Ids /\ ssets'[next_sset].decomp2 \in Ids
        /\ ssets'[next_sset].elements
             = ssets[ssets'[next_sset].decomp1].elements
               \union ssets[ssets'[next_sset].decomp2].elements
  /\ ssets' \in [Ids' -> SSet]
  /\ \A id \in Ids : ssets'[id] = ssets[id]

LEMMA JoinEffect ==
  ASSUME IInv, NEW y \in Rest, Join(y)
  PROVE  /\ Grown
         /\ \E id \in Ids' :
              /\ bdd' = Plus(bdd, y, id)
              /\ ssets'[id].elements = Successors(ssets[Top].elements, y)
<1> DEFINE J == Joined(y)
           S == Successors(ssets[Top].elements, y)
<1>1. /\ J[1] \in Ids /\ J[2] \in Ids
      /\ Union(J) = S /\ S \in SUBSET State /\ S # {}
  BY JoinedAreSuccessors DEF Join
<1>2. next_sset \in Nat /\ ssets \in [Ids -> SSet]
  BY DEF IInv, Types
<1>3. CASE JoinNew(y)
  <2> DEFINE n == sset(Union(J), J[1], J[2])
  <2>1. /\ next_sset' = next_sset + 1
        /\ ssets' = Plus(ssets, next_sset, n)
        /\ bdd' = Plus(bdd, y, next_sset)
        /\ \A id \in Ids : ssets[id].elements # Union(J)
    BY <1>2, <1>3 DEF JoinNew
  <2>2. Ids' = Ids \union {next_sset} /\ next_sset \notin Ids
    BY <1>2, <2>1 DEF Ids
  <2>3. /\ n.elements = Union(J) /\ n.sq = Nothing /\ n.permanent = -1
        /\ n.decomp1 = J[1] /\ n.decomp2 = J[2]
    BY DEF sset, NotCalculated
  <2>4. n \in SSet
    <3>1. J[1] \in Int /\ J[2] \in Int
      BY <1>1, <1>2 DEF Ids
    <3>2. QED
      BY <1>1, <3>1 DEF sset, NotCalculated, SSet
  <2>5. Union(J) = ssets[J[1]].elements \union ssets[J[2]].elements
    BY DEF Union
  <2> HIDE DEF n, J, S
  <2>6. ssets'[next_sset] = n /\ \A id \in Ids : ssets'[id] = ssets[id]
    BY <1>2, <2>1, <2>2 DEF Plus
  <2>7. ssets' \in [Ids' -> SSet]
    BY <1>2, <2>1, <2>2, <2>4 DEF Plus
  <2>8. Grown
    BY <1>1, <2>1, <2>3, <2>5, <2>6, <2>7 DEF Grown
  <2>9. next_sset \in Ids' /\ ssets'[next_sset].elements = S
    BY <1>1, <2>2, <2>3, <2>6
  <2>10. QED
    BY <2>1, <2>8, <2>9 DEF S
<1>4. CASE \E id \in DOMAIN ssets : JoinKnown(y, id)
  <2>1. PICK id \in Ids : JoinKnown(y, id)
    BY <1>2, <1>4
  <2>2. /\ ssets' = ssets /\ next_sset' = next_sset /\ Ids' = Ids
        /\ bdd' = Plus(bdd, y, id) /\ ssets[id].elements = S
    BY <1>1, <2>1 DEF JoinKnown, Ids
  <2>3. QED
    BY <1>2, <2>2 DEF Grown
<1>5. QED
  BY <1>3, <1>4 DEF Join

LEMMA GrownIds ==
  ASSUME Types, Grown
  PROVE  /\ next_sset' \in Nat /\ NbStates <= next_sset' /\ Ids \subseteq Ids'
         /\ \A id \in Ids' : id \in Ids \/ (id = next_sset /\ next_sset' = next_sset + 1)
         /\ \A id \in Ids' : ssets'[id].elements # {}
         /\ \A id \in Ids' : id \in Ids <=> id # next_sset
         /\ State \subseteq Ids
<1>1. /\ next_sset \in Nat /\ NbStates <= next_sset /\ NbStates \in Nat
      /\ next_sset' = next_sset \/ next_sset' = next_sset + 1
  BY InputAssumption DEF Types, Grown
<1> DEFINE n == next_sset
           m == next_sset'
<1>2. /\ m \in Nat /\ NbStates <= m /\ Ids \subseteq Ids'
      /\ \A id \in Ids' : id \in Ids \/ (id = n /\ m = n + 1)
      /\ \A id \in Ids' : id \in Ids <=> id # n
      /\ State \subseteq Ids
  <2>1. m \in Nat /\ NbStates <= m
    BY <1>1
  <2>2. Ids = 0 .. n - 1 /\ Ids' = 0 .. m - 1 /\ State = 0 .. NbStates - 1
    BY DEF Ids, State
  <2> HIDE DEF n, m
  <2>3. n \in Nat /\ NbStates <= n /\ NbStates \in Nat /\ (m = n \/ m = n + 1)
    BY <1>1 DEF n, m
  <2>4. Ids \subseteq Ids' /\ State \subseteq Ids
    BY <2>2, <2>3
  <2>5. \A id \in Ids' : id \in Ids \/ (id = n /\ m = n + 1)
    BY <2>2, <2>3
  <2>6. \A id \in Ids' : id \in Ids <=> id # n
    BY <2>2, <2>3
  <2>7. QED
    BY <2>1, <2>4, <2>5, <2>6
<1>3. \A id \in Ids' : ssets'[id].elements # {}
  BY <1>1, <1>2 DEF Grown, Types
<1>4. QED
  BY <1>2, <1>3

(* A set that is added has no BDD, is new, and decomposes into older ones.  *)
LEMMA GrownTable ==
  ASSUME Types, Table, Grown, a' = a
  PROVE  /\ \A id \in Ids' : Calculated(id)' => id \in Ids /\ Calculated(id)
         /\ \A id \in Ids' : Calculated(id)' => ssets'[id].sq \in [Rest -> Ids']
         /\ Table'
<1>1. \A id \in Ids' : Calculated(id)' => id \in Ids /\ Calculated(id)
  BY GrownIds DEF Calculated, NotCalculated, Grown
<1>2. \A id \in Ids' : Calculated(id)' => ssets'[id].sq \in [Rest -> Ids']
  <2> SUFFICES ASSUME NEW id \in Ids', Calculated(id)'
               PROVE  ssets'[id].sq \in [Rest -> Ids']
    OBVIOUS
  <2>1. id \in Ids /\ ssets[id].sq \in [Rest -> Ids] /\ ssets'[id] = ssets[id]
    BY <1>1 DEF Types, Grown
  <2>2. QED
    BY <2>1, GrownIds
<1>3. \A s \in State' : /\ ssets'[s].elements = {s}
                        /\ ssets'[s].decomp1 = -1 /\ ssets'[s].decomp2 = -1
  BY GrownIds DEF State, Table, Grown
<1>4. HashConsed'
  <2> SUFFICES ASSUME NEW id1 \in Ids', NEW id2 \in Ids',
                      ssets'[id1].elements = ssets'[id2].elements
               PROVE  id1 = id2
    BY DEF HashConsed
  <2>1. CASE id1 \in Ids /\ id2 \in Ids
    BY <2>1 DEF Grown, Table, HashConsed
  <2>2. CASE id1 \notin Ids \/ id2 \notin Ids
    BY <2>2, GrownIds DEF Grown
  <2>3. QED
    BY <2>1, <2>2
<1>5. \A id \in Ids' \ State' : Decomposed(id)'
  <2> SUFFICES ASSUME NEW id \in Ids', id \notin State
               PROVE  Decomposed(id)'
    BY DEF State
  <2> DEFINE d1 == ssets'[id].decomp1
             d2 == ssets'[id].decomp2
  <2>1. /\ d1 \in Ids /\ d2 \in Ids /\ {d1, d2} \subseteq 0 .. id - 1
        /\ ssets'[id].elements = ssets[d1].elements \union ssets[d2].elements
    <3>1. CASE id \in Ids
      <4>1. Decomposed(id) /\ ssets'[id] = ssets[id]
        BY <3>1 DEF Table, Grown
      <4>2. 0 .. id - 1 \subseteq Ids
        BY <3>1 DEF Types, Ids
      <4>3. QED
        BY <4>1, <4>2 DEF Decomposed
    <3>2. CASE id \notin Ids
      <4>1. id = next_sset /\ next_sset' = next_sset + 1 /\ next_sset \in Nat
        BY <3>2, GrownIds DEF Types
      <4>2. d1 \in Ids /\ d2 \in Ids
            /\ ssets'[id].elements = ssets[d1].elements \union ssets[d2].elements
        BY <4>1 DEF Grown
      <4>3. QED
        BY <4>1, <4>2 DEF Ids
    <3>3. QED
      BY <3>1, <3>2
  <2>2. ssets'[d1] = ssets[d1] /\ ssets'[d2] = ssets[d2]
    BY <2>1 DEF Grown
  <2>3. QED
    BY <2>1, <2>2 DEF Decomposed
<1>6. BddsAreUnions'
  <2> SUFFICES ASSUME NEW id \in Ids', Calculated(id)', NEW y \in Rest
               PROVE  ssets'[ssets'[id].sq[y]].elements
                        = Successors(ssets[id].elements, y)'
    BY DEF BddsAreUnions
  <2>1. id \in Ids /\ Calculated(id) /\ ssets'[id] = ssets[id]
    BY <1>1 DEF Grown
  <2>2. ssets[id].sq[y] \in Ids
    BY <2>1 DEF Types
  <2>3. ssets[ssets[id].sq[y]].elements = Successors(ssets[id].elements, y)
    BY <2>1 DEF Table, BddsAreUnions
  <2>4. QED
    BY <2>1, <2>2, <2>3 DEF Grown, Successors
<1>7. QED
  BY <1>1, <1>2, <1>3, <1>4, <1>5, <1>6 DEF Table

-----------------------------------------------------------------------------
(* Every action preserves the invariant.                                    *)

LEMMA SeqOfMore ==
  ASSUME NEW S, NEW T, S \subseteq T, NEW seq \in Seq(S)
  PROVE  seq \in Seq(T)
  OBVIOUS

LEMMA NotLast ==
  ASSUME NEW L \in Nat, NEW n \in 1 .. L, n # L
  PROVE  n \in 1 .. L - 1 /\ n \in 1 .. L /\ n + 1 \in 1 .. L
  OBVIOUS

LEMMA PopLast ==
  ASSUME NEW S, NEW seq \in Seq(S), seq # << >>
  PROVE  /\ Len(SubSeq(seq, 1, Len(seq) - 1)) = Len(seq) - 1
         /\ \A n \in 1 .. Len(seq) - 1 : SubSeq(seq, 1, Len(seq) - 1)[n] = seq[n]
<1> DEFINE m == Len(seq) - 1
<1>1. m \in Nat /\ Len(seq) = m + 1
  OBVIOUS
<1> HIDE DEF m
<1>2. \A n \in 1 .. m : seq[n] \in S
  BY <1>1
<1>3. Len(SubSeq(seq, 1, m)) = m
  BY <1>1, <1>2
<1>4. \A n \in 1 .. m : SubSeq(seq, 1, m)[n] = seq[n]
  BY <1>1, <1>2
<1>5. QED
  BY <1>1, <1>3, <1>4

(* A set that waits or that is visited is in the table.                     *)
LEMMA Members ==
  ASSUME Types
  PROVE  /\ \A n \in DOMAIN stack : stack[n] \in Ids
         /\ \A k \in DOMAIN lst : lst[k] \in Ids
         /\ Visiting => Visited \in Ids /\ Len(new_roots) + 1 \in DOMAIN lst
  BY DEF Types, Visiting, Visited

LEMMA JoinStep ==
  ASSUME IInv, NEW y \in Rest, Join(y)
  PROVE  IInv'
<1>1. /\ stack # << >> /\ (pc = "visit" => Missing = {}) /\ y \notin DOMAIN bdd
      /\ a' = a /\ stack' = stack /\ lst' = lst /\ new_roots' = new_roots /\ pc' = pc
  BY DEF Join, Ready
<1>2. Grown /\ Types /\ Table
  BY JoinEffect DEF IInv
<1>3. PICK id \in Ids' : /\ bdd' = Plus(bdd, y, id)
                         /\ ssets'[id].elements = Successors(ssets[Top].elements, y)
  BY JoinEffect
<1>15. /\ DOMAIN bdd' = DOMAIN bdd \union {y} /\ bdd'[y] = id
       /\ \A z \in DOMAIN bdd : z # y => bdd'[z] = bdd[z]
  BY <1>3 DEF Plus
<1>4. /\ next_sset' \in Nat /\ NbStates <= next_sset' /\ Ids \subseteq Ids'
      /\ \A i \in Ids' : ssets'[i].elements # {}
      /\ \A i \in Ids : ssets'[i] = ssets[i]
      /\ \A i \in Ids' \ Ids : ssets'[i].permanent = -1
      /\ ssets' \in [Ids' -> SSet]
  BY <1>2, GrownIds DEF Grown
<1>5. /\ \A i \in Ids' : Calculated(i)' => ssets'[i].sq \in [Rest -> Ids']
      /\ Table'
  BY <1>1, <1>2, GrownTable
<1>6. \A i \in Ids : Calculated(i)' <=> Calculated(i)
  BY <1>4 DEF Calculated
<1>7. Types'
  <2>1. stack' \in Seq(Ids') /\ lst' \in Seq(Ids')
    BY <1>1, <1>2, <1>4, SeqOfMore DEF Types
  <2>2. id \in Nat
    BY <1>4 DEF Ids
  <2>3. IsBdd(bdd', Nat)
    BY <1>2, <1>3, <2>2, PlusIsBdd DEF Types
  <2>4. a' \in MonaDfas /\ new_roots' \in Seq([Rest -> Nat])
        /\ pc' \in {"project", "visit", "done"}
    BY <1>1, <1>2 DEF Types
  <2>5. QED
    BY <1>4, <1>5, <2>1, <2>3, <2>4 DEF Types, IsBdd
<1>8. Projecting'
  <2> SUFFICES ASSUME pc = "project"
               PROVE  /\ Len(stack) = 1 /\ stack[1] \in State
                      /\ \A s \in 0 .. stack[1] - 1 : Calculated(s)'
                      /\ lst = << >> /\ new_roots = << >>
                      /\ \A i \in Ids' : ssets'[i].permanent = -1
    BY <1>1 DEF Projecting, State
  <2>1. /\ Len(stack) = 1 /\ stack[1] \in State
        /\ \A s \in 0 .. stack[1] - 1 : Calculated(s)
        /\ lst = << >> /\ new_roots = << >>
        /\ \A i \in Ids : ssets[i].permanent = -1
    BY DEF IInv, Projecting
  <2>2. \A s \in 0 .. stack[1] - 1 : s \in State
    BY <2>1, InputAssumption DEF State
  <2>3. \A s \in State : s \in Ids
    BY <1>2, GrownIds
  <2>4. QED
    BY <1>4, <1>6, <2>1, <2>2, <2>3
<1>9. Calls'
  <2>1. \A s \in State : s \in Ids
    BY <1>2, GrownIds
  <2>2. Visiting' <=> Visiting
    BY <1>1 DEF Visiting
  <2>3. \A n \in DOMAIN stack :
          stack[n] \in Ids /\ ssets'[stack[n]] = ssets[stack[n]]
          /\ (Calculated(stack[n])' <=> Calculated(stack[n]))
    BY <1>1, <1>2, <1>4, Members DEF Calculated
  <2> SUFFICES ASSUME pc # "project"
               PROVE  /\ \A s \in State' : Calculated(s)'
                      /\ lst # << >> /\ lst[1] = a.s
                      /\ stack # << >> => Visiting
                      /\ \A n \in DOMAIN stack : stack[n] \notin State'
                                                 /\ ~ Calculated(stack[n])'
                      /\ \A m, n \in DOMAIN stack : m < n => stack[n] < stack[m]
                      /\ \A n \in 1 .. Len(stack) - 1 : stack[n + 1] \in
                           {ssets'[stack[n]].decomp1, ssets'[stack[n]].decomp2}
    BY <1>1, <2>2, <2>3 DEF Calls
  <2>4. /\ \A s \in State : Calculated(s)
        /\ lst # << >> /\ lst[1] = a.s
        /\ stack # << >> => Visiting
        /\ \A n \in DOMAIN stack : stack[n] \notin State /\ ~ Calculated(stack[n])
        /\ \A m, n \in DOMAIN stack : m < n => stack[n] < stack[m]
        /\ \A n \in 1 .. Len(stack) - 1 :
             stack[n + 1] \in {ssets[stack[n]].decomp1, ssets[stack[n]].decomp2}
    BY DEF IInv, Calls
  <2>5. \A s \in State' : Calculated(s)'
    BY <1>6, <2>1, <2>4 DEF State
  <2>6. \A n \in 1 .. Len(stack) - 1 : n \in DOMAIN stack
    BY <1>2 DEF Types
  <2>7. QED
    BY <2>3, <2>4, <2>5, <2>6 DEF State
<1>10. Joining'
  <2>1. Top \in Ids /\ Top' = Top
    BY <1>1, <1>2, TopIsId DEF Top
  <2>2. \A z : Successors(ssets[Top].elements, z)' = Successors(ssets[Top].elements, z)
    BY <1>1, <1>4, <2>1 DEF Successors
  <2>3. ASSUME NEW z \in DOMAIN bdd'
        PROVE  bdd'[z] \in Ids' /\ ssets'[bdd'[z]].elements
                                     = Successors(ssets[Top].elements, z)
    <3>1. CASE z = y
      BY <1>3, <1>15, <3>1
    <3>2. CASE z # y
      <4>1. z \in DOMAIN bdd /\ bdd'[z] = bdd[z]
        BY <1>15, <2>3, <3>2
      <4>2. bdd[z] \in Ids /\ ssets[bdd[z]].elements = Successors(ssets[Top].elements, z)
        BY <1>1, <4>1 DEF IInv, Joining
      <4>3. QED
        BY <1>4, <4>1, <4>2
    <3>3. QED
      BY <3>1, <3>2
  <2>4. ASSUME pc # "project"
        PROVE  Missing' = {}
    <3>1. Top \in Ids \ State /\ pc = "visit"
      BY <1>1, <2>1, <2>4 DEF IInv, Calls, Top, Types, Visiting
    <3>2. Decomposed(Top)
      BY <1>2, <3>1 DEF Table
    <3>3. ssets[Top].decomp1 \in Ids /\ ssets[Top].decomp2 \in Ids
      BY <1>2, <3>1, <3>2 DEF Decomposed, Ids, Types
    <3>4. Missing' = Missing
      BY <1>4, <1>6, <2>1, <3>3 DEF Missing
    <3>5. QED
      BY <1>1, <3>1, <3>4
  <2>5. QED
    BY <1>1, <2>2, <2>3, <2>4 DEF Joining
<1>11. Numbering'
  BY <1>1 DEF Numbering
<1>12. Listed'
  <2>1. \A k \in DOMAIN new_roots : k \in DOMAIN lst
    BY <1>2 DEF IInv, Listed, Types
  <2>2. QED
    BY <1>1, <1>2, <1>4, <1>6, <2>1, Members DEF IInv, Listed
<1>13. Found'
  <2>1. \A k \in 1 .. Len(lst) : lst[k] \in Ids
    BY <1>2, Members DEF Types
  <2>2. SUFFICES ASSUME NEW k \in 2 .. Len(lst)
                 PROVE  \E j \in 1 .. k - 1, z \in Rest :
                          /\ j <= Len(new_roots) + 1
                          /\ ssets'[lst[k]].elements
                               = Successors(ssets[lst[j]].elements, z)'
    BY <1>1 DEF Found
  <2>3. PICK j \in 1 .. k - 1, z \in Rest :
          /\ j <= Len(new_roots) + 1
          /\ ssets[lst[k]].elements = Successors(ssets[lst[j]].elements, z)
    BY DEF IInv, Found
  <2>4. j \in 1 .. Len(lst) /\ k \in 1 .. Len(lst)
    BY <1>2 DEF Types
  <2>5. ssets'[lst[k]] = ssets[lst[k]] /\ ssets'[lst[j]] = ssets[lst[j]]
    BY <1>4, <2>1, <2>4
  <2>6. QED
    BY <1>1, <2>3, <2>5 DEF Successors
<1>14. QED
  BY <1>5, <1>7, <1>8, <1>9, <1>10, <1>11, <1>12, <1>13 DEF IInv

(* The table when the BDD of Top is written to it, and perhaps a number.    *)
Filled ==
  /\ ssets' \in [Ids -> SSet]
  /\ \A id \in Ids : /\ ssets'[id].elements = ssets[id].elements
                     /\ ssets'[id].decomp1 = ssets[id].decomp1
                     /\ ssets'[id].decomp2 = ssets[id].decomp2
                     /\ ssets'[id].sq = IF id = Top THEN bdd ELSE ssets[id].sq

LEMMA FilledTable ==
  ASSUME IInv, Filled, stack # << >>, DOMAIN bdd = Rest,
         a' = a, next_sset' = next_sset
  PROVE  /\ Ids' = Ids /\ Top \in Ids
         /\ ssets'[Top].sq # Nothing
         /\ \A id \in Ids : id # Top => (Calculated(id)' <=> Calculated(id))
         /\ \A id \in Ids : ssets'[id].elements # {}
         /\ \A id \in Ids : Calculated(id)' => ssets'[id].sq \in [Rest -> Ids]
         /\ Table'
<1>1. Ids' = Ids /\ Top \in Ids /\ Types /\ Table
  BY TopIsId DEF Ids, IInv
<1>2. bdd \in [Rest -> Ids] /\ bdd # Nothing
  BY NothingIsBdd DEF IInv, Joining, Types, IsBdd
<1>3. /\ ssets'[Top].sq # Nothing
      /\ \A id \in Ids : id # Top => (Calculated(id)' <=> Calculated(id))
  <2>1. Top \in Ids /\ ssets'[Top].sq = bdd
    BY <1>1 DEF Filled
  <2>2. ssets'[Top].sq # NotCalculated
    BY <1>2, <2>1 DEF NotCalculated
  <2>3. \A id \in Ids : id # Top => ssets'[id].sq = ssets[id].sq
    BY DEF Filled
  <2>4. QED
    BY <2>2, <2>3 DEF Calculated, NotCalculated, Nothing
<1>4. \A id \in Ids : ssets'[id].elements # {}
  BY <1>1 DEF Filled, Types
<1>5. \A id \in Ids : Calculated(id)' => ssets'[id].sq \in [Rest -> Ids]
  BY <1>1, <1>2, <1>3 DEF Filled, Types
<1>6. \A s \in State' : /\ ssets'[s].elements = {s}
                        /\ ssets'[s].decomp1 = -1 /\ ssets'[s].decomp2 = -1
  <2>1. \A s \in State' : s \in State /\ s \in Ids
    BY <1>1, InputAssumption DEF State, Types, Ids
  <2>2. QED
    BY <1>1, <2>1 DEF Table, Filled
<1>7. HashConsed'
  BY <1>1 DEF HashConsed, Table, Filled
<1>8. \A id \in Ids' \ State' : Decomposed(id)'
  <2> SUFFICES ASSUME NEW id \in Ids, id \notin State
               PROVE  Decomposed(id)'
    BY <1>1 DEF State
  <2>1. Decomposed(id)
    BY <1>1 DEF Table
  <2>2. ssets[id].decomp1 \in Ids /\ ssets[id].decomp2 \in Ids
    BY <1>1, <2>1 DEF Decomposed, Ids, Types
  <2>3. QED
    BY <2>1, <2>2 DEF Decomposed, Filled
<1>9. BddsAreUnions'
  <2> SUFFICES ASSUME NEW id \in Ids, Calculated(id)', NEW y \in Rest
               PROVE  ssets'[ssets'[id].sq[y]].elements
                        = Successors(ssets[id].elements, y)'
    BY <1>1 DEF BddsAreUnions
  <2>1. ssets'[id].sq[y] \in Ids
    BY <1>5
  <2>2. ssets[ssets'[id].sq[y]].elements = Successors(ssets[id].elements, y)
    <3>1. CASE id = Top
      BY <1>2, <3>1 DEF Filled, IInv, Joining
    <3>2. CASE id # Top
      BY <1>1, <1>3, <3>2 DEF Filled, Table, BddsAreUnions
    <3>3. QED
      BY <3>1, <3>2
  <2>3. QED
    BY <2>1, <2>2 DEF Filled, Successors
<1>10. QED
  BY <1>1, <1>3, <1>4, <1>5, <1>6, <1>7, <1>8, <1>9 DEF Table

(* The first loop goes on with the next singleton.                          *)
CompleteState == pc = "project" /\ Top # NbStates - 1
(* The first loop ends.                                                     *)
CompleteStates == pc = "project" /\ Top = NbStates - 1
(* A call of eval_bdd returns.                                              *)
CompleteCall == pc # "project"

LEMMA CompleteEffect ==
  ASSUME IInv, Complete
  PROVE  /\ Filled /\ stack # << >> /\ DOMAIN bdd = Rest /\ bdd' = Nothing
         /\ a' = a /\ next_sset' = next_sset /\ new_roots' = new_roots
         /\ pc # "project" => Missing = {}
         /\ CompleteStates =>
              /\ ssets'[a.s].permanent = 0
              /\ \A id \in Ids : id # a.s => ssets'[id].permanent = ssets[id].permanent
              /\ lst' = <<a.s>> /\ stack' = << >> /\ pc' = "visit"
         /\ ~ CompleteStates =>
              /\ \A id \in Ids : ssets'[id].permanent = ssets[id].permanent
              /\ lst' = lst /\ pc' = pc
         /\ CompleteState => stack' = <<Top + 1>>
         /\ CompleteCall => stack' = SubSeq(stack, 1, Len(stack) - 1)
<1>1. /\ stack # << >> /\ DOMAIN bdd = Rest /\ bdd' = Nothing
      /\ a' = a /\ next_sset' = next_sset /\ new_roots' = new_roots
      /\ pc = "visit" => Missing = {}
  BY DEF Complete, Ready
<1>2. Types /\ Top \in Ids /\ bdd \in [Rest -> Nat] /\ ssets \in [Ids -> SSet]
  BY <1>1, TopIsId, NothingIsBdd DEF IInv, Types
<1>3. pc # "project" => Missing = {}
  BY <1>1 DEF IInv, Calls, Visiting
<1>4. a.s \in Ids
  BY <1>2, InputAssumption DEF Types, MonaDfas, State, Ids
<1>5. CASE CompleteStates
  <2>1. /\ ssets' = [ssets EXCEPT ![Top].sq = bdd, ![a.s].permanent = 0]
        /\ lst' = <<a.s>> /\ stack' = << >> /\ pc' = "visit"
    BY <1>5 DEF Complete, CompleteStates
  <2> DEFINE t == [ssets EXCEPT ![Top].sq = bdd]
  <2>5. ssets' = [t EXCEPT ![a.s].permanent = 0]
    BY <2>1
  <2>6. /\ t \in [Ids -> SSet]
        /\ \A id \in Ids : /\ t[id].elements = ssets[id].elements
                           /\ t[id].decomp1 = ssets[id].decomp1
                           /\ t[id].decomp2 = ssets[id].decomp2
                           /\ t[id].permanent = ssets[id].permanent
                           /\ t[id].sq = IF id = Top THEN bdd ELSE ssets[id].sq
    BY <1>2 DEF SSet
  <2> HIDE DEF t
  <2>2. Filled
    <3>1. ssets' \in [Ids -> SSet]
      BY <1>4, <2>5, <2>6 DEF SSet
    <3>2. \A id \in Ids : /\ ssets'[id].elements = t[id].elements
                          /\ ssets'[id].decomp1 = t[id].decomp1
                          /\ ssets'[id].decomp2 = t[id].decomp2
                          /\ ssets'[id].sq = t[id].sq
      BY <1>4, <2>5, <2>6 DEF SSet
    <3>3. QED
      BY <2>6, <3>1, <3>2 DEF Filled
  <2>3. /\ ssets'[a.s].permanent = 0
        /\ \A id \in Ids : id # a.s => ssets'[id].permanent = ssets[id].permanent
    BY <1>4, <2>5, <2>6 DEF SSet
  <2>4. QED
    BY <1>1, <1>3, <1>5, <2>1, <2>2, <2>3 DEF CompleteState, CompleteStates, CompleteCall
<1>6. CASE ~ CompleteStates
  <2>1. /\ ssets' = [ssets EXCEPT ![Top].sq = bdd]
        /\ stack' = IF pc = "project" THEN <<Top + 1>>
                    ELSE SubSeq(stack, 1, Len(stack) - 1)
        /\ lst' = lst /\ pc' = pc
    BY <1>6 DEF Complete, CompleteStates
  <2>2. Filled /\ \A id \in Ids : ssets'[id].permanent = ssets[id].permanent
    BY <1>2, <2>1 DEF Filled, SSet
  <2>3. QED
    BY <1>1, <1>3, <1>6, <2>1, <2>2 DEF CompleteState, CompleteStates, CompleteCall
<1>7. QED
  BY <1>5, <1>6

LEMMA CompleteStep ==
  ASSUME IInv, Complete
  PROVE  IInv'
<1>1. /\ Filled /\ stack # << >> /\ DOMAIN bdd = Rest /\ bdd' = Nothing
      /\ a' = a /\ next_sset' = next_sset /\ new_roots' = new_roots
  BY CompleteEffect
<1>2. Types /\ Table
  BY DEF IInv
<1>3. /\ Ids' = Ids /\ Top \in Ids /\ ssets'[Top].sq # Nothing
      /\ \A id \in Ids : id # Top => (Calculated(id)' <=> Calculated(id))
      /\ \A id \in Ids : ssets'[id].elements # {}
      /\ \A id \in Ids : Calculated(id)' => ssets'[id].sq \in [Rest -> Ids]
      /\ Table'
  BY <1>1, FilledTable
<1>4. /\ \A id \in Ids : Calculated(id) => Calculated(id)'
      /\ \A id : id = Top => (Calculated(id)' <=> ssets'[Top].sq # Nothing)
  BY <1>3 DEF Calculated, NotCalculated
<1>5. /\ State \subseteq Ids /\ State' = State
      /\ a.s \in State /\ a.s \in Ids /\ Len(stack) \in Nat \ {0}
      /\ \A n \in DOMAIN stack : stack[n] \in Ids
  <2>1. State \subseteq Ids
    BY <1>2, InputAssumption DEF Types, State, Ids
  <2>2. Len(stack) \in Nat \ {0}
    BY <1>1, <1>2 DEF Types
  <2>3. QED
    BY <1>2, <2>1, <2>2, Members DEF Types, MonaDfas, State
<1>6. CASE CompleteStates
  <2>1. /\ ssets'[a.s].permanent = 0
        /\ \A id \in Ids : id # a.s => ssets'[id].permanent = ssets[id].permanent
        /\ lst' = <<a.s>> /\ stack' = << >> /\ pc' = "visit"
    BY <1>6, CompleteEffect
  <2>2. /\ Top = NbStates - 1 /\ Top = stack[1]
        /\ \A s \in 0 .. stack[1] - 1 : Calculated(s)
        /\ new_roots = << >> /\ \A id \in Ids : ssets[id].permanent = -1
    BY <1>6 DEF IInv, Projecting, CompleteStates, Top
  <2>3. \A s \in State : Calculated(s)'
    <3> SUFFICES ASSUME NEW s \in State
                 PROVE  Calculated(s)'
      OBVIOUS
    <3>1. CASE s = Top
      BY <1>3, <1>4, <3>1
    <3>2. CASE s # Top
      <4>1. s \in 0 .. stack[1] - 1
        BY <2>2, <3>2, InputAssumption DEF State
      <4>2. QED
        BY <1>4, <1>5, <2>2, <4>1
    <3>3. QED
      BY <3>1, <3>2
  <2>4. Types'
    <3>1. stack' \in Seq(Ids') /\ lst' \in Seq(Ids') /\ pc' \in {"project", "visit", "done"}
      BY <1>3, <1>5, <2>1
    <3>2. ssets' \in [Ids' -> SSet] /\ IsBdd(bdd', Nat)
      BY <1>1, <1>3, NothingIsBdd DEF Filled
    <3>3. /\ a' \in MonaDfas /\ next_sset' \in Nat /\ NbStates <= next_sset'
          /\ new_roots' \in Seq([Rest -> Nat])
      BY <1>1, <1>2 DEF Types
    <3>4. QED
      BY <1>3, <3>1, <3>2, <3>3 DEF Types, IsBdd
  <2>5. Projecting' /\ Joining' /\ Numbering'
    BY <1>1, <2>1 DEF Projecting, Joining, Numbering
  <2>6. Calls'
    BY <1>1, <1>5, <2>1, <2>3 DEF Calls
  <2>7. Listed'
    <3>1. Len(lst') = 1 /\ DOMAIN lst' = {1} /\ lst'[1] = a.s
          /\ Len(new_roots') = 0 /\ DOMAIN new_roots' = {}
      BY <1>1, <2>1, <2>2
    <3>2. \A id \in Ids : ssets'[id].permanent # -1 => id = a.s
      BY <2>1, <2>2
    <3>3. QED
      BY <1>3, <2>1, <3>1, <3>2 DEF Listed
  <2>8. Found'
    BY <2>1 DEF Found
  <2>9. QED
    BY <1>3, <2>4, <2>5, <2>6, <2>7, <2>8 DEF IInv
<1>7. CASE ~ CompleteStates
  <2>1. /\ \A id \in Ids : ssets'[id].permanent = ssets[id].permanent
        /\ lst' = lst /\ pc' = pc
    BY <1>7, CompleteEffect
  <2>2. /\ stack' \in Seq(Ids)
        /\ pc = "project" => stack' = <<Top + 1>> /\ Top + 1 \in State /\ Top = stack[1]
    <3>1. CASE pc = "project"
      <4>1. stack' = <<Top + 1>> /\ Top \in State /\ Top = stack[1] /\ Top # NbStates - 1
        BY <1>7, <3>1, CompleteEffect
        DEF CompleteState, CompleteStates, IInv, Projecting, Top
      <4>2. Top + 1 \in State
        BY <4>1, InputAssumption DEF State
      <4>3. QED
        BY <1>5, <4>1, <4>2
    <3>2. CASE pc # "project"
      <4>1. stack' = SubSeq(stack, 1, Len(stack) - 1)
        BY <3>2, CompleteEffect DEF CompleteCall
      <4>2. QED
        BY <1>2, <1>5, <3>2, <4>1 DEF Types
    <3>3. QED
      BY <3>1, <3>2
  <2>3. pc # "project" =>
          /\ Len(stack') = Len(stack) - 1
          /\ \A n \in DOMAIN stack' : /\ n \in DOMAIN stack /\ n < Len(stack)
                                      /\ stack'[n] = stack[n]
    <3> SUFFICES ASSUME pc # "project"
                 PROVE  /\ Len(stack') = Len(stack) - 1
                        /\ \A n \in DOMAIN stack' :
                             /\ n \in DOMAIN stack /\ n < Len(stack)
                             /\ stack'[n] = stack[n]
      OBVIOUS
    <3>1. stack' = SubSeq(stack, 1, Len(stack) - 1)
      BY CompleteEffect DEF CompleteCall
    <3>2. stack \in Seq(Ids) /\ Len(stack) - 1 \in Nat
      BY <1>2, <1>5 DEF Types
    <3>3. /\ Len(stack') = Len(stack) - 1
          /\ \A n \in 1 .. Len(stack) - 1 : stack'[n] = stack[n]
      BY <1>1, <3>1, <3>2, PopLast
    <3>4. DOMAIN stack' = 1 .. Len(stack) - 1 /\ DOMAIN stack = 1 .. Len(stack)
      BY <2>2, <3>2, <3>3
    <3>5. QED
      BY <3>2, <3>3, <3>4
  <2>4. Types'
    <3>1. ssets' \in [Ids' -> SSet] /\ IsBdd(bdd', Nat)
      BY <1>1, <1>3, NothingIsBdd DEF Filled
    <3>2. /\ a' \in MonaDfas /\ next_sset' \in Nat /\ NbStates <= next_sset'
          /\ new_roots' \in Seq([Rest -> Nat]) /\ lst' \in Seq(Ids')
          /\ pc' \in {"project", "visit", "done"}
      BY <1>1, <1>2, <1>3, <2>1 DEF Types
    <3>3. QED
      BY <1>3, <2>2, <3>1, <3>2 DEF Types, IsBdd
  <2>5. Projecting'
    <3> SUFFICES ASSUME pc = "project"
                 PROVE  /\ Len(stack') = 1 /\ stack'[1] \in State
                        /\ \A s \in 0 .. stack'[1] - 1 : Calculated(s)'
                        /\ lst = << >> /\ new_roots = << >>
                        /\ \A id \in Ids : ssets'[id].permanent = -1
      BY <1>1, <1>3, <1>5, <2>1 DEF Projecting
    <3>1. /\ stack[1] \in State /\ \A s \in 0 .. stack[1] - 1 : Calculated(s)
          /\ lst = << >> /\ new_roots = << >>
          /\ \A id \in Ids : ssets[id].permanent = -1
      BY DEF IInv, Projecting
    <3>2. Len(stack') = 1 /\ stack'[1] = stack[1] + 1 /\ stack'[1] \in State
      BY <2>2
    <3>3. ASSUME NEW s \in 0 .. stack'[1] - 1
          PROVE  Calculated(s)'
      <4>1. s \in State /\ stack[1] \in Nat /\ s \in 0 .. stack[1]
        BY <3>1, <3>2, InputAssumption DEF State
      <4>2. CASE s = stack[1]
        BY <1>3, <1>4, <2>2, <4>2
      <4>3. CASE s # stack[1]
        <5>1. s \in 0 .. stack[1] - 1
          BY <4>1, <4>3
        <5>2. QED
          BY <1>4, <1>5, <3>1, <4>1, <5>1
      <4>4. QED
        BY <4>2, <4>3
    <3>4. QED
      BY <2>1, <3>1, <3>2, <3>3
  <2>6. Calls'
    <3> SUFFICES ASSUME pc # "project"
                 PROVE  /\ \A s \in State : Calculated(s)'
                        /\ lst # << >> /\ lst[1] = a.s
                        /\ stack' # << >> => Visiting
                        /\ \A n \in DOMAIN stack' : stack'[n] \notin State
                                                   /\ ~ Calculated(stack[n])'
                        /\ \A m, n \in DOMAIN stack' : m < n => stack'[n] < stack'[m]
                        /\ \A n \in 1 .. Len(stack') - 1 : stack'[n + 1] \in
                             {ssets'[stack'[n]].decomp1, ssets'[stack'[n]].decomp2}
      BY <1>1, <1>5, <2>1 DEF Calls, Visiting
    <3>1. /\ \A s \in State : Calculated(s)
          /\ lst # << >> /\ lst[1] = a.s
          /\ Visiting
          /\ \A n \in DOMAIN stack : stack[n] \notin State /\ ~ Calculated(stack[n])
          /\ \A m, n \in DOMAIN stack : m < n => stack[n] < stack[m]
          /\ \A n \in 1 .. Len(stack) - 1 :
               stack[n + 1] \in {ssets[stack[n]].decomp1, ssets[stack[n]].decomp2}
      BY <1>1 DEF IInv, Calls
    <3>2. ASSUME NEW n \in DOMAIN stack'
          PROVE  /\ stack'[n] = stack[n] /\ stack[n] \in Ids /\ stack[n] # Top
                 /\ ~ Calculated(stack[n])'
      <4>1. n \in DOMAIN stack /\ n < Len(stack) /\ stack'[n] = stack[n]
        BY <2>3
      <4>2. Len(stack) \in DOMAIN stack
        BY <1>2, <1>5 DEF Types
      <4>3. stack[n] \in Ids /\ Top < stack[n]
        BY <1>5, <3>1, <4>1, <4>2 DEF Top
      <4>4. ssets[stack[n]].sq = Nothing
        BY <3>1, <4>1 DEF Calculated, NotCalculated
      <4>5. stack[n] # Top
        BY <1>2, <1>3, <4>3 DEF Ids, Types
      <4>6. ssets'[stack[n]].sq = Nothing
        BY <1>1, <4>3, <4>4, <4>5 DEF Filled
      <4>7. QED
        BY <4>1, <4>3, <4>5, <4>6 DEF Calculated, NotCalculated, Nothing
    <3>3. \A n \in 1 .. Len(stack') - 1 :
            /\ n \in DOMAIN stack' /\ n + 1 \in DOMAIN stack' /\ n \in 1 .. Len(stack) - 1
      BY <1>5, <2>2, <2>3
    <3>4. ASSUME NEW n \in 1 .. Len(stack') - 1
          PROVE  stack'[n + 1] \in {ssets'[stack'[n]].decomp1, ssets'[stack'[n]].decomp2}
      <4>1. /\ stack'[n] = stack[n] /\ stack'[n + 1] = stack[n + 1] /\ stack[n] \in Ids
            /\ n \in 1 .. Len(stack) - 1
        BY <3>2, <3>3
      <4>2. QED
        BY <1>1, <3>1, <4>1 DEF Filled
    <3>5. \A m, n \in DOMAIN stack' : m < n => stack'[n] < stack'[m]
      BY <2>3, <3>1
    <3>6. \A n \in DOMAIN stack' : stack'[n] \notin State
      BY <2>3, <3>1
    <3>7. \A s \in State : Calculated(s)'
      BY <1>4, <1>5, <3>1
    <3>8. QED
      BY <3>1, <3>2, <3>4, <3>5, <3>6, <3>7
  <2>7. Joining' /\ Numbering'
    BY <1>1, NothingIsBdd DEF Joining, Numbering
  <2>8. Listed'
    <3>1. \A k \in DOMAIN lst : lst[k] \in Ids
      BY <1>2, Members
    <3>2. \A k \in DOMAIN new_roots : k \in DOMAIN lst
      BY <1>2 DEF IInv, Listed, Types
    <3>3. ASSUME NEW k \in DOMAIN new_roots
          PROVE  Calculated(lst[k])' /\ ssets'[lst[k]].sq = ssets[lst[k]].sq
      <4>1. Calculated(lst[k]) /\ lst[k] \in Ids
        BY <3>1, <3>2 DEF IInv, Listed
      <4>2. pc # "project"
        BY DEF IInv, Projecting
      <4>3. ~ Calculated(Top)
        BY <1>2, <1>1, <4>2 DEF IInv, Calls, Top, Types
      <4>4. lst[k] # Top
        BY <4>1, <4>3
      <4>5. ssets'[lst[k]].sq = ssets[lst[k]].sq
        BY <1>1, <4>1, <4>4 DEF Filled
      <4>6. QED
        BY <2>1, <4>1, <4>5 DEF Calculated
    <3>4. /\ Len(new_roots) <= Len(lst)
          /\ \A id \in Ids : LET p == ssets[id].permanent
                             IN  p # -1 => p \in 0 .. Len(lst) - 1 /\ lst[p + 1] = id
          /\ \A k \in DOMAIN lst : ssets[lst[k]].permanent = k - 1
          /\ \A k \in DOMAIN new_roots, y \in Rest :
               /\ new_roots[k][y] < Len(lst)
               /\ lst[new_roots[k][y] + 1] = ssets[lst[k]].sq[y]
      BY DEF IInv, Listed
    <3>5. \A k \in DOMAIN lst : ssets'[lst[k]].permanent = k - 1
      BY <2>1, <3>1, <3>4
    <3>6. ASSUME NEW k \in DOMAIN new_roots
          PROVE  /\ Calculated(lst[k])'
                 /\ \A y \in Rest : /\ new_roots[k][y] < Len(lst)
                                    /\ lst[new_roots[k][y] + 1] = ssets'[lst[k]].sq[y]
      <4>1. \A y \in Rest : /\ new_roots[k][y] < Len(lst)
                            /\ lst[new_roots[k][y] + 1] = ssets[lst[k]].sq[y]
        BY <3>4
      <4>2. QED
        BY <3>3, <4>1
    <3>7. \A id \in Ids : LET p == ssets'[id].permanent
                          IN  p # -1 => p \in 0 .. Len(lst) - 1 /\ lst[p + 1] = id
      BY <2>1, <3>4
    <3>8. lst' = lst /\ new_roots' = new_roots /\ Ids' = Ids
      BY <1>1, <1>3, <2>1
    <3>9. Len(new_roots) <= Len(lst)
      BY <3>4
    <3>10. QED
      BY <3>5, <3>6, <3>7, <3>8, <3>9 DEF Listed
  <2>9. Found'
    <3>1. \A k \in 1 .. Len(lst) : lst[k] \in Ids
      BY <1>2, Members DEF Types
    <3>2. SUFFICES ASSUME NEW k \in 2 .. Len(lst)
                   PROVE  \E j \in 1 .. k - 1, z \in Rest :
                            /\ j <= Len(new_roots) + 1
                            /\ ssets'[lst[k]].elements
                                 = Successors(ssets[lst[j]].elements, z)'
      BY <1>1, <2>1 DEF Found
    <3>3. PICK j \in 1 .. k - 1, z \in Rest :
            /\ j <= Len(new_roots) + 1
            /\ ssets[lst[k]].elements = Successors(ssets[lst[j]].elements, z)
      BY DEF IInv, Found
    <3>4. j \in 1 .. Len(lst) /\ k \in 1 .. Len(lst)
      BY <1>2 DEF Types
    <3>5. /\ ssets'[lst[k]].elements = ssets[lst[k]].elements
          /\ ssets'[lst[j]].elements = ssets[lst[j]].elements
      BY <1>1, <3>1, <3>4 DEF Filled
    <3>6. QED
      BY <1>1, <2>1, <3>3, <3>5 DEF Successors
  <2>10. QED
    BY <1>3, <2>4, <2>5, <2>6, <2>7, <2>8, <2>9 DEF IInv
<1>8. QED
  BY <1>6, <1>7

LEMMA SameTable ==
  ASSUME Table, a' = a, ssets' = ssets, next_sset' = next_sset
  PROVE  Table' /\ Ids' = Ids /\ State' = State
<1>1. Ids' = Ids /\ State' = State
  BY DEF Ids, State
<1>2. \A id \in Ids : Decomposed(id)' <=> Decomposed(id)
  BY DEF Decomposed
<1>3. BddsAreUnions'
  BY <1>1 DEF Table, BddsAreUnions, Calculated, Successors
<1>4. HashConsed'
  BY <1>1 DEF Table, HashConsed
<1>5. QED
  BY <1>1, <1>2, <1>3, <1>4 DEF Table

LEMMA SameFound ==
  ASSUME Found, a' = a, ssets' = ssets, lst' = lst, new_roots' = new_roots
  PROVE  Found'
<1>1. \A k, y : Successors(ssets[lst[k]].elements, y)' = Successors(ssets[lst[k]].elements, y)
  BY DEF Successors
<1>2. QED
  BY <1>1 DEF Found

LEMMA SameListed ==
  ASSUME Listed, ssets' = ssets, next_sset' = next_sset, lst' = lst,
         new_roots' = new_roots
  PROVE  Listed'
  BY DEF Listed, Ids, Calculated

LEMMA EvaluateStep ==
  ASSUME IInv, Evaluate
  PROVE  IInv'
<1>1. /\ Visiting /\ stack = << >> /\ ~ Calculated(Visited) /\ stack' = <<Visited>>
      /\ UNCHANGED <<a, ssets, next_sset, bdd, lst, new_roots, pc>>
  BY DEF Evaluate
<1>2. /\ Types /\ Table /\ Visited \in Ids /\ pc # "project"
      /\ \A s \in State : Calculated(s)
  BY <1>1, Members DEF IInv, Calls, Visiting
<1>3. Table' /\ Ids' = Ids /\ State' = State
  BY <1>1, <1>2, SameTable
<1>4. bdd = Nothing
  BY <1>1 DEF IInv, Numbering
<1>5. Types'
  <2>1. stack' \in Seq(Ids)
    BY <1>1, <1>2
  <2>2. QED
    BY <1>1, <1>2, <1>3, <2>1 DEF Types, IsBdd, Calculated
<1>6. Projecting' /\ Numbering'
  BY <1>1, <1>2 DEF Projecting, Numbering
<1>7. Calls'
  <2>1. Len(stack') = 1 /\ DOMAIN stack' = {1} /\ stack'[1] = Visited
    BY <1>1
  <2>2. Visited \notin State
    BY <1>1, <1>2
  <2>3. \A n \in 1 .. Len(stack') - 1 : FALSE
    BY <2>1
  <2>4. Visiting' /\ lst' # << >> /\ lst'[1] = a'.s /\ \A s \in State' : Calculated(s)'
    BY <1>1, <1>2, <1>3 DEF IInv, Calls, Visiting, Calculated
  <2>5. ASSUME NEW n \in DOMAIN stack'
        PROVE  stack'[n] \notin State' /\ ssets'[stack'[n]].sq = NotCalculated
    BY <1>1, <1>3, <2>1, <2>2 DEF Calculated
  <2>6. \A m, n \in DOMAIN stack' : ~ (m < n)
    BY <2>1
  <2>7. QED
    BY <2>3, <2>4, <2>5, <2>6 DEF Calls, Calculated, NotCalculated, Nothing
<1>8. Joining'
  BY <1>1, <1>4, NothingIsBdd DEF Joining
<1>9. Listed' /\ Found'
  BY <1>1, SameListed, SameFound DEF IInv
<1>10. QED
  BY <1>3, <1>5, <1>6, <1>7, <1>8, <1>9 DEF IInv

LEMMA RecurStep ==
  ASSUME IInv, Recur
  PROVE  IInv'
<1> DEFINE id == IF Calculated(ssets[Top].decomp1) THEN ssets[Top].decomp2
                                                   ELSE ssets[Top].decomp1
<1>1. /\ Visiting /\ stack # << >> /\ Missing # {} /\ stack' = Append(stack, id)
      /\ UNCHANGED <<a, ssets, next_sset, bdd, lst, new_roots, pc>>
  BY DEF Recur
<1>2. /\ Types /\ Table /\ pc # "project" /\ \A s \in State : Calculated(s)
  BY <1>1 DEF IInv, Calls, Visiting
<1>3. Table' /\ Ids' = Ids /\ State' = State
  BY <1>1, <1>2, SameTable
<1>4. bdd = Nothing
  BY <1>1, <1>2 DEF IInv, Joining
<1>5. /\ Top \in Ids \ State /\ Len(stack) \in DOMAIN stack /\ Top = stack[Len(stack)]
  BY <1>1, <1>2 DEF IInv, Calls, Top, Types
<1>6. Decomposed(Top)
  BY <1>2, <1>5 DEF Table
<1>7. id \in {ssets[Top].decomp1, ssets[Top].decomp2} /\ ~ Calculated(id)
  BY <1>1 DEF Missing
<1>8. id \in Ids /\ id < Top /\ id \notin State
  BY <1>2, <1>5, <1>6, <1>7 DEF Decomposed, Ids, Types
<1> HIDE DEF id
<1>9. /\ stack' \in Seq(Ids) /\ Len(stack') = Len(stack) + 1 /\ Len(stack) \in Nat
      /\ DOMAIN stack' = 1 .. Len(stack) + 1 /\ DOMAIN stack = 1 .. Len(stack)
      /\ \A n \in DOMAIN stack : stack'[n] = stack[n]
      /\ stack'[Len(stack) + 1] = id
  BY <1>1, <1>2, <1>8 DEF Types
<1>10. Types'
  BY <1>1, <1>2, <1>3, <1>9 DEF Types, IsBdd, Calculated
<1>11. Projecting' /\ Numbering'
  BY <1>1, <1>2, <1>4 DEF Projecting, Numbering
<1>12. Calls'
  <2>1. /\ \A n \in DOMAIN stack : stack[n] \notin State /\ ~ Calculated(stack[n])
        /\ \A m, n \in DOMAIN stack : m < n => stack[n] < stack[m]
        /\ \A n \in 1 .. Len(stack) - 1 :
             stack[n + 1] \in {ssets[stack[n]].decomp1, ssets[stack[n]].decomp2}
    BY <1>2 DEF IInv, Calls
  <2>2. Visiting' /\ lst' # << >> /\ lst'[1] = a'.s /\ \A s \in State' : Calculated(s)'
    BY <1>1, <1>2, <1>3 DEF IInv, Calls, Visiting, Calculated
  <2>3. ASSUME NEW n \in DOMAIN stack'
        PROVE  stack'[n] \notin State' /\ ssets'[stack'[n]].sq = NotCalculated
    BY <1>1, <1>3, <1>7, <1>8, <1>9, <2>1 DEF Calculated
  <2>4. ASSUME NEW m \in DOMAIN stack', NEW n \in DOMAIN stack', m < n
        PROVE  stack'[n] < stack'[m]
    <3>1. m \in DOMAIN stack /\ stack'[m] = stack[m]
      BY <1>9, <2>4
    <3>2. CASE n = Len(stack) + 1
      <4>1. stack'[n] = id /\ id < Top /\ (m = Len(stack) \/ m < Len(stack))
        BY <1>8, <1>9, <3>1, <3>2
      <4>2. Top = stack[m] \/ Top < stack[m]
        BY <1>5, <2>1, <3>1, <4>1
      <4>3. id \in Int /\ Top \in Int /\ stack[m] \in Int
        BY <1>2, <1>5, <1>8, <3>1, Members DEF Ids, Types
      <4>4. QED
        BY <3>1, <4>1, <4>2, <4>3
    <3>3. CASE n # Len(stack) + 1
      BY <1>9, <2>1, <2>4, <3>1, <3>3
    <3>4. QED
      BY <3>2, <3>3
  <2>5. ASSUME NEW n \in 1 .. Len(stack') - 1
        PROVE  stack'[n + 1] \in {ssets'[stack'[n]].decomp1, ssets'[stack'[n]].decomp2}
    <3>1. CASE n = Len(stack)
      BY <1>1, <1>5, <1>7, <1>9, <3>1
    <3>2. CASE n # Len(stack)
      <4>3. Len(stack') - 1 = Len(stack)
        BY <1>9
      <4>4. n \in 1 .. Len(stack)
        BY <2>5, <4>3
      <4>1. n \in 1 .. Len(stack) - 1 /\ n \in DOMAIN stack /\ n + 1 \in DOMAIN stack
        BY <1>9, <3>2, <4>4, NotLast
      <4>2. QED
        BY <1>1, <1>9, <2>1, <4>1
    <3>3. QED
      BY <3>1, <3>2
  <2>6. QED
    BY <2>2, <2>3, <2>4, <2>5 DEF Calls, Calculated, NotCalculated, Nothing
<1>13. Joining'
  BY <1>1, <1>4, NothingIsBdd DEF Joining
<1>14. Listed' /\ Found'
  BY <1>1, SameListed, SameFound DEF IInv
<1>15. QED
  BY <1>3, <1>10, <1>11, <1>12, <1>13, <1>14 DEF IInv

(* A change of numbers leaves the rest of the table alone.                  *)
Renumbered ==
  /\ ssets' \in [Ids -> SSet]
  /\ \A id \in Ids : /\ ssets'[id].elements = ssets[id].elements
                     /\ ssets'[id].decomp1 = ssets[id].decomp1
                     /\ ssets'[id].decomp2 = ssets[id].decomp2
                     /\ ssets'[id].sq = ssets[id].sq

LEMMA RenumberedTable ==
  ASSUME Types, Table, Renumbered, a' = a, next_sset' = next_sset
  PROVE  /\ Table' /\ Ids' = Ids /\ State' = State
         /\ \A id \in Ids : Calculated(id)' <=> Calculated(id)
<1>1. Ids' = Ids /\ State' = State
  BY DEF Ids, State
<1>2. \A id \in Ids : Calculated(id)' <=> Calculated(id)
  BY DEF Renumbered, Calculated, NotCalculated, Nothing
<1>3. \A s \in State : /\ ssets'[s].elements = {s}
                       /\ ssets'[s].decomp1 = -1 /\ ssets'[s].decomp2 = -1
  <2>1. State \subseteq Ids
    BY InputAssumption DEF Types, State, Ids
  <2>2. QED
    BY <2>1 DEF Table, Renumbered
<1>4. HashConsed'
  BY <1>1 DEF Table, HashConsed, Renumbered
<1>5. \A id \in Ids \ State : Decomposed(id)'
  <2> SUFFICES ASSUME NEW id \in Ids, id \notin State
               PROVE  Decomposed(id)'
    OBVIOUS
  <2>1. Decomposed(id)
    BY DEF Table
  <2>2. ssets[id].decomp1 \in Ids /\ ssets[id].decomp2 \in Ids
    BY <2>1 DEF Decomposed, Ids, Types
  <2>3. QED
    BY <2>1, <2>2 DEF Decomposed, Renumbered
<1>6. BddsAreUnions'
  <2> SUFFICES ASSUME NEW id \in Ids, Calculated(id), NEW y \in Rest
               PROVE  ssets'[ssets'[id].sq[y]].elements
                        = Successors(ssets[id].elements, y)'
    BY <1>1, <1>2 DEF BddsAreUnions
  <2>1. ssets[id].sq[y] \in Ids
    BY DEF Types
  <2>2. ssets[ssets[id].sq[y]].elements = Successors(ssets[id].elements, y)
    BY DEF Table, BddsAreUnions
  <2>3. QED
    BY <2>1, <2>2 DEF Renumbered, Successors
<1>7. QED
  BY <1>1, <1>2, <1>3, <1>4, <1>5, <1>6 DEF Table

(* proj_term3 for a set that has a number, and for one that has none.       *)
LEMMA NumberEffect ==
  ASSUME IInv, NEW y \in Rest, Number(y)
  PROVE  LET id == ssets[Visited].sq[y]
             p == ssets[id].permanent
         IN  /\ id \in Ids /\ Renumbered
             /\ ssets[id].elements = Successors(ssets[Visited].elements, y)
             /\ \/ /\ p \in 0 .. Len(lst) - 1 /\ lst[p + 1] = id
                   /\ lst' = lst /\ ssets' = ssets /\ bdd' = Plus(bdd, y, p)
                \/ /\ p = -1
                   /\ lst' = Append(lst, id) /\ bdd' = Plus(bdd, y, Len(lst))
                   /\ ssets'[id].permanent = Len(lst)
                   /\ \A i \in Ids : i # id => ssets'[i].permanent = ssets[i].permanent
<1> DEFINE id == ssets[Visited].sq[y]
           p == ssets[id].permanent
<1>1. /\ Visiting /\ Calculated(Visited)
      /\ Types /\ Table /\ Listed
  BY DEF Number, IInv
<1>2. Visited \in Ids /\ ssets[Visited].sq \in [Rest -> Ids]
  BY <1>1, Members DEF Types
<1>3. id \in Ids /\ ssets[id].elements = Successors(ssets[Visited].elements, y)
  BY <1>1, <1>2 DEF Table, BddsAreUnions
<1>4. ssets \in [Ids -> SSet] /\ p \in Int
  BY <1>1, <1>3 DEF Types, SSet
<1>5. p # -1 => p \in 0 .. Len(lst) - 1 /\ lst[p + 1] = id
  BY <1>1, <1>3 DEF Listed
<1>6. Len(lst) \in Nat
  BY <1>1 DEF Types
<1>7. CASE p < 0
  <2>1. /\ lst' = Append(lst, id) /\ bdd' = Plus(bdd, y, Len(lst))
        /\ ssets' = [ssets EXCEPT ![id].permanent = Len(lst)]
    BY <1>7 DEF Number, next_state
  <2>2. p = -1
    BY <1>4, <1>5, <1>6, <1>7
  <2> HIDE DEF id
  <2>3. Renumbered
    <3>1. [ssets[id] EXCEPT !.permanent = Len(lst)] \in SSet
      BY <1>3, <1>4, <1>6 DEF SSet
    <3>2. ssets' \in [Ids -> SSet]
      BY <1>3, <1>4, <2>1, <3>1
    <3>3. \A i \in Ids : /\ ssets'[i].elements = ssets[i].elements
                         /\ ssets'[i].decomp1 = ssets[i].decomp1
                         /\ ssets'[i].decomp2 = ssets[i].decomp2
                         /\ ssets'[i].sq = ssets[i].sq
      BY <1>3, <1>4, <2>1 DEF SSet
    <3>4. QED
      BY <3>2, <3>3 DEF Renumbered
  <2>4. /\ ssets'[id].permanent = Len(lst)
        /\ \A i \in Ids : i # id => ssets'[i].permanent = ssets[i].permanent
    BY <1>3, <1>4, <1>6, <2>1 DEF SSet
  <2>5. QED
    BY <1>3, <2>1, <2>2, <2>3, <2>4 DEF id
<1>8. CASE ~ (p < 0)
  <2>1. lst' = lst /\ ssets' = ssets /\ bdd' = Plus(bdd, y, p)
    BY <1>8 DEF Number
  <2>2. p # -1
    BY <1>8
  <2>3. Renumbered
    BY <1>4, <2>1 DEF Renumbered
  <2>4. QED
    BY <1>3, <1>5, <2>1, <2>2, <2>3
<1>9. QED
  BY <1>7, <1>8

LEMMA AppendValues ==
  ASSUME NEW S, NEW seq \in Seq(S), NEW e \in S
  PROVE  /\ Append(seq, e) \in Seq(S) /\ Len(Append(seq, e)) = Len(seq) + 1
         /\ Len(seq) \in Nat
         /\ DOMAIN seq = 1 .. Len(seq) /\ DOMAIN Append(seq, e) = 1 .. Len(seq) + 1
         /\ \A n \in 1 .. Len(seq) : Append(seq, e)[n] = seq[n]
         /\ Append(seq, e)[Len(seq) + 1] = e
  OBVIOUS

LEMMA NumberStep ==
  ASSUME IInv, NEW y \in Rest, Number(y)
  PROVE  IInv'
<1> DEFINE id == ssets[Visited].sq[y]
           p == ssets[id].permanent
           L == Len(lst)
           L2 == Len(lst')
           N == Len(new_roots)
           leaf == IF p = -1 THEN L ELSE p
<1>1. /\ Visiting /\ Calculated(Visited) /\ stack = << >> /\ pc # "project"
      /\ a' = a /\ next_sset' = next_sset /\ stack' = stack
      /\ new_roots' = new_roots /\ pc' = pc
      /\ Types /\ Table /\ Listed
  BY DEF Number, IInv, Visiting
<1>2. id \in Ids /\ Renumbered
      /\ ssets[id].elements = Successors(ssets[Visited].elements, y)
  BY NumberEffect
<1>3. \/ /\ p # -1 /\ p \in 0 .. L - 1 /\ lst[p + 1] = id
         /\ lst' = lst /\ ssets' = ssets
      \/ /\ p = -1 /\ lst' = Append(lst, id)
         /\ ssets'[id].permanent = L
         /\ \A i \in Ids : i # id => ssets'[i].permanent = ssets[i].permanent
  <2>1. \A n : n \in 0 .. L - 1 => n # -1
    OBVIOUS
  <2>2. QED
    BY <2>1, NumberEffect
<1>4. bdd' = Plus(bdd, y, leaf)
  <2>1. \A n : n \in 0 .. L - 1 => n # -1
    OBVIOUS
  <2>2. QED
    BY <2>1, NumberEffect
<1>5. /\ Table' /\ Ids' = Ids /\ State' = State
      /\ \A i \in Ids : Calculated(i)' <=> Calculated(i)
  BY <1>1, <1>2, RenumberedTable
<1>6. /\ lst \in Seq(Ids) /\ new_roots \in Seq([Rest -> Nat])
      /\ L \in Nat /\ N \in Nat /\ DOMAIN lst = 1 .. L /\ DOMAIN new_roots = 1 .. N
      /\ \A k \in 1 .. L : lst[k] \in Ids
  BY <1>1 DEF Types
<1>7. Visited = lst[N + 1] /\ Visited \in Ids /\ N + 1 \in 1 .. L
  BY <1>1, <1>6, Members DEF Visited
<1> HIDE DEF id, p, L, L2, N, leaf
<1>8. /\ lst' \in Seq(Ids) /\ DOMAIN lst' = 1 .. L2
      /\ \A k \in 1 .. L : lst'[k] = lst[k]
      /\ \/ L2 = L /\ p # -1
         \/ L2 = L + 1 /\ p = -1 /\ lst'[L + 1] = id
  <2>1. CASE lst' = lst /\ p # -1
    BY <1>6, <2>1 DEF L, L2
  <2>2. CASE lst' = Append(lst, id) /\ p = -1
    BY <1>2, <1>6, <2>2, AppendValues DEF L, L2
  <2>3. QED
    BY <1>3, <2>1, <2>2
<1>19. /\ L \in Nat /\ L2 \in Nat /\ N \in Nat /\ N + 1 <= L /\ L <= L2 /\ 1 <= L
       /\ L2 = L \/ L2 = L + 1
       /\ \A k \in 1 .. L2 : k \in 1 .. L \/ (k = L + 1 /\ p = -1)
       /\ \A n \in 0 .. L - 1 : n \in 0 .. L2 - 1 /\ n + 1 \in 1 .. L /\ n < L2
       /\ \A k \in 1 .. L : k \in 1 .. L2
  <2>1. L \in Nat /\ L2 \in Nat /\ N \in Nat /\ N + 1 <= L /\ L <= L2 /\ 1 <= L
    BY <1>6, <1>7, <1>8
  <2>2. L2 = L \/ (L2 = L + 1 /\ p = -1)
    BY <1>8
  <2>3. \A k \in 1 .. L2 : k \in 1 .. L \/ (k = L + 1 /\ p = -1)
    BY <2>1, <2>2
  <2>4. /\ \A n \in 0 .. L - 1 : n \in 0 .. L2 - 1 /\ n + 1 \in 1 .. L /\ n < L2
        /\ \A k \in 1 .. L : k \in 1 .. L2
    BY <2>1
  <2>5. QED
    BY <2>1, <2>2, <2>3, <2>4
<1>9. /\ leaf \in 0 .. L2 - 1 /\ lst'[leaf + 1] = id
  <2>1. CASE p = -1
    BY <1>8, <1>19, <2>1 DEF leaf
  <2>2. CASE p # -1
    <3>1. p \in 0 .. L - 1 /\ lst[p + 1] = id /\ lst' = lst
      BY <1>3, <2>2 DEF L
    <3>2. QED
      BY <2>2, <3>1, <1>19 DEF leaf
  <2>3. QED
    BY <2>1, <2>2
<1>10. /\ DOMAIN bdd' = DOMAIN bdd \union {y} /\ bdd'[y] = leaf
       /\ \A z \in DOMAIN bdd : z # y => bdd'[z] = bdd[z]
  BY <1>4 DEF Plus
<1>11. Visited' = Visited /\ Visiting' /\ Calculated(Visited)'
  <2>1. Visited' = Visited
    BY <1>1, <1>7, <1>8 DEF Visited, N
  <2>2. Visiting'
    BY <1>1, <1>19 DEF Visiting, L, L2, N
  <2>3. ssets'[Visited].sq = ssets[Visited].sq
    BY <1>2, <1>7 DEF Renumbered
  <2>4. QED
    BY <1>1, <2>1, <2>2, <2>3 DEF Calculated, NotCalculated, Nothing
<1>12. Types'
  <2>1. leaf \in Nat
    BY <1>9, <1>19
  <2>2. IsBdd(bdd', Nat)
    BY <1>1, <1>4, <2>1, PlusIsBdd DEF Types
  <2>3. /\ ssets' \in [Ids -> SSet]
        /\ \A i \in Ids : ssets'[i].elements # {} /\ (Calculated(i)' => ssets'[i].sq \in [Rest -> Ids])
    BY <1>1, <1>2, <1>5 DEF Types, Renumbered
  <2>4. QED
    BY <1>1, <1>5, <1>8, <2>2, <2>3 DEF Types, IsBdd
<1>13. Projecting' /\ Joining'
  BY <1>1 DEF Projecting, Joining
<1>14. Calls'
  <2>1. /\ \A s \in State : Calculated(s)
        /\ lst # << >> /\ lst[1] = a.s
    BY <1>1 DEF IInv, Calls
  <2>2. lst' # << >> /\ lst'[1] = a.s
    <3>1. 1 \in 1 .. L /\ 1 \in DOMAIN lst'
      BY <1>8, <1>19
    <3>2. lst'[1] = a.s
      BY <1>8, <2>1, <3>1
    <3>3. 1 \notin DOMAIN << >>
      OBVIOUS
    <3>4. lst' # << >>
      BY <3>1, <3>3
    <3>5. QED
      BY <3>2, <3>4
  <2>3. State \subseteq Ids
    BY <1>1, InputAssumption DEF Types, State, Ids
  <2>4. \A s \in State : Calculated(s)'
    BY <1>5, <2>1, <2>3
  <2>5. stack' = << >>
    BY <1>1
  <2>6. QED
    BY <1>1, <1>5, <2>2, <2>4, <2>5 DEF Calls
<1>15. Numbering'
  <2>1. ASSUME NEW z \in DOMAIN bdd'
        PROVE  bdd'[z] \in 0 .. L2 - 1 /\ lst'[bdd'[z] + 1] = ssets'[Visited].sq[z]
    <3>1. ssets'[Visited].sq = ssets[Visited].sq
      BY <1>2, <1>7 DEF Renumbered
    <3>2. CASE z = y
      BY <1>9, <1>10, <3>1, <3>2 DEF id
    <3>3. CASE z # y
      <4>1. z \in DOMAIN bdd /\ bdd'[z] = bdd[z]
        BY <1>10, <2>1, <3>3
      <4>2. bdd[z] \in 0 .. L - 1 /\ lst[bdd[z] + 1] = ssets[Visited].sq[z]
        BY <1>1, <4>1, NothingIsBdd DEF IInv, Numbering, L
      <4>3. bdd[z] + 1 \in 1 .. L /\ bdd[z] \in 0 .. L2 - 1
        BY <1>19, <4>2
      <4>4. QED
        BY <1>8, <3>1, <4>1, <4>2, <4>3
    <3>4. QED
      BY <3>2, <3>3
  <2>2. QED
    BY <1>11, <2>1 DEF Numbering, L2
<1>16. Listed'
  <2>1. N <= L2
    BY <1>19
  <2>2. ASSUME NEW i \in Ids, ssets'[i].permanent # -1
        PROVE  /\ ssets'[i].permanent \in 0 .. L2 - 1
               /\ lst'[ssets'[i].permanent + 1] = i
    <3> DEFINE q == ssets'[i].permanent
    <3>1. CASE p = -1 /\ i = id
      <4>1. q = L
        BY <1>3, <3>1 DEF L
      <4>2. L2 = L + 1 /\ lst'[L + 1] = id
        BY <1>8, <3>1
      <4>3. q \in 0 .. L2 - 1
        BY <1>19, <4>1, <4>2
      <4>4. QED
        BY <3>1, <4>1, <4>2, <4>3
    <3>2. CASE ~ (p = -1 /\ i = id)
      <4>1. q = ssets[i].permanent
        BY <1>3, <3>2
      <4>2. q \in 0 .. L - 1 /\ lst[q + 1] = i
        BY <1>1, <2>2, <4>1 DEF Listed, L
      <4>3. q + 1 \in 1 .. L /\ q \in 0 .. L2 - 1
        BY <1>19, <4>2
      <4>4. QED
        BY <1>8, <4>2, <4>3
    <3>3. QED
      BY <3>1, <3>2
  <2>3. ASSUME NEW k \in 1 .. L
        PROVE  lst[k] \in Ids /\ ssets'[lst[k]].permanent = k - 1
    <3>1. lst[k] \in Ids /\ ssets[lst[k]].permanent = k - 1
      BY <1>1, <1>6 DEF Listed
    <3>2. p = -1 => lst[k] # id
      <4>1. k - 1 # -1
        BY <1>19
      <4>2. QED
        BY <3>1, <4>1 DEF p
    <3>3. QED
      BY <1>3, <3>1, <3>2
  <2>4. ASSUME NEW k \in DOMAIN lst'
        PROVE  ssets'[lst'[k]].permanent = k - 1
    <3>1. CASE k \in 1 .. L
      BY <1>8, <2>3, <3>1
    <3>2. CASE k \notin 1 .. L
      <4>1. k = L + 1 /\ p = -1
        BY <1>8, <1>19, <2>4, <3>2
      <4>2. ssets'[id].permanent = L /\ lst'[L + 1] = id /\ (L + 1) - 1 = L
        BY <1>3, <1>8, <1>19, <4>1 DEF L
      <4>3. QED
        BY <4>1, <4>2
    <3>3. QED
      BY <3>1, <3>2
  <2>5. ASSUME NEW k \in DOMAIN new_roots
        PROVE  /\ ssets'[lst'[k]].sq # NotCalculated
               /\ \A z \in Rest : /\ new_roots[k][z] < L2
                                  /\ lst'[new_roots[k][z] + 1] = ssets'[lst'[k]].sq[z]
    <3>1. /\ Calculated(lst[k])
          /\ \A z \in Rest : /\ new_roots[k][z] < L
                             /\ lst[new_roots[k][z] + 1] = ssets[lst[k]].sq[z]
      BY <1>1 DEF Listed, L
    <3>2. k \in 1 .. L
      BY <1>6, <1>19
    <3>3. lst[k] \in Ids /\ lst'[k] = lst[k] /\ ssets'[lst[k]].sq = ssets[lst[k]].sq
      BY <1>2, <1>6, <1>8, <3>2 DEF Renumbered
    <3>4. \A z \in Rest : new_roots[k][z] \in Nat
      BY <1>1 DEF Types
    <3>5. \A z \in Rest : new_roots[k][z] + 1 \in 1 .. L /\ new_roots[k][z] < L2
      <4>1. \A n \in Nat : n < L => n \in 0 .. L - 1
        BY <1>19
      <4>2. QED
        BY <1>19, <3>1, <3>4, <4>1
    <3>6. QED
      BY <1>8, <3>1, <3>3, <3>5 DEF Calculated
  <2>6. QED
    BY <1>1, <1>5, <2>1, <2>2, <2>4, <2>5
    DEF Listed, Calculated, NotCalculated, Nothing, L2, N
<1>17. Found'
  <2> SUFFICES ASSUME NEW k \in 2 .. L2
               PROVE  \E j \in 1 .. k - 1, z \in Rest :
                        /\ j <= N + 1
                        /\ ssets'[lst'[k]].elements = Successors(ssets[lst[j]].elements, z)'
    BY <1>1 DEF Found, L2, N
  <2>1. PICK j \in 1 .. k - 1, z \in Rest :
          /\ j \in 1 .. L /\ j <= N + 1 /\ lst'[k] \in Ids
          /\ ssets[lst'[k]].elements = Successors(ssets[lst[j]].elements, z)
    <3>1. CASE k \in 1 .. L
      <4>1. k \in 2 .. L
        BY <1>19, <3>1
      <4>2. PICK j \in 1 .. k - 1, z \in Rest :
              /\ j <= N + 1
              /\ ssets[lst[k]].elements = Successors(ssets[lst[j]].elements, z)
        BY <4>1 DEF IInv, Found, L, N
      <4>5. j \in 1 .. L
        BY <1>19, <3>1, <4>2
      <4>3. j \in 1 .. L /\ lst'[k] = lst[k] /\ lst[k] \in Ids
        BY <1>6, <1>8, <3>1, <4>5
      <4>4. QED
        BY <4>2, <4>3
    <3>2. CASE k \notin 1 .. L
      <4>1. k = L + 1 /\ lst'[k] = id
        <5>1. k \in 1 .. L2
          BY <1>19
        <5>2. QED
          BY <1>8, <1>19, <3>2, <5>1
      <4>2. N + 1 \in 1 .. L /\ N + 1 \in 1 .. k - 1
        BY <1>19, <4>1
      <4>3. N + 1 <= N + 1
        BY <1>19
      <4>4. QED
        BY <1>2, <1>7, <4>1, <4>2, <4>3
    <3>3. QED
      BY <3>1, <3>2
  <2>2. lst'[j] = lst[j] /\ lst[j] \in Ids
    BY <1>6, <1>8, <2>1
  <2>3. /\ ssets'[lst'[k]].elements = ssets[lst'[k]].elements
        /\ ssets'[lst'[j]].elements = ssets[lst[j]].elements
    BY <1>2, <2>1, <2>2 DEF Renumbered
  <2>4. QED
    BY <1>1, <2>1, <2>3 DEF Successors
<1>18. QED
  BY <1>5, <1>12, <1>13, <1>14, <1>15, <1>16, <1>17 DEF IInv

LEMMA VisitNextStep ==
  ASSUME IInv, VisitNext
  PROVE  IInv'
<1> DEFINE L == Len(lst)
           N == Len(new_roots)
<1>1. /\ Visiting /\ stack = << >> /\ DOMAIN bdd = Rest
      /\ new_roots' = Append(new_roots, bdd) /\ bdd' = Nothing
      /\ UNCHANGED <<a, ssets, next_sset, stack, lst, pc>>
  BY DEF VisitNext
<1>2. Types /\ Table /\ Listed /\ pc # "project"
  BY <1>1 DEF IInv, Visiting
<1>3. Table' /\ Ids' = Ids /\ State' = State
  BY <1>1, <1>2, SameTable
<1>4. bdd \in [Rest -> Nat] /\ bdd # Nothing
  BY <1>1, <1>2, NothingIsBdd DEF Types
<1>5. /\ Calculated(Visited)
      /\ \A y \in Rest : bdd[y] < L /\ lst[bdd[y] + 1] = ssets[Visited].sq[y]
  <2>1. /\ Calculated(Visited)
        /\ \A y \in DOMAIN bdd : bdd[y] \in 0 .. L - 1 /\ lst[bdd[y] + 1] = ssets[Visited].sq[y]
    BY <1>1, <1>4 DEF IInv, Numbering
  <2>2. L \in Nat
    BY <1>2 DEF Types
  <2>3. QED
    BY <1>1, <2>1, <2>2
<1>6. /\ N \in Nat /\ L \in Nat /\ N < L /\ Visited = lst[N + 1]
      /\ DOMAIN new_roots = 1 .. N /\ new_roots \in Seq([Rest -> Nat])
  BY <1>1, <1>2 DEF Types, Visiting, Visited
<1>7. /\ new_roots' \in Seq([Rest -> Nat]) /\ Len(new_roots') = N + 1
      /\ DOMAIN new_roots' = 1 .. N + 1
      /\ \A k \in 1 .. N : new_roots'[k] = new_roots[k]
      /\ new_roots'[N + 1] = bdd
  BY <1>1, <1>4, <1>6, AppendValues
<1> HIDE DEF L, N
<1>8. Types'
  BY <1>1, <1>2, <1>3, <1>7, NothingIsBdd DEF Types, IsBdd, Calculated
<1>9. Projecting' /\ Joining' /\ Numbering'
  BY <1>1, <1>2 DEF Projecting, Joining, Numbering
<1>10. Calls'
  <2>1. \A s \in State : Calculated(s)' <=> Calculated(s)
    BY <1>1 DEF Calculated
  <2>2. QED
    BY <1>1, <1>2, <1>3, <2>1 DEF IInv, Calls
<1>11. Listed'
  <2>1. ASSUME NEW k \in DOMAIN new_roots'
        PROVE  /\ ssets[lst[k]].sq # NotCalculated
               /\ \A y \in Rest : /\ new_roots'[k][y] < L
                                  /\ lst[new_roots'[k][y] + 1] = ssets[lst[k]].sq[y]
    <3>1. CASE k = N + 1
      BY <1>5, <1>6, <1>7, <3>1 DEF Calculated
    <3>2. CASE k # N + 1
      <4>1. k \in 1 .. N
        BY <1>6, <1>7, <2>1, <3>2
      <4>2. QED
        BY <1>2, <1>6, <1>7, <4>1 DEF Listed, Calculated, L
    <3>3. QED
      BY <3>1, <3>2
  <2>2. Len(new_roots') <= L
    BY <1>6, <1>7
  <2>3. QED
    BY <1>1, <1>2, <1>3, <2>1, <2>2 DEF Listed, Calculated, NotCalculated, Nothing, L
<1>12. Found'
  <2> SUFFICES ASSUME NEW k \in 2 .. Len(lst)
               PROVE  \E j \in 1 .. k - 1, z \in Rest :
                        /\ j <= N + 2
                        /\ ssets[lst[k]].elements = Successors(ssets[lst[j]].elements, z)'
    BY <1>1, <1>6, <1>7 DEF Found
  <2>1. PICK j \in 1 .. k - 1, z \in Rest :
          /\ j <= N + 1
          /\ ssets[lst[k]].elements = Successors(ssets[lst[j]].elements, z)
    BY DEF IInv, Found, N
  <2>2. j <= N + 2
    BY <1>6, <2>1
  <2>3. QED
    BY <1>1, <2>1, <2>2 DEF Successors
<1>13. QED
  BY <1>3, <1>8, <1>9, <1>10, <1>11, <1>12 DEF IInv

(* The other steps change nothing that the invariant reads, but pc.         *)
LEMMA SameStep ==
  ASSUME IInv, UNCHANGED <<a, ssets, next_sset, stack, bdd, lst, new_roots>>,
         pc' = pc \/ (pc' = "done" /\ ~ Visiting /\ pc # "project")
  PROVE  IInv'
<1>1. Types /\ Table
  BY DEF IInv
<1>2. Table' /\ Ids' = Ids /\ State' = State
  BY <1>1, SameTable
<1>3. \A id : Calculated(id)' <=> ssets[id].sq # NotCalculated
  BY DEF Calculated, NotCalculated, Nothing
<1>4. Types'
  BY <1>1, <1>2 DEF Types, IsBdd, Calculated
<1>5. Listed' /\ Found'
  BY SameListed, SameFound DEF IInv
<1>6. \A S, y : Successors(S, y)' = Successors(S, y)
  BY DEF Successors
<1>7. CASE pc' = pc
  <2>1. (Visiting' <=> Visiting) /\ Visited' = Visited /\ Top' = Top
    BY <1>7 DEF Visiting, Visited, Top
  <2>2. Missing' = Missing
    BY DEF Missing, Top, Calculated, NotCalculated, Nothing
  <2>3. Projecting' /\ Calls'
    BY <1>2, <1>7, <2>1 DEF IInv, Projecting, Calls, Calculated
  <2>4. Joining'
    BY <1>2, <1>6, <1>7, <2>1, <2>2 DEF IInv, Joining
  <2>5. Numbering'
    BY <1>7, <2>1 DEF IInv, Numbering, Calculated
  <2>6. QED
    BY <1>2, <1>4, <1>5, <2>3, <2>4, <2>5 DEF IInv
<1>8. CASE pc' = "done" /\ ~ Visiting /\ pc # "project"
  <2>1. stack = << >> /\ bdd = Nothing
    BY <1>8 DEF IInv, Calls, Numbering
  <2>2. Projecting' /\ Joining' /\ Numbering'
    BY <1>8, <2>1 DEF Projecting, Joining, Numbering
  <2>3. Calls'
    BY <1>2, <1>8, <2>1 DEF IInv, Calls, Calculated
  <2>4. QED
    BY <1>2, <1>4, <1>5, <2>2, <2>3 DEF IInv
<1>9. QED
  BY <1>7, <1>8

LEMMA InitInvariant == Init => IInv
<1> SUFFICES ASSUME Init
             PROVE  IInv
  OBVIOUS
<1>1. /\ a \in MonaDfas /\ NbStates \in Nat \ {0} /\ next_sset = NbStates
      /\ ssets = [s \in State |-> sset({s}, -1, -1)] /\ stack = <<0>> /\ bdd = Nothing
      /\ lst = << >> /\ new_roots = << >> /\ pc = "project"
  BY InputAssumption DEF Init
<1>2. Ids = State /\ 0 \in State
  BY <1>1 DEF Ids, State
<1>3. \A s \in State : /\ sset({s}, -1, -1) \in SSet
                       /\ ssets[s].elements = {s} /\ ssets[s].sq = NotCalculated
                       /\ ssets[s].decomp1 = -1 /\ ssets[s].decomp2 = -1
                       /\ ssets[s].permanent = -1
  BY <1>1 DEF sset, SSet, NotCalculated
<1>4. \A s \in State : ~ Calculated(s)
  BY <1>3 DEF Calculated
<1>5. Types
  <2>1. ssets \in [Ids -> SSet]
    BY <1>1, <1>2, <1>3
  <2>2. stack \in Seq(Ids) /\ lst \in Seq(Ids) /\ new_roots \in Seq([Rest -> Nat])
    BY <1>1, <1>2
  <2>3. QED
    BY <1>1, <1>2, <1>3, <1>4, <2>1, <2>2, NothingIsBdd DEF Types
<1>6. Table
  BY <1>2, <1>3, <1>4 DEF Table, HashConsed, BddsAreUnions
<1>7. Projecting /\ Calls
  <2>1. \A s \in 0 .. stack[1] - 1 : FALSE
    BY <1>1
  <2>2. QED
    BY <1>1, <1>2, <1>3, <2>1 DEF Projecting, Calls
<1>8. Joining /\ Numbering
  BY <1>1, NothingIsBdd DEF Joining, Numbering
<1>9. Listed /\ Found
  <2>1. Len(lst) = 0 /\ Len(new_roots) = 0 /\ DOMAIN lst = {} /\ DOMAIN new_roots = {}
    BY <1>1
  <2>2. Listed
    <3>1. \A id \in Ids : ssets[id].permanent = -1
      BY <1>2, <1>3
    <3>2. Len(new_roots) <= Len(lst)
      BY <2>1
    <3>3. \A k \in DOMAIN lst : FALSE
      BY <2>1
    <3>4. \A k \in DOMAIN new_roots : FALSE
      BY <2>1
    <3>5. QED
      BY <3>1, <3>2, <3>3, <3>4 DEF Listed
  <2>3. \A k \in 2 .. Len(lst) : FALSE
    BY <2>1
  <2>4. QED
    BY <2>2, <2>3 DEF Found
<1>10. QED
  BY <1>5, <1>6, <1>7, <1>8, <1>9 DEF IInv

LEMMA NextInvariant == IInv /\ [Next]_vars => IInv'
<1> SUFFICES ASSUME IInv, [Next]_vars
             PROVE  IInv'
  OBVIOUS
<1>1. CASE \E y \in Rest : Join(y)
  BY <1>1, JoinStep
<1>2. CASE \E y \in Rest : Number(y)
  BY <1>2, NumberStep
<1>3. CASE Complete
  BY <1>3, CompleteStep
<1>4. CASE Evaluate
  BY <1>4, EvaluateStep
<1>5. CASE Recur
  BY <1>5, RecurStep
<1>6. CASE VisitNext
  BY <1>6, VisitNextStep
<1>7. CASE Return
  <2>1. ~ Visiting /\ pc # "project"
    BY <1>7 DEF Return, Visiting, IInv, Types
  <2>2. QED
    BY <1>7, <2>1, SameStep DEF Return
<1>8. CASE UNCHANGED vars
  BY <1>8, SameStep DEF vars
<1>9. QED
  BY <1>1, <1>2, <1>3, <1>4, <1>5, <1>6, <1>7, <1>8 DEF Next

(* Whatever order MONA calls back in, the invariant holds.                  *)
THEOREM Invariance == Spec => []IInv
<1>1. Init => IInv
  BY InitInvariant
<1>2. IInv /\ [Next]_vars => IInv'
  BY NextInvariant
<1>3. QED
  BY <1>1, <1>2, PTL DEF Spec

(* The table, the stack and the list hold what their types say, and every   *)
(* set of the table is non-empty (project.cpp 52-83).                       *)
THEOREM TypeCorrect == Spec => []TypeOK
<1>1. IInv => TypeOK
  <2> SUFFICES ASSUME IInv
               PROVE  TypeOK
    OBVIOUS
  <2>1. Types /\ Table
    BY DEF IInv
  <2>2. ASSUME NEW id \in Ids
        PROVE  ssets[id] \in [elements : SUBSET State, sq : {ssets[i].sq : i \in Ids},
                              decomp1 : Ids \union {-1}, decomp2 : Ids \union {-1},
                              permanent : Int]
    <3>1. ssets[id] \in SSet
      BY <2>1 DEF Types
    <3>2. /\ ssets[id].decomp1 \in Ids \union {-1}
          /\ ssets[id].decomp2 \in Ids \union {-1}
      <4>1. CASE id \in State
        BY <2>1, <4>1 DEF Table
      <4>2. CASE id \notin State
        BY <2>1, <4>2 DEF Table, Decomposed, Ids, Types
      <4>3. QED
        BY <4>1, <4>2
    <3>3. QED
      BY <3>1, <3>2 DEF SSet
  <2>3. ASSUME NEW id \in Ids
        PROVE  IsBdd(ssets[id].sq, Ids)
    <3>1. CASE Calculated(id)
      BY <2>1, <3>1 DEF Types, IsBdd
    <3>2. CASE ~ Calculated(id)
      BY <3>2 DEF Calculated, NotCalculated, Nothing, IsBdd
    <3>3. QED
      BY <3>1, <3>2
  <2>4. ssets \in [Ids -> [elements : SUBSET State, sq : {ssets[i].sq : i \in Ids},
                           decomp1 : Ids \union {-1}, decomp2 : Ids \union {-1},
                           permanent : Int]]
    BY <2>1, <2>2 DEF Types
  <2>5. QED
    BY <2>1, <2>3, <2>4 DEF TypeOK, Types
<1>2. QED
  BY <1>1, Invariance, PTL

(* The table never holds a set twice, so that a set of states is one state  *)
(* of the result (project.cpp 117-125, 160-168).                            *)
THEOREM TableIsHashConsed == Spec => []HashConsed
<1>1. IInv => HashConsed
  BY DEF IInv, Table
<1>2. QED
  BY <1>1, Invariance, PTL

(* eval_bdd recurs into older sets only, and never into the -1 of a         *)
(* singleton (project.cpp 184-196).                                         *)
THEOREM EvaluationDescends == Spec => []RecursionDescends
<1>1. IInv => RecursionDescends
  <2> SUFFICES ASSUME IInv
               PROVE  RecursionDescends
    OBVIOUS
  <2>1. \A id \in Ids \ State : Decomposed(id)
    BY DEF IInv, Table
  <2>2. ASSUME NEW n \in 1 .. Len(stack) - 1
        PROVE  stack[n + 1] \in {ssets[stack[n]].decomp1, ssets[stack[n]].decomp2}
    BY DEF IInv, Projecting, Calls
  <2>3. ASSUME NEW n \in DOMAIN stack, pc = "visit"
        PROVE  stack[n] \notin State /\ ~ Calculated(stack[n])
    BY <2>3 DEF IInv, Calls
  <2>4. QED
    BY <2>1, <2>2, <2>3 DEF RecursionDescends, Decomposed
<1>2. QED
  BY <1>1, Invariance, PTL

(* A BDD that is calculated leads to the successors of all the states of    *)
(* its set, however the set was decomposed (project.cpp 176-210).           *)
THEOREM CalculatedBdds == Spec => []BddsAreUnions
<1>1. IInv => BddsAreUnions
  BY DEF IInv, Table
<1>2. QED
  BY <1>1, Invariance, PTL

LEMMA RootsLead ==
  ASSUME IInv, NEW k \in DOMAIN new_roots, NEW y \in Rest
  PROVE  /\ new_roots[k][y] \in 0 .. Len(lst) - 1
         /\ ssets[lst[new_roots[k][y] + 1]].elements = Successors(ssets[lst[k]].elements, y)
<1>1. Types /\ Table /\ Listed
  BY DEF IInv
<1>2. /\ Calculated(lst[k]) /\ new_roots[k][y] < Len(lst)
      /\ lst[new_roots[k][y] + 1] = ssets[lst[k]].sq[y]
  BY <1>1 DEF Listed
<1>3. new_roots[k][y] \in Nat /\ Len(lst) \in Nat /\ k \in DOMAIN lst
  BY <1>1 DEF Types, Listed
<1>4. lst[k] \in Ids
  BY <1>1, <1>3, Members
<1>5. QED
  BY <1>1, <1>2, <1>3, <1>4 DEF Table, BddsAreUnions

(* permanent and the position in the list agree, and the roots lead to      *)
(* positions of the list (project.cpp 258-277).                             *)
THEOREM NumbersArePositions == Spec => []ListIsNumbered
<1>1. IInv => ListIsNumbered
  <2> SUFFICES ASSUME IInv
               PROVE  ListIsNumbered
    OBVIOUS
  <2>1. /\ \A id \in Ids : LET p == ssets[id].permanent
                           IN  p # -1 => p \in 0 .. Len(lst) - 1 /\ lst[p + 1] = id
        /\ \A k \in DOMAIN lst : ssets[lst[k]].permanent = k - 1
    BY DEF IInv, Listed
  <2>2. ASSUME NEW k \in DOMAIN new_roots, NEW y \in Rest
        PROVE  /\ new_roots[k][y] < Len(lst)
               /\ ssets[lst[new_roots[k][y] + 1]].elements
                    = Successors(ssets[lst[k]].elements, y)
    BY <2>2, RootsLead DEF IInv, Listed
  <2>3. QED
    BY <2>1, <2>2 DEF ListIsNumbered, next_state
<1>2. QED
  BY <1>1, Invariance, PTL

-----------------------------------------------------------------------------
(* The projection implements the subset construction.                       *)

Explored == {ssets[lst[k]].elements : k \in DOMAIN new_roots} \X Rest
SuccessorMap == [S \in (SUBSET State) \ {{}} |-> [y \in Rest |-> Successors(S, y)]]

LEMMA ReachedIs ==
  Construction!Reached = {{a.s}} \union {SuccessorMap[p[1]][p[2]] : p \in Explored}
  BY DEF Construction!Reached, Explored, SuccessorMap

LEMMA InitImplements == Init => Construction!Init
<1> SUFFICES ASSUME Init
             PROVE  Construction!Init
  OBVIOUS
<1>1. DOMAIN new_roots = {} /\ pc = "project"
  BY DEF Init
<1>2. QED
  BY <1>1 DEF Construction!Init

LEMMA SameExplored ==
  ASSUME a' = a, new_roots' = new_roots, pc' = "done" <=> pc = "done",
         \A k \in DOMAIN new_roots : ssets'[lst'[k]].elements = ssets[lst[k]].elements
  PROVE  UNCHANGED Construction!vars
<1>1. Explored' = Explored
  BY DEF Explored
<1>2. SuccessorMap' = SuccessorMap /\ (pc = "done")' = (pc = "done")
  BY DEF SuccessorMap, Successors, State
<1>3. QED
  BY <1>1, <1>2 DEF Construction!vars, Explored, SuccessorMap

(* A set of the list and its successors.                                    *)
LEMMA ListMembers ==
  ASSUME IInv, NEW k \in DOMAIN lst
  PROVE  /\ lst[k] \in Ids
         /\ ssets[lst[k]].elements \in (SUBSET State) \ {{}}
         /\ \A y \in Rest : SuccessorMap[ssets[lst[k]].elements][y]
                              = Successors(ssets[lst[k]].elements, y)
<1>1. lst[k] \in Ids /\ Types
  BY Members DEF IInv
<1>2. ssets[lst[k]].elements \in (SUBSET State) \ {{}}
  BY <1>1 DEF Types, SSet
<1>3. QED
  BY <1>1, <1>2 DEF SuccessorMap

LEMMA VisitExplores ==
  ASSUME IInv, VisitNext
  PROVE  \E S \in Construction!Reached, symbols \in SUBSET Rest :
           Construction!Explore(S, symbols)
<1> DEFINE S == ssets[Visited].elements
           N == Len(new_roots)
<1>1. /\ Visiting /\ DOMAIN bdd = Rest /\ new_roots' = Append(new_roots, bdd)
      /\ UNCHANGED <<a, ssets, next_sset, stack, lst, pc>>
      /\ Types /\ pc = "visit"
  BY DEF VisitNext, IInv, Visiting
<1>2. N \in Nat /\ Visited = lst[N + 1] /\ N + 1 \in DOMAIN lst
      /\ DOMAIN new_roots = 1 .. N /\ DOMAIN new_roots' = 1 .. N + 1
      /\ DOMAIN lst = 1 .. Len(lst)
  <2>1. bdd \in [Rest -> Nat]
    BY <1>1, NothingIsBdd DEF Types
  <2>2. new_roots \in Seq([Rest -> Nat]) /\ lst \in Seq(Ids)
    BY <1>1 DEF Types
  <2>3. /\ N \in Nat /\ DOMAIN new_roots = 1 .. N /\ DOMAIN new_roots' = 1 .. N + 1
    BY <1>1, <2>1, <2>2, AppendValues
  <2>4. DOMAIN lst = 1 .. Len(lst) /\ N + 1 \in DOMAIN lst /\ Visited = lst[N + 1]
    BY <1>1, <2>2, Members DEF Visited
  <2>5. QED
    BY <2>3, <2>4
<1>3. Explored' = Explored \union ({S} \X Rest)
  <2>1. \A k \in 1 .. N + 1 : k \in 1 .. N \/ k = N + 1
    BY <1>2
  <2>2. \A k \in 1 .. N : k \in 1 .. N + 1
    BY <1>2
  <2>3. N + 1 \in 1 .. N + 1
    BY <1>2
  <2>4. {ssets[lst[k]].elements : k \in 1 .. N + 1}
          = {ssets[lst[k]].elements : k \in 1 .. N} \union {S}
    BY <1>2, <2>1, <2>2, <2>3
  <2>5. Explored' = {ssets[lst[k]].elements : k \in 1 .. N + 1} \X Rest
    BY <1>1, <1>2 DEF Explored
  <2>6. Explored = {ssets[lst[k]].elements : k \in 1 .. N} \X Rest
    BY <1>2 DEF Explored
  <2>7. QED
    BY <2>4, <2>5, <2>6
<1>4. S \in Construction!Reached
  <2>1. CASE N = 0
    <3>1. Visited = a.s /\ a.s \in State
      BY <1>1, <1>2, <2>1 DEF IInv, Calls, Types, MonaDfas
    <3>2. S = {a.s}
      BY <3>1 DEF IInv, Table
    <3>3. QED
      BY <3>2, ReachedIs
  <2>2. CASE N # 0
    <3>1. N + 1 \in 2 .. Len(lst)
      BY <1>2, <2>2
    <3>2. PICK j \in 1 .. (N + 1) - 1, y \in Rest :
            S = Successors(ssets[lst[j]].elements, y)
      BY <1>2, <3>1 DEF IInv, Found
    <3>3. j \in 1 .. N /\ j \in DOMAIN lst
      BY <1>2, <3>2
    <3>4. <<ssets[lst[j]].elements, y>> \in Explored
      BY <1>2, <3>3 DEF Explored
    <3>5. SuccessorMap[ssets[lst[j]].elements][y] = S
      BY <3>2, <3>3, ListMembers
    <3>6. \E p \in Explored : SuccessorMap[p[1]][p[2]] = S
      BY <3>4, <3>5
    <3>7. QED
      BY <3>6, ReachedIs
  <2>3. QED
    BY <2>1, <2>2
<1>5. SuccessorMap' = SuccessorMap /\ (pc = "done")' = (pc = "done")
  BY <1>1 DEF SuccessorMap, Successors, State
<1>6. Construction!Explore(S, Rest)
  BY <1>1, <1>3, <1>4, <1>5 DEF Construction!Explore, Explored, SuccessorMap
<1>7. QED
  BY <1>4, <1>6

LEMMA ReturnFinishes ==
  ASSUME IInv, Return
  PROVE  Construction!Finish
<1>1. /\ Len(new_roots) = Len(lst) /\ pc = "visit" /\ pc' = "done"
      /\ UNCHANGED <<a, ssets, next_sset, stack, bdd, lst, new_roots>>
      /\ Types
  BY DEF Return, IInv
<1>2. DOMAIN new_roots = 1 .. Len(lst) /\ DOMAIN lst = 1 .. Len(lst) /\ Len(lst) \in Nat
  BY <1>1 DEF Types
<1>3. ASSUME NEW k \in 1 .. Len(lst), NEW x \in Rest
      PROVE  <<ssets[lst[k]].elements, x>> \in Explored
  BY <1>2, <1>3 DEF Explored
<1>4. ASSUME NEW x \in Rest
      PROVE  <<{a.s}, x>> \in Explored
  <2>1. lst # << >> /\ lst[1] = a.s /\ a.s \in State
    BY <1>1 DEF IInv, Calls, Types, MonaDfas
  <2>2. 1 \in 1 .. Len(lst) /\ ssets[lst[1]].elements = {a.s}
    BY <1>1, <1>2, <2>1 DEF IInv, Table, Types
  <2>3. QED
    BY <1>3, <2>2
<1>5. ASSUME NEW p \in Explored, NEW x \in Rest
      PROVE  <<SuccessorMap[p[1]][p[2]], x>> \in Explored
  <2>1. PICK k \in DOMAIN new_roots, y \in Rest : p = <<ssets[lst[k]].elements, y>>
    BY DEF Explored
  <2>2. SuccessorMap[p[1]][p[2]] = Successors(ssets[lst[k]].elements, y)
    BY <1>2, <2>1, ListMembers
  <2>3. /\ new_roots[k][y] \in 0 .. Len(lst) - 1
        /\ ssets[lst[new_roots[k][y] + 1]].elements = Successors(ssets[lst[k]].elements, y)
    BY RootsLead
  <2>4. new_roots[k][y] + 1 \in 1 .. Len(lst)
    BY <1>2, <2>3
  <2>5. QED
    BY <1>3, <2>2, <2>3, <2>4
<1>6. (Construction!Reached \ {{}}) \X Rest \subseteq Explored
  BY <1>4, <1>5, ReachedIs
<1>7. Explored' = Explored /\ SuccessorMap' = SuccessorMap /\ (pc = "done")' = TRUE
      /\ {a.s}' = {a.s}
  BY <1>1 DEF Explored, SuccessorMap, Successors, State
<1>8. QED
  BY <1>6, <1>7 DEF Construction!Finish, Explored, SuccessorMap

LEMMA StepImplements == IInv /\ [Next]_vars => [Construction!Next]_Construction!vars
<1> SUFFICES ASSUME IInv, [Next]_vars
             PROVE  [Construction!Next]_Construction!vars
  OBVIOUS
<1>1. /\ \A k \in DOMAIN lst : lst[k] \in Ids
      /\ \A k \in DOMAIN new_roots : k \in DOMAIN lst
  BY Members DEF IInv, Listed, Types
<1>2. ASSUME NEW y \in Rest, Join(y)
      PROVE  UNCHANGED Construction!vars
  <2>1. a' = a /\ new_roots' = new_roots /\ pc' = pc /\ lst' = lst
    BY <1>2 DEF Join
  <2>2. \A id \in Ids : ssets'[id] = ssets[id]
    BY <1>2, JoinEffect DEF Grown
  <2>3. QED
    BY <1>1, <2>1, <2>2, SameExplored
<1>3. ASSUME NEW y \in Rest, Number(y)
      PROVE  UNCHANGED Construction!vars
  <2>1. a' = a /\ new_roots' = new_roots /\ pc' = pc
    BY <1>3 DEF Number
  <2>2. Renumbered /\ (lst' = lst \/ \E id \in Ids : lst' = Append(lst, id))
    BY <1>3, NumberEffect
  <2>3. \A k \in DOMAIN lst : lst'[k] = lst[k]
    <3>1. lst \in Seq(Ids)
      BY DEF IInv, Types
    <3>2. ASSUME NEW id \in Ids, lst' = Append(lst, id)
          PROVE  \A k \in DOMAIN lst : lst'[k] = lst[k]
      BY <3>1, <3>2, AppendValues
    <3>3. QED
      BY <2>2, <3>2
  <2>4. QED
    BY <1>1, <2>1, <2>2, <2>3, SameExplored DEF Renumbered
<1>4. CASE Complete
  <2>1. /\ Filled /\ a' = a /\ new_roots' = new_roots
        /\ CompleteStates => pc' = "visit"
        /\ ~ CompleteStates => lst' = lst /\ pc' = pc
    BY <1>4, CompleteEffect
  <2>2. CompleteStates => pc = "project" /\ DOMAIN new_roots = {}
    BY DEF CompleteStates, IInv, Projecting
  <2>3. \A k \in DOMAIN new_roots : ssets'[lst'[k]].elements = ssets[lst[k]].elements
    BY <1>1, <2>1, <2>2 DEF Filled
  <2>4. QED
    BY <2>1, <2>2, <2>3, SameExplored
<1>5. CASE Evaluate
  BY <1>5, SameExplored DEF Evaluate
<1>6. CASE Recur
  BY <1>6, SameExplored DEF Recur
<1>7. CASE VisitNext
  BY <1>7, VisitExplores DEF Construction!Next
<1>8. CASE Return
  BY <1>8, ReturnFinishes DEF Construction!Next
<1>9. CASE UNCHANGED vars
  BY <1>9, SameExplored DEF vars
<1>10. QED
  BY <1>2, <1>3, <1>4, <1>5, <1>6, <1>7, <1>8, <1>9 DEF Next

(* The projection implements the subset construction: it visits only sets   *)
(* it has reached, and returns only when it has visited them all            *)
(* (project.cpp 222-256).                                                   *)
THEOREM Refinement == Spec => ImplementsSubsetConstruction
<1>1. Init => Construction!Init
  BY InitImplements
<1>2. IInv /\ [Next]_vars => [Construction!Next]_Construction!vars
  BY StepImplements
<1>3. QED
  BY <1>1, <1>2, Invariance, PTL DEF Spec, ImplementsSubsetConstruction, Construction!Spec

-----------------------------------------------------------------------------
(* The language.  What dfaUniversalProject returns, once it has returned.   *)
Returned ==
  pc = "done" =>
    /\ Len(new_roots) = Len(lst)
    /\ res = [q |-> [k \in 0 .. next_state - 1 |-> new_roots[k + 1]],
              f |-> [k \in 0 .. next_state - 1 |-> status(ssets[lst[k + 1]].elements)],
              s |-> ssets[a.s].permanent]

LEMMA ReturnedInit == Init => Returned
  BY DEF Init, Returned

LEMMA ReturnedStep == IInv /\ Returned /\ [Next]_vars => Returned'
<1> SUFFICES ASSUME IInv, Returned, [Next]_vars PROVE Returned'
  OBVIOUS
<1>1. stack # << >> => Visiting \/ pc = "project"
  BY DEF IInv, Calls
<1>2. ASSUME NEW y \in Rest, Join(y) PROVE pc' # "done"
  BY <1>1, <1>2 DEF Join, Ready, Visiting
<1>3. ASSUME NEW y \in Rest, Number(y) PROVE pc' # "done"
  BY <1>3 DEF Number, Visiting
<1>4. CASE Complete
  BY <1>1, <1>4 DEF Complete, Ready, Visiting, Returned
<1>5. CASE Evaluate
  BY <1>5 DEF Evaluate, Visiting, Returned
<1>6. CASE Recur
  BY <1>6 DEF Recur, Visiting, Returned
<1>7. CASE VisitNext
  BY <1>7 DEF VisitNext, Visiting, Returned
<1>8. CASE Return
  BY <1>8 DEF Return, Returned, next_state, status
<1>9. CASE UNCHANGED vars
  BY <1>9 DEF vars, Returned, next_state, status
<1>10. QED
  BY <1>2, <1>3, <1>4, <1>5, <1>6, <1>7, <1>8, <1>9 DEF Next, Returned

LEMMA WordLetters ==
  ASSUME NEW word \in Words
  PROVE  Len(word) \in Nat /\ \A i \in 1 .. Len(word) : word[i] \in Rest
<1>1. PICK n \in 0 .. MaxWord : word \in [1 .. n -> Rest]
  BY DEF Words
<1>2. n \in Nat /\ Len(word) = n
  BY <1>1, InputAssumption
<1>3. QED
  BY <1>1, <1>2

(* The states in which the runs of n steps end.                             *)
EndsOf(word, n) == {run[n] : run \in Runs(word, n)}

LEMMA EndsStart ==
  ASSUME a \in MonaDfas, NEW word
  PROVE  EndsOf(word, 0) = {a.s}
<1>1. a.s \in State
  BY DEF MonaDfas
<1>2. ASSUME NEW run \in Runs(word, 0) PROVE run[0] = a.s
  BY DEF Runs
<1> DEFINE r == [i \in 0 .. 0 |-> a.s]
<1>3. r \in Runs(word, 0) /\ r[0] = a.s
  BY <1>1 DEF Runs
<1> HIDE DEF r
<1>4. QED
  BY <1>2, <1>3 DEF EndsOf

LEMMA EndsStep ==
  ASSUME a \in MonaDfas, NEW word, NEW n \in Nat, word[n + 1] \in Rest
  PROVE  EndsOf(word, n + 1) = Successors(EndsOf(word, n), word[n + 1])
<1> DEFINE y == word[n + 1]
<1>1. ASSUME NEW v \in EndsOf(word, n + 1) PROVE v \in Successors(EndsOf(word, n), y)
  <2>1. PICK run \in Runs(word, n + 1) : run[n + 1] = v
    BY DEF EndsOf
  <2>2. /\ run \in [0 .. n + 1 -> State] /\ run[0] = a.s
        /\ \A i \in 1 .. n + 1 : \E b \in BOOLEAN : run[i] = a.q[run[i - 1]][b][word[i]]
    BY DEF Runs
  <2> DEFINE prefix == [i \in 0 .. n |-> run[i]]
  <2>3. prefix \in [0 .. n -> State] /\ prefix[0] = a.s /\ prefix[n] = run[n]
    BY <2>2
  <2>4. ASSUME NEW i \in 1 .. n
        PROVE  \E b \in BOOLEAN : prefix[i] = a.q[prefix[i - 1]][b][word[i]]
    <3>1. i \in 1 .. n + 1 /\ prefix[i] = run[i] /\ prefix[i - 1] = run[i - 1]
      OBVIOUS
    <3>2. QED
      BY <2>2, <3>1
  <2> HIDE DEF prefix
  <2>5. prefix \in Runs(word, n)
    BY <2>3, <2>4 DEF Runs
  <2>6. run[n] \in EndsOf(word, n)
    BY <2>3, <2>5 DEF EndsOf
  <2>7. PICK b \in BOOLEAN : run[n + 1] = a.q[run[n]][b][y]
    <3>1. n + 1 \in 1 .. n + 1 /\ (n + 1) - 1 = n
      OBVIOUS
    <3>2. QED
      BY <2>2, <3>1
  <2>8. QED
    BY <2>1, <2>6, <2>7, SuccessorsMembers
<1>2. ASSUME NEW v \in Successors(EndsOf(word, n), y) PROVE v \in EndsOf(word, n + 1)
  <2>1. PICK s \in EndsOf(word, n), b \in BOOLEAN : v = a.q[s][b][y]
    BY SuccessorsMembers
  <2>2. PICK run \in Runs(word, n) : run[n] = s
    BY DEF EndsOf
  <2>3. /\ run \in [0 .. n -> State] /\ run[0] = a.s
        /\ \A i \in 1 .. n : \E c \in BOOLEAN : run[i] = a.q[run[i - 1]][c][word[i]]
    BY DEF Runs
  <2>4. v \in State
    <3>1. s \in State /\ y \in Rest
      BY <2>2, <2>3
    <3> HIDE DEF y
    <3>2. QED
      BY <2>1, <3>1 DEF MonaDfas
  <2> DEFINE longer == [i \in 0 .. n + 1 |-> IF i = n + 1 THEN v ELSE run[i]]
  <2>5. longer \in [0 .. n + 1 -> State] /\ longer[0] = a.s /\ longer[n + 1] = v
    BY <2>3, <2>4
  <2>6. ASSUME NEW i \in 1 .. n + 1
        PROVE  \E c \in BOOLEAN : longer[i] = a.q[longer[i - 1]][c][word[i]]
    <3>1. longer[i - 1] = run[i - 1]
      OBVIOUS
    <3>2. CASE i = n + 1
      <4>1. longer[i] = v /\ longer[i - 1] = s /\ word[i] = y
        BY <2>2, <2>5, <3>1, <3>2
      <4> HIDE DEF longer, y
      <4>2. QED
        BY <2>1, <4>1
    <3>3. CASE i \in 1 .. n
      <4>1. longer[i] = run[i]
        BY <3>3
      <4>2. QED
        BY <2>3, <3>1, <3>3, <4>1
    <3>4. QED
      BY <3>2, <3>3
  <2> HIDE DEF longer
  <2>7. longer \in Runs(word, n + 1)
    BY <2>5, <2>6 DEF Runs
  <2>8. QED
    BY <2>5, <2>7 DEF EndsOf
<1>3. QED
  BY <1>1, <1>2

(* The numbers along a word, in the result.                                 *)
LEMMA NumbersLoop ==
  ASSUME NEW word, NEW l \in Nat, Len(word) = l, NEW L \in Nat,
         res.s \in 0 .. L - 1,
         \A k \in 0 .. L - 1, i \in 1 .. l : res.q[k][word[i]] \in 0 .. L - 1
  PROVE  /\ numbers_along(word)[0] = res.s
         /\ \A i \in 1 .. l :
              numbers_along(word)[i] = res.q[numbers_along(word)[i - 1]][word[i]]
<1> DEFINE succ(k, i) == res.q[k][word[i]]
<1> DEFINE Body(h) == [i \in 0 .. l |-> IF i = 0 THEN res.s ELSE succ(h[i - 1], i)]
<1> DEFINE step == [i \in 1 .. l |-> [k \in 0 .. L - 1 |-> succ(k, i)]]
<1>1. step \in Rounds(l, 0 .. L - 1)
  BY DEF Rounds
<1>2. numbers_along(word) = CHOOSE g : g = Body(g)
  BY DEF numbers_along
<1> HIDE DEF succ
<1>3. \A i \in 1 .. l, k \in 0 .. L - 1 : step[i][k] = succ(k, i)
  OBVIOUS
<1> HIDE DEF step
<1>4. PICK h : h \in [0 .. l -> 0 .. L - 1] /\ Computes(h, l, res.s, step)
  BY <1>1, LoopExists
<1>5. h = Body(h)
  <2>1. ASSUME NEW i \in 1 .. l PROVE h[i] = succ(h[i - 1], i)
    <3>1. h[i - 1] \in 0 .. L - 1
      BY <1>4
    <3>2. QED
      BY <1>3, <1>4, <3>1 DEF Computes
  <2>2. QED
    BY <1>4, <2>1 DEF Computes
<1> DEFINE along == numbers_along(word)
<1>6. along = Body(along)
  <2> HIDE DEF Body
  <2>1. QED
    BY <1>2, <1>5
<1> HIDE DEF along
<1>7. along[0] = res.s /\ \A i \in 1 .. l : along[i] = succ(along[i - 1], i)
  BY <1>6
<1>8. QED
  BY <1>7 DEF along, succ

(* Along a word, the numbers are those of the sets of the states in which   *)
(* the runs end.                                                            *)
IsNumberOf(k, S) == k \in 0 .. Len(lst) - 1 /\ ssets[lst[k + 1]].elements = S

LEMMA ResultFacts ==
  ASSUME IInv, Returned, pc = "done"
  PROVE  /\ Len(lst) \in Nat
         /\ IsNumberOf(res.s, {a.s})
         /\ \A k \in 0 .. Len(lst) - 1 :
              /\ res.f[k] = status(ssets[lst[k + 1]].elements)
              /\ \A y \in Rest :
                   IsNumberOf(res.q[k][y], Successors(ssets[lst[k + 1]].elements, y))
<1>1. /\ Len(new_roots) = Len(lst)
      /\ res = [q |-> [k \in 0 .. Len(lst) - 1 |-> new_roots[k + 1]],
                f |-> [k \in 0 .. Len(lst) - 1 |-> status(ssets[lst[k + 1]].elements)],
                s |-> ssets[a.s].permanent]
  BY DEF Returned, next_state
<1>2. lst \in Seq(Ids) /\ new_roots \in Seq([Rest -> Nat]) /\ a.s \in State /\ lst # << >>
      /\ lst[1] = a.s
  BY DEF IInv, Types, MonaDfas, Calls
<1>3. /\ Len(lst) \in Nat /\ Len(lst) # 0 /\ DOMAIN lst = 1 .. Len(lst)
      /\ DOMAIN new_roots = 1 .. Len(lst)
  BY <1>1, <1>2
<1>4. IsNumberOf(res.s, {a.s})
  <2>1. 1 \in DOMAIN lst /\ 0 \in 0 .. Len(lst) - 1 /\ 0 + 1 = 1
    BY <1>3
  <2>2. ssets[lst[1]].permanent = 0
    BY <2>1 DEF IInv, Listed
  <2>3. res.s = 0
    BY <1>1, <1>2, <2>2
  <2>4. ssets[a.s].elements = {a.s}
    BY <1>2 DEF IInv, Table
  <2>5. QED
    BY <1>2, <2>1, <2>3, <2>4 DEF IsNumberOf
<1>5. ASSUME NEW k \in 0 .. Len(lst) - 1, NEW y \in Rest
      PROVE  IsNumberOf(res.q[k][y], Successors(ssets[lst[k + 1]].elements, y))
  <2>1. k + 1 \in DOMAIN new_roots /\ res.q[k] = new_roots[k + 1]
    BY <1>1, <1>3
  <2>2. QED
    BY <2>1, RootsLead DEF IsNumberOf
<1>6. ASSUME NEW k \in 0 .. Len(lst) - 1
      PROVE  res.f[k] = status(ssets[lst[k + 1]].elements)
  BY <1>1
<1>7. QED
  BY <1>3, <1>4, <1>5, <1>6

LEMMA EndsAreNumbered ==
  ASSUME IInv, Returned, pc = "done", NEW word \in Words
  PROVE  IsNumberOf(numbers_along(word)[Len(word)], EndsOf(word, Len(word)))
<1> DEFINE l == Len(word)
<1> DEFINE along == numbers_along(word)
<1> DEFINE P == {i \in Nat : IsNumberOf(along[i], EndsOf(word, i))}
<1>1. a \in MonaDfas
  BY DEF IInv, Types
<1>2. l \in Nat /\ \A i \in 1 .. l : word[i] \in Rest
  BY WordLetters
<1>3. along[0] = res.s /\ \A i \in 1 .. l : along[i] = res.q[along[i - 1]][word[i]]
  <2>1. Len(word) = l
    OBVIOUS
  <2> HIDE DEF l
  <2>2. res.s \in 0 .. Len(lst) - 1
    BY ResultFacts DEF IsNumberOf
  <2>3. \A k \in 0 .. Len(lst) - 1, i \in 1 .. l : res.q[k][word[i]] \in 0 .. Len(lst) - 1
    BY <1>2, ResultFacts DEF IsNumberOf
  <2>4. QED
    BY <1>2, <2>1, <2>2, <2>3, NumbersLoop, ResultFacts
<1> HIDE DEF l, along
<1>4. 0 \in P
  <2>1. IsNumberOf(along[0], EndsOf(word, 0))
    BY <1>1, <1>3, EndsStart, ResultFacts
  <2>2. QED
    BY <2>1
<1>5. ASSUME NEW i \in 0 .. l - 1, i \in P PROVE i + 1 \in P
  <2>1. i \in Nat /\ i + 1 \in 1 .. l /\ (i + 1) - 1 = i
    BY <1>2
  <2>2. word[i + 1] \in Rest /\ along[i + 1] = res.q[along[i]][word[i + 1]]
    BY <1>2, <1>3, <2>1
  <2>3. EndsOf(word, i + 1) = Successors(EndsOf(word, i), word[i + 1])
    BY <1>1, <2>1, <2>2, EndsStep
  <2>4. along[i] \in 0 .. Len(lst) - 1 /\ ssets[lst[along[i] + 1]].elements = EndsOf(word, i)
    BY <1>5 DEF IsNumberOf
  <2>5. IsNumberOf(along[i + 1], EndsOf(word, i + 1))
    BY <2>2, <2>3, <2>4, ResultFacts
  <2>6. QED
    BY <2>1, <2>5
<1>6. \A i \in 0 .. l : i \in P
  <2> HIDE DEF P
  <2>1. P \in SUBSET Nat
    BY DEF P
  <2>2. QED
    BY <1>2, <1>4, <1>5, <2>1, InductionUpTo
<1>7. IsNumberOf(along[l], EndsOf(word, l))
  BY <1>2, <1>6
<1>8. QED
  BY <1>7 DEF l, along

(* What the result says of a word is what the input says of it under every  *)
(* choice of p, or that it rejects it (project.cpp 198-290).                *)
THEOREM ProjectionIsUniversal == Spec => []ResultIsUniversal
<1>1. ASSUME IInv, Returned PROVE ResultIsUniversal
  <2> SUFFICES ASSUME pc = "done", NEW word \in Words
               PROVE  Outcome(word) = CASE Outcomes(word) = {1} -> 1
                                        [] Outcomes(word) = {0} -> 0
                                        [] OTHER -> -1
    BY DEF ResultIsUniversal
  <2> DEFINE S == EndsOf(word, Len(word))
  <2>1. Outcome(word) = status(S)
    <3>1. /\ numbers_along(word)[Len(word)] \in 0 .. Len(lst) - 1
          /\ ssets[lst[numbers_along(word)[Len(word)] + 1]].elements = S
      BY <1>1, EndsAreNumbered DEF IsNumberOf
    <3>2. QED
      BY <1>1, <3>1, ResultFacts DEF Outcome
  <2>2. S # {}
    <3>1. /\ Types /\ DOMAIN lst = 1 .. Len(lst) /\ Len(lst) \in Nat
      BY <1>1 DEF IInv, Types
    <3>2. PICK k \in DOMAIN lst : ssets[lst[k]].elements = S
      BY <1>1, <3>1, EndsAreNumbered DEF IsNumberOf
    <3>3. QED
      BY <3>1, <3>2, Members DEF Types
  <2>3. Outcomes(word) = {a.f[s] : s \in S}
    BY DEF Outcomes, EndsOf
  <2>4. S \subseteq State
    <3>1. Len(word) \in Nat
      BY WordLetters
    <3>2. QED
      BY <3>1 DEF EndsOf, Runs
  <2>5. \A s \in S : a.f[s] \in {-1, 0, 1}
    BY <1>1, <2>4 DEF IInv, Types, MonaDfas
  <2> HIDE DEF S
  <2>6. /\ Outcomes(word) = {0} <=> \A s \in S : a.f[s] = 0
        /\ Outcomes(word) = {1} <=> \A s \in S : a.f[s] = 1
    BY <2>2, <2>3
  <2>7. QED
    BY <2>1, <2>2, <2>5, <2>6 DEF status
<1>2. IInv /\ Returned => ResultIsUniversal
  BY <1>1
<1>3. QED
  BY <1>2, ReturnedInit, ReturnedStep, Invariance, PTL DEF Spec
==============================================================================
