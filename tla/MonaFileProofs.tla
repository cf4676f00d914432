---------------------------- MODULE MonaFileProofs ----------------------------
(***************************************************************************)
(* Proofs about MonaFile: for every automaton of MONA, whatever its size    *)
(* and the order of its nodes, the file is read as it was written, and the  *)
(* symbolic automaton that is made of it goes with MONA's.                  *)
(***************************************************************************)
EXTENDS MonaFile, SymbolicDfaProofs, SequenceTheorems

-----------------------------------------------------------------------------
(* The nodes of the BDDs.                                                   *)

Tested(g) == {v \in Variables : \E x \in Interpretation : g[x \cup {v}] # g[x \ {v}]}
Child(g, x) == [y \in Interpretation |-> g[(y \ {Root(g)}) \cup x]]
From(k, x) == {v \in x : v >= k}

LEMMA VariablesAreNumbers ==
  /\ NbVariables \in Nat
  /\ \A v \in Variables : v \in Nat /\ v < NbVariables
  /\ \A x \in Interpretation : \A v \in x : v \in Variables
  BY SizesAssumption DEF Variables, Interpretation

LEMMA SmallestVariable ==
  ASSUME NEW T \in SUBSET Variables, T # {}
  PROVE  Min(T) \in T /\ \A t \in T : Min(T) <= t
<1>1. PICK m \in T : \A t \in T : ~ (<<t, m>> \in Less)
  <2>1. T \in SUBSET Nat
    BY SizesAssumption DEF Variables
  <2>2. QED
    BY <2>1, LessIsWellFounded, WFMin
<1>2. ASSUME NEW t \in T PROVE m <= t
  <2>1. t \in Nat /\ m \in Nat
    BY VariablesAreNumbers
  <2>2. ~ (t < m)
    BY <1>1, <2>1 DEF Less
  <2>3. QED
    BY <2>1, <2>2
<1>3. QED
  BY <1>2 DEF Min

(* The root of a node is the first variable that it tests.                  *)
LEMMA RootIs ==
  ASSUME NEW g
  PROVE  \/ Root(g) = -1 /\ Tested(g) = {}
         \/ Root(g) \in Tested(g) /\ \A v \in Tested(g) : Root(g) <= v
<1>1. Root(g) = IF Tested(g) = {} THEN -1 ELSE Min(Tested(g))
  BY DEF Root, Tested
<1>2. Tested(g) \in SUBSET Variables
  BY DEF Tested
<1>3. QED
  BY <1>1, <1>2, SmallestVariable

(* The variables before the first tested one do not matter.                 *)
LEMMA Untested ==
  ASSUME NEW g, NEW k \in 0 .. NbVariables, \A v \in Tested(g) : k <= v
  PROVE  \A x \in Interpretation : g[x] = g[From(k, x)]
<1> DEFINE P == {i \in Nat : \A x \in Interpretation : g[x] = g[From(i, x)]}
<1>1. 0 \in P
  <2>1. \A x \in Interpretation : From(0, x) = x
    BY VariablesAreNumbers DEF From
  <2>2. QED
    BY <2>1
<1>2. ASSUME NEW i \in 0 .. k - 1, i \in P PROVE i + 1 \in P
  <2>1. i \in Variables /\ i \notin Tested(g) /\ i \in Nat /\ ~ (k <= i)
    BY SizesAssumption DEF Variables
  <2>2. ASSUME NEW x \in Interpretation PROVE g[x] = g[From(i + 1, x)]
    <3> DEFINE w == From(i, x)
    <3>1. w \in Interpretation
      BY DEF Interpretation, From
    <3>2. g[w \cup {i}] = g[w \ {i}]
      BY <2>1, <3>1 DEF Tested
    <3>3. w \cup {i} = w \/ w \ {i} = w
      OBVIOUS
    <3>4. From(i + 1, x) = w \ {i}
      <4>1. \A v \in x : v \in Nat
        BY VariablesAreNumbers
      <4>2. \A v \in Nat : v >= i + 1 <=> v >= i /\ v # i
        BY <2>1
      <4>3. QED
        BY <4>1, <4>2 DEF From
    <3>5. g[x] = g[w]
      BY <1>2
    <3>6. g[w] = g[w \ {i}]
      <4> HIDE DEF w
      <4>1. QED
        BY <3>2, <3>3
    <3>7. QED
      BY <3>4, <3>5, <3>6
  <2>3. QED
    BY <2>1, <2>2
<1>3. k \in P
  <2> HIDE DEF P
  <2>1. P \in SUBSET Nat /\ k \in Nat
    BY SizesAssumption DEF P
  <2>2. \A i \in 0 .. k : i \in P
    BY <1>1, <1>2, <2>1, InductionUpTo
  <2>3. QED
    BY <2>1, <2>2
<1>4. QED
  BY <1>3

(* A child tests later variables than its parent.                           *)
LEMMA ChildTests ==
  ASSUME NEW g, Root(g) # -1, NEW z, z \in SUBSET {Root(g)}
  PROVE  Root(Child(g, z)) = -1 \/ Root(Child(g, z)) > Root(g)
<1> DEFINE r == Root(g)
           c == Child(g, z)
<1>1. r \in Variables /\ r \in Int /\ \A v \in Tested(g) : r <= v
  <2>1. r \in Tested(g) /\ \A v \in Tested(g) : r <= v
    BY RootIs
  <2>2. QED
    BY <2>1, VariablesAreNumbers DEF Tested
<1>2. ASSUME NEW v \in Tested(c) PROVE v > r
  <2>1. v \in Variables /\ v \in Int
    BY SizesAssumption DEF Tested, Variables
  <2>2. PICK x \in Interpretation : c[x \cup {v}] # c[x \ {v}]
    BY DEF Tested
  <2>3. x \cup {v} \in Interpretation /\ x \ {v} \in Interpretation
    BY <2>1 DEF Interpretation
  <2>4. /\ c[x \cup {v}] = g[((x \cup {v}) \ {r}) \cup z]
        /\ c[x \ {v}] = g[((x \ {v}) \ {r}) \cup z]
    BY <2>3 DEF Child
  <2>5. v # r
    <3>1. SUFFICES ASSUME v = r PROVE FALSE
      OBVIOUS
    <3>2. (x \cup {v}) \ {r} = (x \ {v}) \ {r}
      BY <3>1
    <3>3. QED
      BY <2>2, <2>4, <3>2
  <2> DEFINE w == (x \ {r}) \cup z
  <2>6. /\ ((x \cup {v}) \ {r}) \cup z = w \cup {v}
        /\ ((x \ {v}) \ {r}) \cup z = w \ {v}
    BY <2>5
  <2>7. w \in Interpretation
    BY <1>1 DEF Interpretation
  <2>8. v \in Tested(g)
    BY <2>1, <2>2, <2>4, <2>6, <2>7 DEF Tested
  <2>9. QED
    BY <1>1, <2>1, <2>5, <2>8
<1>3. QED
  BY <1>2, RootIs

LEMMA CofactorOf ==
  ASSUME NEW a, NEW s \in DOMAIN a.q, NEW i \in 0 .. NbVariables, NEW y \in SUBSET (0 .. i - 1)
  PROVE  Cofactor(a.q[s], i, y) \in Cofactors(a)
<1> DEFINE Of(t, j) == {Cofactor(a.q[t], j, u) : u \in SUBSET (0 .. j - 1)}
<1>1. Cofactor(a.q[s], i, y) \in Of(s, i)
  OBVIOUS
<1>2. Cofactors(a) = UNION {Of(t, j) : t \in DOMAIN a.q, j \in 0 .. NbVariables}
  BY DEF Cofactors
<1> HIDE DEF Of
<1>3. QED
  BY <1>1, <1>2

(* What is left of a node when its variable is decided is a node.           *)
LEMMA ChildIsCofactor ==
  ASSUME NEW a, NEW g \in Cofactors(a), Root(g) # -1, NEW z, z \in SUBSET {Root(g)}
  PROVE  Child(g, z) \in Cofactors(a)
<1> DEFINE r == Root(g)
<1>0. PICK s \in DOMAIN a.q, i \in 0 .. NbVariables :
        \E y \in SUBSET (0 .. i - 1) : g = Cofactor(a.q[s], i, y)
  BY DEF Cofactors
<1>1. PICK y \in SUBSET (0 .. i - 1) : g = Cofactor(a.q[s], i, y)
  BY <1>0
<1> DEFINE q == a.q[s]
<1>2. r \in Tested(g) /\ \A v \in Tested(g) : r <= v
  BY RootIs
<1>3. r \in Variables /\ r \in Nat /\ r < NbVariables /\ NbVariables \in Nat /\ i \in Nat
  BY <1>2, VariablesAreNumbers DEF Tested
<1>4. \A x \in Interpretation : g[x] = q[y \cup From(i, x)]
  BY <1>1 DEF Cofactor, From
<1>5. r >= i
  <2>1. SUFFICES ASSUME ~ (r >= i) PROVE FALSE
    OBVIOUS
  <2>2. PICK x \in Interpretation : g[x \cup {r}] # g[x \ {r}]
    BY <1>2 DEF Tested
  <2>3. x \cup {r} \in Interpretation /\ x \ {r} \in Interpretation
    BY <1>3 DEF Interpretation
  <2>4. From(i, x \cup {r}) = From(i, x \ {r})
    BY <2>1 DEF From
  <2>5. QED
    BY <1>4, <2>2, <2>3, <2>4
<1>6. ASSUME NEW x \in Interpretation PROVE g[x] = g[From(r, x)]
  <2>1. r \in 0 .. NbVariables
    BY <1>3
  <2>2. QED
    BY <1>2, <2>1, Untested
<1> DEFINE Y == y \cup z
<1>7. r + 1 \in 0 .. NbVariables /\ Y \in SUBSET (0 .. (r + 1) - 1)
  <2>1. (r + 1) - 1 = r /\ r + 1 \in 0 .. NbVariables
    BY <1>3
  <2>2. \A v \in 0 .. i - 1 : v \in 0 .. r
    BY <1>3, <1>5
  <2>3. r \in 0 .. r
    BY <1>3
  <2>4. QED
    BY <2>1, <2>2, <2>3
<1>8. ASSUME NEW x \in Interpretation PROVE Child(g, z)[x] = q[Y \cup From(r + 1, x)]
  <2> DEFINE w == (x \ {r}) \cup z
  <2>1. w \in Interpretation
    BY <1>3 DEF Interpretation
  <2>2. Child(g, z)[x] = g[w]
    BY DEF Child
  <2>3. \A v \in x : v \in Nat
    BY VariablesAreNumbers
  <2>4. From(r, w) = From(r + 1, x) \cup z
    <3>1. \A v \in Nat : v # r /\ v >= r <=> v >= r + 1
      BY <1>3
    <3>2. r >= r
      BY <1>3
    <3>3. QED
      BY <2>3, <3>1, <3>2 DEF From
  <2>5. From(r, w) \in Interpretation
    BY <2>1 DEF Interpretation, From
  <2>6. From(i, From(r, w)) = From(r, w)
    <3>1. \A v \in Nat : v >= r => v >= i
      BY <1>3, <1>5
    <3>2. \A v \in From(r, w) : v \in Nat /\ v >= r
      BY <2>1, VariablesAreNumbers DEF From
    <3>3. QED
      BY <3>1, <3>2 DEF From
  <2>7. g[w] = q[y \cup From(r, w)]
    BY <1>4, <1>6, <2>1, <2>5, <2>6
  <2>8. y \cup (From(r + 1, x) \cup z) = Y \cup From(r + 1, x)
    OBVIOUS
  <2>9. QED
    BY <2>2, <2>4, <2>7, <2>8
<1>9. Child(g, z) = Cofactor(q, r + 1, Y)
  BY <1>8 DEF Child, Cofactor, From
<1>10. QED
  BY <1>7, <1>9, CofactorOf

(* There are finitely many nodes, and their values are states.              *)
LEMMA CofactorType ==
  ASSUME NEW a, IsAutomaton(a)
  PROVE  /\ Cofactors(a) \in SUBSET [Interpretation -> 0 .. a.ns - 1]
         /\ \A s \in 0 .. a.ns - 1 : a.q[s] \in Cofactors(a)
<1>1. a.q \in [0 .. a.ns - 1 -> [Interpretation -> 0 .. a.ns - 1]]
  BY DEF IsAutomaton
<1>2. ASSUME NEW g \in Cofactors(a) PROVE g \in [Interpretation -> 0 .. a.ns - 1]
  <2>0. PICK s \in DOMAIN a.q, i \in 0 .. NbVariables :
          \E y \in SUBSET (0 .. i - 1) : g = Cofactor(a.q[s], i, y)
    BY DEF Cofactors
  <2>1. PICK y \in SUBSET (0 .. i - 1) : g = Cofactor(a.q[s], i, y)
    BY <2>0
  <2>2. ASSUME NEW x \in Interpretation PROVE y \cup From(i, x) \in Interpretation
    <3>1. \A v \in 0 .. i - 1 : v \in Variables
      BY VariablesAreNumbers DEF Variables
    <3>2. QED
      BY <3>1 DEF From, Interpretation
  <2>3. a.q[s] \in [Interpretation -> 0 .. a.ns - 1]
    BY <1>1
  <2>4. QED
    BY <2>1, <2>2, <2>3 DEF Cofactor, From
<1>3. ASSUME NEW s \in 0 .. a.ns - 1 PROVE a.q[s] \in Cofactors(a)
  <2>1. s \in DOMAIN a.q /\ a.q[s] \in [Interpretation -> 0 .. a.ns - 1]
    BY <1>1
  <2>2. ASSUME NEW x \in Interpretation PROVE {} \cup From(0, x) = x
    <3>1. \A v \in x : v \in Nat /\ v >= 0
      BY VariablesAreNumbers
    <3>2. QED
      BY <3>1 DEF From
  <2>3. a.q[s] = Cofactor(a.q[s], 0, {})
    BY <2>1, <2>2 DEF Cofactor, From
  <2>4. 0 \in 0 .. NbVariables /\ {} \in SUBSET (0 .. 0 - 1)
    BY VariablesAreNumbers
  <2>5. QED
    BY <2>1, <2>3, <2>4, CofactorOf
<1>4. QED
  BY <1>2, <1>3

LEMMA CofactorsAreFinite ==
  ASSUME NEW a, IsAutomaton(a)
  PROVE  IsFiniteSet(Cofactors(a))
<1> DEFINE Origin == ((0 .. a.ns - 1) \X (0 .. NbVariables)) \X SUBSET (0 .. NbVariables)
           cofactor == [t \in Origin |-> Cofactor(a.q[t[1][1]], t[1][2], t[2])]
           S == {cofactor[t] : t \in Origin}
<1>1. a.ns \in Int /\ NbVariables \in Nat /\ DOMAIN a.q = 0 .. a.ns - 1
  BY VariablesAreNumbers DEF IsAutomaton
<1>2. IsFiniteSet(Origin)
  <2>1. IsFiniteSet(0 .. a.ns - 1) /\ IsFiniteSet(0 .. NbVariables)
    BY <1>1, FS_Interval
  <2>2. IsFiniteSet((0 .. a.ns - 1) \X (0 .. NbVariables))
    BY <2>1, FS_Product
  <2>3. IsFiniteSet(SUBSET (0 .. NbVariables))
    BY <2>1, FS_SUBSET
  <2>4. QED
    BY <2>2, <2>3, FS_Product
<1>3. cofactor \in Surjection(Origin, S)
  <2> HIDE DEF Origin
  <2>1. cofactor \in [Origin -> S]
    OBVIOUS
  <2>2. QED
    BY <2>1 DEF Surjection
<1>4. IsFiniteSet(S)
  <2> HIDE DEF Origin, cofactor, S
  <2>1. QED
    BY <1>2, <1>3, FS_Surjection
<1>5. ASSUME NEW g \in Cofactors(a) PROVE g \in S
  <2>0. PICK s \in DOMAIN a.q, i \in 0 .. NbVariables :
          \E y \in SUBSET (0 .. i - 1) : g = Cofactor(a.q[s], i, y)
    BY DEF Cofactors
  <2>1. PICK y \in SUBSET (0 .. i - 1) : g = Cofactor(a.q[s], i, y)
    BY <2>0
  <2>2. y \in SUBSET (0 .. NbVariables)
    BY <1>1
  <2>3. <<<<s, i>>, y>> \in Origin
    BY <1>1, <2>2
  <2>4. cofactor[<<<<s, i>>, y>>] = g
    BY <2>1, <2>3
  <2>5. QED
    BY <2>3, <2>4
<1>6. Cofactors(a) \in SUBSET S
  BY <1>5
<1>7. QED
  <2> HIDE DEF S
  <2>1. QED
    BY <1>4, <1>6, FS_Subset

-----------------------------------------------------------------------------
(* The table of nodes.                                                      *)

HasSize(S, n) == Cardinality(S) = n

(* Listed takes the elements of a finite set one by one.                    *)
LEMMA RemainingLoop ==
  ASSUME NEW S, NEW n, n \in Nat, HasSize(S, n)
  PROVE  /\ remaining(S)[0] = S
         /\ \A i \in 1 .. n : remaining(S)[i] = Others(remaining(S)[i - 1])
         /\ \A i \in 0 .. n : remaining(S)[i] \in SUBSET S
<1> DEFINE Body(h) == [i \in 0 .. n |-> IF i = 0 THEN S ELSE Others(h[i - 1])]
           step == [i \in 1 .. n |-> [T \in SUBSET S |-> Others(T)]]
<1>1. step \in Rounds(n, SUBSET S)
  BY DEF Rounds, Others
<1>2. \A i \in 1 .. n, T \in SUBSET S : step[i][T] = Others(T)
  OBVIOUS
<1> HIDE DEF step
<1>3. S \in SUBSET S
  OBVIOUS
<1>4. PICK h : h \in [0 .. n -> SUBSET S] /\ Computes(h, n, S, step)
  BY <1>1, <1>3, LoopExists
<1>5. h = Body(h)
  <2>1. h[0] = S
    BY <1>4 DEF Computes
  <2>2. ASSUME NEW i \in 1 .. n PROVE h[i] = Others(h[i - 1])
    <3>1. h[i - 1] \in SUBSET S
      BY <1>4
    <3>2. h[i] = step[i][h[i - 1]]
      BY <1>4 DEF Computes
    <3>3. QED
      BY <1>2, <3>1, <3>2
  <2>3. QED
    BY <1>4, <2>1, <2>2
<1> DEFINE r == remaining(S)
<1>6. r = CHOOSE f : f = Body(f)
  BY DEF remaining, HasSize
<1> HIDE DEF Body
<1>7. r = Body(r)
  <2> HIDE DEF r
  <2>1. QED
    BY <1>5, <1>6
<1>8. r[0] = S /\ \A i \in 1 .. n : r[i] = Others(r[i - 1])
  <2> HIDE DEF r
  <2>1. \A i \in 0 .. n : r[i] = IF i = 0 THEN S ELSE Others(r[i - 1])
    BY <1>7, Zenon DEF Body
  <2>2. QED
    BY <2>1
<1> HIDE DEF r
<1>9. \A i \in 0 .. n : r[i] \in SUBSET S
  <2>1. ComputesIn(SUBSET S, r, n, S, step)
    BY <1>2, <1>8 DEF ComputesIn
  <2>2. QED
    BY <1>1, <1>3, <2>1, LoopType
<1>10. QED
  BY <1>8, <1>9 DEF r

LEMMA RemainingSize ==
  ASSUME NEW S, IsFiniteSet(S), NEW n, n \in Nat, HasSize(S, n)
  PROVE  \A i \in 0 .. n : IsFiniteSet(remaining(S)[i]) /\ HasSize(remaining(S)[i], n - i)
<1> DEFINE r == remaining(S)
           P == {i \in Nat : IsFiniteSet(r[i]) /\ HasSize(r[i], n - i)}
<1>1. r[0] = S /\ \A i \in 1 .. n : r[i] = Others(r[i - 1])
  BY RemainingLoop
<1> HIDE DEF r
<1>2. 0 \in P
  BY <1>1
<1>3. ASSUME NEW i \in 0 .. n - 1, i \in P PROVE i + 1 \in P
  <2>1. i + 1 \in 1 .. n /\ (i + 1) - 1 = i
    OBVIOUS
  <2>2. r[i + 1] = r[i] \ {One(r[i])}
    BY <1>1, <2>1 DEF Others
  <2>3. IsFiniteSet(r[i]) /\ Cardinality(r[i]) = n - i
    BY <1>3 DEF HasSize
  <2>4. r[i] # {}
    BY <2>3, FS_EmptySet
  <2>5. One(r[i]) \in r[i]
    BY <2>4 DEF One
  <2>6. IsFiniteSet(r[i + 1]) /\ Cardinality(r[i + 1]) = (n - i) - 1
    <3>1. IsFiniteSet(r[i] \ {One(r[i])})
          /\ Cardinality(r[i] \ {One(r[i])}) = Cardinality(r[i]) - 1
      BY <2>3, <2>5, FS_RemoveElement
    <3>2. QED
      BY <2>2, <2>3, <3>1
  <2>7. (n - i) - 1 = n - (i + 1) /\ i + 1 \in Nat
    OBVIOUS
  <2>8. QED
    BY <2>6, <2>7 DEF HasSize
<1>4. \A i \in 0 .. n : i \in P
  <2> HIDE DEF P
  <2>1. P \in SUBSET Nat
    BY DEF P
  <2>2. QED
    BY <1>2, <1>3, <2>1, InductionUpTo
<1>5. QED
  BY <1>4 DEF r

(* It lists them all.                                                       *)
LEMMA ListedIsOnto ==
  ASSUME NEW S, IsFiniteSet(S), NEW n, n \in Nat, HasSize(S, n)
  PROVE  Listed(S) \in [1 .. n -> S] /\ \A g \in S : \E i \in 1 .. n : Listed(S)[i] = g
<1> DEFINE r == remaining(S)
<1>1. Listed(S) = [i \in 1 .. n |-> One(r[i - 1])]
  BY DEF Listed, HasSize
<1>2. /\ r[0] = S /\ \A i \in 1 .. n : r[i] = Others(r[i - 1])
      /\ \A i \in 0 .. n : r[i] \in SUBSET S
  BY RemainingLoop
<1>3. \A i \in 0 .. n : IsFiniteSet(r[i]) /\ HasSize(r[i], n - i)
  BY RemainingSize
<1> HIDE DEF r
<1>4. ASSUME NEW i \in 1 .. n PROVE One(r[i - 1]) \in S
  <2>1. i - 1 \in 0 .. n /\ n - (i - 1) # 0
    OBVIOUS
  <2>2. r[i - 1] # {}
    BY <1>3, <2>1, FS_EmptySet DEF HasSize
  <2>3. QED
    BY <1>2, <2>1, <2>2 DEF One
<1>5. ASSUME NEW g \in S, \A i \in 1 .. n : One(r[i - 1]) # g PROVE FALSE
  <2> DEFINE P == {i \in Nat : g \in r[i]}
  <2>1. 0 \in P
    BY <1>2
  <2>2. ASSUME NEW i \in 0 .. n - 1, i \in P PROVE i + 1 \in P
    <3>1. i + 1 \in 1 .. n /\ (i + 1) - 1 = i /\ i + 1 \in Nat
      OBVIOUS
    <3>2. r[i + 1] = r[i] \ {One(r[i])} /\ One(r[i]) # g
      BY <1>2, <1>5, <3>1 DEF Others
    <3>3. QED
      BY <2>2, <3>1, <3>2
  <2>3. n \in P
    <3> HIDE DEF P
    <3>1. P \in SUBSET Nat
      BY DEF P
    <3>2. \A i \in 0 .. n : i \in P
      BY <2>1, <2>2, <3>1, InductionUpTo
    <3>3. QED
      BY <3>2
  <2>4. r[n] = {}
    <3>1. n \in 0 .. n /\ n - n = 0
      OBVIOUS
    <3>2. IsFiniteSet(r[n]) /\ Cardinality(r[n]) = 0
      BY <1>3, <3>1 DEF HasSize
    <3>3. QED
      BY <3>2, FS_EmptySet
  <2>5. QED
    BY <2>3, <2>4
<1>6. QED
  BY <1>1, <1>4, <1>5

(* The numbered nodes, in the two orders.                                   *)
Numbered(functions) == [i \in 0 .. Len(functions) - 1 |-> functions[i + 1]]
IsNumbering(fs, S, n) == fs \in [0 .. n - 1 -> S] /\ \A g \in S : \E i \in 0 .. n - 1 : fs[i] = g

LEMMA BothOrders ==
  ASSUME NEW S, IsFiniteSet(S), NEW functions, functions \in {Listed(S), Reverse(Listed(S))}
  PROVE  \E n \in Nat : IsNumbering(Numbered(functions), S, n)
<1>1. PICK n \in Nat : HasSize(S, n)
  BY FS_CardinalityType DEF HasSize
<1> DEFINE L == Listed(S)
<1>2. L \in [1 .. n -> S] /\ \A g \in S : \E i \in 1 .. n : L[i] = g
  BY <1>1, ListedIsOnto
<1> HIDE DEF L
<1>3. functions \in {L, Reverse(L)}
  BY DEF L
<1>4. Len(L) = n
  BY <1>2
<1>5. functions \in [1 .. n -> S] /\ \A g \in S : \E i \in 1 .. n : functions[i] = g
  <2>1. CASE functions = L
    BY <1>2, <2>1
  <2>2. CASE functions = Reverse(L)
    <3>1. functions = [i \in 1 .. n |-> L[n - i + 1]]
      BY <1>4, <2>2 DEF Reverse
    <3>2. \A i \in 1 .. n : n - i + 1 \in 1 .. n /\ n - (n - i + 1) + 1 = i
      OBVIOUS
    <3>3. ASSUME NEW g \in S PROVE \E i \in 1 .. n : functions[i] = g
      <4>1. PICK i \in 1 .. n : L[i] = g
        BY <1>2
      <4>2. functions[n - i + 1] = g /\ n - i + 1 \in 1 .. n
        BY <3>1, <3>2, <4>1
      <4>3. QED
        BY <4>2
    <3>4. functions \in [1 .. n -> S]
      BY <1>2, <3>1, <3>2
    <3>5. QED
      BY <3>3, <3>4
  <2>3. QED
    BY <1>3, <2>1, <2>2
<1>6. Len(functions) = n
  BY <1>5
<1> DEFINE fs == Numbered(functions)
<1>7. fs = [i \in 0 .. n - 1 |-> functions[i + 1]]
  BY <1>6 DEF Numbered
<1>8. \A i \in 0 .. n - 1 : i + 1 \in 1 .. n
  OBVIOUS
<1>9. ASSUME NEW g \in S PROVE \E i \in 0 .. n - 1 : fs[i] = g
  <2>1. PICK i \in 1 .. n : functions[i] = g
    BY <1>5
  <2>2. i - 1 \in 0 .. n - 1 /\ (i - 1) + 1 = i
    OBVIOUS
  <2>3. fs[i - 1] = g
    BY <1>7, <2>1, <2>2
  <2>4. QED
    BY <2>2, <2>3
<1>10. fs \in [0 .. n - 1 -> S]
  BY <1>5, <1>7, <1>8
<1>11. QED
  BY <1>9, <1>10 DEF IsNumbering

(* A table of n nodes that may be walked: the children of a node are nodes, *)
(* and test later variables; the leaves are states.                         *)
Leaf(a, i) == a.nodes[i][1] = -1 /\ a.nodes[i][2] \in 0 .. a.ns - 1
Inner(a, n, i) ==
  /\ a.nodes[i][1] \in Variables
  /\ \A j \in {2, 3} :
       /\ a.nodes[i][j] \in 0 .. n - 1
       /\ \/ a.nodes[a.nodes[i][j]][1] = -1
          \/ a.nodes[a.nodes[i][j]][1] > a.nodes[i][1]
Table(a, n) ==
  /\ a.ns \in 1 .. pow2[MaxBits] /\ a.s \in 0 .. a.ns - 1
  /\ a.f \in [0 .. a.ns - 1 -> {-1, 0, 1}]
  /\ a.q \in [0 .. a.ns - 1 -> 0 .. n - 1]
  /\ DOMAIN a.nodes = 0 .. n - 1
  /\ \A i \in 0 .. n - 1 : Leaf(a, i) \/ Inner(a, n, i)

LEMMA NodeTableIsTable ==
  ASSUME NEW a, IsAutomaton(a), NEW n, n \in Nat, NEW fs, IsNumbering(fs, Cofactors(a), n)
  PROVE  Table(NodeTable(a, fs), n)
<1> DEFINE Node(g) == CHOOSE i \in DOMAIN fs : fs[i] = g
           t == NodeTable(a, fs)
<1>1. /\ fs \in [0 .. n - 1 -> Cofactors(a)] /\ DOMAIN fs = 0 .. n - 1
      /\ \A g \in Cofactors(a) : \E i \in 0 .. n - 1 : fs[i] = g
  BY DEF IsNumbering
<1>2. \A g \in Cofactors(a) : Node(g) \in 0 .. n - 1 /\ fs[Node(g)] = g
  BY <1>1
<1>3. t.nodes = [i \in DOMAIN fs |->
        IF Root(fs[i]) = -1 THEN <<-1, fs[i][{}], 0>>
        ELSE <<Root(fs[i]), Node(Child(fs[i], {})), Node(Child(fs[i], {Root(fs[i])}))>>]
  BY DEF NodeTable, Child
<1>4. /\ t.ns = a.ns /\ t.s = a.s /\ t.f = a.f
      /\ t.q = [s \in DOMAIN a.q |-> Node(a.q[s])]
  BY DEF NodeTable
<1> HIDE DEF Node, t
<1>5. t.q \in [0 .. t.ns - 1 -> 0 .. n - 1]
  <2>1. DOMAIN a.q = 0 .. a.ns - 1
    BY DEF IsAutomaton
  <2>2. \A s \in 0 .. a.ns - 1 : a.q[s] \in Cofactors(a)
    BY CofactorType
  <2>3. QED
    BY <1>2, <1>4, <2>1, <2>2
<1>6. \A i \in 0 .. n - 1 : t.nodes[i] =
        IF Root(fs[i]) = -1 THEN <<-1, fs[i][{}], 0>>
        ELSE <<Root(fs[i]), Node(Child(fs[i], {})), Node(Child(fs[i], {Root(fs[i])}))>>
  BY <1>1, <1>3
<1>7. ASSUME NEW i \in 0 .. n - 1 PROVE t.nodes[i][1] = Root(fs[i])
  <2>1. \A x, y, z : <<x, y, z>>[1] = x
    OBVIOUS
  <2> HIDE DEF Node
  <2>2. CASE Root(fs[i]) = -1
    <3>1. t.nodes[i] = <<-1, fs[i][{}], 0>>
      BY <1>6, <2>2
    <3>2. QED
      BY <2>1, <2>2, <3>1
  <2>3. CASE Root(fs[i]) # -1
    <3>1. t.nodes[i] = <<Root(fs[i]), Node(Child(fs[i], {})), Node(Child(fs[i], {Root(fs[i])}))>>
      BY <1>6, <2>3
    <3>2. QED
      BY <2>1, <3>1
  <2>4. QED
    BY <2>2, <2>3
<1>8. ASSUME NEW i \in 0 .. n - 1 PROVE Leaf(t, i) \/ Inner(t, n, i)
  <2> DEFINE g == fs[i]
  <2>1. g \in Cofactors(a)
    BY <1>1
  <2>2. CASE Root(g) = -1
    <3>1. t.nodes[i] = <<-1, g[{}], 0>>
      BY <1>6, <2>2
    <3>2. g \in [Interpretation -> 0 .. a.ns - 1]
      BY <2>1, CofactorType
    <3>3. {} \in Interpretation
      BY DEF Interpretation
    <3>4. g[{}] \in 0 .. a.ns - 1
      BY <3>2, <3>3
    <3>5. QED
      BY <1>4, <3>1, <3>4 DEF Leaf
  <2>3. CASE Root(g) # -1
    <3> DEFINE low == Child(g, {})
               high == Child(g, {Root(g)})
    <3>1. t.nodes[i] = <<Root(g), Node(low), Node(high)>>
      BY <1>6, <2>3
    <3>2. low \in Cofactors(a) /\ high \in Cofactors(a)
      BY <2>1, <2>3, ChildIsCofactor
    <3>3. /\ Root(low) = -1 \/ Root(low) > Root(g)
          /\ Root(high) = -1 \/ Root(high) > Root(g)
      BY <2>3, ChildTests
    <3>4. Root(g) \in Variables
      BY <2>3, RootIs DEF Tested
    <3> HIDE DEF low, high, g
    <3>5. /\ Node(low) \in 0 .. n - 1 /\ t.nodes[Node(low)][1] = Root(low)
          /\ Node(high) \in 0 .. n - 1 /\ t.nodes[Node(high)][1] = Root(high)
      BY <1>2, <1>7, <3>2
    <3>6. t.nodes[i][1] = Root(g) /\ t.nodes[i][2] = Node(low) /\ t.nodes[i][3] = Node(high)
      BY <3>1
    <3>7. Inner(t, n, i)
      BY <3>3, <3>4, <3>5, <3>6 DEF Inner
    <3>8. QED
      BY <3>7
  <2>4. QED
    BY <2>2, <2>3
<1>9. DOMAIN t.nodes = 0 .. n - 1
  BY <1>1, <1>3
<1>10. Table(t, n)
  BY <1>4, <1>5, <1>8, <1>9 DEF Table, IsAutomaton
<1>11. QED
  BY <1>10 DEF t

(* The automaton that Init exports.                                         *)
LEMMA ExportedIsTable ==
  ASSUME NEW a \in Inputs, NEW functions,
         functions \in {Listed(Cofactors(a)), Reverse(Listed(Cofactors(a)))}
  PROVE  \E n \in Nat : Table(NodeTable(a, Numbered(functions)), n)
  BY InputsAssumption, CofactorsAreFinite, BothOrders, NodeTableIsTable

-----------------------------------------------------------------------------
(* Walking the table, and the BDDs that try_get makes of it.                *)

(* How many variables may still be tested below a node.                     *)
depth(a, i) == IF a.nodes[i][1] = -1 THEN 0 ELSE NbVariables - a.nodes[i][1]

LEMMA WalksDescend ==
  ASSUME NEW a, NEW n, n \in Nat, Table(a, n), NEW i, i \in 0 .. n - 1
  PROVE  /\ depth(a, i) \in 0 .. NbVariables
         /\ \/ Leaf(a, i)
            \/ /\ a.nodes[i][1] # -1
               /\ \A j \in {2, 3} :
                    a.nodes[i][j] \in 0 .. n - 1 /\ depth(a, a.nodes[i][j]) < depth(a, i)
<1>1. \A l \in 0 .. n - 1 : Leaf(a, l) \/ Inner(a, n, l)
  BY DEF Table
<1>2. \A v \in Variables : v \in Nat /\ v < NbVariables /\ NbVariables \in Nat
  BY VariablesAreNumbers
<1>3. ASSUME NEW l \in 0 .. n - 1, a.nodes[l][1] # -1
      PROVE  /\ Inner(a, n, l) /\ a.nodes[l][1] \in Nat /\ a.nodes[l][1] < NbVariables
             /\ depth(a, l) = NbVariables - a.nodes[l][1]
  BY <1>1, <1>2, <1>3 DEF Leaf, Inner, depth
<1>4. ASSUME NEW l \in 0 .. n - 1 PROVE depth(a, l) \in 0 .. NbVariables
  <2>1. CASE a.nodes[l][1] = -1
    BY <2>1, VariablesAreNumbers DEF depth
  <2>2. CASE a.nodes[l][1] # -1
    BY <1>3, <2>2, VariablesAreNumbers
  <2>3. QED
    BY <2>1, <2>2
<1>5. ASSUME a.nodes[i][1] # -1, NEW j \in {2, 3}
      PROVE  a.nodes[i][j] \in 0 .. n - 1 /\ depth(a, a.nodes[i][j]) < depth(a, i)
  <2> DEFINE c == a.nodes[i][j]
             v == a.nodes[i][1]
  <2>1. /\ c \in 0 .. n - 1
        /\ a.nodes[c][1] = -1 \/ a.nodes[c][1] > v
        /\ v \in Nat /\ v < NbVariables /\ depth(a, i) = NbVariables - v
    BY <1>3, <1>5 DEF Inner
  <2> HIDE DEF c, v
  <2>2. NbVariables \in Nat
    BY VariablesAreNumbers
  <2>3. ASSUME a.nodes[c][1] = -1 PROVE depth(a, c) < depth(a, i)
    <3>1. depth(a, c) = 0
      BY <2>3 DEF depth
    <3>2. NbVariables - v > 0
      BY <2>1, <2>2
    <3>3. QED
      BY <2>1, <3>1, <3>2
  <2>4. ASSUME a.nodes[c][1] # -1 PROVE depth(a, c) < depth(a, i)
    <3>1. a.nodes[c][1] \in Nat /\ depth(a, c) = NbVariables - a.nodes[c][1]
      BY <1>3, <2>1, <2>4
    <3>2. a.nodes[c][1] > v
      BY <2>1, <2>4
    <3> DEFINE u == a.nodes[c][1]
    <3> HIDE DEF u
    <3>3. NbVariables - u < NbVariables - v
      BY <2>1, <2>2, <3>1, <3>2 DEF u
    <3>4. QED
      BY <2>1, <3>1, <3>3 DEF u
  <2>5. depth(a, c) < depth(a, i)
    BY <2>3, <2>4
  <2>6. QED
    BY <2>1, <2>5 DEF c
<1>6. Leaf(a, i) \/ a.nodes[i][1] # -1
  BY <1>1, <1>2 DEF Inner, Leaf
<1>7. QED
  BY <1>4, <1>5, <1>6

(* The next node of a walk, and the rounds of leaves and of try_get.        *)
Step(a, i, x) == IF a.nodes[i][1] \in x THEN a.nodes[i][3] ELSE a.nodes[i][2]
IsWalk(w, a, n, x) ==
  \A i \in 0 .. n - 1 :
    w[i] = IF a.nodes[i][1] = -1 THEN a.nodes[i][2] ELSE w[Step(a, i, x)]

LEMMA LeavesLoop ==
  ASSUME NEW a, NEW n, n \in Nat, Table(a, n), NEW x
  PROVE  IsWalk(leaves(a, x), a, n, x)
<1> DEFINE D == 0 .. n - 1
           S == 0 .. a.ns - 1
           Body(f) == [i \in D |->
             IF a.nodes[i][1] = -1 THEN a.nodes[i][2] ELSE f[Step(a, i, x)]]
           body == [f \in [D -> S] |-> Body(f)]
           below == [i \in D |-> depth(a, i)]
<1>1. D = DOMAIN a.nodes /\ S # {} /\ a.ns \in Int
  <2>1. pow2[MaxBits] \in Nat
    BY PowersGrow, SizesAssumption
  <2>2. QED
    BY <2>1 DEF Table
<1>2. NbVariables \in Nat /\ below \in Depths(D, NbVariables)
  BY WalksDescend, VariablesAreNumbers DEF Depths
<1>3. ASSUME NEW i \in D, a.nodes[i][1] # -1
      PROVE  Step(a, i, x) \in D /\ depth(a, Step(a, i, x)) < depth(a, i)
  <2>1. \A j \in {2, 3} : a.nodes[i][j] \in D /\ depth(a, a.nodes[i][j]) < depth(a, i)
    BY <1>3, WalksDescend DEF Leaf
  <2>2. Step(a, i, x) = a.nodes[i][2] \/ Step(a, i, x) = a.nodes[i][3]
    BY DEF Step
  <2>3. QED
    BY <2>1, <2>2
<1>4. \A i \in D : a.nodes[i][1] = -1 => a.nodes[i][2] \in S
  <2>1. \A i \in D : Leaf(a, i) \/ Inner(a, n, i)
    BY DEF Table
  <2>2. \A v \in Variables : v # -1
    BY VariablesAreNumbers
  <2>3. QED
    BY <2>1, <2>2 DEF Leaf, Inner
<1>5. body \in Bodies(D, S)
  <2>1. ASSUME NEW f \in [D -> S] PROVE Body(f) \in [D -> S]
    BY <1>3, <1>4
  <2>2. QED
    BY <2>1 DEF Bodies
<1>6. Descends(D, S, below, body)
  <2>1. ASSUME NEW f \in [D -> S], NEW g \in [D -> S], NEW i \in D,
               \A e \in D : below[e] < below[i] => f[e] = g[e]
        PROVE  Body(f)[i] = Body(g)[i]
    <3>1. CASE a.nodes[i][1] = -1
      BY <3>1
    <3>2. CASE a.nodes[i][1] # -1
      <4>1. f[Step(a, i, x)] = g[Step(a, i, x)]
        BY <1>3, <2>1, <3>2
      <4>2. QED
        BY <3>2, <4>1
    <3>3. QED
      BY <3>1, <3>2
  <2> HIDE DEF Body, D, S
  <2>2. \A f \in [D -> S] : body[f] = Body(f)
    OBVIOUS
  <2> HIDE DEF body, below
  <2>3. QED
    BY <2>1, <2>2 DEF Descends
<1>7. PICK h : h \in [D -> S] /\ h = body[h]
  <2> HIDE DEF D, S, body, below
  <2>1. S # {}
    BY <1>1
  <2>2. \E f : f \in [D -> S] /\ f = body[f]
    BY <1>2, <1>5, <1>6, <2>1, DescentExists
  <2>3. QED
    BY <2>2
<1>8. h = Body(h)
  BY <1>7
<1>9. leaves(a, x) = CHOOSE w : w = Body(w)
  BY <1>1 DEF leaves, Step
<1>10. leaves(a, x) = Body(leaves(a, x))
  <2> HIDE DEF Body
  <2>1. QED
    BY <1>8, <1>9
<1>11. QED
  <2> DEFINE w == leaves(a, x)
  <2>1. w = Body(w)
    BY <1>10
  <2> HIDE DEF w
  <2>2. IsWalk(w, a, n, x)
    BY <2>1, Zenon DEF IsWalk
  <2>3. QED
    BY <2>2 DEF w

(* A walk leads to a state.                                                 *)
LEMMA LeavesType ==
  ASSUME NEW a, NEW n, n \in Nat, Table(a, n), NEW x
  PROVE  \A i \in 0 .. n - 1 : leaves(a, x)[i] \in 0 .. a.ns - 1
<1> DEFINE w == leaves(a, x)
           P == {k \in Nat : \A i \in 0 .. n - 1 : depth(a, i) < k => w[i] \in 0 .. a.ns - 1}
<1>1. IsWalk(w, a, n, x)
  BY LeavesLoop
<1> HIDE DEF w
<1>2. 0 \in P
  BY WalksDescend
<1>3. ASSUME NEW k \in 0 .. (NbVariables + 1) - 1, k \in P PROVE k + 1 \in P
  <2>1. k \in Nat /\ k + 1 \in Nat
    OBVIOUS
  <2>2. ASSUME NEW i \in 0 .. n - 1, depth(a, i) < k + 1 PROVE w[i] \in 0 .. a.ns - 1
    <3>1. w[i] = IF a.nodes[i][1] = -1 THEN a.nodes[i][2] ELSE w[Step(a, i, x)]
      BY <1>1 DEF IsWalk
    <3>2. CASE Leaf(a, i)
      BY <3>1, <3>2 DEF Leaf
    <3>3. CASE a.nodes[i][1] # -1 /\ \A j \in {2, 3} :
                 a.nodes[i][j] \in 0 .. n - 1 /\ depth(a, a.nodes[i][j]) < depth(a, i)
      <4> DEFINE c == Step(a, i, x)
      <4>1. c \in 0 .. n - 1 /\ depth(a, c) < depth(a, i)
        BY <3>3 DEF Step
      <4> HIDE DEF c
      <4>2. depth(a, c) \in 0 .. NbVariables /\ depth(a, i) \in 0 .. NbVariables
        BY <4>1, WalksDescend
      <4>3. depth(a, c) < k
        BY <2>1, <2>2, <4>1, <4>2
      <4>4. w[c] \in 0 .. a.ns - 1
        BY <1>3, <4>1, <4>3
      <4>5. QED
        BY <3>1, <3>3, <4>4 DEF c
    <3>4. QED
      BY <3>2, <3>3, WalksDescend
  <2>3. QED
    BY <2>1, <2>2
<1>4. NbVariables + 1 \in P
  <2> HIDE DEF P
  <2>1. P \in SUBSET Nat /\ NbVariables + 1 \in Nat
    BY VariablesAreNumbers DEF P
  <2>2. \A k \in 0 .. NbVariables + 1 : k \in P
    BY <1>2, <1>3, <2>1, InductionUpTo
  <2>3. QED
    BY <2>1, <2>2
<1>5. \A i \in 0 .. n - 1 : depth(a, i) < NbVariables + 1
  BY WalksDescend, VariablesAreNumbers
<1>6. QED
  BY <1>4, <1>5 DEF w

Listing(a, n) == [i \in 1 .. n |-> a.nodes[i - 1]]
Digit(node, k) == IF k \in state2bin(node[2]) THEN Interpretation ELSE {}
IsTryGet(t, a, n, b) ==
  \A i \in 1 .. n : t[i] =
    [k \in 0 .. b - 1 |->
       IF a.nodes[i - 1][1] = -1 THEN Digit(a.nodes[i - 1], k)
       ELSE Ite(a.nodes[i - 1][1], t[a.nodes[i - 1][3] + 1][k], t[a.nodes[i - 1][2] + 1][k])]

LEMMA TryGetLoop ==
  ASSUME NEW a, NEW n, n \in Nat, Table(a, n), NEW b
  PROVE  IsTryGet(try_get(Listing(a, n), b), a, n, b)
<1> DEFINE D == 1 .. n
           S == [0 .. b - 1 -> SUBSET Interpretation]
           Body(f) == [i \in D |-> [k \in 0 .. b - 1 |->
             IF a.nodes[i - 1][1] = -1 THEN Digit(a.nodes[i - 1], k)
             ELSE Ite(a.nodes[i - 1][1], f[a.nodes[i - 1][3] + 1][k], f[a.nodes[i - 1][2] + 1][k])]]
           body == [f \in [D -> S] |-> Body(f)]
           below == [i \in D |-> depth(a, i - 1)]
<1>1. S # {}
  <2>1. [k \in 0 .. b - 1 |-> {}] \in S
    OBVIOUS
  <2>2. QED
    BY <2>1
<1>2. \A i \in D : i - 1 \in 0 .. n - 1
  OBVIOUS
<1>3. NbVariables \in Nat /\ below \in Depths(D, NbVariables)
  BY <1>2, WalksDescend, VariablesAreNumbers DEF Depths
<1>4. ASSUME NEW i \in D, a.nodes[i - 1][1] # -1, NEW j \in {2, 3}
      PROVE  a.nodes[i - 1][j] + 1 \in D /\ below[a.nodes[i - 1][j] + 1] < below[i]
  <2>1. a.nodes[i - 1][j] \in 0 .. n - 1 /\ depth(a, a.nodes[i - 1][j]) < depth(a, i - 1)
    BY <1>2, <1>4, WalksDescend DEF Leaf
  <2> DEFINE c == a.nodes[i - 1][j]
  <2>2. c \in 0 .. n - 1 /\ depth(a, c) < depth(a, i - 1)
    BY <2>1
  <2> HIDE DEF c
  <2>3. c + 1 \in D /\ (c + 1) - 1 = c
    BY <2>2
  <2>4. c + 1 \in D /\ below[c + 1] < below[i]
    BY <2>2, <2>3
  <2>5. QED
    BY <2>4 DEF c
<1>5. body \in Bodies(D, S)
  <2>1. ASSUME NEW f \in [D -> S] PROVE Body(f) \in [D -> S]
    <3>1. ASSUME NEW i \in D PROVE Body(f)[i] \in S
      BY DEF Digit, Ite
    <3>2. QED
      BY <3>1
  <2>2. QED
    BY <2>1 DEF Bodies
<1>6. Descends(D, S, below, body)
  <2>1. ASSUME NEW f \in [D -> S], NEW g \in [D -> S], NEW i \in D,
               \A e \in D : below[e] < below[i] => f[e] = g[e]
        PROVE  Body(f)[i] = Body(g)[i]
    <3>1. CASE a.nodes[i - 1][1] = -1
      BY <3>1
    <3>2. CASE a.nodes[i - 1][1] # -1
      <4>1. /\ f[a.nodes[i - 1][3] + 1] = g[a.nodes[i - 1][3] + 1]
            /\ f[a.nodes[i - 1][2] + 1] = g[a.nodes[i - 1][2] + 1]
        <5> HIDE DEF D, S, below
        <5>1. QED
          BY <1>4, <2>1, <3>2
      <4>2. QED
        BY <3>2, <4>1
    <3>3. QED
      BY <3>1, <3>2
  <2> HIDE DEF Body, D, S
  <2>2. \A f \in [D -> S] : body[f] = Body(f)
    OBVIOUS
  <2> HIDE DEF body, below
  <2>3. QED
    BY <2>1, <2>2 DEF Descends
<1>7. PICK h : h \in [D -> S] /\ h = body[h]
  <2> HIDE DEF D, S, body, below
  <2>1. \E f : f \in [D -> S] /\ f = body[f]
    BY <1>1, <1>3, <1>5, <1>6, DescentExists
  <2>2. QED
    BY <2>1
<1>8. h = Body(h)
  BY <1>7
<1> DEFINE t == try_get(Listing(a, n), b)
           Get(f) == [i \in DOMAIN Listing(a, n) |->
             LET node == Listing(a, n)[i] IN
             [k \in 0 .. b - 1 |->
                IF node[1] = -1 THEN Digit(node, k)
                ELSE Ite(node[1], f[node[3] + 1][k], f[node[2] + 1][k])]]
<1>9. t = CHOOSE f : f = Get(f)
  BY DEF try_get, Digit
<1>10. ASSUME NEW f PROVE Get(f) = Body(f)
  BY DEF Listing
<1>11. t = Body(t)
  <2> HIDE DEF Body, Get, t
  <2>1. h = Get(h)
    BY <1>8, <1>10
  <2>2. t = Get(t)
    BY <1>9, <2>1
  <2>3. QED
    BY <1>10, <2>2
<1>12. QED
  <2> HIDE DEF t
  <2>1. IsTryGet(t, a, n, b)
    BY <1>11, Zenon DEF IsTryGet
  <2>2. QED
    BY <2>1 DEF t

(* The BDDs of a node hold the digits of the state to which it leads.       *)
LEMMA TryGetAgrees ==
  ASSUME NEW a, NEW n, n \in Nat, Table(a, n), NEW b, NEW x \in Interpretation
  PROVE  \A i \in 0 .. n - 1 : \A k \in 0 .. b - 1 :
           x \in try_get(Listing(a, n), b)[i + 1][k] <=> k \in state2bin(leaves(a, x)[i])
<1> DEFINE t == try_get(Listing(a, n), b)
           w == leaves(a, x)
           Agrees(i) == \A k \in 0 .. b - 1 : x \in t[i + 1][k] <=> k \in state2bin(w[i])
           P == {k \in Nat : \A i \in 0 .. n - 1 : depth(a, i) < k => Agrees(i)}
<1>1. IsTryGet(t, a, n, b) /\ IsWalk(w, a, n, x)
  BY TryGetLoop, LeavesLoop
<1> HIDE DEF t, w
<1>2. 0 \in P
  BY WalksDescend
<1>3. ASSUME NEW k \in 0 .. (NbVariables + 1) - 1, k \in P PROVE k + 1 \in P
  <2>1. k \in Nat /\ k + 1 \in Nat
    OBVIOUS
  <2>2. ASSUME NEW i \in 0 .. n - 1, depth(a, i) < k + 1 PROVE Agrees(i)
    <3>1. w[i] = IF a.nodes[i][1] = -1 THEN a.nodes[i][2] ELSE w[Step(a, i, x)]
      BY <1>1 DEF IsWalk
    <3>2. \A d \in 0 .. b - 1 : t[i + 1][d] =
            IF a.nodes[i][1] = -1 THEN Digit(a.nodes[i], d)
            ELSE Ite(a.nodes[i][1], t[a.nodes[i][3] + 1][d], t[a.nodes[i][2] + 1][d])
      <4>1. i + 1 \in 1 .. n /\ (i + 1) - 1 = i
        OBVIOUS
      <4>2. t[i + 1] = [d \in 0 .. b - 1 |->
              IF a.nodes[i][1] = -1 THEN Digit(a.nodes[i], d)
              ELSE Ite(a.nodes[i][1], t[a.nodes[i][3] + 1][d], t[a.nodes[i][2] + 1][d])]
        BY <1>1, <4>1 DEF IsTryGet
      <4>3. QED
        BY <4>2, Zenon
    <3>3. CASE Leaf(a, i)
      BY <3>1, <3>2, <3>3 DEF Leaf, Digit
    <3>4. CASE a.nodes[i][1] # -1 /\ \A j \in {2, 3} :
                 a.nodes[i][j] \in 0 .. n - 1 /\ depth(a, a.nodes[i][j]) < depth(a, i)
      <4>1. \A j \in {2, 3} : Agrees(a.nodes[i][j])
        <5>1. ASSUME NEW c \in 0 .. n - 1, depth(a, c) < depth(a, i) PROVE Agrees(c)
          <6>1. depth(a, c) \in 0 .. NbVariables /\ depth(a, i) \in 0 .. NbVariables
            BY WalksDescend
          <6>2. depth(a, c) < k
            BY <2>1, <2>2, <5>1, <6>1
          <6> HIDE DEF Agrees
          <6>3. QED
            BY <1>3, <5>1, <6>2
        <5> HIDE DEF Agrees
        <5>2. QED
          BY <3>4, <5>1
      <4>2. CASE a.nodes[i][1] \in x
        BY <3>1, <3>2, <3>4, <4>1, <4>2 DEF Ite, Step
      <4>3. CASE a.nodes[i][1] \notin x
        BY <3>1, <3>2, <3>4, <4>1, <4>3 DEF Ite, Step
      <4>4. QED
        BY <4>2, <4>3
    <3>5. QED
      <4> HIDE DEF Agrees
      <4>1. QED
        BY <3>3, <3>4, WalksDescend
  <2> HIDE DEF Agrees
  <2>3. QED
    BY <2>1, <2>2
<1>4. NbVariables + 1 \in P
  <2> HIDE DEF P
  <2>1. P \in SUBSET Nat /\ NbVariables + 1 \in Nat
    BY VariablesAreNumbers DEF P
  <2>2. \A k \in 0 .. NbVariables + 1 : k \in P
    BY <1>2, <1>3, <2>1, InductionUpTo
  <2>3. QED
    BY <2>1, <2>2
<1>5. \A i \in 0 .. n - 1 : depth(a, i) < NbVariables + 1
  BY WalksDescend, VariablesAreNumbers
<1>6. QED
  BY <1>4, <1>5 DEF t, w

-----------------------------------------------------------------------------
(* The file, line by line.                                                  *)

(* Appending a sequence of k elements to one of m.                          *)
IsList(s, m, S) == s \in [1 .. m -> S]
IsJoined(c, s, m, t, k) == c = [p \in 1 .. m + k |-> IF p <= m THEN s[p] ELSE t[p - m]]

LEMMA Concatenates ==
  ASSUME NEW S, NEW m, m \in Nat, NEW k, k \in Nat,
         NEW s, IsList(s, m, S), NEW t, IsList(t, k, S)
  PROVE  IsJoined(s \o t, s, m, t, k) /\ IsList(s \o t, m + k, S)
<1>1. s \in Seq(S) /\ Len(s) = m /\ t \in Seq(S) /\ Len(t) = k
  BY DEF IsList
<1> DEFINE c == s \o t
<1>2. /\ c \in Seq(S) /\ Len(c) = m + k
      /\ \A i \in 1 .. m + k : c[i] = IF i <= m THEN s[i] ELSE t[i - m]
  BY <1>1, ConcatProperties
<1> HIDE DEF c
<1>3. c \in [1 .. m + k -> S]
  BY <1>2
<1>4. QED
  BY <1>2, <1>3 DEF c, IsJoined, IsList

Words == [i \in 1 .. NbVariables |-> Names[i][1]]

(* Names are written one after the other.                                   *)
LEMMA NamesAreFlattened == FlattenSeq(Names) = Words /\ Len(Names) = NbVariables
<1> DEFINE m == NbVariables
           Body(h) == [i \in 1 .. m |-> IF i = 1 THEN Names[i] ELSE h[i - 1] \o Names[i]]
           Upto(k) == [i \in 1 .. k |-> Names[i][1]]
           W == STRING
           h == [k \in 1 .. m |-> Upto(k)]
<1>1. m \in Nat /\ m > 0 /\ Names \in [1 .. m -> Seq(STRING)] /\ \A i \in 1 .. m : Len(Names[i]) = 1
  BY NamesAssumption, SizesAssumption
<1>2. Len(Names) = m
  BY <1>1
<1>3. ASSUME NEW i \in 1 .. m PROVE Names[i] = <<Names[i][1]>> /\ Names[i][1] \in W
  BY <1>1
<1> HIDE DEF W
<1>4. ASSUME NEW k \in 1 .. m PROVE Upto(k) = IF k = 1 THEN Names[k] ELSE Upto(k - 1) \o Names[k]
  <2>1. \A i \in 1 .. k : i \in 1 .. m
    BY <1>1
  <2>2. \A i \in 1 .. k : Names[i][1] \in W
    BY <1>3, <2>1
  <2>3. CASE k = 1
    <3>1. Upto(1) = <<Names[1][1]>>
      OBVIOUS
    <3>2. QED
      BY <1>3, <2>3, <3>1
  <2>4. CASE k # 1
    <3> DEFINE s == Upto(k - 1)
               e == Names[k][1]
    <3>1. k - 1 \in Nat /\ s \in [1 .. k - 1 -> W] /\ e \in W
      BY <1>1, <2>2, <2>4
    <3>2. s \o <<e>> = [i \in 1 .. k |-> IF i = k THEN e ELSE s[i]]
      <4> HIDE DEF s, e
      <4> DEFINE l == <<e>>
      <4>0. l \in [1 .. 1 -> W] /\ l[1] = e
        BY <3>1
      <4> HIDE DEF l
      <4>1. 1 \in Nat /\ (k - 1) + 1 = k
        BY <3>1
      <4>2. s \o l = [i \in 1 .. k |-> IF i <= k - 1 THEN s[i] ELSE l[i - (k - 1)]]
        <5>1. IsJoined(s \o l, s, k - 1, l, 1)
          <6>1. IsList(s, k - 1, W) /\ IsList(l, 1, W) /\ k - 1 \in Nat
            BY <3>1, <4>0 DEF IsList
          <6>2. QED
            BY <4>1, <6>1, Concatenates
        <5>2. QED
          BY <4>1, <5>1, Zenon DEF IsJoined
      <4>3. \A i \in 1 .. k : /\ i <= k - 1 <=> i # k
                             /\ i = k => i - (k - 1) = 1
        BY <3>1
      <4>4. QED
        BY <4>0, <4>2, <4>3 DEF l
    <3>3. \A i \in 1 .. k : i # k => i \in 1 .. k - 1
      OBVIOUS
    <3>4. Upto(k) = s \o <<e>>
      BY <3>2, <3>3
    <3>5. QED
      BY <1>3, <2>4, <3>4
  <2>5. QED
    BY <2>3, <2>4
<1> HIDE DEF Upto
<1>5. h = Body(h)
  <2>1. ASSUME NEW k \in 1 .. m PROVE h[k] = IF k = 1 THEN Names[k] ELSE h[k - 1] \o Names[k]
    <3>1. k # 1 => k - 1 \in 1 .. m
      BY <1>1
    <3>2. QED
      BY <1>4, <3>1
  <2>2. QED
    BY <2>1
<1> DEFINE flatten == CHOOSE f : f = Body(f)
<1>6. FlattenSeq(Names) = flatten[m]
  BY <1>1, <1>2 DEF FlattenSeq
<1>7. flatten = Body(flatten)
  <2> HIDE DEF Body
  <2>1. QED
    BY <1>5
<1>8. \A k \in 1 .. m : flatten[k] = IF k = 1 THEN Names[k] ELSE flatten[k - 1] \o Names[k]
  <2> HIDE DEF flatten
  <2>1. QED
    BY <1>7, Zenon
<1> HIDE DEF flatten, h, Body
<1> DEFINE P == {k \in Nat : k > 0 => flatten[k] = Upto(k)}
<1>9. 0 \in P
  OBVIOUS
<1>10. ASSUME NEW k \in 0 .. m - 1, k \in P PROVE k + 1 \in P
  <2>1. k + 1 \in 1 .. m /\ (k + 1) - 1 = k /\ k + 1 \in Nat /\ (k + 1 # 1 => k > 0)
    BY <1>1
  <2>2. flatten[k + 1] = IF k + 1 = 1 THEN Names[k + 1] ELSE flatten[k] \o Names[k + 1]
    BY <1>8, <2>1
  <2>3. Upto(k + 1) = IF k + 1 = 1 THEN Names[k + 1] ELSE Upto(k) \o Names[k + 1]
    BY <1>4, <2>1
  <2>4. flatten[k + 1] = Upto(k + 1)
    BY <1>10, <2>1, <2>2, <2>3
  <2>5. QED
    BY <2>1, <2>4
<1>11. m \in P
  <2> HIDE DEF P
  <2>1. P \in SUBSET Nat
    BY DEF P
  <2>2. \A k \in 0 .. m : k \in P
    BY <1>1, <1>9, <1>10, <2>1, InductionUpTo
  <2>3. QED
    BY <1>1, <2>2
<1>12. flatten[m] = Upto(m)
  BY <1>1, <1>11
<1>13. Upto(m) = Words
  BY DEF Upto, Words
<1>14. QED
  BY <1>2, <1>6, <1>12, <1>13

Header(a, n) ==
  << Line("number_of_variables", <<NbVariables>>), Line("variables", Words),
     Line("orders", <<2>>), Line("states", <<a.ns>>), Line("initial", <<a.s>>),
     Line("bdd_nodes", <<n>>), Line("final", Numbers(a.f)), Line("behaviour", Numbers(a.q)),
     Line("bdd", <<>>) >>
LineAt(a, n, p) ==
  IF p <= 9 THEN Header(a, n)[p]
  ELSE IF p <= n + 9 THEN Line("", a.nodes[p - 10]) ELSE Line("end", <<>>)

LEMMA FileIs ==
  ASSUME NEW a, NEW n, n \in Nat, Table(a, n)
  PROVE  dfaExport(a) = [p \in 1 .. n + 10 |-> LineAt(a, n, p)]
<1>1. DOMAIN a.nodes = 0 .. n - 1 /\ Cardinality(0 .. n - 1) = n
  <2>1. Cardinality(0 .. n - 1) = n
    BY FS_Interval
  <2>2. QED
    BY <2>1 DEF Table
<1> DEFINE head == Header(a, n)
           body == [i \in 1 .. n |-> Line("", a.nodes[i - 1])]
           end == << Line("end", <<>>) >>
           S == {head[i] : i \in 1 .. 9} \cup {body[i] : i \in 1 .. n} \cup {Line("end", <<>>)}
<1>2. Numbers(a.nodes) = [i \in 1 .. n |-> a.nodes[i - 1]]
  BY <1>1 DEF Numbers
<1>3. [i \in DOMAIN Numbers(a.nodes) |-> Line("", Numbers(a.nodes)[i])] = body
  BY <1>2
<1>4. dfaExport(a) = head \o body \o end
  BY <1>1, <1>3, NamesAreFlattened DEF dfaExport, Header
<1>5. head \in [1 .. 9 -> S]
  <2> HIDE DEF body
  <2>1. \A i \in 1 .. 9 : head[i] \in S
    <3> HIDE DEF head
    <3>1. QED
      OBVIOUS
  <2>2. head = [i \in 1 .. 9 |-> head[i]]
    BY DEF Header
  <2> HIDE DEF head, S
  <2>3. QED
    BY <2>1, <2>2
<1>6. body \in [1 .. n -> S]
  <2>1. body = [i \in 1 .. n |-> body[i]]
    OBVIOUS
  <2> HIDE DEF head, body
  <2>2. \A i \in 1 .. n : body[i] \in S
    OBVIOUS
  <2> HIDE DEF S
  <2>3. QED
    BY <2>1, <2>2
<1>7. end \in [1 .. 1 -> S] /\ end[1] = Line("end", <<>>)
  <2> HIDE DEF head, body
  <2>1. Line("end", <<>>) \in S
    OBVIOUS
  <2> HIDE DEF S
  <2>2. QED
    BY <2>1
<1>8. \A p \in 1 .. n + 10 : LineAt(a, n, p) =
        IF p <= 9 THEN head[p] ELSE IF p <= n + 9 THEN body[p - 9] ELSE end[1]
  <2>1. ASSUME NEW p \in 1 .. n + 10, ~ (p <= 9), p <= n + 9
        PROVE  Line("", a.nodes[p - 10]) = body[p - 9]
    <3>1. p - 9 \in 1 .. n /\ (p - 9) - 1 = p - 10
      BY <2>1
    <3>2. QED
      BY <3>1
  <2> HIDE DEF body, head
  <2>2. QED
    BY <1>7, <2>1 DEF LineAt, head
<1> HIDE DEF head, body, end, S
<1> DEFINE both == head \o body
<1>16. IsList(head, 9, S) /\ IsList(body, n, S) /\ IsList(end, 1, S)
  BY <1>5, <1>6, <1>7 DEF IsList
<1>9. 9 \in Nat /\ 1 \in Nat /\ n + 9 \in Nat /\ 9 + n = n + 9 /\ (n + 9) + 1 = n + 10
  OBVIOUS
<1>10. both = [p \in 1 .. n + 9 |-> IF p <= 9 THEN head[p] ELSE body[p - 9]]
  <2>1. IsJoined(both, head, 9, body, n)
    BY <1>16, <1>9, Concatenates DEF both
  <2>2. QED
    BY <1>9, <2>1, Zenon DEF IsJoined
<1>11. IsList(both, n + 9, S)
  BY <1>16, <1>9, Concatenates DEF both
<1> HIDE DEF both
<1>12. both \o end = [p \in 1 .. n + 10 |-> IF p <= n + 9 THEN both[p] ELSE end[p - (n + 9)]]
  <2>1. IsJoined(both \o end, both, n + 9, end, 1)
    BY <1>16, <1>9, <1>11, Concatenates
  <2>2. QED
    BY <1>9, <2>1, Zenon DEF IsJoined
<1>13. ASSUME NEW p \in 1 .. n + 10
       PROVE  (IF p <= n + 9 THEN both[p] ELSE end[p - (n + 9)]) = LineAt(a, n, p)
  <2>1. CASE p <= n + 9
    <3>1. p \in 1 .. n + 9
      BY <2>1
    <3>2. both[p] = IF p <= 9 THEN head[p] ELSE body[p - 9]
      BY <1>10, <3>1
    <3>3. QED
      BY <1>8, <2>1, <3>2
  <2>2. CASE ~ (p <= n + 9)
    <3>1. p - (n + 9) = 1 /\ ~ (p <= 9)
      BY <2>2
    <3>2. QED
      BY <1>8, <2>2, <3>1
  <2>3. QED
    BY <2>1, <2>2
<1>14. both \o end = [p \in 1 .. n + 10 |-> LineAt(a, n, p)]
  BY <1>12, <1>13
<1>15. QED
  BY <1>4, <1>14 DEF both

(* What is known after p lines.                                             *)
Record(nv, vs, ns, is, nn, fs, be, no, p) ==
  [nb_variables |-> nv, variables |-> vs, nb_states |-> ns, initial_state |-> is,
   nb_nodes |-> nn, final_states |-> fs, behaviour |-> be, mona_bdd_nodes |-> no, flag |-> p >= 9]
Finals(a) == {s \in 0 .. a.ns - 1 : a.f[s] = 1}
ReaderAt(a, n, p) ==
  Record(IF p >= 1 THEN NbVariables ELSE -1, IF p >= 2 THEN Words ELSE <<>>,
         IF p >= 4 THEN a.ns ELSE -1, IF p >= 5 THEN a.s ELSE -1, IF p >= 6 THEN n ELSE -1,
         IF p >= 7 THEN Finals(a) ELSE {}, IF p >= 8 THEN Numbers(a.q) ELSE <<>>,
         Listing(a, p - 9), p)

(* A line other than the first two mentions its own key only.               *)
LEMMA KeysAreTheirOwn ==
  ASSUME NEW line, line.key \notin {"number_of_variables", "variables"}, NEW target
  PROVE  strfind(line, target) <=> target = line.key
  BY DEF strfind

Keys == <<"states", "initial", "bdd_nodes", "final", "behaviour", "bdd">>

LEMMA KeysAre ==
  /\ DOMAIN Keys = 1 .. 6
  /\ \A i \in 1 .. 6 : Keys[i] \notin {"number_of_variables", "variables", "number", "orders"}
  /\ \A i, j \in 1 .. 6 : Keys[i] = Keys[j] => i = j
  /\ \A key \in {"states", "initial", "bdd_nodes", "final", "behaviour", "bdd"} :
       \E i \in 1 .. 6 : Keys[i] = key
<1>1. /\ DOMAIN Keys = 1 .. 6 /\ Keys[1] = "states" /\ Keys[2] = "initial"
      /\ Keys[3] = "bdd_nodes" /\ Keys[4] = "final" /\ Keys[5] = "behaviour" /\ Keys[6] = "bdd"
  BY DEF Keys
<1>2. \A i \in 1 .. 6 : i = 1 \/ i = 2 \/ i = 3 \/ i = 4 \/ i = 5 \/ i = 6
  OBVIOUS
<1>3. \A i \in 1 .. 6 : Keys[i] \notin {"number_of_variables", "variables", "number", "orders"}
  BY <1>1, <1>2
<1>4. \A i, j \in 1 .. 6 : Keys[i] = Keys[j] => i = j
  BY <1>1, <1>2
<1>5. \A key \in {"states", "initial", "bdd_nodes", "final", "behaviour", "bdd"} :
        \E i \in 1 .. 6 : Keys[i] = key
  <2>1. 1 \in 1 .. 6 /\ 2 \in 1 .. 6 /\ 3 \in 1 .. 6 /\ 4 \in 1 .. 6 /\ 5 \in 1 .. 6 /\ 6 \in 1 .. 6
    OBVIOUS
  <2>2. QED
    BY <1>1, <2>1
<1>6. QED
  BY <1>1, <1>3, <1>4, <1>5

LEMMA RecognizesKeys ==
  ASSUME NEW line, NEW j \in 1 .. 6, line.key = Keys[j]
  PROVE  Recognized(line) = Keys[j] /\ ~ strfind(line, "number_of_variables")
<1> DEFINE found == {i \in DOMAIN Keys : strfind(line, Keys[i])}
<1>1. DOMAIN Keys = 1 .. 6 /\ \A i \in 1 .. 6 : Keys[i] = Keys[j] => i = j
  BY KeysAre
<1>2. Keys[j] \notin {"number_of_variables", "variables", "number"}
  BY KeysAre
<1>3. \A target : strfind(line, target) <=> target = Keys[j]
  BY <1>2, KeysAreTheirOwn
<1>4. found = {j}
  BY <1>1, <1>3
<1>5. Min(found) = j
  BY <1>4 DEF Min
<1>6. Recognized(line) =
        IF strfind(line, "variables") /\ ~strfind(line, "number") THEN "variables"
        ELSE IF found = {} THEN "" ELSE Keys[Min(found)]
  BY DEF Recognized, Keys
<1> HIDE DEF found
<1>7. QED
  BY <1>2, <1>3, <1>4, <1>5, <1>6

(* The lines of the number of variables and of the orders tell nothing      *)
(* else, and the names are taken for names whatever they mention.           *)
LEMMA RecognizesOthers ==
  ASSUME NEW line
  PROVE  /\ line.key = "orders" => Recognized(line) = "" /\ ~ strfind(line, "number_of_variables")
         /\ line.key = "number_of_variables" =>
              Recognized(line) = "" /\ strfind(line, "number_of_variables")
         /\ line.key = "variables" /\ line.fields = Words =>
              Recognized(line) = "variables" /\ ~ strfind(line, "number_of_variables")
<1> DEFINE found == {i \in DOMAIN Keys : strfind(line, Keys[i])}
<1>1. Recognized(line) =
        IF strfind(line, "variables") /\ ~strfind(line, "number") THEN "variables"
        ELSE IF found = {} THEN "" ELSE Keys[Min(found)]
  BY DEF Recognized, Keys
<1>2. /\ DOMAIN Keys = 1 .. 6
      /\ \A i \in 1 .. 6 : Keys[i] \notin {"number_of_variables", "variables", "number", "orders"}
  BY KeysAre
<1>3. ASSUME line.key = "orders"
      PROVE  Recognized(line) = "" /\ ~ strfind(line, "number_of_variables")
  <2>1. \A target : strfind(line, target) <=> target = "orders"
    BY <1>3, KeysAreTheirOwn
  <2>2. found = {}
    BY <1>2, <2>1
  <2> HIDE DEF found
  <2>3. QED
    BY <1>1, <2>1, <2>2
<1>4. ASSUME line.key = "number_of_variables"
      PROVE  Recognized(line) = "" /\ strfind(line, "number_of_variables")
  <2>1. \A target : strfind(line, target) <=>
                       target \in {"number_of_variables", "number", "variables"}
    BY <1>4 DEF strfind
  <2>2. ASSUME NEW i \in 1 .. 6 PROVE ~ strfind(line, Keys[i])
    BY <1>2, <2>1
  <2>3. found = {}
    BY <1>2, <2>2
  <2> HIDE DEF found
  <2>4. QED
    BY <1>1, <2>1, <2>3
<1>5. ASSUME line.key = "variables", line.fields = Words
      PROVE  Recognized(line) = "variables" /\ ~ strfind(line, "number_of_variables")
  <2>1. DOMAIN line.fields = 1 .. NbVariables
        /\ \A i \in 1 .. NbVariables : line.fields[i] = Names[i][1]
    BY <1>5 DEF Words
  <2>2. \A i \in DOMAIN line.fields :
          /\ "number" \notin Mentioned(line.fields[i])
          /\ "number_of_variables" \notin Mentioned(line.fields[i])
    BY <2>1, NamesAssumption
  <2>3. strfind(line, "variables") /\ ~ strfind(line, "number")
        /\ ~ strfind(line, "number_of_variables")
    BY <1>5, <2>2 DEF strfind
  <2> HIDE DEF found
  <2>4. QED
    BY <1>1, <2>3
<1>6. QED
  BY <1>3, <1>4, <1>5

(* The nine lines of the header, and what each is recognized as.            *)
LEMMA HeaderLines ==
  ASSUME NEW a, NEW n
  PROVE  /\ LineAt(a, n, 1) = Line("number_of_variables", <<NbVariables>>)
         /\ LineAt(a, n, 2) = Line("variables", Words)
         /\ LineAt(a, n, 3) = Line("orders", <<2>>)
         /\ LineAt(a, n, 4) = Line("states", <<a.ns>>)
         /\ LineAt(a, n, 5) = Line("initial", <<a.s>>)
         /\ LineAt(a, n, 6) = Line("bdd_nodes", <<n>>)
         /\ LineAt(a, n, 7) = Line("final", Numbers(a.f))
         /\ LineAt(a, n, 8) = Line("behaviour", Numbers(a.q))
         /\ LineAt(a, n, 9) = Line("bdd", <<>>)
  BY DEF LineAt, Header

LEMMA LineHas ==
  ASSUME NEW key, NEW fields
  PROVE  Line(key, fields).key = key /\ Line(key, fields).fields = fields
  BY DEF Line

(* A line that is recognized by its own key.                                *)
LEMMA OwnKey ==
  ASSUME NEW line, NEW key, NEW fields, line = Line(key, fields),
         key \in {"states", "initial", "bdd_nodes", "final", "behaviour", "bdd"}
  PROVE  Recognized(line) = key /\ ~ strfind(line, "number_of_variables")
<1>1. line.key = key
  BY LineHas
<1>2. PICK j \in 1 .. 6 : Keys[j] = key
  BY KeysAre
<1>3. QED
  BY <1>1, <1>2, RecognizesKeys

LEMMA SizeIs == ASSUME NEW m \in Nat PROVE Cardinality(0 .. m - 1) = m
  BY FS_Interval

OnesOf(fields) == {i - 1 : i \in {j \in DOMAIN fields : fields[j] = 1}}

(* The ones of the line "final" are the final states.                       *)
LEMMA FinalsAreRead ==
  ASSUME NEW m \in Nat, NEW f, DOMAIN f = 0 .. m - 1
  PROVE  OnesOf(Numbers(f)) = {s \in 0 .. m - 1 : f[s] = 1}
<1>1. Numbers(f) = [i \in 1 .. m |-> f[i - 1]]
  BY SizeIs DEF Numbers
<1> DEFINE ones == {j \in 1 .. m : f[j - 1] = 1}
           finals == {s \in 0 .. m - 1 : f[s] = 1}
<1>2. {j \in DOMAIN Numbers(f) : Numbers(f)[j] = 1} = ones
  BY <1>1
<1>3. ASSUME NEW s \in finals PROVE s \in {i - 1 : i \in ones}
  <2>1. s + 1 \in 1 .. m /\ (s + 1) - 1 = s /\ f[s] = 1
    OBVIOUS
  <2>2. s + 1 \in ones
    BY <2>1
  <2>3. QED
    BY <2>1, <2>2
<1>4. ASSUME NEW s \in {i - 1 : i \in ones} PROVE s \in finals
  <2>1. PICK i \in 1 .. m : f[i - 1] = 1 /\ s = i - 1
    OBVIOUS
  <2>2. QED
    BY <2>1
<1>5. {i - 1 : i \in ones} = finals
  BY <1>3, <1>4
<1>6. QED
  BY <1>2, <1>5 DEF OnesOf

(* The record after each line.                                              *)
LEMMA HeaderRecords ==
  ASSUME NEW a, NEW n
  PROVE  /\ ReaderAt(a, n, 0) = Record(-1, <<>>, -1, -1, -1, {}, <<>>, <<>>, 0)
         /\ ReaderAt(a, n, 1) = Record(NbVariables, <<>>, -1, -1, -1, {}, <<>>, <<>>, 1)
         /\ ReaderAt(a, n, 2) = Record(NbVariables, Words, -1, -1, -1, {}, <<>>, <<>>, 2)
         /\ ReaderAt(a, n, 3) = Record(NbVariables, Words, -1, -1, -1, {}, <<>>, <<>>, 3)
         /\ ReaderAt(a, n, 4) = Record(NbVariables, Words, a.ns, -1, -1, {}, <<>>, <<>>, 4)
         /\ ReaderAt(a, n, 5) = Record(NbVariables, Words, a.ns, a.s, -1, {}, <<>>, <<>>, 5)
         /\ ReaderAt(a, n, 6) = Record(NbVariables, Words, a.ns, a.s, n, {}, <<>>, <<>>, 6)
         /\ ReaderAt(a, n, 7) = Record(NbVariables, Words, a.ns, a.s, n, Finals(a), <<>>, <<>>, 7)
         /\ ReaderAt(a, n, 8) = Record(NbVariables, Words, a.ns, a.s, n, Finals(a), Numbers(a.q), <<>>, 8)
         /\ ReaderAt(a, n, 9) = Record(NbVariables, Words, a.ns, a.s, n, Finals(a), Numbers(a.q), <<>>, 9)
<1>1. /\ Listing(a, 0 - 9) = <<>> /\ Listing(a, 1 - 9) = <<>> /\ Listing(a, 2 - 9) = <<>>
      /\ Listing(a, 3 - 9) = <<>> /\ Listing(a, 4 - 9) = <<>> /\ Listing(a, 5 - 9) = <<>>
      /\ Listing(a, 6 - 9) = <<>> /\ Listing(a, 7 - 9) = <<>> /\ Listing(a, 8 - 9) = <<>>
      /\ Listing(a, 9 - 9) = <<>>
  BY DEF Listing
<1>2. ReaderAt(a, n, 0) = Record(-1, <<>>, -1, -1, -1, {}, <<>>, <<>>, 0)
  BY <1>1 DEF ReaderAt
<1>3. ReaderAt(a, n, 1) = Record(NbVariables, <<>>, -1, -1, -1, {}, <<>>, <<>>, 1)
  BY <1>1 DEF ReaderAt
<1>4. ReaderAt(a, n, 2) = Record(NbVariables, Words, -1, -1, -1, {}, <<>>, <<>>, 2)
  BY <1>1 DEF ReaderAt
<1>5. ReaderAt(a, n, 3) = Record(NbVariables, Words, -1, -1, -1, {}, <<>>, <<>>, 3)
  BY <1>1 DEF ReaderAt
<1>6. ReaderAt(a, n, 4) = Record(NbVariables, Words, a.ns, -1, -1, {}, <<>>, <<>>, 4)
  BY <1>1 DEF ReaderAt
<1>7. ReaderAt(a, n, 5) = Record(NbVariables, Words, a.ns, a.s, -1, {}, <<>>, <<>>, 5)
  BY <1>1 DEF ReaderAt
<1>8. ReaderAt(a, n, 6) = Record(NbVariables, Words, a.ns, a.s, n, {}, <<>>, <<>>, 6)
  BY <1>1 DEF ReaderAt
<1>9. ReaderAt(a, n, 7) = Record(NbVariables, Words, a.ns, a.s, n, Finals(a), <<>>, <<>>, 7)
  BY <1>1 DEF ReaderAt
<1>10. ReaderAt(a, n, 8) = Record(NbVariables, Words, a.ns, a.s, n, Finals(a), Numbers(a.q), <<>>, 8)
  BY <1>1 DEF ReaderAt
<1>11. ReaderAt(a, n, 9) = Record(NbVariables, Words, a.ns, a.s, n, Finals(a), Numbers(a.q), <<>>, 9)
  BY <1>1 DEF ReaderAt
<1>12. QED
  BY <1>2, <1>3, <1>4, <1>5, <1>6, <1>7, <1>8, <1>9, <1>10, <1>11

(* What a header line does to the record.                                   *)
AfterLine(line, nv, vs, ns, is, nn, fs, be, no, p) ==
  Record(IF strfind(line, "number_of_variables") THEN line.fields[1] ELSE nv,
         IF Recognized(line) = "variables" THEN line.fields ELSE vs,
         IF Recognized(line) = "states" THEN line.fields[1] ELSE ns,
         IF Recognized(line) = "initial" THEN line.fields[1] ELSE is,
         IF Recognized(line) = "bdd_nodes" THEN line.fields[1] ELSE nn,
         IF Recognized(line) = "final" THEN OnesOf(line.fields) ELSE fs,
         IF Recognized(line) = "behaviour" THEN line.fields ELSE be, no, p)

LEMMA ReadHeaderIs ==
  ASSUME NEW line, NEW nv, NEW vs, NEW ns, NEW is, NEW nn, NEW fs, NEW be, NEW no,
         NEW p, NEW q, Recognized(line) = "bdd" <=> q >= 9
  PROVE  ReadHeader(Record(nv, vs, ns, is, nn, fs, be, no, p), line) =
           AfterLine(line, nv, vs, ns, is, nn, fs, be, no, q)
  BY DEF ReadHeader, Record, OnesOf, AfterLine

(* The header is read as it was written.                                    *)
LEMMA HeaderIsRead ==
  ASSUME NEW a, NEW n, n \in Nat, Table(a, n), NEW p \in 0 .. 8
  PROVE  ReadHeader(ReaderAt(a, n, p), LineAt(a, n, p + 1)) = ReaderAt(a, n, p + 1)
<1>1. ReadHeader(ReaderAt(a, n, 0), LineAt(a, n, 1)) = ReaderAt(a, n, 1)
  <2> DEFINE line == LineAt(a, n, 1)
  <2>1. line = Line("number_of_variables", <<NbVariables>>)
    BY HeaderLines
  <2>2. line.key = "number_of_variables" /\ line.fields = <<NbVariables>> /\ line.fields[1] = NbVariables
    BY <2>1, LineHas
  <2> HIDE DEF line
  <2>3. Recognized(line) = "" /\ strfind(line, "number_of_variables")
    BY <2>1, <2>2, RecognizesOthers
  <2>4. Recognized(line) = "bdd" <=> 1 >= 9
    <3>1. Recognized(line) # "bdd"
      BY <2>3, Zenon
    <3>2. ~ (1 >= 9)
      OBVIOUS
    <3>3. QED
      BY <3>1, <3>2
  <2>5. ReadHeader(Record(-1, <<>>, -1, -1, -1, {}, <<>>, <<>>, 0), line)
         = AfterLine(line, -1, <<>>, -1, -1, -1, {}, <<>>, <<>>, 1)
    BY <2>4, ReadHeaderIs
  <2>6. QED
    BY <2>2, <2>3, <2>5, HeaderRecords DEF AfterLine, line
<1>2. ReadHeader(ReaderAt(a, n, 1), LineAt(a, n, 2)) = ReaderAt(a, n, 2)
  <2> DEFINE line == LineAt(a, n, 2)
  <2>1. line = Line("variables", Words)
    BY HeaderLines
  <2>2. line.key = "variables" /\ line.fields = Words
    BY <2>1, LineHas
  <2> HIDE DEF line
  <2>3. Recognized(line) = "variables" /\ ~ strfind(line, "number_of_variables")
    BY <2>1, <2>2, RecognizesOthers
  <2>4. Recognized(line) = "bdd" <=> 2 >= 9
    BY <2>3
  <2>5. ReadHeader(Record(NbVariables, <<>>, -1, -1, -1, {}, <<>>, <<>>, 1), line)
         = AfterLine(line, NbVariables, <<>>, -1, -1, -1, {}, <<>>, <<>>, 2)
    BY <2>4, ReadHeaderIs
  <2>6. QED
    BY <2>2, <2>3, <2>5, HeaderRecords DEF AfterLine, line
<1>3. ReadHeader(ReaderAt(a, n, 2), LineAt(a, n, 3)) = ReaderAt(a, n, 3)
  <2> DEFINE line == LineAt(a, n, 3)
  <2>1. line = Line("orders", <<2>>)
    BY HeaderLines
  <2>2. line.key = "orders" /\ line.fields = <<2>>
    BY <2>1, LineHas
  <2> HIDE DEF line
  <2>3. Recognized(line) = "" /\ ~ strfind(line, "number_of_variables")
    BY <2>1, <2>2, RecognizesOthers
  <2>4. Recognized(line) = "bdd" <=> 3 >= 9
    <3>1. Recognized(line) # "bdd"
      BY <2>3, Zenon
    <3>2. ~ (3 >= 9)
      OBVIOUS
    <3>3. QED
      BY <3>1, <3>2
  <2>5. ReadHeader(Record(NbVariables, Words, -1, -1, -1, {}, <<>>, <<>>, 2), line)
         = AfterLine(line, NbVariables, Words, -1, -1, -1, {}, <<>>, <<>>, 3)
    BY <2>4, ReadHeaderIs
  <2>6. QED
    BY <2>2, <2>3, <2>5, HeaderRecords DEF AfterLine, line
<1>4. ReadHeader(ReaderAt(a, n, 3), LineAt(a, n, 4)) = ReaderAt(a, n, 4)
  <2> DEFINE line == LineAt(a, n, 4)
  <2>1. line = Line("states", <<a.ns>>)
    BY HeaderLines
  <2>2. line.key = "states" /\ line.fields = <<a.ns>> /\ line.fields[1] = a.ns
    BY <2>1, LineHas
  <2> HIDE DEF line
  <2>3. Recognized(line) = "states" /\ ~ strfind(line, "number_of_variables")
    BY <2>1, <2>2, OwnKey
  <2>4. Recognized(line) = "bdd" <=> 4 >= 9
    BY <2>3
  <2>5. ReadHeader(Record(NbVariables, Words, -1, -1, -1, {}, <<>>, <<>>, 3), line)
         = AfterLine(line, NbVariables, Words, -1, -1, -1, {}, <<>>, <<>>, 4)
    BY <2>4, ReadHeaderIs
  <2>6. QED
    BY <2>2, <2>3, <2>5, HeaderRecords DEF AfterLine, line
<1>5. ReadHeader(ReaderAt(a, n, 4), LineAt(a, n, 5)) = ReaderAt(a, n, 5)
  <2> DEFINE line == LineAt(a, n, 5)
  <2>1. line = Line("initial", <<a.s>>)
    BY HeaderLines
  <2>2. line.key = "initial" /\ line.fields = <<a.s>> /\ line.fields[1] = a.s
    BY <2>1, LineHas
  <2> HIDE DEF line
  <2>3. Recognized(line) = "initial" /\ ~ strfind(line, "number_of_variables")
    BY <2>1, <2>2, OwnKey
  <2>4. Recognized(line) = "bdd" <=> 5 >= 9
    BY <2>3
  <2>5. ReadHeader(Record(NbVariables, Words, a.ns, -1, -1, {}, <<>>, <<>>, 4), line)
         = AfterLine(line, NbVariables, Words, a.ns, -1, -1, {}, <<>>, <<>>, 5)
    BY <2>4, ReadHeaderIs
  <2>6. QED
    BY <2>2, <2>3, <2>5, HeaderRecords DEF AfterLine, line
<1>6. ReadHeader(ReaderAt(a, n, 5), LineAt(a, n, 6)) = ReaderAt(a, n, 6)
  <2> DEFINE line == LineAt(a, n, 6)
  <2>1. line = Line("bdd_nodes", <<n>>)
    BY HeaderLines
  <2>2. line.key = "bdd_nodes" /\ line.fields = <<n>> /\ line.fields[1] = n
    BY <2>1, LineHas
  <2> HIDE DEF line
  <2>3. Recognized(line) = "bdd_nodes" /\ ~ strfind(line, "number_of_variables")
    BY <2>1, <2>2, OwnKey
  <2>4. Recognized(line) = "bdd" <=> 6 >= 9
    BY <2>3
  <2>5. ReadHeader(Record(NbVariables, Words, a.ns, a.s, -1, {}, <<>>, <<>>, 5), line)
         = AfterLine(line, NbVariables, Words, a.ns, a.s, -1, {}, <<>>, <<>>, 6)
    BY <2>4, ReadHeaderIs
  <2>6. QED
    BY <2>2, <2>3, <2>5, HeaderRecords DEF AfterLine, line
<1>7. ReadHeader(ReaderAt(a, n, 6), LineAt(a, n, 7)) = ReaderAt(a, n, 7)
  <2> DEFINE line == LineAt(a, n, 7)
  <2>1. line = Line("final", Numbers(a.f))
    BY HeaderLines
  <2>2. line.key = "final" /\ line.fields = Numbers(a.f)
    BY <2>1, LineHas
  <2> HIDE DEF line
  <2>3. Recognized(line) = "final" /\ ~ strfind(line, "number_of_variables")
    BY <2>1, <2>2, OwnKey
  <2>4. OnesOf(line.fields) = Finals(a)
    <3>1. DOMAIN a.f = 0 .. a.ns - 1 /\ a.ns \in Nat
      <4>1. pow2[MaxBits] \in Nat
        BY PowersGrow, SizesAssumption
      <4>2. QED
        BY <4>1 DEF Table
    <3>2. QED
      BY <2>2, <3>1, FinalsAreRead DEF Finals
  <2>5. Recognized(line) = "bdd" <=> 7 >= 9
    BY <2>3
  <2>6. ReadHeader(Record(NbVariables, Words, a.ns, a.s, n, {}, <<>>, <<>>, 6), line)
         = AfterLine(line, NbVariables, Words, a.ns, a.s, n, {}, <<>>, <<>>, 7)
    BY <2>5, ReadHeaderIs
  <2>7. QED
    BY <2>2, <2>3, <2>4, <2>6, HeaderRecords DEF AfterLine, line
<1>8. ReadHeader(ReaderAt(a, n, 7), LineAt(a, n, 8)) = ReaderAt(a, n, 8)
  <2> DEFINE line == LineAt(a, n, 8)
  <2>1. line = Line("behaviour", Numbers(a.q))
    BY HeaderLines
  <2>2. line.key = "behaviour" /\ line.fields = Numbers(a.q)
    BY <2>1, LineHas
  <2> HIDE DEF line
  <2>3. Recognized(line) = "behaviour" /\ ~ strfind(line, "number_of_variables")
    BY <2>1, <2>2, OwnKey
  <2>4. Recognized(line) = "bdd" <=> 8 >= 9
    BY <2>3
  <2>5. ReadHeader(Record(NbVariables, Words, a.ns, a.s, n, Finals(a), <<>>, <<>>, 7), line)
         = AfterLine(line, NbVariables, Words, a.ns, a.s, n, Finals(a), <<>>, <<>>, 8)
    BY <2>4, ReadHeaderIs
  <2>6. QED
    BY <2>2, <2>3, <2>5, HeaderRecords DEF AfterLine, line
<1>9. ReadHeader(ReaderAt(a, n, 8), LineAt(a, n, 9)) = ReaderAt(a, n, 9)
  <2> DEFINE line == LineAt(a, n, 9)
  <2>1. line = Line("bdd", <<>>)
    BY HeaderLines
  <2>2. line.key = "bdd" /\ line.fields = <<>>
    BY <2>1, LineHas
  <2> HIDE DEF line
  <2>3. Recognized(line) = "bdd" /\ ~ strfind(line, "number_of_variables")
    BY <2>1, <2>2, OwnKey
  <2>4. Recognized(line) = "bdd" <=> 9 >= 9
    BY <2>3
  <2>5. ReadHeader(Record(NbVariables, Words, a.ns, a.s, n, Finals(a), Numbers(a.q), <<>>, 8), line)
         = AfterLine(line, NbVariables, Words, a.ns, a.s, n, Finals(a), Numbers(a.q), <<>>, 9)
    BY <2>4, ReadHeaderIs
  <2>6. QED
    BY <2>2, <2>3, <2>5, HeaderRecords DEF AfterLine, line
<1>10. p = 0 \/ p = 1 \/ p = 2 \/ p = 3 \/ p = 4 \/ p = 5 \/ p = 6 \/ p = 7 \/ p = 8
  OBVIOUS
<1>11. 0 + 1 = 1 /\ 1 + 1 = 2 /\ 2 + 1 = 3 /\ 3 + 1 = 4 /\ 4 + 1 = 5 /\ 5 + 1 = 6
       /\ 6 + 1 = 7 /\ 7 + 1 = 8 /\ 8 + 1 = 9
  OBVIOUS
<1>12. QED
  BY <1>1, <1>2, <1>3, <1>4, <1>5, <1>6, <1>7, <1>8, <1>9, <1>10, <1>11

(* The record when the nodes are read, and when all of them are.            *)
LEMMA NodeIsRead ==
  ASSUME NEW a, NEW n, n \in Nat, NEW p \in 9 .. n + 8
  PROVE  [ReaderAt(a, n, p) EXCEPT !.mona_bdd_nodes = Append(@, a.nodes[p - 9])]
           = ReaderAt(a, n, p + 1)
<1> DEFINE k == p - 9
<1>1. k \in Nat /\ (p + 1) - 9 = k + 1
  OBVIOUS
<1>2. Append(Listing(a, k), a.nodes[k]) = Listing(a, k + 1)
  <2> DEFINE S == {a.nodes[i - 1] : i \in 1 .. k + 1}
  <2>1. Listing(a, k) \in [1 .. k -> S] /\ a.nodes[k] \in S
    BY <1>1 DEF Listing
  <2> HIDE DEF S, k
  <2>2. Listing(a, k) \in Seq(S) /\ Len(Listing(a, k)) = k
    BY <1>1, <2>1
  <2>3. Append(Listing(a, k), a.nodes[k]) =
          [i \in 1 .. k + 1 |-> IF i = k + 1 THEN a.nodes[k] ELSE Listing(a, k)[i]]
    BY <1>1, <2>1, <2>2
  <2>4. \A i \in 1 .. k + 1 :
          (IF i = k + 1 THEN a.nodes[k] ELSE Listing(a, k)[i]) = a.nodes[i - 1]
    BY <1>1 DEF Listing
  <2>5. QED
    BY <2>3, <2>4 DEF Listing
<1> HIDE DEF k
<1>3. ReaderAt(a, n, p) =
        Record(NbVariables, Words, a.ns, a.s, n, Finals(a), Numbers(a.q), Listing(a, k), p)
  BY DEF ReaderAt, k
<1>4. ReaderAt(a, n, p + 1) =
        Record(NbVariables, Words, a.ns, a.s, n, Finals(a), Numbers(a.q), Listing(a, k + 1), p + 1)
  BY <1>1 DEF ReaderAt
<1>5. p >= 9 <=> p + 1 >= 9
  OBVIOUS
<1> DEFINE r == ReaderAt(a, n, p)
<1>6. [r EXCEPT !.mona_bdd_nodes = Append(Listing(a, k), a.nodes[k])] = ReaderAt(a, n, p + 1)
  <2>1. \A l : [r EXCEPT !.mona_bdd_nodes = l] =
          Record(NbVariables, Words, a.ns, a.s, n, Finals(a), Numbers(a.q), l, p + 1)
    BY <1>3, <1>5 DEF Record
  <2> HIDE DEF r
  <2>2. QED
    BY <1>2, <1>4, <2>1
<1>7. r.mona_bdd_nodes = Listing(a, k)
  BY <1>3 DEF Record
<1>8. QED
  BY <1>6, <1>7 DEF k

IsLast(r, a, n) ==
  /\ r.nb_variables = NbVariables /\ r.variables = Words /\ r.nb_states = a.ns
  /\ r.initial_state = a.s /\ r.nb_nodes = n /\ r.final_states = Finals(a)
  /\ r.behaviour = Numbers(a.q) /\ r.mona_bdd_nodes = Listing(a, n)

LEMMA LastRecord ==
  ASSUME NEW a, NEW n, n \in Nat
  PROVE  IsLast(ReaderAt(a, n, n + 9), a, n)
<1> DEFINE r == ReaderAt(a, n, n + 9)
<1>1. /\ n + 9 >= 1 /\ n + 9 >= 2 /\ n + 9 >= 4 /\ n + 9 >= 5 /\ n + 9 >= 6
      /\ n + 9 >= 7 /\ n + 9 >= 8 /\ (n + 9) - 9 = n
  OBVIOUS
<1>2. r = Record(NbVariables, Words, a.ns, a.s, n, Finals(a), Numbers(a.q), Listing(a, n), n + 9)
  BY <1>1 DEF ReaderAt
<1>3. QED
  BY <1>2 DEF Record, IsLast

-----------------------------------------------------------------------------
(* The digits of the states.                                                *)

(* bits_for leaves room for every state.                                    *)
LEMMA EnoughBits ==
  ASSUME NEW m \in 1 .. pow2[MaxBits]
  PROVE  /\ bits_for(m) \in 1 .. MaxBits
         /\ m <= pow2[bits_for(m)]
         /\ \A s \in 0 .. m - 1 : s \in Index /\ state2bin(s) \subseteq 0 .. bits_for(m) - 1
<1>1. /\ MaxBits \in Nat \ {0} /\ StateLimit = pow2[MaxBits] /\ StateLimit \in Nat \ {0}
      /\ m \in Nat \ {0}
  BY BinaryFacts, SizesAssumption, BitsAssumption DEF StateLimit
<1>2. \A s \in 0 .. m - 1 : s \in Index /\ s \in Nat /\ s < pow2[MaxBits]
  BY <1>1 DEF Index
<1>3. CASE m = 1
  <2>1. bits_for(m) = 1
    BY <1>3 DEF bits_for
  <2>2. pow2[1] \in Nat \ {0}
    BY <1>1, PowersGrow
  <2>3. \A s \in 0 .. m - 1 : s = 0
    BY <1>3
  <2>4. QED
    BY <1>1, <1>2, <1>3, <2>1, <2>2, <2>3, BinaryFacts
<1>4. CASE m # 1
  <2> DEFINE l == m - 1
             b == bit_length(l)
  <2>1. l \in 1 .. m - 1 /\ l \in 0 .. m - 1 /\ bits_for(m) = b
    BY <1>1, <1>4 DEF bits_for
  <2>2. l \in Index /\ l \in Nat /\ l < pow2[MaxBits]
    BY <1>2, <2>1
  <2> HIDE DEF l, b
  <2>3. \A k \in 0 .. MaxBits : b \in Nat /\ (b <= k <=> l < pow2[k])
    BY <2>2, BitLengthIs, HalvedToZero DEF b
  <2>4. b \in Nat /\ b <= MaxBits
    BY <1>1, <2>2, <2>3
  <2>5. pow2[0] = 1
    BY <1>1, PowerLoop
  <2>6. ~ (b <= 0)
    BY <1>1, <2>1, <2>3, <2>5
  <2>7. b \in 1 .. MaxBits /\ b \in 0 .. MaxBits
    BY <1>1, <2>4, <2>6
  <2>8. l < pow2[b] /\ pow2[b] \in Nat
    BY <2>3, <2>7, PowersGrow
  <2>9. m <= pow2[b]
    BY <1>1, <2>8 DEF l
  <2>10. ASSUME NEW s \in 0 .. m - 1 PROVE state2bin(s) \subseteq 0 .. b - 1
    <3>1. s \in Index /\ s \in Nat /\ s < pow2[b]
      BY <1>2, <2>8, <2>9
    <3>2. bit_length(s) <= b
      BY <2>7, <3>1, BitLengthIs, HalvedToZero
    <3>3. QED
      BY <2>7, <3>1, <3>2, BinaryFacts
  <2>11. QED
    BY <1>2, <2>1, <2>7, <2>9, <2>10
<1>5. QED
  BY <1>3, <1>4

(* The automaton that is built of a record with these fields.               *)
Bits(a) == bits_for(a.ns)
Rows(t, q, ns, k) == UNION {{state2bin(j)} \X t[q[j + 1] + 1][k] : j \in 0 .. ns - 1}
RootAt(a, n, k) == Rows(try_get(Listing(a, n), Bits(a)), Numbers(a.q), a.ns, k)
IsBuilt(m, a, n) ==
  /\ m.nb_bits = Bits(a) /\ m.nb_states = a.ns /\ m.initial_state = a.s
  /\ m.finalstates = {state2bin(s) : s \in Finals(a)}
  /\ \A k \in 0 .. Bits(a) - 1 : m.root[k] = RootAt(a, n, k)

LEMMA ConstructorBuilds ==
  ASSUME NEW a, NEW n, n \in Nat, Table(a, n), NEW r, IsLast(r, a, n)
  PROVE  IsBuilt(construct_bdd_from_mona(r), a, n)
<1> DEFINE m == construct_bdd_from_mona(r)
<1>1. /\ r.nb_states = a.ns /\ r.initial_state = a.s /\ r.final_states = Finals(a)
      /\ r.behaviour = Numbers(a.q) /\ r.mona_bdd_nodes = Listing(a, n)
  BY DEF IsLast
<1>2. Bits(a) \in 1 .. MaxBits
  BY EnoughBits DEF Bits, Table
<1>3. bits_for(r.nb_states) = Bits(a)
  BY <1>1 DEF Bits
<1>4. /\ m.nb_bits = Bits(a) /\ m.nb_states = a.ns /\ m.initial_state = a.s
      /\ m.finalstates = {state2bin(s) : s \in Finals(a)}
  BY <1>1, <1>3 DEF construct_bdd_from_mona
<1>5. m.root = [k \in 0 .. MaxBits - 1 |-> IF k < Bits(a) THEN RootAt(a, n, k) ELSE {}]
  <2> DEFINE b == bits_for(r.nb_states)
             t == try_get(r.mona_bdd_nodes, b)
  <2>1. m.root = [k \in 0 .. MaxBits - 1 |->
                    IF k < b THEN Rows(t, r.behaviour, r.nb_states, k) ELSE {}]
    BY DEF construct_bdd_from_mona, Rows
  <2>2. b = Bits(a) /\ t = try_get(Listing(a, n), Bits(a))
    BY <1>1, <1>3
  <2> HIDE DEF m, b, t
  <2>3. QED
    BY <1>1, <2>1, <2>2 DEF RootAt
<1>6. ASSUME NEW k \in 0 .. Bits(a) - 1 PROVE m.root[k] = RootAt(a, n, k)
  <2>1. k \in 0 .. MaxBits - 1 /\ k < Bits(a)
    BY <1>2, SizesAssumption
  <2> HIDE DEF m
  <2>2. QED
    BY <1>5, <2>1
<1>7. QED
  <2> HIDE DEF m
  <2>1. IsBuilt(m, a, n)
    BY <1>4, <1>6 DEF IsBuilt
  <2>2. QED
    BY <2>1 DEF m

(* A letter leads both automata to the same state.                          *)
LEMMA SuccessorsAgree ==
  ASSUME NEW a, NEW n, n \in Nat, Table(a, n), NEW m, IsBuilt(m, a, n),
         NEW s \in 0 .. a.ns - 1, NEW x \in Interpretation
  PROVE  /\ mona_get_successor(a, s, x) \in 0 .. a.ns - 1
         /\ successor_digits(m, state2bin(s), x) = state2bin(mona_get_successor(a, s, x))
<1> DEFINE node == a.q[s]
           to == leaves(a, x)[node]
           t == try_get(Listing(a, n), Bits(a))
<1>1. a.ns \in Nat /\ a.ns \in 1 .. pow2[MaxBits] /\ node \in 0 .. n - 1
  <2>1. pow2[MaxBits] \in Nat
    BY PowersGrow, SizesAssumption
  <2>2. QED
    BY <2>1 DEF Table
<1>2. /\ \A j \in 0 .. a.ns - 1 : j \in Index /\ state2bin(j) \subseteq 0 .. Bits(a) - 1
      /\ Bits(a) \in 1 .. MaxBits
  BY <1>1, EnoughBits DEF Bits
<1>3. to \in 0 .. a.ns - 1 /\ mona_get_successor(a, s, x) = to
  BY <1>1, LeavesType DEF mona_get_successor
<1>4. \A k \in 0 .. Bits(a) - 1 : x \in t[node + 1][k] <=> k \in state2bin(to)
  BY <1>1, TryGetAgrees
<1>5. Numbers(a.q)[s + 1] = node
  <2>1. Cardinality(DOMAIN a.q) = a.ns
    BY <1>1, SizeIs DEF Table
  <2>2. s + 1 \in 1 .. a.ns /\ (s + 1) - 1 = s
    BY <1>1
  <2>3. QED
    BY <2>1, <2>2 DEF Numbers
<1> HIDE DEF node, to, t
<1>6. ASSUME NEW k \in 0 .. Bits(a) - 1
      PROVE  <<state2bin(s), x>> \in RootAt(a, n, k) <=> k \in state2bin(to)
  <2> DEFINE Part(j) == t[Numbers(a.q)[j + 1] + 1][k]
  <2>1. RootAt(a, n, k) = UNION {{state2bin(j)} \X Part(j) : j \in 0 .. a.ns - 1}
    BY DEF RootAt, Rows, t
  <2>2. Part(s) = t[node + 1][k]
    BY <1>5
  <2> HIDE DEF Part
  <2>3. \A j \in 0 .. a.ns - 1 : state2bin(j) = state2bin(s) => j = s
    BY <1>2, DigitsInjective
  <2>4. <<state2bin(s), x>> \in RootAt(a, n, k) <=>
          \E j \in 0 .. a.ns - 1 : state2bin(s) = state2bin(j) /\ x \in Part(j)
    <3> DEFINE d(j) == state2bin(j)
    <3>1. RootAt(a, n, k) = UNION {{d(j)} \X Part(j) : j \in 0 .. a.ns - 1}
      BY <2>1
    <3> HIDE DEF d
    <3>2. <<d(s), x>> \in RootAt(a, n, k) <=>
            \E j \in 0 .. a.ns - 1 : d(s) = d(j) /\ x \in Part(j)
      BY <3>1
    <3>3. QED
      BY <3>2 DEF d
  <2>5. <<state2bin(s), x>> \in RootAt(a, n, k) <=> x \in Part(s)
    BY <2>3, <2>4
  <2>6. QED
    BY <1>4, <2>2, <2>5
<1>7. successor_digits(m, state2bin(s), x) =
        {k \in 0 .. Bits(a) - 1 : <<state2bin(s), x>> \in RootAt(a, n, k)}
  BY DEF successor_digits, IsBuilt
<1>8. successor_digits(m, state2bin(s), x) = state2bin(to)
  <2> DEFINE d == state2bin(to)
             e == state2bin(s)
             Q(k) == <<e, x>> \in RootAt(a, n, k)
  <2>1. d \subseteq 0 .. Bits(a) - 1
    BY <1>2, <1>3
  <2>2. \A k \in 0 .. Bits(a) - 1 : Q(k) <=> k \in d
    BY <1>6
  <2>3. successor_digits(m, e, x) = {k \in 0 .. Bits(a) - 1 : Q(k)}
    BY <1>7
  <2> HIDE DEF d, e, Q
  <2>4. successor_digits(m, e, x) = d
    BY <2>1, <2>2, <2>3
  <2>5. QED
    BY <2>4 DEF d, e
<1>9. QED
  BY <1>3, <1>8

(* Both accept in the same states.                                          *)
LEMMA FinalStatesAgree ==
  ASSUME NEW a, NEW n, n \in Nat, Table(a, n), NEW m, IsBuilt(m, a, n),
         NEW s \in 0 .. a.ns - 1
  PROVE  state2bin(s) \in m.finalstates <=> mona_is_final(a, s)
<1>1. \A j \in 0 .. a.ns - 1 : j \in Index
  BY EnoughBits DEF Table
<1>2. \A j \in 0 .. a.ns - 1 : state2bin(j) = state2bin(s) => j = s
  BY <1>1, DigitsInjective
<1>3. m.finalstates = {state2bin(j) : j \in Finals(a)}
  BY DEF IsBuilt
<1>4. state2bin(s) \in m.finalstates <=> s \in Finals(a)
  <2> DEFINE d(j) == state2bin(j)
  <2>1. m.finalstates = {d(j) : j \in Finals(a)} /\ \A j \in 0 .. a.ns - 1 : d(j) = d(s) => j = s
    BY <1>2, <1>3
  <2> HIDE DEF d
  <2>2. d(s) \in m.finalstates <=> s \in Finals(a)
    BY <2>1 DEF Finals
  <2>3. QED
    BY <2>2 DEF d
<1>5. QED
  BY <1>4 DEF Finals, mona_is_final

-----------------------------------------------------------------------------
(* The inductive invariant.  While the file is read, what is left of it is  *)
(* what was exported but for its first p lines, and the record is the one   *)
(* that p lines leave; then the automaton is the one that is built of the   *)
(* whole table, and it is in the digits of MONA's state.                    *)
FileFrom(a, n, p) == [i \in 1 .. n + 10 - p |-> LineAt(a, n, p + i)]
Reading(n) == \E p \in 0 .. n + 9 : file = FileFrom(mona, n, p) /\ reader = ReaderAt(mona, n, p)
IInv(n) ==
  /\ Table(mona, n)
  /\ mona_state \in 0 .. mona.ns - 1
  /\ next \in {"read_from_file", "check", "accepts"}
  /\ next = "read_from_file" => mona_state = mona.s /\ Reading(n)
  /\ next = "check" => mona_state = mona.s /\ IsLast(reader, mona, n)
  /\ next = "accepts" =>
       /\ IsLast(reader, mona, n) /\ IsBuilt(automaton, mona, n)
       /\ digits = state2bin(mona_state)
Invariant == \E n \in Nat : IInv(n)

LEMMA FirstLine ==
  ASSUME NEW a, NEW n, n \in Nat, NEW p \in 0 .. n + 9
  PROVE  /\ Head(FileFrom(a, n, p)) = LineAt(a, n, p + 1)
         /\ p < n + 9 => Tail(FileFrom(a, n, p)) = FileFrom(a, n, p + 1)
<1> DEFINE l == n + 10 - p
           S == {LineAt(a, n, p + i) : i \in 1 .. l}
           f == FileFrom(a, n, p)
<1>1. l \in Nat /\ l >= 1 /\ l - 1 = n + 10 - (p + 1)
  OBVIOUS
<1>2. f = [i \in 1 .. l |-> LineAt(a, n, p + i)]
  BY DEF FileFrom
<1>3. f \in [1 .. l -> S]
  BY <1>2
<1> HIDE DEF f, S
<1>4. f \in Seq(S) /\ Len(f) = l
  <2> HIDE DEF l
  <2>1. QED
    BY <1>1, <1>3
<1>5. f # <<>> /\ 1 \in 1 .. l
  BY <1>1, <1>4
<1>6. Head(f) = LineAt(a, n, p + 1)
  BY <1>2, <1>5
<1>7. Tail(f) = [i \in 1 .. l - 1 |-> f[i + 1]]
  <2> HIDE DEF l
  <2>1. /\ Tail(f) \in Seq(S) /\ Len(Tail(f)) = l - 1
        /\ \A i \in 1 .. Len(Tail(f)) : Tail(f)[i] = f[i + 1]
    BY <1>4, <1>5, HeadTailProperties
  <2> DEFINE t == Tail(f)
  <2>2. DOMAIN t = 1 .. l - 1 /\ t = [i \in DOMAIN t |-> t[i]]
    <3>1. t \in Seq(S) /\ Len(t) = l - 1
      BY <2>1
    <3> HIDE DEF t
    <3>2. QED
      BY <3>1
  <2>3. \A i \in 1 .. l - 1 : t[i] = f[i + 1]
    BY <2>1
  <2> HIDE DEF t
  <2>4. t = [i \in 1 .. l - 1 |-> f[i + 1]]
    BY <2>2, <2>3
  <2>5. QED
    BY <2>4 DEF t
<1>8. \A i \in 1 .. l - 1 : f[i + 1] = LineAt(a, n, (p + 1) + i)
  <2>1. ASSUME NEW i \in 1 .. l - 1 PROVE f[i + 1] = LineAt(a, n, (p + 1) + i)
    <3>1. i + 1 \in 1 .. l /\ p + (i + 1) = (p + 1) + i
      BY <1>1
    <3>2. f[i + 1] = LineAt(a, n, p + (i + 1))
      <4> HIDE DEF l
      <4>1. QED
        BY <1>2, <3>1
    <3>3. QED
      BY <3>1, <3>2
  <2>2. QED
    BY <2>1
<1>9. Tail(f) = FileFrom(a, n, p + 1)
  <2> HIDE DEF l
  <2>1. QED
    BY <1>1, <1>7, <1>8 DEF FileFrom
<1>10. QED
  BY <1>6, <1>9 DEF f

LEMMA InitInvariant == Init => Invariant
<1> SUFFICES ASSUME Init PROVE Invariant
  OBVIOUS
<1>1. PICK a \in Inputs :
        \E functions \in {Listed(Cofactors(a)), Reverse(Listed(Cofactors(a)))} :
          mona = NodeTable(a, [i \in 0 .. Len(functions) - 1 |-> functions[i + 1]])
  BY DEF Init
<1>2. PICK functions \in {Listed(Cofactors(a)), Reverse(Listed(Cofactors(a)))} :
        mona = NodeTable(a, Numbered(functions))
  BY <1>1 DEF Numbered
<1>3. PICK n \in Nat : Table(mona, n)
  BY <1>2, ExportedIsTable
<1>4. next = "read_from_file" /\ mona_state = mona.s /\ file = dfaExport(mona)
      /\ reader = NothingRead
  BY DEF Init
<1>5. Reading(n)
  <2>1. file = [p \in 1 .. n + 10 |-> LineAt(mona, n, p)]
    BY <1>3, <1>4, FileIs
  <2>2. n + 10 - 0 = n + 10 /\ 0 \in 0 .. n + 9 /\ \A i \in 1 .. n + 10 : 0 + i = i
    OBVIOUS
  <2>3. file = FileFrom(mona, n, 0)
    BY <2>1, <2>2 DEF FileFrom
  <2>4. reader = ReaderAt(mona, n, 0)
    <3>1. NothingRead = Record(-1, <<>>, -1, -1, -1, {}, <<>>, <<>>, 0)
      <4>1. (0 >= 9) = FALSE
        OBVIOUS
      <4>2. QED
        BY <4>1, Zenon DEF NothingRead, Record
    <3>2. ReaderAt(mona, n, 0) = Record(-1, <<>>, -1, -1, -1, {}, <<>>, <<>>, 0)
      BY HeaderRecords
    <3>3. QED
      BY <1>4, <3>1, <3>2
  <2>5. QED
    BY <2>2, <2>3, <2>4 DEF Reading
<1>6. mona_state \in 0 .. mona.ns - 1
  BY <1>3, <1>4 DEF Table
<1>7. IInv(n)
  BY <1>3, <1>4, <1>5, <1>6 DEF IInv
<1>8. QED
  BY <1>7 DEF Invariant

(* The next line is read as one of the header, as a node, or as the end.    *)
LEMMA ReadLineStep ==
  ASSUME NEW n, n \in Nat, IInv(n), ReadLine
  PROVE  IInv(n)'
<1>1. /\ next = "read_from_file" /\ Table(mona, n) /\ mona_state = mona.s
      /\ mona_state \in 0 .. mona.ns - 1 /\ Reading(n)
      /\ mona' = mona /\ mona_state' = mona_state
  BY DEF IInv, ReadLine
<1>2. PICK p \in 0 .. n + 9 : file = FileFrom(mona, n, p) /\ reader = ReaderAt(mona, n, p)
  BY <1>1 DEF Reading
<1> DEFINE line == Head(file)
<1>3. line = LineAt(mona, n, p + 1) /\ (p < n + 9 => Tail(file) = FileFrom(mona, n, p + 1))
  BY <1>2, FirstLine
<1> HIDE DEF line
<1>4. /\ file' = Tail(file)
      /\ ~ reader.flag => reader' = ReadHeader(reader, line) /\ next' = next
      /\ reader.flag /\ line.key # "end" =>
           /\ reader' = [reader EXCEPT !.mona_bdd_nodes = Append(@, line.fields)]
           /\ next' = next
      /\ reader.flag /\ line.key = "end" => next' = "check" /\ reader' = reader
  BY DEF ReadLine, line
<1>5. reader.flag <=> p >= 9
  BY <1>2 DEF ReaderAt, Record
<1>6. ASSUME p < n + 9, reader' = ReaderAt(mona, n, p + 1), next' = next PROVE IInv(n)'
  <2>1. p + 1 \in 0 .. n + 9
    BY <1>6
  <2>2. Reading(n)'
    BY <1>1, <1>3, <1>4, <1>6, <2>1 DEF Reading
  <2>3. QED
    BY <1>1, <1>6, <2>2 DEF IInv
<1>7. CASE p \in 0 .. 8
  <2>1. ~ reader.flag /\ p < n + 9
    BY <1>5, <1>7
  <2>2. ReadHeader(reader, line) = ReaderAt(mona, n, p + 1)
    BY <1>1, <1>2, <1>3, <1>7, HeaderIsRead
  <2>3. QED
    BY <1>4, <1>6, <2>1, <2>2
<1>8. CASE p \in 9 .. n + 8
  <2>1. reader.flag /\ p < n + 9 /\ ~ (p + 1 <= 9) /\ p + 1 <= n + 9 /\ (p + 1) - 10 = p - 9
    BY <1>5, <1>8
  <2>2. line = Line("", mona.nodes[p - 9])
    BY <1>3, <2>1 DEF LineAt
  <2>3. line.key = "" /\ line.fields = mona.nodes[p - 9]
    BY <2>2, Zenon DEF Line
  <2>4. line.key # "end"
    BY <2>3, Zenon
  <2>5. reader' = [reader EXCEPT !.mona_bdd_nodes = Append(@, mona.nodes[p - 9])] /\ next' = next
    BY <1>4, <2>1, <2>3, <2>4
  <2>6. reader' = ReaderAt(mona, n, p + 1)
    BY <1>2, <1>8, <2>5, NodeIsRead
  <2>7. QED
    BY <1>6, <2>1, <2>5, <2>6
<1>9. CASE p = n + 9
  <2>1. reader.flag /\ ~ (p + 1 <= 9) /\ ~ (p + 1 <= n + 9)
    BY <1>5, <1>9
  <2>2. line = Line("end", <<>>)
    BY <1>3, <2>1 DEF LineAt
  <2>3. line.key = "end"
    BY <2>2, LineHas
  <2>4. next' = "check" /\ reader' = reader
    BY <1>4, <2>1, <2>3
  <2>5. IsLast(reader', mona, n)
    BY <1>2, <1>9, <2>4, LastRecord
  <2>6. QED
    BY <1>1, <2>4, <2>5 DEF IInv
<1>10. p \in 0 .. 8 \/ p \in 9 .. n + 8 \/ p = n + 9
  OBVIOUS
<1>11. QED
  BY <1>7, <1>8, <1>9, <1>10

LEMMA NextInvariant == Invariant /\ [Next]_vars => Invariant'
<1> SUFFICES ASSUME Invariant, [Next]_vars PROVE Invariant'
  OBVIOUS
<1>1. PICK n \in Nat : IInv(n)
  BY DEF Invariant
<1>2. ASSUME ReadLine PROVE IInv(n)'
  BY <1>1, <1>2, ReadLineStep
<1>3. ASSUME Construct PROVE IInv(n)'
  <2>1. /\ Table(mona, n) /\ mona_state = mona.s /\ mona_state \in 0 .. mona.ns - 1
        /\ IsLast(reader, mona, n)
        /\ mona' = mona /\ mona_state' = mona_state /\ reader' = reader /\ next' = "accepts"
        /\ automaton' = construct_bdd_from_mona(reader)
        /\ digits' = state2bin(automaton'.initial_state)
    BY <1>1, <1>3 DEF IInv, Construct
  <2>2. IsBuilt(automaton', mona, n)
    BY <1>1, <2>1, ConstructorBuilds
  <2>3. automaton'.initial_state = mona.s
    BY <2>2 DEF IsBuilt
  <2>4. digits' = state2bin(mona_state')
    BY <2>1, <2>3
  <2>5. QED
    BY <2>1, <2>2, <2>4 DEF IInv
<1>4. ASSUME NEW x \in Interpretation, Read(x) PROVE IInv(n)'
  <2>1. /\ Table(mona, n) /\ mona_state \in 0 .. mona.ns - 1 /\ IsLast(reader, mona, n)
        /\ IsBuilt(automaton, mona, n) /\ digits = state2bin(mona_state)
        /\ mona' = mona /\ reader' = reader /\ automaton' = automaton /\ next' = "accepts"
        /\ mona_state' = mona_get_successor(mona, mona_state, x)
        /\ digits' = successor_digits(automaton, digits, x)
    BY <1>1, <1>4 DEF IInv, Read
  <2>2. /\ mona_get_successor(mona, mona_state, x) \in 0 .. mona.ns - 1
        /\ successor_digits(automaton, state2bin(mona_state), x)
              = state2bin(mona_get_successor(mona, mona_state, x))
    BY <1>1, <2>1, SuccessorsAgree
  <2>3. mona_state' \in 0 .. mona'.ns - 1 /\ digits' = state2bin(mona_state')
    BY <2>1, <2>2
  <2>4. QED
    BY <2>1, <2>3 DEF IInv
<1>5. ASSUME UNCHANGED vars PROVE IInv(n)'
  BY <1>1, <1>5 DEF IInv, Reading, vars
<1>6. IInv(n)'
  BY <1>2, <1>3, <1>4, <1>5 DEF Next
<1>7. QED
  BY <1>6 DEF Invariant

LEMMA AlwaysInvariant == Spec => []Invariant
  BY InitInvariant, NextInvariant, PTL DEF Spec

(* TypeCorrect: of every automaton that MONA can hold, the digits of the    *)
(* states and the variables of the nodes fit in the symbolic automaton that *)
(* read_from_file sizes by the header (dfa.cpp:272-286).                    *)
THEOREM TypeCorrect == Spec => []TypeOK
<1>1. Invariant => TypeOK
  <2> SUFFICES ASSUME Invariant PROVE TypeOK
    OBVIOUS
  <2>1. PICK n \in Nat : IInv(n)
    BY DEF Invariant
  <2>2. ASSUME next = "accepts"
        PROVE  /\ automaton.nb_bits > 0
               /\ automaton.nb_states \in 1 .. pow2[automaton.nb_bits]
               /\ \A i \in DOMAIN reader.mona_bdd_nodes :
                    LET node == reader.mona_bdd_nodes[i] IN
                    IF node[1] = -1 THEN state2bin(node[2]) \subseteq 0 .. automaton.nb_bits - 1
                    ELSE node[1] < Len(reader.variables)
    <3>1. Table(mona, n) /\ IsLast(reader, mona, n) /\ IsBuilt(automaton, mona, n)
      BY <2>1, <2>2 DEF IInv
    <3> DEFINE b == bits_for(mona.ns)
    <3>2. automaton.nb_bits = b /\ automaton.nb_states = mona.ns
      BY <3>1 DEF IsBuilt, Bits
    <3>3. /\ b \in 1 .. MaxBits /\ mona.ns <= pow2[b]
          /\ \A s \in 0 .. mona.ns - 1 : state2bin(s) \subseteq 0 .. b - 1
      BY <3>1, EnoughBits DEF Table
    <3> HIDE DEF b
    <3>4. b > 0 /\ mona.ns \in 1 .. pow2[b]
      <4>1. pow2[b] \in Nat /\ pow2[MaxBits] \in Nat
        BY <3>3, PowersGrow, SizesAssumption
      <4>2. QED
        BY <3>1, <3>3, <4>1, SizesAssumption DEF Table
    <3>5. /\ reader.mona_bdd_nodes = [i \in 1 .. n |-> mona.nodes[i - 1]]
          /\ Len(reader.variables) = NbVariables
      BY <3>1, VariablesAreNumbers DEF IsLast, Listing, Words
    <3>6. ASSUME NEW i \in 1 .. n
          PROVE  LET node == reader.mona_bdd_nodes[i] IN
                 IF node[1] = -1 THEN state2bin(node[2]) \subseteq 0 .. b - 1
                 ELSE node[1] < Len(reader.variables)
      <4> DEFINE node == mona.nodes[i - 1]
      <4>1. i - 1 \in 0 .. n - 1 /\ reader.mona_bdd_nodes[i] = node
        BY <3>5
      <4>2. Leaf(mona, i - 1) \/ Inner(mona, n, i - 1)
        BY <3>1, <4>1 DEF Table
      <4>3. (node[1] = -1 /\ node[2] \in 0 .. mona.ns - 1) \/ node[1] \in Variables
        BY <4>2 DEF Leaf, Inner
      <4> HIDE DEF node
      <4>4. node[1] \in Variables => node[1] # -1 /\ node[1] < NbVariables
        BY VariablesAreNumbers
      <4>5. QED
        BY <3>3, <3>5, <4>1, <4>3, <4>4
    <3>7. QED
      BY <3>2, <3>4, <3>5, <3>6
  <2>3. QED
    BY <2>1, <2>2 DEF IInv, TypeOK
<1>2. QED
  BY AlwaysInvariant, <1>1, PTL

(* AutomataAgree: whatever automaton MONA holds, in whatever order its      *)
(* nodes are written, and whatever is read, the symbolic automaton follows  *)
(* MONA's and accepts when it does (construct_bdd_from_mona, try_get and    *)
(* mona_dfa::get_successor).                                                *)
THEOREM AutomataAgree == Spec => []SameAutomaton
<1>1. Invariant => SameAutomaton
  <2> SUFFICES ASSUME Invariant, next = "accepts"
               PROVE  /\ digits = state2bin(mona_state)
                      /\ digits \in automaton.finalstates <=> mona_is_final(mona, mona_state)
    BY DEF SameAutomaton
  <2>1. PICK n \in Nat : IInv(n)
    BY DEF Invariant
  <2>2. /\ Table(mona, n) /\ IsBuilt(automaton, mona, n)
        /\ mona_state \in 0 .. mona.ns - 1 /\ digits = state2bin(mona_state)
    BY <2>1 DEF IInv
  <2>3. state2bin(mona_state) \in automaton.finalstates <=> mona_is_final(mona, mona_state)
    BY <2>1, <2>2, FinalStatesAgree
  <2>4. QED
    BY <2>2, <2>3
<1>2. QED
  BY AlwaysInvariant, <1>1, PTL

(* AllVariablesAreRead: whatever keywords but "number" the names of the     *)
(* propositions mention, the header is read as it was written, and no       *)
(* variable is missed (dfa.cpp:206-252).                                    *)
THEOREM AllVariablesAreRead == Spec => []VariablesAreRead
<1>1. Invariant => VariablesAreRead
  <2> SUFFICES ASSUME Invariant, next = "check"
               PROVE  Len(reader.variables) = reader.nb_variables
    BY DEF VariablesAreRead
  <2>1. PICK n \in Nat : IInv(n)
    BY DEF Invariant
  <2>2. reader.variables = Words /\ reader.nb_variables = NbVariables
    BY <2>1 DEF IInv, IsLast
  <2>3. Len(Words) = NbVariables
    BY VariablesAreNumbers DEF Words
  <2>4. QED
    BY <2>2, <2>3
<1>2. QED
  BY AlwaysInvariant, <1>1, PTL
====
