-------------------------- MODULE SymbolicDfaProofs --------------------------
(***************************************************************************)
(* Lemmas about the methods of the symbolic automaton, for every number of  *)
(* propositions and of digits, and about the loops they have: recursive     *)
(* functions, for which induction is stated over sets.                      *)
(***************************************************************************)
EXTENDS SymbolicDfa, WellFoundedInduction, FiniteSetTheorems, TLAPS

-----------------------------------------------------------------------------
(* Induction on the natural numbers, for a property given as the set of     *)
(* the numbers that have it, and what follows for the recursive functions   *)
(* that stand for the loops of the code: they exist, with values where the  *)
(* body of the loop puts them.                                              *)

(* The pairs of natural numbers in increasing order.                        *)
Less == {p \in Nat \X Nat : p[1] < p[2]}

LEMMA LessIsWellFounded == IsWellFoundedOn(Less, Nat)
  BY NatLessThanWellFounded DEF OpToRel, Less

(* A set of natural numbers that holds 0, and with n the number after n,    *)
(* holds them all.                                                          *)
LEMMA Induction ==
  ASSUME NEW P \in SUBSET Nat, 0 \in P, \A n \in P : n + 1 \in P
  PROVE  P = Nat
<1>1. SUFFICES ASSUME Nat \ P # {} PROVE FALSE
  OBVIOUS
<1>2. PICK x \in Nat \ P : \A y \in Nat \ P : ~ (<<y, x>> \in Less)
  BY <1>1, LessIsWellFounded, WFMin, Nat \ P \subseteq Nat
<1>3. x - 1 \in Nat /\ <<x - 1, x>> \in Less /\ (x - 1) + 1 = x
  BY DEF Less
<1>4. x - 1 \in P
  BY <1>2, <1>3
<1>5. QED
  BY <1>3, <1>4

(* The same up to n.                                                        *)
LEMMA InductionUpTo ==
  ASSUME NEW n \in Nat, NEW P \in SUBSET Nat, 0 \in P,
         \A i \in 0 .. n - 1 : i \in P => i + 1 \in P
  PROVE  \A i \in 0 .. n : i \in P
<1> DEFINE Q == {i \in Nat : i <= n => i \in P}
<1>1. 0 \in Q
  OBVIOUS
<1>2. ASSUME NEW i \in Q PROVE i + 1 \in Q
  <2>1. i \in Nat /\ (i <= n => i \in P)
    OBVIOUS
  <2>2. i + 1 <= n => i \in 0 .. n - 1 /\ i <= n
    BY <2>1
  <2>3. QED
    BY <2>1, <2>2
<1>3. Q = Nat
  <2> HIDE DEF Q
  <2>1. Q \in SUBSET Nat
    BY DEF Q
  <2>2. QED
    BY <1>1, <1>2, <2>1, Induction
<1>4. QED
  BY <1>3

(* A loop of n rounds that starts with c, and computes step[i] of its value *)
(* in round i: h[i] is the value after i rounds.                            *)
Rounds(n, S) == [1 .. n -> [S -> S]]
Computes(h, n, c, step) == h[0] = c /\ \A i \in 1 .. n : h[i] = step[i][h[i - 1]]
ComputesIn(S, h, n, c, step) ==
  h[0] = c /\ \A i \in 1 .. n : h[i - 1] \in S => h[i] = step[i][h[i - 1]]

(* The loop has a value after every round.                                  *)
LEMMA LoopExists ==
  ASSUME NEW n, n \in Nat, NEW S, NEW c, c \in S, NEW step, step \in Rounds(n, S)
  PROVE  \E h : h \in [0 .. n -> S] /\ Computes(h, n, c, step)
<1> USE DEF Computes, Rounds
<1> DEFINE Upto(h, m) ==  h \in [0 .. m -> S] /\ Computes(h, m, c, step)
<1> DEFINE P == {m \in Nat : m <= n => \E h : Upto(h, m)}
<1>1. 0 \in P
  <2>1. Upto([i \in 0 .. 0 |-> c], 0)
    OBVIOUS
  <2>2. QED
    BY <2>1
<1>2. ASSUME NEW m \in P PROVE m + 1 \in P
  <2>1. m \in Nat
    OBVIOUS
  <2>2. SUFFICES ASSUME m + 1 <= n PROVE \E h : Upto(h, m + 1)
    <3> HIDE DEF Upto
    <3>1. QED
      BY <2>1
  <2>3. PICK h : Upto(h, m)
    BY <2>1, <2>2
  <2>4. m + 1 \in 1 .. n /\ h[m] \in S
    BY <2>1, <2>2, <2>3
  <2>5. step[m + 1][h[m]] \in S
    BY <2>4
  <2> DEFINE g == [i \in 0 .. m + 1 |-> IF i = m + 1 THEN step[m + 1][h[m]] ELSE h[i]]
  <2>6. g \in [0 .. m + 1 -> S] /\ g[0] = c
    BY <2>1, <2>3, <2>5
  <2>7. ASSUME NEW i \in 1 .. m + 1 PROVE g[i] = step[i][g[i - 1]]
    <3>1. g[i - 1] = h[i - 1]
      BY <2>1
    <3>2. CASE i = m + 1
      BY <2>1, <3>1, <3>2
    <3>3. CASE i \in 1 .. m
      BY <2>1, <2>3, <3>1, <3>3
    <3>4. QED
      BY <2>1, <3>2, <3>3
  <2>8. Upto(g, m + 1)
    BY <2>6, <2>7
  <2>9. QED
    BY <2>8
<1>3. P = Nat
  <2> HIDE DEF P
  <2>1. P \in SUBSET Nat
    BY DEF P
  <2>2. QED
    BY <1>1, <1>2, <2>1, Induction
<1>4. \E h : Upto(h, n)
  <2> HIDE DEF Upto
  <2>1. n \in P
    BY <1>3
  <2>2. QED
    BY <2>1
<1>5. QED
  BY <1>4

(* What is written as the same loop takes its values in the same set.       *)
LEMMA LoopType ==
  ASSUME NEW n, n \in Nat, NEW S, NEW c, c \in S, NEW step, step \in Rounds(n, S),
         NEW h, ComputesIn(S, h, n, c, step)
  PROVE  \A i \in 0 .. n : h[i] \in S
<1> USE DEF Rounds, ComputesIn
<1> DEFINE P == {i \in Nat : h[i] \in S}
<1>1. 0 \in P
  OBVIOUS
<1>2. ASSUME NEW i \in 0 .. n - 1, i \in P PROVE i + 1 \in P
  <2>1. i + 1 \in 1 .. n /\ (i + 1) - 1 = i /\ i + 1 \in Nat
    OBVIOUS
  <2>2. h[i + 1] = step[i + 1][h[i]]
    BY <1>2, <2>1
  <2>3. QED
    BY <1>2, <2>1, <2>2
<1>3. \A i \in 0 .. n : i \in P
  <2> HIDE DEF P
  <2>1. P \in SUBSET Nat
    BY DEF P
  <2>2. QED
    BY <1>1, <1>2, <2>1, InductionUpTo
<1>4. QED
  BY <1>3

(* A recursion whose calls descend: what body makes of f at d depends on f  *)
(* only where depth is smaller.                                             *)
Bodies(D, S) == [[D -> S] -> [D -> S]]
Depths(D, n) == [D -> 0 .. n]
Descends(D, S, depth, body) ==
  \A f, g \in [D -> S] : \A d \in D :
    (\A e \in D : depth[e] < depth[d] => f[e] = g[e]) => body[f][d] = body[g][d]

(* Such a recursion has a value: the one of more rounds than it is deep.    *)
LEMMA DescentExists ==
  ASSUME NEW D, NEW S, S # {}, NEW n, n \in Nat, NEW depth, depth \in Depths(D, n),
         NEW body, body \in Bodies(D, S), Descends(D, S, depth, body)
  PROVE  \E f : f \in [D -> S] /\ f = body[f]
<1> DEFINE F == [D -> S]
<1>0. depth \in [D -> 0 .. n]
  BY DEF Depths
<1>1. PICK c : c \in F
  <2>1. PICK s : s \in S
    OBVIOUS
  <2>2. [d \in D |-> s] \in F
    BY <2>1
  <2>3. QED
    BY <2>2
<1> DEFINE step == [i \in 1 .. n + 2 |-> body]
<1>2. n + 2 \in Nat /\ step \in Rounds(n + 2, F)
  BY DEF Rounds, Bodies
<1>3. PICK h : h \in [0 .. n + 2 -> F] /\ Computes(h, n + 2, c, step)
  <2> HIDE DEF F, step
  <2>1. QED
    BY <1>1, <1>2, LoopExists
<1>4. ASSUME NEW i \in 0 .. n + 1 PROVE h[i] \in F /\ h[i + 1] \in F /\ h[i + 1] = body[h[i]]
  <2>1. i + 1 \in 1 .. n + 2 /\ i + 1 \in 0 .. n + 2 /\ (i + 1) - 1 = i /\ i \in 0 .. n + 2
    OBVIOUS
  <2>2. h[i + 1] = step[i + 1][h[i]]
    BY <1>3, <2>1 DEF Computes
  <2>3. QED
    BY <1>3, <2>1, <2>2
<1> DEFINE P == {i \in Nat : \A d \in D : depth[d] < i => h[i][d] = h[i + 1][d]}
<1>5. 0 \in P
  BY <1>0
<1>6. ASSUME NEW i \in 0 .. (n + 1) - 1, i \in P PROVE i + 1 \in P
  <2>1. i \in 0 .. n + 1 /\ i + 1 \in 0 .. n + 1 /\ i + 1 \in Nat
    OBVIOUS
  <2> DEFINE f == h[i]
             g == h[i + 1]
  <2>2. f \in F /\ g \in F /\ g = body[f] /\ h[(i + 1) + 1] = body[g]
    BY <1>4, <2>1
  <2>3. \A e \in D : depth[e] < i => f[e] = g[e]
    BY <1>6
  <2>4. ASSUME NEW d \in D, depth[d] < i + 1 PROVE body[f][d] = body[g][d]
    <3>1. \A e \in D : depth[e] < depth[d] => depth[e] < i
      BY <1>0, <2>4
    <3>2. \A e \in D : depth[e] < depth[d] => f[e] = g[e]
      BY <2>3, <3>1
    <3> HIDE DEF f, g
    <3>3. QED
      BY <2>2, <3>2 DEF Descends
  <2>5. \A d \in D : depth[d] < i + 1 => h[i + 1][d] = h[(i + 1) + 1][d]
    BY <2>2, <2>4
  <2>6. QED
    BY <2>1, <2>5
<1>7. n + 1 \in P
  <2> HIDE DEF P
  <2>1. P \in SUBSET Nat
    BY DEF P
  <2>2. \A i \in 0 .. n + 1 : i \in P
    BY <1>5, <1>6, <2>1, InductionUpTo, n + 1 \in Nat
  <2>3. QED
    BY <2>2
<1>8. n + 1 \in 0 .. n + 1 /\ \A d \in D : depth[d] < n + 1
  BY <1>0
<1>9. \A d \in D : h[n + 1][d] = h[(n + 1) + 1][d]
  BY <1>7, <1>8
<1>10. h[n + 1] = body[h[n + 1]] /\ h[n + 1] \in F
  <2>1. h[n + 1] \in F /\ h[(n + 1) + 1] \in F /\ h[(n + 1) + 1] = body[h[n + 1]]
    BY <1>4, <1>8
  <2>2. QED
    BY <1>9, <2>1
<1>11. QED
  BY <1>10

-----------------------------------------------------------------------------
(* Digits.                                                                  *)

(* The three loops compute what they are written to compute.                *)
LEMMA PowerLoop ==
  /\ pow2 \in [0 .. MaxBits -> Nat]
  /\ pow2[0] = 1
  /\ \A k \in 1 .. MaxBits : pow2[k] = 2 * pow2[k - 1]
<1> DEFINE Body(h) == [k \in 0 .. MaxBits |-> IF k = 0 THEN 1 ELSE 2 * h[k - 1]]
<1> DEFINE step == [k \in 1 .. MaxBits |-> [v \in Nat |-> 2 * v]]
<1>1. step \in Rounds(MaxBits, Nat)
  BY DEF Rounds
<1>2. \A k \in 1 .. MaxBits, v \in Nat : step[k][v] = 2 * v
  OBVIOUS
<1> HIDE DEF step
<1>3. PICK h : h \in [0 .. MaxBits -> Nat] /\ Computes(h, MaxBits, 1, step)
  BY <1>1, LoopExists, SizesAssumption
<1>4. h = Body(h)
  <2>1. ASSUME NEW k \in 1 .. MaxBits PROVE h[k] = 2 * h[k - 1]
    <3>1. h[k - 1] \in Nat
      BY <1>3, SizesAssumption
    <3>2. QED
      BY <1>2, <1>3, <3>1 DEF Computes
  <2>2. QED
    BY <1>3, <2>1, SizesAssumption DEF Computes
<1>5. pow2 = CHOOSE g : g = Body(g)
  BY DEF pow2
<1>6. pow2 = Body(pow2)
  <2> HIDE DEF Body
  <2>1. QED
    BY <1>4, <1>5
<1>7. pow2[0] = 1 /\ \A k \in 1 .. MaxBits : pow2[k] = 2 * pow2[k - 1]
  BY <1>6, SizesAssumption
<1>8. \A k \in 0 .. MaxBits : pow2[k] \in Nat
  <2>1. ComputesIn(Nat, pow2, MaxBits, 1, step)
    BY <1>2, <1>7 DEF ComputesIn
  <2>2. QED
    BY <1>1, <2>1, LoopType, SizesAssumption
<1>9. QED
  BY <1>6, <1>7, <1>8

LEMMA HalvingLoop ==
  ASSUME NEW n \in Nat
  PROVE  /\ halved(n) \in [0 .. MaxBits + 1 -> Nat]
         /\ halved(n)[0] = n
         /\ \A i \in 1 .. MaxBits + 1 : halved(n)[i] = halved(n)[i - 1] \div 2
<1> DEFINE Body(h) == [i \in 0 .. MaxBits + 1 |-> IF i = 0 THEN n ELSE h[i - 1] \div 2]
<1> DEFINE step == [i \in 1 .. MaxBits + 1 |-> [v \in Nat |-> v \div 2]]
<1>1. step \in Rounds(MaxBits + 1, Nat)
  BY DEF Rounds
<1>2. \A i \in 1 .. MaxBits + 1, v \in Nat : step[i][v] = v \div 2
  OBVIOUS
<1>3. MaxBits + 1 \in Nat
  BY SizesAssumption
<1> HIDE DEF step
<1>4. PICK h : h \in [0 .. MaxBits + 1 -> Nat] /\ Computes(h, MaxBits + 1, n, step)
  BY <1>1, <1>3, LoopExists
<1>5. h = Body(h)
  <2>1. ASSUME NEW i \in 1 .. MaxBits + 1 PROVE h[i] = h[i - 1] \div 2
    <3>1. h[i - 1] \in Nat
      BY <1>3, <1>4
    <3>2. QED
      BY <1>2, <1>4, <3>1 DEF Computes
  <2>2. QED
    BY <1>3, <1>4, <2>1 DEF Computes
<1>6. halved(n) = CHOOSE g : g = Body(g)
  BY DEF halved
<1>7. halved(n) = Body(halved(n))
  <2> HIDE DEF Body
  <2>1. QED
    BY <1>5, <1>6
<1> DEFINE half == halved(n)
<1>8. half[0] = n /\ \A i \in 1 .. MaxBits + 1 : half[i] = half[i - 1] \div 2
  <2> HIDE DEF half
  <2>1. half = Body(half)
    BY <1>7 DEF half
  <2>2. QED
    BY <1>3, <2>1
<1>9. \A i \in 0 .. MaxBits + 1 : half[i] \in Nat
  <2> HIDE DEF half
  <2>1. ComputesIn(Nat, half, MaxBits + 1, n, step)
    BY <1>2, <1>8 DEF ComputesIn
  <2>2. QED
    BY <1>1, <1>3, <2>1, LoopType
<1>10. QED
  BY <1>7, <1>8, <1>9

LEMMA DoublingLoop ==
  ASSUME NEW digits
  PROVE  /\ doubled(digits)[0] = 0
         /\ \A i \in 1 .. MaxBits + 1 :
              doubled(digits)[i] =
                2 * doubled(digits)[i - 1] + (IF MaxBits + 1 - i \in digits THEN 1 ELSE 0)
<1> DEFINE digit(i) == IF MaxBits + 1 - i \in digits THEN 1 ELSE 0
<1> DEFINE Body(h) == [i \in 0 .. MaxBits + 1 |-> IF i = 0 THEN 0 ELSE 2 * h[i - 1] + digit(i)]
<1> DEFINE step == [i \in 1 .. MaxBits + 1 |-> [v \in Nat |-> 2 * v + digit(i)]]
<1>1. step \in Rounds(MaxBits + 1, Nat)
  BY DEF Rounds
<1>2. \A i \in 1 .. MaxBits + 1, v \in Nat : step[i][v] = 2 * v + digit(i)
  OBVIOUS
<1>3. MaxBits + 1 \in Nat
  BY SizesAssumption
<1> HIDE DEF step
<1>4. PICK h : h \in [0 .. MaxBits + 1 -> Nat] /\ Computes(h, MaxBits + 1, 0, step)
  BY <1>1, <1>3, LoopExists
<1>5. h = Body(h)
  <2>1. ASSUME NEW i \in 1 .. MaxBits + 1 PROVE h[i] = 2 * h[i - 1] + digit(i)
    <3>1. h[i - 1] \in Nat
      BY <1>3, <1>4
    <3> HIDE DEF digit
    <3>2. QED
      BY <1>2, <1>4, <3>1 DEF Computes
  <2> HIDE DEF digit
  <2>2. QED
    BY <1>3, <1>4, <2>1 DEF Computes
<1>6. doubled(digits) = CHOOSE g : g = Body(g)
  BY DEF doubled
<1>7. doubled(digits) = Body(doubled(digits))
  <2> HIDE DEF Body
  <2>1. QED
    BY <1>5, <1>6
<1> DEFINE result == doubled(digits)
<1>8. result[0] = 0 /\ \A i \in 1 .. MaxBits + 1 : result[i] = 2 * result[i - 1] + digit(i)
  <2> HIDE DEF result, digit
  <2>1. result = Body(result)
    BY <1>7 DEF result
  <2>2. QED
    BY <1>3, <2>1
<1>9. QED
  BY <1>8

LEMMA PowersGrow ==
  /\ \A k \in 0 .. MaxBits : pow2[k] \in Nat \ {0} /\ pow2[k] <= StateLimit
  /\ \A k \in 0 .. MaxBits - 1 : pow2[k + 1] = 2 * pow2[k]
<1>1. \A k \in 0 .. MaxBits - 1 : pow2[k + 1] = 2 * pow2[k]
  <2> TAKE k \in 0 .. MaxBits - 1
  <2>1. k + 1 \in 1 .. MaxBits /\ (k + 1) - 1 = k
    BY SizesAssumption
  <2>2. QED
    BY <2>1, PowerLoop
<1>2. \A k \in 0 .. MaxBits : pow2[k] \in Nat \ {0}
  <2> DEFINE P == {k \in Nat : pow2[k] \in Nat \ {0}}
  <2>1. 0 \in P
    BY PowerLoop
  <2>2. \A k \in 0 .. MaxBits - 1 : k \in P => k + 1 \in P
    BY <1>1
  <2>3. \A k \in 0 .. MaxBits : k \in P
    <3> HIDE DEF P
    <3>1. P \in SUBSET Nat
      BY DEF P
    <3>2. QED
      BY <2>1, <2>2, <3>1, InductionUpTo, SizesAssumption
  <2>4. QED
    BY <2>3
<1>3. \A k \in 0 .. MaxBits : pow2[MaxBits - k] <= StateLimit
  <2> DEFINE P == {k \in Nat : pow2[MaxBits - k] <= StateLimit}
  <2>1. 0 \in P
    BY <1>2, SizesAssumption DEF StateLimit
  <2>2. ASSUME NEW k \in 0 .. MaxBits - 1, k \in P PROVE k + 1 \in P
    <3> DEFINE j == MaxBits - (k + 1)
    <3>1. j \in 0 .. MaxBits - 1 /\ j + 1 = MaxBits - k /\ j \in 0 .. MaxBits
          /\ MaxBits \in 0 .. MaxBits
      BY SizesAssumption
    <3>2. pow2[j + 1] = 2 * pow2[j] /\ pow2[j] \in Nat /\ StateLimit \in Nat
      BY <1>1, <1>2, <3>1 DEF StateLimit
    <3>3. pow2[j] <= StateLimit
      BY <2>2, <3>1, <3>2
    <3>4. QED
      BY <3>3
  <2>3. \A k \in 0 .. MaxBits : k \in P
    <3> HIDE DEF P
    <3>1. P \in SUBSET Nat
      BY DEF P
    <3>2. QED
      BY <2>1, <2>2, <3>1, InductionUpTo, SizesAssumption
  <2>4. QED
    BY <2>3
<1>4. ASSUME NEW k \in 0 .. MaxBits PROVE pow2[k] <= StateLimit
  <2>1. MaxBits - k \in 0 .. MaxBits /\ MaxBits - (MaxBits - k) = k
    BY SizesAssumption
  <2>2. QED
    BY <1>3, <2>1
<1>5. QED
  BY <1>1, <1>2, <1>4

(* k rounds bring n to 0 iff it is less than 2^k.                           *)
LEMMA HalvedToZero ==
  ASSUME NEW n \in Nat, NEW k \in 0 .. MaxBits
  PROVE  halved(n)[k] = 0 <=> n < pow2[k]
<1> DEFINE half == halved(n)
<1> DEFINE P == {j \in Nat : /\ half[k] = 0 => half[k - j] < pow2[j]
                             /\ half[k] # 0 => half[k - j] >= pow2[j]}
<1>1. /\ \A i \in 0 .. MaxBits + 1 : half[i] \in Nat
      /\ \A i \in 1 .. MaxBits + 1 : half[i] = half[i - 1] \div 2
      /\ half[0] = n
  BY HalvingLoop
<1> HIDE DEF half
<1>2. k \in Nat /\ k \in 0 .. MaxBits + 1
  BY SizesAssumption
<1>3. 0 \in P
  BY <1>1, <1>2, PowerLoop
<1>4. ASSUME NEW j \in 0 .. k - 1, j \in P PROVE j + 1 \in P
  <2>1. k - j \in 1 .. MaxBits + 1 /\ (k - j) - 1 = k - (j + 1) /\ k - (j + 1) \in 0 .. MaxBits + 1
    BY <1>2, SizesAssumption
  <2>2. half[k - j] = half[k - (j + 1)] \div 2 /\ half[k - (j + 1)] \in Nat
        /\ half[k - j] \in Nat
    BY <1>1, <2>1
  <2>3. j \in 0 .. MaxBits - 1 /\ j \in 0 .. MaxBits
    BY <1>2, SizesAssumption
  <2>4. pow2[j + 1] = 2 * pow2[j] /\ pow2[j] \in Nat
    BY <2>3, PowersGrow
  <2>5. /\ half[k] = 0 => half[k - (j + 1)] < pow2[j + 1]
        /\ half[k] # 0 => half[k - (j + 1)] >= pow2[j + 1]
    BY <1>4, <2>2, <2>4
  <2>6. QED
    BY <2>5
<1>5. \A j \in 0 .. k : j \in P
  <2> HIDE DEF P
  <2>1. P \in SUBSET Nat
    BY DEF P
  <2>2. QED
    BY <1>2, <1>3, <1>4, <2>1, InductionUpTo
<1>6. k \in 0 .. k /\ k - k = 0
  BY <1>2
<1>7. /\ half[k] = 0 => n < pow2[k]
      /\ half[k] # 0 => n >= pow2[k]
  BY <1>1, <1>5, <1>6
<1>8. pow2[k] \in Nat
  BY PowersGrow
<1>9. QED
  BY <1>7, <1>8 DEF half

(* Once 0, the loop finds 0 in every later round.                           *)
LEMMA ZeroStays ==
  ASSUME NEW n \in Nat, NEW k \in 0 .. MaxBits + 1, halved(n)[k] = 0
  PROVE  \A i \in k .. MaxBits + 1 : halved(n)[i] = 0
<1> DEFINE half == halved(n)
<1> DEFINE P == {j \in Nat : half[k + j] = 0}
<1>1. half[k] = 0 /\ \A i \in 1 .. MaxBits + 1 : half[i] = half[i - 1] \div 2
  BY HalvingLoop
<1> HIDE DEF half
<1>2. MaxBits + 1 \in Nat /\ k \in Nat /\ MaxBits + 1 - k \in Nat
  BY SizesAssumption
<1>3. 0 \in P
  BY <1>1, <1>2
<1>4. ASSUME NEW j \in 0 .. (MaxBits + 1 - k) - 1, j \in P PROVE j + 1 \in P
  <2>1. k + (j + 1) \in 1 .. MaxBits + 1 /\ (k + (j + 1)) - 1 = k + j
    BY <1>2, SizesAssumption
  <2>2. half[k + (j + 1)] = half[k + j] \div 2
    BY <1>1, <2>1
  <2>3. QED
    BY <1>4, <2>2
<1>5. \A j \in 0 .. MaxBits + 1 - k : j \in P
  <2> HIDE DEF P
  <2>1. P \in SUBSET Nat
    BY DEF P
  <2>2. QED
    BY <1>2, <1>3, <1>4, <2>1, InductionUpTo
<1>6. ASSUME NEW i \in k .. MaxBits + 1 PROVE half[i] = 0
  <2>1. i - k \in 0 .. MaxBits + 1 - k /\ k + (i - k) = i
    BY <1>2, SizesAssumption
  <2>2. QED
    BY <1>5, <2>1
<1>7. QED
  BY <1>6 DEF half

(* An index has at most MaxBits + 1 digits.                                 *)
LEMMA LoopEnds ==
  ASSUME NEW n \in Index
  PROVE  n \in Nat /\ halved(n)[MaxBits + 1] = 0
<1> DEFINE half == halved(n)
<1> DEFINE P == {i \in Nat : half[i] <= pow2[MaxBits - i]}
<1>1. n \in Nat /\ n <= StateLimit
  BY PowersGrow, SizesAssumption DEF Index, StateLimit
<1>2. /\ \A i \in 0 .. MaxBits + 1 : half[i] \in Nat
      /\ \A i \in 1 .. MaxBits + 1 : half[i] = half[i - 1] \div 2
      /\ half[0] = n
  BY <1>1, HalvingLoop
<1> HIDE DEF half
<1>3. 0 \in P
  BY <1>1, <1>2, SizesAssumption DEF StateLimit
<1>4. ASSUME NEW i \in 0 .. MaxBits - 1, i \in P PROVE i + 1 \in P
  <2>1. /\ i + 1 \in 1 .. MaxBits + 1 /\ (i + 1) - 1 = i /\ i \in 0 .. MaxBits + 1
        /\ MaxBits - (i + 1) \in 0 .. MaxBits - 1 /\ (MaxBits - (i + 1)) + 1 = MaxBits - i
        /\ MaxBits - (i + 1) \in 0 .. MaxBits
    BY SizesAssumption
  <2>2. half[i + 1] = half[i] \div 2 /\ half[i] \in Nat
    BY <1>2, <2>1
  <2>3. pow2[MaxBits - i] = 2 * pow2[MaxBits - (i + 1)] /\ pow2[MaxBits - (i + 1)] \in Nat
    BY <2>1, PowersGrow
  <2>4. half[i + 1] <= pow2[MaxBits - (i + 1)]
    BY <1>4, <2>2, <2>3
  <2>5. QED
    BY <2>4
<1>5. \A i \in 0 .. MaxBits : i \in P
  <2> HIDE DEF P
  <2>1. P \in SUBSET Nat
    BY DEF P
  <2>2. QED
    BY <1>3, <1>4, <2>1, InductionUpTo, SizesAssumption
<1>6. /\ MaxBits \in 0 .. MaxBits /\ MaxBits - MaxBits = 0 /\ MaxBits \in 0 .. MaxBits + 1
      /\ MaxBits + 1 \in 1 .. MaxBits + 1 /\ (MaxBits + 1) - 1 = MaxBits
  BY SizesAssumption
<1>7. half[MaxBits] <= 1 /\ half[MaxBits] \in Nat
  BY <1>2, <1>5, <1>6, PowerLoop
<1>8. half[MaxBits + 1] = half[MaxBits] \div 2
  BY <1>2, <1>6
<1>9. half[MaxBits + 1] = 0
  BY <1>7, <1>8
<1>10. QED
  BY <1>1, <1>9 DEF half

LEMMA DigitsOf ==
  \A n \in Index : state2bin(n) = {i \in 0 .. MaxBits : halved(n)[i] % 2 = 1}
  BY DEF state2bin, state2bin_of

(* bin2state of the digits that state2bin found is the number again: round  *)
(* i of the one loop undoes the last round but i of the other.              *)
LEMMA RoundTrip == \A n \in Index : bin2state(state2bin(n)) = n
<1> TAKE n \in Index
<1> DEFINE half == halved(n)
<1> DEFINE digits == state2bin(n)
<1> DEFINE result == doubled(digits)
<1> DEFINE P == {i \in Nat : result[i] = half[MaxBits + 1 - i]}
<1>1. n \in Nat /\ half[MaxBits + 1] = 0
  BY LoopEnds
<1>2. /\ \A i \in 0 .. MaxBits + 1 : half[i] \in Nat
      /\ \A i \in 1 .. MaxBits + 1 : half[i] = half[i - 1] \div 2
      /\ half[0] = n
  BY <1>1, HalvingLoop
<1>3. digits = {i \in 0 .. MaxBits : half[i] % 2 = 1}
  BY DigitsOf
<1>4. /\ result[0] = 0
      /\ \A i \in 1 .. MaxBits + 1 :
           result[i] = 2 * result[i - 1] + (IF MaxBits + 1 - i \in digits THEN 1 ELSE 0)
  BY DoublingLoop
<1>5. bin2state(digits) = result[MaxBits + 1]
  <2>1. digits \in Digits
    BY <1>3 DEF Digits
  <2>2. QED
    BY <2>1 DEF bin2state, bin2state_of
<1> HIDE DEF half, result, digits
<1>6. MaxBits + 1 \in Nat
  BY SizesAssumption
<1>7. 0 \in P
  BY <1>1, <1>4, <1>6
<1>8. ASSUME NEW i \in 0 .. (MaxBits + 1) - 1, i \in P PROVE i + 1 \in P
  <2> DEFINE d == MaxBits + 1 - (i + 1)
  <2>1. /\ i + 1 \in 1 .. MaxBits + 1 /\ (i + 1) - 1 = i
        /\ d \in 0 .. MaxBits /\ d + 1 = MaxBits + 1 - i
        /\ d + 1 \in 1 .. MaxBits + 1 /\ d \in 0 .. MaxBits + 1 /\ (d + 1) - 1 = d
    BY SizesAssumption
  <2>2. result[i + 1] = 2 * result[i] + (IF d \in digits THEN 1 ELSE 0)
    BY <1>4, <2>1
  <2>3. half[d + 1] = half[d] \div 2 /\ half[d] \in Nat
    BY <1>2, <2>1
  <2>4. result[i] = half[d + 1]
    BY <1>8, <2>1
  <2>5. d \in digits <=> half[d] % 2 = 1
    BY <1>3, <2>1
  <2> HIDE DEF d
  <2>6. result[i + 1] = half[d]
    BY <2>2, <2>3, <2>4, <2>5
  <2>7. QED
    BY <2>6 DEF d
<1>9. \A i \in 0 .. MaxBits + 1 : i \in P
  <2> HIDE DEF P
  <2>1. P \in SUBSET Nat
    BY DEF P
  <2>2. QED
    BY <1>6, <1>7, <1>8, <2>1, InductionUpTo
<1>10. MaxBits + 1 \in 0 .. MaxBits + 1 /\ MaxBits + 1 - (MaxBits + 1) = 0
  BY SizesAssumption
<1>11. result[MaxBits + 1] = n
  BY <1>2, <1>9, <1>10
<1>12. QED
  BY <1>5, <1>11 DEF digits

(* bit_length counts the rounds until 0.                                    *)
LEMMA BitLengthIs ==
  ASSUME NEW n \in Index, NEW k \in 0 .. MaxBits
  PROVE  bit_length(n) \in Nat /\ (bit_length(n) <= k <=> halved(n)[k] = 0)
<1> DEFINE D == {i \in 0 .. MaxBits : halved(n)[i] # 0}
<1>1. IsFiniteSet(0 .. MaxBits) /\ k \in Nat /\ k \in 0 .. MaxBits + 1
  BY FS_Interval, SizesAssumption
<1>2. IsFiniteSet(D) /\ Cardinality(D) \in Nat /\ bit_length(n) = Cardinality(D)
  <2>1. D \in SUBSET (0 .. MaxBits)
    OBVIOUS
  <2>2. IsFiniteSet(D)
    BY <1>1, <2>1, FS_Subset
  <2>3. QED
    BY <2>2, FS_CardinalityType DEF bit_length
<1>3. CASE halved(n)[k] = 0
  <2>1. \A i \in k .. MaxBits + 1 : halved(n)[i] = 0
    BY <1>1, <1>3, LoopEnds, ZeroStays
  <2>2. D \in SUBSET (0 .. k - 1)
    BY <1>1, <2>1, SizesAssumption
  <2> HIDE DEF D
  <2>3. IsFiniteSet(0 .. k - 1) /\ Cardinality(0 .. k - 1) = k
    <3>1. 0 \in Int /\ k - 1 \in Int /\ (IF 0 > k - 1 THEN 0 ELSE k - 1 - 0 + 1) = k
      BY <1>1
    <3>2. QED
      BY <3>1, FS_Interval
  <2>4. Cardinality(D) <= k
    BY <2>2, <2>3, FS_Subset
  <2>5. QED
    BY <1>2, <1>3, <2>4
<1>4. CASE halved(n)[k] # 0
  <2>1. ASSUME NEW i \in 0 .. k PROVE halved(n)[i] # 0
    <3>1. i \in 0 .. MaxBits + 1 /\ k \in i .. MaxBits + 1
      BY <1>1, SizesAssumption
    <3>2. QED
      BY <1>4, <3>1, LoopEnds, ZeroStays
  <2>2. 0 .. k \in SUBSET D
    BY <1>1, <2>1, SizesAssumption
  <2> HIDE DEF D
  <2>3. Cardinality(0 .. k) = k + 1
    BY <1>1, FS_Interval
  <2>4. k + 1 <= Cardinality(D)
    BY <1>2, <2>2, <2>3, FS_Subset
  <2>5. QED
    BY <1>1, <1>2, <1>4, <2>4
<1>5. QED
  BY <1>3, <1>4

(* Digits determine the state, and a state of bit length k only has digits  *)
(* below k.                                                                 *)
LEMMA BinaryFacts ==
  /\ StateLimit \in Nat \ {0}
  /\ \A n \in Index : bin2state(state2bin(n)) = n
  /\ \A n \in Index : \A k \in 0 .. MaxBits :
        bit_length(n) <= k => n < StateLimit /\ state2bin(n) \subseteq 0 .. k - 1
  /\ state2bin(0) = {}
<1>1. StateLimit \in Nat \ {0}
  BY PowersGrow, SizesAssumption DEF StateLimit
<1>2. ASSUME NEW n \in Index, NEW k \in 0 .. MaxBits, bit_length(n) <= k
      PROVE  n < StateLimit /\ state2bin(n) \subseteq 0 .. k - 1
  <2>1. n \in Nat /\ halved(n)[k] = 0
    BY <1>2, LoopEnds, BitLengthIs
  <2>2. n < StateLimit
    BY <1>1, <2>1, HalvedToZero, PowersGrow
  <2>3. k \in Nat /\ k \in 0 .. MaxBits + 1
    BY SizesAssumption
  <2>4. \A i \in k .. MaxBits + 1 : halved(n)[i] = 0
    BY <2>1, <2>3, ZeroStays
  <2>5. ASSUME NEW i \in state2bin(n) PROVE i \in 0 .. k - 1
    <3>1. i \in 0 .. MaxBits /\ halved(n)[i] % 2 = 1
      BY DigitsOf
    <3>2. halved(n)[i] # 0
      BY <3>1
    <3>3. QED
      BY <2>3, <2>4, <3>1, <3>2, SizesAssumption
  <2>6. QED
    BY <2>2, <2>5
<1>3. state2bin(0) = {}
  <2>1. 0 \in Index /\ 0 \in Nat /\ 0 \in 0 .. MaxBits + 1
    BY <1>1, SizesAssumption DEF Index
  <2>2. \A i \in 0 .. MaxBits + 1 : halved(0)[i] = 0
    BY <2>1, HalvingLoop, ZeroStays
  <2>3. \A i \in 0 .. MaxBits : halved(0)[i] % 2 # 1
    <3>1. \A i \in 0 .. MaxBits : i \in 0 .. MaxBits + 1
      BY SizesAssumption
    <3>2. QED
      BY <2>2, <3>1
  <2>4. QED
    BY <2>1, <2>3, DigitsOf
<1>4. QED
  BY <1>1, <1>2, <1>3, RoundTrip

(* A state of more than k digits is 2^k at least.                           *)
LEMMA PowersFacts ==
  \A n \in Index, k \in 0 .. MaxBits : k < bit_length(n) => pow2[k] \in 1 .. n
<1> SUFFICES ASSUME NEW n \in Index, NEW k \in 0 .. MaxBits, k < bit_length(n)
             PROVE  pow2[k] \in 1 .. n
  OBVIOUS
<1>1. n \in Nat /\ halved(n)[k] # 0
  <2>1. n \in Nat /\ bit_length(n) \in Nat /\ (bit_length(n) <= k <=> halved(n)[k] = 0)
    BY LoopEnds, BitLengthIs
  <2>2. ~ (bit_length(n) <= k)
    BY <2>1, SizesAssumption
  <2>3. QED
    BY <2>1, <2>2
<1>2. ~ (n < pow2[k]) /\ pow2[k] \in Nat \ {0}
  BY <1>1, HalvedToZero, PowersGrow
<1>3. QED
  BY <1>1, <1>2

LEMMA DigitsType == \A n \in Index : state2bin(n) \in Digits
  BY DEF state2bin, state2bin_of, Digits

LEMMA DigitsInjective ==
  \A m, n \in Index : state2bin(m) = state2bin(n) => m = n
  BY BinaryFacts

LEMMA NoDigits ==
  0 \in Index /\ 1 \in Index /\ bin2state({}) = 0 /\ state2bin(0) = {}
<1>1. 0 \in Index /\ 1 \in Index
  BY BinaryFacts DEF Index
<1>2. QED
  BY <1>1, BinaryFacts

LEMMA BitLengthType == \A n \in Index : bit_length(n) \in Nat
<1>1. 0 \in 0 .. MaxBits
  BY SizesAssumption
<1>2. QED
  BY <1>1, BitLengthIs

(* An index that add_state returns fits in the digits of the automaton.     *)
LEMMA AddedIndexFits ==
  ASSUME NEW a \in Automata, ~ add_state_throws(a)
  PROVE  /\ a.nb_states < StateLimit
         /\ state2bin(a.nb_states) \subseteq 0 .. a.nb_bits - 1
<1>1. a.nb_states \in Index /\ a.nb_bits \in 0 .. MaxBits
  BY DEF Automata
<1>2. bit_length(a.nb_states) <= a.nb_bits
  BY <1>1, BitLengthType, SizesAssumption DEF add_state_throws
<1>3. QED
  BY <1>1, <1>2, BinaryFacts

-----------------------------------------------------------------------------
(* The methods of the automaton.                                            *)

LEMMA AddStateType ==
  ASSUME NEW a \in Automata, ~ add_state_throws(a)
  PROVE  /\ add_state(a) \in Automata
         /\ add_state(a) = [a EXCEPT !.nb_states = a.nb_states + 1]
<1>1. a.nb_states + 1 \in Index
  <2>1. a.nb_states \in Index /\ StateLimit \in Nat
    BY BinaryFacts DEF Automata
  <2>2. QED
    BY <2>1, AddedIndexFits DEF Index
<1>2. QED
  BY <1>1 DEF Automata, add_state

LEMMA AddTransitionType ==
  ASSUME NEW a \in Automata, NEW from \in Index, NEW to \in Index,
         NEW g \in SUBSET Interpretation
  PROVE  /\ add_transition(a, from, g, to) \in Automata
         /\ add_transition(a, from, g, to).nb_bits = a.nb_bits
         /\ add_transition(a, from, g, to).nb_states = a.nb_states
         /\ add_transition(a, from, g, to).finalstates = a.finalstates
<1> DEFINE r == [i \in 0 .. MaxBits - 1 |->
                   IF i < a.nb_bits /\ i \in state2bin(to)
                     THEN a.root[i] \union ({state2bin(from)} \X g)
                     ELSE a.root[i]]
<1>1. {state2bin(from)} \X g \subseteq Digits \X Interpretation
  BY DigitsType
<1>2. a.root \in [0 .. MaxBits - 1 -> SUBSET (Digits \X Interpretation)]
  BY DEF Automata
<1>3. r \in [0 .. MaxBits - 1 -> SUBSET (Digits \X Interpretation)]
  BY <1>1, <1>2
<1>4. add_transition(a, from, g, to) = [a EXCEPT !.root = r]
  BY DEF add_transition
<1> HIDE DEF r
<1>5. QED
  BY <1>3, <1>4 DEF Automata

(* add_transition(from, g, to) adds the digits of to to the successor of    *)
(* from under the interpretations in g, and changes no other successor.     *)
LEMMA AddTransitionDigits ==
  ASSUME NEW a \in Automata, NEW from \in Index, NEW to \in Index,
         NEW g \in SUBSET Interpretation, state2bin(to) \subseteq 0 .. a.nb_bits - 1,
         NEW digits \in Digits, NEW x \in Interpretation
  PROVE  successor_digits(add_transition(a, from, g, to), digits, x) =
           successor_digits(a, digits, x) \union
             (IF digits = state2bin(from) /\ x \in g THEN state2bin(to) ELSE {})
<1> DEFINE b == add_transition(a, from, g, to)
<1>1. b.nb_bits = a.nb_bits /\ a.nb_bits \in 0 .. MaxBits
  BY DEF add_transition, Automata
<1>2. ASSUME NEW i \in 0 .. MaxBits - 1
      PROVE  b.root[i] = IF i < a.nb_bits /\ i \in state2bin(to)
                           THEN a.root[i] \union ({state2bin(from)} \X g)
                           ELSE a.root[i]
  BY DEF add_transition, Automata
<1> HIDE DEF b
<1>3. ASSUME NEW i \in 0 .. a.nb_bits - 1
      PROVE  <<digits, x>> \in b.root[i] <=>
               \/ <<digits, x>> \in a.root[i]
               \/ i \in state2bin(to) /\ digits = state2bin(from) /\ x \in g
  <2>1. i \in 0 .. MaxBits - 1 /\ i < a.nb_bits
    BY <1>1, SizesAssumption
  <2>2. CASE i \in state2bin(to)
    <3>1. b.root[i] = a.root[i] \union ({state2bin(from)} \X g)
      BY <1>2, <2>1, <2>2
    <3>2. <<digits, x>> \in {state2bin(from)} \X g <=> digits = state2bin(from) /\ x \in g
      OBVIOUS
    <3>3. QED
      BY <2>2, <3>1, <3>2
  <2>3. CASE i \notin state2bin(to)
    BY <1>2, <2>1, <2>3
  <2>4. QED
    BY <2>2, <2>3
<1>4. QED
  BY <1>1, <1>3 DEF successor_digits, b

(* The loop of accepts goes from a state to its successor.                  *)
LEMMA AcceptsLoop ==
  ASSUME NEW a \in Automata, NEW word, NEW l \in Nat, Len(word) = l,
         \A i \in 1 .. l : word[i] \in Interpretation
  PROVE  /\ states_along(a, word)[0] = state2bin(a.initial_state)
         /\ \A i \in 1 .. l :
              states_along(a, word)[i] =
                successor_digits(a, states_along(a, word)[i - 1], word[i])
<1> DEFINE first == state2bin(a.initial_state)
<1> DEFINE succ(d, i) == successor_digits(a, d, word[i])
<1> DEFINE Body(h) == [i \in 0 .. l |-> IF i = 0 THEN first ELSE succ(h[i - 1], i)]
<1> DEFINE step == [i \in 1 .. l |-> [d \in Digits |-> succ(d, i)]]
<1>1. step \in Rounds(l, Digits) /\ first \in Digits
  <2>1. first \in Digits
    BY DigitsType DEF Automata
  <2>2. a.nb_bits \in 0 .. MaxBits
    BY DEF Automata
  <2>3. ASSUME NEW d, NEW i PROVE succ(d, i) \in Digits
    BY <2>2, SizesAssumption DEF successor_digits, Digits
  <2> HIDE DEF succ
  <2>4. QED
    BY <2>1, <2>3 DEF Rounds
<1>2. states_along(a, word) = CHOOSE g : g = Body(g)
  BY DEF states_along
<1> HIDE DEF succ, first
<1>3. \A i \in 1 .. l, d \in Digits : step[i][d] = succ(d, i)
  OBVIOUS
<1> HIDE DEF step
<1>4. PICK h : h \in [0 .. l -> Digits] /\ Computes(h, l, first, step)
  BY <1>1, LoopExists
<1>5. h = Body(h)
  <2>1. ASSUME NEW i \in 1 .. l PROVE h[i] = succ(h[i - 1], i)
    <3>1. h[i - 1] \in Digits
      BY <1>4
    <3>2. QED
      BY <1>3, <1>4, <3>1 DEF Computes
  <2>2. QED
    BY <1>4, <2>1 DEF Computes
<1> DEFINE along == states_along(a, word)
<1>6. along = Body(along)
  <2> HIDE DEF Body
  <2>1. QED
    BY <1>2, <1>5
<1> HIDE DEF along
<1>7. along[0] = first /\ \A i \in 1 .. l : along[i] = succ(along[i - 1], i)
  BY <1>6
<1>8. QED
  BY <1>7 DEF along, first, succ
==============================================================================
