------------------------- MODULE StrategyObjectsProofs -------------------------
(***************************************************************************)
(* Proofs about StrategyObjects, for any number of atoms, formulas, bits    *)
(* and automata.                                                            *)
(***************************************************************************)
EXTENDS StrategyObjects, WellFoundedInduction, FiniteSetTheorems, TLAPS

-----------------------------------------------------------------------------
(* Induction on the natural numbers, for a property given as the set of     *)
(* the numbers that have it.                                                *)

(* The pairs of natural numbers in increasing order.                        *)
Less == {p \in Nat \X Nat : p[1] < p[2]}

LEMMA LessIsWellFounded == IsWellFoundedOn(Less, Nat)
  BY NatLessThanWellFounded DEF OpToRel, Less

(* A set of natural numbers that holds 0, and with n the number after n,    *)
(* holds them all.                                                          *)
LEMMA Induction ==
  ASSUME NEW P \in SUBSET Nat, 0 \in P, \A n \in P : n + 1 \in P
  PROVE  P = Nat
<1>1. SUFFICES ASSUME Nat \ P # {} PROVE FALSE
  OBVIOUS
<1>2. PICK x \in Nat \ P : \A y \in Nat \ P : ~ (<<y, x>> \in Less)
  BY <1>1, LessIsWellFounded, WFMin, Nat \ P \subseteq Nat
<1>3. x - 1 \in Nat /\ <<x - 1, x>> \in Less /\ (x - 1) + 1 = x
  BY DEF Less
<1>4. x - 1 \in P
  BY <1>2, <1>3
<1>5. QED
  BY <1>3, <1>4

-----------------------------------------------------------------------------
(* The invariant of StrategyObjects.                                       *)
Known == DOMAIN strategy.subformula2id

HasFields(s) ==
  s = [kind |-> s.kind, max_nb_bits |-> s.max_nb_bits,
       atom2ids |-> s.atom2ids, id2atoms |-> s.id2atoms,
       indices |-> s.indices, subformula2id |-> s.subformula2id,
       id2subformula |-> s.id2subformula, subformula_bddvars |-> s.subformula_bddvars]

(* The i-th automaton of a manager that has m variables now.  The first has *)
(* the first variables, no other has: every automaton has bits.             *)
IsAt(a, i, m) ==
  \E base \in Nat, bits \in Nat \ {0}, n \in Nat :
    /\ base + bits + n <= m
    /\ a = dfa(base, bits, n)
    /\ base = 0 <=> i = 1

(* The variables of the automata were made one after the other.             *)
Stacked ==
  /\ Len(automata) = 0 => size = 0
  /\ \A i \in 1 .. Len(automata) : IsAt(automata[i], i, size)

(* The quoted formulas have identifiers below their number, and a variable  *)
(* each; the variables were made one after the other.                       *)
Quoted ==
  LET vs == strategy.subformula_bddvars
  IN  /\ IsFiniteSet(Known)
      /\ vs \in Seq(0 .. size - 1)
      /\ Len(vs) = Cardinality(Known)
      /\ \A i, j \in DOMAIN vs : i < j => vs[i] < vs[j]
      /\ \A f \in Known : strategy.subformula2id[f] \in 0 .. Cardinality(Known) - 1

IInv ==
  /\ size \in Nat /\ Len(automata) \in 0 .. MaxAutomata
  /\ <<strategy.kind, strategy.max_nb_bits>> \in Kinds
  /\ HasFields(strategy)
  /\ atoms \subseteq Atoms
  /\ running \in BOOLEAN
  /\ running => strategy.kind = "bdd" /\ automata # << >>
  /\ automata \in Seq([nb_bits : Nat, bddvars : Seq(Nat)])
  /\ Stacked
  /\ Quoted

-----------------------------------------------------------------------------
(* Sequences as functions on 1 .. l.                                        *)
LEMMA Positions ==
  ASSUME NEW S, NEW s \in Seq(S)
  PROVE  /\ Len(s) \in Nat /\ DOMAIN s = 1 .. Len(s)
         /\ \A i \in DOMAIN s : i \in Nat /\ s[i] \in S
OBVIOUS

LEMMA AppendPositions ==
  ASSUME NEW S, NEW s \in Seq(S), NEW x \in S, NEW l, l = Len(s)
  PROVE  /\ Append(s, x) \in Seq(S)
         /\ Len(Append(s, x)) = l + 1 /\ DOMAIN Append(s, x) = 1 .. l + 1
         /\ DOMAIN s = 1 .. l /\ l \in Nat
         /\ \A i \in 1 .. l : Append(s, x)[i] = s[i]
         /\ Append(s, x)[l + 1] = x
OBVIOUS

(* A strategy that is as it was with its formulas keeps what Quoted says,   *)
(* if the manager only grew.                                                *)
LEMMA QuotedKept ==
  ASSUME Quoted, size \in Nat, size' \in Nat, size <= size',
         strategy'.subformula2id = strategy.subformula2id,
         strategy'.subformula_bddvars = strategy.subformula_bddvars
  PROVE  Quoted'
BY DEF Quoted, Known

LEMMA KindFacts ==
  ASSUME NEW kind \in Kinds
  PROVE  /\ kind = <<kind[1], kind[2]>>
         /\ kind[1] # "compositional" => kind[2] \in 1 .. MaxBits
BY DEF Kinds

(* A new strategy has no formulas.                                          *)
LEMMA NothingQuoted ==
  ASSUME NEW kind \in Kinds, strategy' = NewStrategyOf(kind), size' \in Nat
  PROVE  /\ Quoted'
         /\ <<strategy'.kind, strategy'.max_nb_bits>> \in Kinds
         /\ HasFields(strategy')
<1>1. strategy'.subformula2id = << >> /\ strategy'.subformula_bddvars = << >>
  BY DEF NewStrategyOf
<1>2. Known' = {}
  BY <1>1 DEF Known
<1>3. strategy'.kind = kind[1] /\ strategy'.max_nb_bits = kind[2]
  BY DEF NewStrategyOf
<1>4. <<strategy'.kind, strategy'.max_nb_bits>> \in Kinds
  BY <1>3, KindFacts
<1>5. HasFields(strategy')
  BY DEF NewStrategyOf, HasFields
<1>6. QED
  BY <1>1, <1>2, <1>4, <1>5, FS_EmptySet DEF Quoted

LEMMA DfaType ==
  ASSUME NEW base \in Nat, NEW bits \in Nat, NEW n \in Nat
  PROVE  /\ dfa(base, bits, n) \in [nb_bits : Nat, bddvars : Seq(Nat)]
         /\ DOMAIN dfa(base, bits, n).bddvars = 1 .. bits + n
         /\ \A i \in 1 .. bits + n : dfa(base, bits, n).bddvars[i] = base + i - 1
BY DEF dfa

LEMMA AtomsAreFinite ==
  ASSUME NEW as \in SUBSET Atoms
  PROVE  IsFiniteSet(as) /\ Cardinality(as) \in Nat
<1>1. IsFiniteSet(Atoms)
  BY FS_Interval, BoundsAssumption DEF Atoms
<1>2. IsFiniteSet(as)
  BY <1>1, FS_Subset
<1>3. QED
  BY <1>2, FS_CardinalityType

(* An automaton keeps its place in a manager that grows.                    *)
LEMMA StaysAt ==
  ASSUME NEW a, NEW i \in Nat, NEW m \in Nat, NEW k \in Nat, m <= k, IsAt(a, i, m)
  PROVE  IsAt(a, i, k)
<1>1. PICK base \in Nat, bits \in Nat \ {0}, n \in Nat :
        /\ base + bits + n <= m
        /\ a = dfa(base, bits, n)
        /\ base = 0 <=> i = 1
  BY DEF IsAt
<1>2. base + bits + n <= k
  BY <1>1
<1>3. QED
  BY <1>1, <1>2 DEF IsAt

LEMMA StackedKept ==
  ASSUME Stacked, automata \in Seq([nb_bits : Nat, bddvars : Seq(Nat)]),
         size \in Nat, size' \in Nat, size <= size', automata' = automata,
         automata # << >> \/ size' = size
  PROVE  Stacked'
<1>1. ASSUME NEW i \in 1 .. Len(automata) PROVE IsAt(automata[i], i, size')
  <2>1. IsAt(automata[i], i, size) /\ i \in Nat
    BY DEF Stacked
  <2>2. QED
    BY <2>1, StaysAt
<1>2. Len(automata) = 0 => size' = 0
  BY DEF Stacked
<1>3. QED
  BY <1>1, <1>2 DEF Stacked

(* A manager with an automaton has variables.                               *)
LEMMA NotEmpty ==
  ASSUME Stacked, size \in Nat, automata \in Seq([nb_bits : Nat, bddvars : Seq(Nat)])
  PROVE  size = 0 <=> Len(automata) = 0
<1>1. Len(automata) \in Nat
  OBVIOUS
<1>2. ASSUME Len(automata) # 0 PROVE size # 0
  <2>1. 1 \in 1 .. Len(automata)
    BY <1>1, <1>2
  <2>2. IsAt(automata[1], 1, size)
    BY <2>1 DEF Stacked
  <2>3. PICK base \in Nat, bits \in Nat \ {0}, n \in Nat : base + bits + n <= size
    BY <2>2 DEF IsAt
  <2>4. QED
    BY <2>3
<1>3. QED
  BY <1>2 DEF Stacked

(* The automaton that is built goes on top.                                 *)
LEMMA BuildStacks ==
  ASSUME IInv, NEW bits \in Nat \ {0}, NEW n \in Nat, Build(bits, n)
  PROVE  /\ size' \in Nat /\ size <= size' /\ size' = size + bits + n
         /\ Len(automata') \in 0 .. MaxAutomata
         /\ Len(automata') = Len(automata) + 1 /\ Len(automata) \in Nat
         /\ automata'[Len(automata')] = dfa(size, bits, n)
         /\ automata' \in Seq([nb_bits : Nat, bddvars : Seq(Nat)])
         /\ Stacked'
<1> DEFINE S == [nb_bits : Nat, bddvars : Seq(Nat)]
           d == dfa(size, bits, n)
<1>1. size \in Nat /\ size' = size + bits + n /\ automata' = Append(automata, d)
      /\ Len(automata) < MaxAutomata /\ automata \in Seq(S) /\ Stacked
  BY DEF IInv, Build
<1>2. size' \in Nat /\ size <= size' /\ size' # 0
  BY <1>1
<1>3. d \in S
  BY <1>1, DfaType
<1>4. PICK l \in Nat : l = Len(automata)
  BY <1>1
<1>5. size = 0 <=> l = 0
  BY <1>1, <1>4, NotEmpty
<1>6. IsAt(d, l + 1, size')
  <2>1. size + bits + n <= size' /\ (size = 0 <=> l + 1 = 1)
    BY <1>1, <1>4, <1>5
  <2>2. QED
    BY <1>1, <2>1 DEF IsAt
<1> HIDE DEF d, S
<1>7. /\ automata' \in Seq(S) /\ Len(automata') = l + 1
      /\ \A i \in 1 .. l : automata'[i] = automata[i]
      /\ automata'[l + 1] = d
  BY <1>1, <1>3, <1>4, AppendPositions
<1>8. ASSUME NEW i \in 1 .. l + 1 PROVE IsAt(automata'[i], i, size')
  <2>1. CASE i = l + 1
    BY <1>6, <1>7, <2>1
  <2>2. CASE i \in 1 .. l
    <3>1. IsAt(automata[i], i, size) /\ i \in Nat
      BY <1>1, <1>4, <2>2 DEF Stacked
    <3>2. IsAt(automata[i], i, size')
      BY <1>1, <1>2, <3>1, StaysAt
    <3>3. QED
      BY <1>7, <2>2, <3>2
  <2>3. QED
    BY <2>1, <2>2
<1>9. Len(automata') # 0 /\ Len(automata') = l + 1
  BY <1>7
<1>10. Stacked'
  BY <1>8, <1>9 DEF Stacked
<1>11. Len(automata') \in 0 .. MaxAutomata
  BY <1>1, <1>4, <1>7, BoundsAssumption
<1>12. QED
  BY <1>1, <1>2, <1>4, <1>7, <1>10, <1>11 DEF d, S

-----------------------------------------------------------------------------
LEMMA InitInvariant == Init => IInv
<1> SUFFICES ASSUME Init
             PROVE  IInv
  OBVIOUS
<1> PICK kind \in Kinds : strategy = NewStrategyOf(kind)
  BY DEF Init
<1>1. Known = {} /\ strategy.subformula2id = << >> /\ strategy.subformula_bddvars = << >>
  BY DEF NewStrategyOf, Known
<1>2. Quoted
  BY <1>1, FS_EmptySet DEF Quoted, Init
<1>3. Stacked
  BY DEF Stacked, Init
<1>4. <<strategy.kind, strategy.max_nb_bits>> \in Kinds /\ HasFields(strategy)
  <2>1. strategy.kind = kind[1] /\ strategy.max_nb_bits = kind[2]
    BY DEF NewStrategyOf
  <2>2. HasFields(strategy)
    BY DEF NewStrategyOf, HasFields
  <2>3. QED
    BY <2>1, <2>2, KindFacts
<1>5. Len(automata) \in 0 .. MaxAutomata /\ size \in Nat
      /\ automata \in Seq([nb_bits : Nat, bddvars : Seq(Nat)])
  BY BoundsAssumption DEF Init
<1>6. running \in BOOLEAN /\ ~ running /\ atoms \subseteq Atoms
  BY DEF Init
<1>7. QED
  BY <1>2, <1>3, <1>4, <1>5, <1>6 DEF IInv

LEMMA NewStrategyInvariant ==
  ASSUME IInv, NEW kind \in Kinds, NewStrategy(kind)
  PROVE  IInv'
<1>1. strategy' = NewStrategyOf(kind) /\ size' = size /\ automata' = automata
      /\ size \in Nat
  BY DEF NewStrategy, IInv
<1>2. Stacked'
  BY <1>1, StackedKept DEF IInv
<1>3. Quoted' /\ HasFields(strategy') /\ <<strategy'.kind, strategy'.max_nb_bits>> \in Kinds
  BY <1>1, NothingQuoted
<1>4. QED
  BY <1>1, <1>2, <1>3 DEF NewStrategy, IInv

LEMMA NewManagerInvariant ==
  ASSUME IInv, NEW kind \in Kinds, NewManager(kind)
  PROVE  IInv'
<1>1. strategy' = NewStrategyOf(kind) /\ size' = 0 /\ automata' = << >>
  BY DEF NewManager
<1>2. Stacked'
  BY <1>1 DEF Stacked
<1>3. Quoted' /\ HasFields(strategy') /\ <<strategy'.kind, strategy'.max_nb_bits>> \in Kinds
  BY <1>1, NothingQuoted
<1>4. Len(automata') \in 0 .. MaxAutomata /\ size' \in Nat
      /\ automata' \in Seq([nb_bits : Nat, bddvars : Seq(Nat)])
  BY <1>1, BoundsAssumption
<1>5. running' \in BOOLEAN /\ ~ running' /\ atoms' \subseteq Atoms
  BY DEF NewManager
<1>6. QED
  BY <1>2, <1>3, <1>4, <1>5 DEF IInv

LEMMA ToSymbolicDfaInvariant ==
  ASSUME IInv, NEW as \in SUBSET Atoms, ToSymbolicDfa(as)
  PROVE  IInv'
<1> DEFINE n == Cardinality(as)
           bits == strategy.max_nb_bits
<1>1. n \in Nat /\ bits \in Nat \ {0}
  <2>1. bits \in 1 .. MaxBits
    BY KindFacts DEF IInv, ToSymbolicDfa
  <2>2. n \in Nat
    BY AtomsAreFinite
  <2> HIDE DEF bits, n
  <2>3. QED
    BY <2>1, <2>2
<1>2. Build(bits, n)
  BY DEF ToSymbolicDfa
<1> HIDE DEF n, bits
<1>3. /\ size' \in Nat /\ size <= size' /\ size \in Nat
      /\ Len(automata') \in 0 .. MaxAutomata /\ Len(automata') # 0
      /\ automata' \in Seq([nb_bits : Nat, bddvars : Seq(Nat)])
      /\ Stacked'
  <2>1. size \in Nat
    BY DEF IInv
  <2>2. QED
    BY <1>1, <1>2, <2>1, BuildStacks
<1>4. /\ strategy'.subformula2id = strategy.subformula2id
      /\ strategy'.subformula_bddvars = strategy.subformula_bddvars
      /\ strategy'.kind = strategy.kind /\ strategy'.max_nb_bits = strategy.max_nb_bits
      /\ HasFields(strategy')
  BY DEF ToSymbolicDfa, number, IInv, HasFields
<1>5. Quoted'
  BY <1>3, <1>4, QuotedKept DEF IInv
<1>6. automata' # << >>
  BY <1>3
<1>7. atoms' = as /\ running' = (strategy.kind = "bdd")
  BY DEF ToSymbolicDfa
<1>8. <<strategy'.kind, strategy'.max_nb_bits>> \in Kinds
  BY <1>4 DEF IInv
<1>9. QED
  BY <1>3, <1>4, <1>5, <1>6, <1>7, <1>8 DEF IInv

LEMMA ToComposedDfaInvariant ==
  ASSUME IInv, NEW as \in SUBSET Atoms, ToComposedDfa(as)
  PROVE  IInv'
<1>1. size' = size /\ automata' = automata /\ running' = FALSE /\ atoms' = as
      /\ size \in Nat
  BY DEF IInv, ToComposedDfa
<1>2. /\ strategy'.subformula2id = strategy.subformula2id
      /\ strategy'.subformula_bddvars = strategy.subformula_bddvars
      /\ strategy'.kind = strategy.kind /\ strategy'.max_nb_bits = strategy.max_nb_bits
      /\ HasFields(strategy')
  BY DEF ToComposedDfa, number, reset, with_indices, IInv, HasFields
<1>3. Quoted'
  BY <1>1, <1>2, QuotedKept DEF IInv
<1>4. Stacked'
  BY <1>1, StackedKept DEF IInv
<1>5. <<strategy'.kind, strategy'.max_nb_bits>> \in Kinds
  BY <1>2 DEF IInv
<1>6. QED
  BY <1>1, <1>2, <1>3, <1>4, <1>5 DEF IInv

LEMMA ReadFileInvariant ==
  ASSUME IInv, NEW bits \in 1 .. MaxBits, NEW n \in 1 .. NbAtoms, ReadFile(bits, n)
  PROVE  IInv'
<1>1. n \in Nat /\ bits \in Nat \ {0}
  OBVIOUS
<1>2. Build(bits, n) /\ running' = FALSE /\ strategy' = strategy /\ atoms' = atoms
  BY DEF ReadFile
<1>3. /\ size' \in Nat /\ size <= size' /\ size \in Nat
      /\ Len(automata') \in 0 .. MaxAutomata
      /\ automata' \in Seq([nb_bits : Nat, bddvars : Seq(Nat)])
      /\ Stacked'
  <2>1. size \in Nat
    BY DEF IInv
  <2>2. QED
    BY <1>1, <1>2, <2>1, BuildStacks
<1>4. Quoted'
  BY <1>2, <1>3, QuotedKept DEF IInv
<1>5. QED
  BY <1>2, <1>3, <1>4 DEF IInv

(* The new formula gets the next identifier, and a variable above all the   *)
(* others.                                                                  *)
LEMMA VisitQuotedInvariant ==
  ASSUME IInv, NEW f, VisitQuoted(f)
  PROVE  IInv'
<1> DEFINE vs == strategy.subformula_bddvars
           k == Cardinality(Known)
<1>1. /\ strategy'.subformula2id =
           [g \in Known \union {f} |-> IF g = f THEN k ELSE strategy.subformula2id[g]]
      /\ strategy'.subformula_bddvars = Append(vs, size)
      /\ strategy'.kind = strategy.kind /\ strategy'.max_nb_bits = strategy.max_nb_bits
      /\ HasFields(strategy')
  BY DEF VisitQuoted, subformula_id, IInv, Known, HasFields
<1>2. Known' = Known \union {f} /\ f \notin Known
  BY <1>1 DEF Known, VisitQuoted
<1>3. IsFiniteSet(Known) /\ k \in Nat
  BY FS_CardinalityType DEF IInv, Quoted
<1>4. IsFiniteSet(Known') /\ Cardinality(Known') = k + 1
  BY <1>2, <1>3, FS_AddElement
<1>5. size \in Nat /\ size' = size + 1
  BY DEF VisitQuoted, IInv
<1> HIDE DEF k
<1>6. /\ vs \in Seq(0 .. size - 1) /\ Len(vs) = k
      /\ \A i, j \in DOMAIN vs : i < j => vs[i] < vs[j]
      /\ \A g \in Known : strategy.subformula2id[g] \in 0 .. k - 1
  BY DEF IInv, Quoted, k
<1> HIDE DEF vs
<1>7. Append(vs, size) \in Seq(0 .. size' - 1) /\ Len(Append(vs, size)) = k + 1
  <2>1. vs \in Seq(0 .. size' - 1) /\ size \in 0 .. size' - 1
    BY <1>5, <1>6
  <2>2. QED
    BY <2>1, <1>6, AppendPositions
<1>8. ASSUME NEW i \in 1 .. k + 1, NEW j \in 1 .. k + 1, i < j
      PROVE  Append(vs, size)[i] < Append(vs, size)[j]
  <2>1. /\ DOMAIN vs = 1 .. k
        /\ \A n \in 1 .. k : Append(vs, size)[n] = vs[n] /\ vs[n] \in 0 .. size - 1
        /\ Append(vs, size)[k + 1] = size
    <3>1. vs \in Seq(0 .. size) /\ size \in 0 .. size
      BY <1>5, <1>6
    <3>2. QED
      BY <3>1, <1>6, AppendPositions, Positions
  <2>2. i \in 1 .. k /\ vs[i] \in 0 .. size - 1 /\ Append(vs, size)[i] = vs[i]
    BY <2>1, <1>3, <1>8
  <2>3. CASE j = k + 1
    <3>1. Append(vs, size)[j] = size
      BY <2>1, <2>3
    <3>2. vs[i] < size
      BY <2>2, <1>5
    <3>3. QED
      BY <3>1, <3>2, <2>2
  <2>4. CASE j # k + 1
    <3>1. j \in 1 .. k
      BY <2>4, <1>3
    <3>2. QED
      BY <3>1, <2>1, <2>2, <1>6, <1>8
  <2>5. QED
    BY <2>3, <2>4
<1>9. ASSUME NEW g \in Known'
      PROVE  strategy'.subformula2id[g] \in 0 .. k
  BY <1>1, <1>2, <1>3, <1>6
<1>10. Quoted'
  <2>1. DOMAIN Append(vs, size) = 1 .. k + 1
    BY <1>7, Positions
  <2>2. PICK ws : ws = Append(vs, size)
    OBVIOUS
  <2>3. IsFiniteSet(Known') /\ ws \in Seq(0 .. size' - 1) /\ Len(ws) = Cardinality(Known')
    BY <2>2, <1>4, <1>7
  <2>4. Cardinality(Known') - 1 = k
    BY <1>3, <1>4
  <2>5. \A g \in Known' : strategy'.subformula2id[g] \in 0 .. k
    BY <1>9
  <2>6. \A i, j \in DOMAIN ws : i < j => ws[i] < ws[j]
    BY <2>1, <2>2, <1>8
  <2>7. strategy'.subformula_bddvars = ws
    BY <2>2, <1>1
  <2>8. QED
    BY <2>3, <2>4, <2>5, <2>6, <2>7 DEF Quoted
<1>11. Stacked'
  <2>1. automata' = automata /\ automata # << >> /\ size <= size' /\ size' \in Nat
    BY <1>5 DEF IInv, VisitQuoted
  <2>2. QED
    BY <2>1, <1>5, StackedKept DEF IInv
<1>12. QED
  BY <1>1, <1>5, <1>10, <1>11 DEF IInv, VisitQuoted

LEMMA StepInvariant == IInv /\ [Next]_vars => IInv'
<1> SUFFICES ASSUME IInv, [Next]_vars
             PROVE  IInv'
  OBVIOUS
<1>1. ASSUME NEW kind \in Kinds, NewStrategy(kind)
      PROVE  IInv'
  BY <1>1, NewStrategyInvariant
<1>2. ASSUME NEW kind \in Kinds, NewManager(kind)
      PROVE  IInv'
  BY <1>2, NewManagerInvariant
<1>3. ASSUME NEW as \in SUBSET Atoms, ToSymbolicDfa(as)
      PROVE  IInv'
  BY <1>3, ToSymbolicDfaInvariant
<1>4. ASSUME NEW as \in SUBSET Atoms, ToComposedDfa(as)
      PROVE  IInv'
  BY <1>4, ToComposedDfaInvariant
<1>5. ASSUME NEW bits \in 1 .. MaxBits, NEW n \in 1 .. NbAtoms, ReadFile(bits, n)
      PROVE  IInv'
  BY <1>5, ReadFileInvariant
<1>6. ASSUME NEW f \in Subformulas, VisitQuoted(f)
      PROVE  IInv'
  BY <1>6, VisitQuotedInvariant
<1>7. CASE UNCHANGED vars
  BY <1>7 DEF vars, IInv, Stacked, Quoted, Known
<1>8. QED
  BY <1>1, <1>2, <1>3, <1>4, <1>5, <1>6, <1>7 DEF Next

(* The objects keep their shape in every reachable state.                   *)
THEOREM Invariance == Spec => []IInv
<1>1. QED
  BY InitInvariant, StepInvariant, PTL DEF Spec

(* Every number that the bdd strategy gave to a formula has a variable of   *)
(* the manager, and no two formulas share one, however many formulas were   *)
(* translated with the strategy and whatever else the manager was used for  *)
(* in between (delta_bdd.cpp 29-52).                                        *)
THEOREM TypeCorrect == Spec => []TypeOK
<1>1. IInv => TypeOK
  <2> SUFFICES ASSUME IInv
               PROVE  TypeOK
    OBVIOUS
  <2>1. \A i \in DOMAIN automata : ToSet(automata[i].bddvars) \subseteq 0 .. size - 1
    <3> SUFFICES ASSUME NEW i \in DOMAIN automata
                 PROVE  ToSet(automata[i].bddvars) \subseteq 0 .. size - 1
      OBVIOUS
    <3>1. i \in 1 .. Len(automata)
      BY Positions DEF IInv
    <3>2. PICK base \in Nat, bits \in Nat, n \in Nat :
            base + bits + n <= size /\ automata[i] = dfa(base, bits, n)
      BY <3>1 DEF IInv, Stacked, IsAt
    <3>3. \A j \in 1 .. bits + n : automata[i].bddvars[j] \in 0 .. size - 1
      <4>1. \A j \in 1 .. bits + n : base + j - 1 \in 0 .. size - 1
        BY <3>2 DEF IInv
      <4>2. \A j \in 1 .. bits + n : dfa(base, bits, n).bddvars[j] = base + j - 1
        BY DfaType
      <4>3. QED
        BY <3>2, <4>1, <4>2
    <3>4. DOMAIN dfa(base, bits, n).bddvars = 1 .. bits + n
      BY DfaType
    <3>5. QED
      BY <3>2, <3>3, <3>4 DEF ToSet
  <2>2. IsInjective(strategy.subformula_bddvars)
    <3>1. /\ strategy.subformula_bddvars \in Seq(Int)
          /\ \A i, j \in DOMAIN strategy.subformula_bddvars :
               i < j => strategy.subformula_bddvars[i] < strategy.subformula_bddvars[j]
      BY DEF IInv, Quoted
    <3> DEFINE v == strategy.subformula_bddvars
    <3> HIDE DEF v
    <3>2. ASSUME NEW a \in DOMAIN v, NEW b \in DOMAIN v, v[a] = v[b]
          PROVE  a = b
      <4>1. a \in Nat /\ b \in Nat /\ v[a] \in Int /\ v[b] \in Int
        BY <3>1, Positions DEF v
      <4>2. ~ (a < b) /\ ~ (b < a)
        BY <4>1, <3>1, <3>2 DEF v
      <4>3. QED
        BY <4>1, <4>2
    <3>3. QED
      BY <3>2 DEF IsInjective, v
  <2>3. ASSUME NEW f \in Known
        PROVE  /\ strategy.subformula2id[f] + 1 \in DOMAIN strategy.subformula_bddvars
               /\ VariableOfFormula(f) \in 0 .. size - 1
    <3> DEFINE v == strategy.subformula_bddvars
    <3>1. /\ strategy.subformula2id[f] \in 0 .. Cardinality(Known) - 1
          /\ Cardinality(Known) \in Nat
          /\ v \in Seq(0 .. size - 1) /\ Len(v) = Cardinality(Known)
      BY FS_CardinalityType DEF IInv, Quoted
    <3>2. strategy.subformula2id[f] + 1 \in 1 .. Cardinality(Known)
      BY <3>1
    <3>3. QED
      BY <3>1, <3>2, Positions DEF VariableOfFormula
  <2>4. QED
    BY <2>1, <2>2, <2>3 DEF TypeOK, IInv, Known
<1>2. QED
  BY <1>1, Invariance, PTL

(* Whatever a manager is used for, Eval looks every variable of its first   *)
(* automaton up in the place that get_successor and is_final fill for it,   *)
(* and no variable of a later one (dfa.cpp 38-41, 292-309, 391-435).        *)
THEOREM OnlyTheFirstIsEvaluated == Spec => []EvalReadsOnlyTheFirst
<1>1. IInv => EvalReadsOnlyTheFirst
  <2> SUFFICES ASSUME IInv, NEW i \in DOMAIN automata
               PROVE  \A j \in DOMAIN automata[i].bddvars :
                        automata[i].bddvars[j] = j - 1 <=> i = 1
    BY DEF EvalReadsOnlyTheFirst
  <2>1. i \in 1 .. Len(automata)
    BY Positions DEF IInv
  <2>2. PICK base \in Nat, bits \in Nat, n \in Nat :
          automata[i] = dfa(base, bits, n) /\ (base = 0 <=> i = 1)
    BY <2>1 DEF IInv, Stacked, IsAt
  <2>3. DOMAIN dfa(base, bits, n).bddvars = 1 .. bits + n
    BY DfaType
  <2>4. \A j \in 1 .. bits + n : dfa(base, bits, n).bddvars[j] = base + j - 1
    BY DfaType
  <2>5. \A j \in 1 .. bits + n : base + j - 1 = j - 1 <=> base = 0
    OBVIOUS
  <2>6. QED
    BY <2>2, <2>3, <2>4, <2>5
<1>2. QED
  BY <1>1, Invariance, PTL

-----------------------------------------------------------------------------
(* The atoms in the order of their names.                                   *)
Increasing(s, n) == \A i, j \in 1 .. n : i < j => s[i] < s[j]

LEMMA OrderExists ==
  ASSUME NEW as \in SUBSET Atoms
  PROVE  \E s \in [1 .. Cardinality(as) -> as] : Increasing(s, Cardinality(as))
<1> DEFINE HasOrder(S) == \E s \in [1 .. Cardinality(S) -> S] : Increasing(s, Cardinality(S))
<1> DEFINE P == {m \in Nat : \A S \in SUBSET (1 .. m) : HasOrder(S)}
<1>1. 0 \in P
  <2>1. ASSUME NEW S \in SUBSET (1 .. 0) PROVE HasOrder(S)
    <3>1. S = {}
      OBVIOUS
    <3>2. << >> \in [1 .. 0 -> S] /\ Increasing(<< >>, 0)
      BY DEF Increasing
    <3>3. QED
      BY <3>1, <3>2, FS_EmptySet
  <2> HIDE DEF HasOrder
  <2>2. QED
    BY <2>1
<1>2. ASSUME NEW m \in P PROVE m + 1 \in P
  <2>1. m \in Nat /\ \A S \in SUBSET (1 .. m) : HasOrder(S)
    OBVIOUS
  <2>2. ASSUME NEW S \in SUBSET (1 .. m + 1) PROVE HasOrder(S)
    <3>1. CASE m + 1 \notin S
      <4>1. S \in SUBSET (1 .. m)
        BY <2>1, <3>1
      <4> HIDE DEF HasOrder
      <4>2. QED
        BY <2>1, <4>1
    <3>2. CASE m + 1 \in S
      <4> DEFINE T == S \ {m + 1}
      <4>1. T \in SUBSET (1 .. m)
        BY <2>1
      <4>2. IsFiniteSet(T) /\ Cardinality(T) \in Nat
        <5>1. IsFiniteSet(1 .. m)
          BY <2>1, FS_Interval
        <5>2. IsFiniteSet(T)
          BY <4>1, <5>1, FS_Subset
        <5> HIDE DEF T
        <5>3. QED
          BY <5>2, FS_CardinalityType
      <4>3. S = T \union {m + 1} /\ m + 1 \notin T
        BY <3>2
      <4> HIDE DEF T
      <4>4. PICK n \in Nat : n = Cardinality(T)
        BY <4>2
      <4>5. Cardinality(S) = n + 1
        BY <4>2, <4>3, <4>4, FS_AddElement
      <4>6. PICK s \in [1 .. n -> T] : Increasing(s, n)
        BY <2>1, <4>1, <4>4
      <4> DEFINE t == [i \in 1 .. n + 1 |-> IF i = n + 1 THEN m + 1 ELSE s[i]]
      <4>7. t \in [1 .. n + 1 -> S]
        BY <4>3
      <4>8. ASSUME NEW i \in 1 .. n + 1, NEW j \in 1 .. n + 1, i < j PROVE t[i] < t[j]
        <5>1. i \in 1 .. n /\ t[i] = s[i] /\ s[i] \in T
          BY <4>8
        <5>2. s[i] \in Nat /\ s[i] <= m
          <6>1. \A x \in T : x \in Nat /\ x <= m
            BY <2>1, <4>1
          <6>2. QED
            BY <5>1, <6>1
        <5>3. CASE j = n + 1
          BY <2>1, <5>1, <5>2, <5>3
        <5>4. CASE j \in 1 .. n
          <6>1. t[j] = s[j]
            BY <5>4
          <6>2. QED
            BY <4>6, <4>8, <5>1, <5>4, <6>1 DEF Increasing
        <5>5. QED
          BY <5>3, <5>4
      <4> HIDE DEF t
      <4>9. Increasing(t, n + 1)
        BY <4>8 DEF Increasing
      <4>10. QED
        BY <4>5, <4>7, <4>9
    <3>3. QED
      BY <3>1, <3>2
  <2> HIDE DEF HasOrder
  <2>3. QED
    BY <2>1, <2>2
<1>3. P = Nat
  <2> HIDE DEF P
  <2>1. P \in SUBSET Nat
    BY DEF P
  <2>2. QED
    BY <1>1, <1>2, <2>1, Induction
<1>4. NbAtoms \in Nat
  BY BoundsAssumption
<1>5. HasOrder(as)
  BY <1>3, <1>4 DEF Atoms
<1>6. QED
  BY <1>5

(* The order has every atom, once.                                          *)
HasSize(S, n) == Cardinality(S) = n

LEMMA OrderFacts ==
  ASSUME NEW as \in SUBSET Atoms, NEW n \in Nat, HasSize(as, n)
  PROVE  /\ in_order(as) \in [1 .. n -> as]
         /\ Increasing(in_order(as), n)
         /\ \A i, j \in 1 .. n : in_order(as)[i] = in_order(as)[j] => i = j
         /\ \A a \in as : \E i \in 1 .. n : in_order(as)[i] = a
<1> DEFINE s == in_order(as)
<1>1. IsFiniteSet(as)
  BY AtomsAreFinite
<1>2. s \in [1 .. n -> as] /\ \A i, j \in 1 .. n : i < j => s[i] < s[j]
  BY OrderExists DEF in_order, Increasing, HasSize
<1> HIDE DEF s
<1>3. ASSUME NEW i \in 1 .. n, NEW j \in 1 .. n, s[i] = s[j] PROVE i = j
  <2>1. s[i] \in Int /\ s[j] \in Int /\ i \in Nat /\ j \in Nat
    <3>1. \A x \in as : x \in Int
      BY DEF Atoms
    <3>2. s[i] \in as /\ s[j] \in as
      BY <1>2
    <3>3. s[i] \in Int /\ s[j] \in Int
      BY <3>1, <3>2, Zenon
    <3>4. i \in Nat /\ j \in Nat
      OBVIOUS
    <3>5. QED
      BY <3>3, <3>4
  <2>2. ~ (i < j) /\ ~ (j < i)
    BY <1>2, <1>3, <2>1
  <2>3. QED
    BY <2>1, <2>2
<1>4. s \in Injection(1 .. n, as)
  BY <1>2, <1>3 DEF Injection, IsInjective
<1>5. Cardinality(1 .. n) = Cardinality(as) /\ IsFiniteSet(1 .. n)
  BY <1>1, FS_Interval DEF HasSize
<1>6. s \in Surjection(1 .. n, as)
  BY <1>1, <1>4, <1>5, FS_Injection
<1>7. \A a \in as : \E i \in 1 .. n : s[i] = a
  BY <1>6 DEF Surjection
<1>8. Increasing(s, n)
  BY <1>2 DEF Increasing
<1>9. QED
  BY <1>2, <1>3, <1>7, <1>8 DEF s

LEMMA FunctionIsSeq ==
  ASSUME NEW S, NEW n \in Nat, NEW f \in [1 .. n -> S]
  PROVE  f \in Seq(S) /\ Len(f) = n
  OBVIOUS

(* The atoms of as have the numbers 0 .. n - 1 in their order.              *)
Numbered(s, as, n) ==
  /\ as \subseteq DOMAIN s.atom2ids
  /\ \A a \in as : s.atom2ids[a] \in 0 .. n - 1
  /\ \A i \in 0 .. n - 1 : \E a \in as : s.atom2ids[a] = i
  /\ \A a, b \in as : a < b => s.atom2ids[a] < s.atom2ids[b]
(* ... and no other atom has one.                                           *)
OnlyNumbered(s, as) ==
  /\ DOMAIN s.atom2ids = as
  /\ \A a \in as : s.id2atoms[s.atom2ids[a] + 1] = a
SameFormulas(r, s) ==
  /\ r.kind = s.kind /\ r.subformula2id = s.subformula2id
  /\ r.id2subformula = s.id2subformula /\ r.subformula_bddvars = s.subformula_bddvars

(* The numbers of the atoms are their positions in the order, whatever the  *)
(* tables held before.                                                      *)
LEMMA NumbersFacts ==
  ASSUME NEW as \in SUBSET Atoms, NEW n \in Nat, HasSize(as, n), NEW s, HasFields(s)
  PROVE  /\ Numbered(number(s, as), as, n) /\ SameFormulas(number(s, as), s)
         /\ s.atom2ids = << >> /\ s.id2atoms = << >> => OnlyNumbered(number(s, as), as)
<1> DEFINE o == in_order(as)
<1> DEFINE id(a) == CHOOSE i \in 0 .. n - 1 : o[i + 1] = a
<1> DEFINE r == number(s, as)
<1>1. Increasing(o, n)
  BY OrderFacts
<1>2. /\ o \in [1 .. n -> as] /\ \A i, j \in 1 .. n : o[i] = o[j] => i = j
      /\ \A a \in as : \E i \in 1 .. n : o[i] = a
  BY OrderFacts
<1>3. /\ r.atom2ids = [a \in as \union DOMAIN s.atom2ids |->
                         IF a \in as THEN [b \in as |-> id(b)][a] ELSE s.atom2ids[a]]
      /\ r.id2atoms = s.id2atoms \o o
      /\ r.kind = s.kind /\ r.subformula2id = s.subformula2id
      /\ r.id2subformula = s.id2subformula /\ r.subformula_bddvars = s.subformula_bddvars
  <2> DEFINE A == [a \in as \union DOMAIN s.atom2ids |->
                     IF a \in as THEN [b \in as |-> id(b)][a] ELSE s.atom2ids[a]]
             B == s.id2atoms \o o
             s1 == [s EXCEPT !.atom2ids = A]
             s2 == [s1 EXCEPT !.id2atoms = B]
  <2>1. r = s2
    BY DEF number, HasSize
  <2> HIDE DEF A, B, r
  <2>2. HasFields(s1) /\ s1.atom2ids = A /\ SameFormulas(s1, s)
    BY DEF HasFields, SameFormulas
  <2> HIDE DEF s1
  <2>3. s2.atom2ids = A /\ s2.id2atoms = B /\ SameFormulas(s2, s)
    BY <2>2 DEF HasFields, SameFormulas
  <2>4. QED
    BY <2>1, <2>3 DEF A, B, SameFormulas
<1> HIDE DEF o, r
<1>4. ASSUME NEW a \in as PROVE id(a) \in 0 .. n - 1 /\ o[id(a) + 1] = a
  <2>1. PICK i \in 1 .. n : o[i] = a
    BY <1>2
  <2>2. i - 1 \in 0 .. n - 1 /\ (i - 1) + 1 = i
    OBVIOUS
  <2>3. QED
    BY <2>1, <2>2
<1> HIDE DEF id
<1>5. /\ DOMAIN r.atom2ids = as \union DOMAIN s.atom2ids
      /\ \A a \in as : r.atom2ids[a] = id(a)
  BY <1>3
<1>6. ASSUME NEW i \in 0 .. n - 1 PROVE \E a \in as : r.atom2ids[a] = i
  <2>1. i + 1 \in 1 .. n
    OBVIOUS
  <2>2. o[i + 1] \in as
    BY <1>2, <2>1
  <2>3. PICK a \in as : a = o[i + 1]
    BY <2>2
  <2>4. PICK k \in 0 .. n - 1 : k = id(a) /\ o[k + 1] = o[i + 1]
    BY <1>4, <2>3
  <2>5. k + 1 = i + 1
    <3>1. k + 1 \in 1 .. n
      OBVIOUS
    <3>2. QED
      BY <1>2, <2>1, <2>4, <3>1
  <2>6. id(a) = i
    BY <2>4, <2>5
  <2>7. QED
    BY <1>5, <2>6
<1>7. ASSUME NEW a \in as, NEW b \in as, a < b PROVE id(a) < id(b)
  <2>1. PICK i \in 0 .. n - 1 : i = id(a) /\ o[i + 1] = a
    BY <1>4
  <2>2. PICK j \in 0 .. n - 1 : j = id(b) /\ o[j + 1] = b
    BY <1>4
  <2>3. i + 1 \in 1 .. n /\ j + 1 \in 1 .. n
    OBVIOUS
  <2>4. j + 1 < i + 1 => o[j + 1] < o[i + 1]
    BY <1>1, <2>3 DEF Increasing
  <2>5. a \in Int /\ b \in Int
    BY DEF Atoms
  <2>6. ~ (b < a) /\ a # b
    BY <1>7, <2>5
  <2>7. ~ (j + 1 < i + 1)
    BY <2>1, <2>2, <2>4, <2>6
  <2>8. i # j
    BY <2>1, <2>2, <2>6
  <2>9. i < j
    BY <2>7, <2>8
  <2>10. QED
    BY <2>1, <2>2, <2>9
<1>8. \A a \in as : r.atom2ids[a] \in 0 .. n - 1
  BY <1>4, <1>5
<1>9. Numbered(r, as, n)
  <2>1. as \subseteq DOMAIN r.atom2ids
    BY <1>5
  <2>2. \A a, b \in as : a < b => r.atom2ids[a] < r.atom2ids[b]
    BY <1>5, <1>7
  <2>3. QED
    BY <1>6, <1>8, <2>1, <2>2 DEF Numbered
<1>10. ASSUME s.atom2ids = << >>, s.id2atoms = << >> PROVE OnlyNumbered(r, as)
  <2>1. o \in Seq(as)
    BY <1>2, FunctionIsSeq
  <2>2. << >> \o o = o
    BY <2>1
  <2>3. r.id2atoms = o
    BY <1>3, <1>10, <2>2
  <2>4. DOMAIN r.atom2ids = as
    BY <1>5, <1>10
  <2>5. QED
    BY <1>4, <1>5, <2>3, <2>4 DEF OnlyNumbered
<1>11. SameFormulas(r, s)
  BY <1>3 DEF SameFormulas
<1>12. QED
  BY <1>9, <1>10, <1>11 DEF r

-----------------------------------------------------------------------------
(* What the bdd strategy's objects say of the manager's variables while it  *)
(* builds the first automaton: first the bits of the state, then n          *)
(* propositions, which are the atoms', then k variables of quoted formulas, *)
(* in the order of their identifiers.                                       *)
Layout(bits, n, k) ==
  /\ Len(automata) = 1 /\ automata[1] = dfa(0, bits, n)
  /\ \A a \in atoms : strategy.atom2ids[a] \in 0 .. n - 1
  /\ \A i \in 0 .. n - 1 : \E a \in atoms : strategy.atom2ids[a] = i
  /\ size = bits + n + k
  /\ strategy.id2subformula \in Seq(Known) /\ Len(strategy.id2subformula) = k
  /\ Len(strategy.subformula_bddvars) = k
  /\ \A j \in 1 .. k : /\ strategy.subformula_bddvars[j] = bits + n + j - 1
                      /\ strategy.subformula2id[strategy.id2subformula[j]] = j - 1
  /\ \A f \in Known : /\ strategy.subformula2id[f] \in 0 .. k - 1
                      /\ strategy.id2subformula[strategy.subformula2id[f] + 1] = f

(* Before the first automaton of a manager a strategy knows no formula.     *)
FirstOne ==
  /\ strategy.kind = "bdd" /\ automata = << >> =>
       /\ strategy.subformula2id = << >> /\ strategy.id2subformula = << >>
       /\ strategy.subformula_bddvars = << >>
  /\ running /\ Len(automata) = 1 => \E bits, n, k \in Nat : Layout(bits, n, k)

(* The automaton whose states the loop is going through has a variable for  *)
(* each atom of the formula.                                                *)
OnItsAutomaton ==
  running =>
    \E base \in Nat, bits \in Nat, n \in Nat :
      /\ automaton = dfa(base, bits, n)
      /\ HasSize(atoms, n)
      /\ base + bits + n <= size
      /\ base = 0 => Len(automata) = 1

OInv == FirstOne /\ OnItsAutomaton /\ IndicesAreThoseOfTheFormula

LEMMA NoAtoms ==
  ASSUME NEW kind, strategy' = NewStrategyOf(kind), atoms' = {}
  PROVE  IndicesAreThoseOfTheFormula'
<1>1. strategy'.atom2ids = << >> /\ strategy'.indices = << >>
  BY DEF NewStrategyOf
<1>2. QED
  BY <1>1, FS_EmptySet DEF IndicesAreThoseOfTheFormula

LEMMA NewObjects ==
  ASSUME NEW kind, strategy' = NewStrategyOf(kind), atoms' = {}, ~ running'
  PROVE  OInv'
<1>1. /\ strategy'.subformula2id = << >> /\ strategy'.id2subformula = << >>
      /\ strategy'.subformula_bddvars = << >>
  BY DEF NewStrategyOf
<1>2. FirstOne' /\ OnItsAutomaton'
  BY <1>1 DEF FirstOne, OnItsAutomaton
<1>3. QED
  BY <1>2, NoAtoms DEF OInv

LEMMA ObjectsInit == Init => OInv
<1> SUFFICES ASSUME Init PROVE OInv
  OBVIOUS
<1>1. PICK kind \in Kinds : strategy = NewStrategyOf(kind)
  BY DEF Init
<1>2. /\ strategy.atom2ids = << >> /\ strategy.indices = << >>
      /\ strategy.subformula2id = << >> /\ strategy.id2subformula = << >>
      /\ strategy.subformula_bddvars = << >>
  BY <1>1 DEF NewStrategyOf
<1>3. ~ running /\ atoms = {}
  BY DEF Init
<1>4. IndicesAreThoseOfTheFormula
  BY <1>2, <1>3, FS_EmptySet DEF IndicesAreThoseOfTheFormula
<1>5. FirstOne /\ OnItsAutomaton
  BY <1>2, <1>3 DEF FirstOne, OnItsAutomaton
<1>6. QED
  BY <1>4, <1>5 DEF OInv

(* A translation by the bdd strategy gives its atoms their numbers ...      *)
LEMMA BddNumbers ==
  ASSUME IInv, NEW as \in SUBSET Atoms, NEW n \in Nat, HasSize(as, n), NEW s, HasFields(s),
         strategy' = number(s, as), atoms' = as, s.kind = "bdd"
  PROVE  IndicesAreThoseOfTheFormula'
<1>1. Numbered(strategy', as, n) /\ SameFormulas(strategy', s)
  BY NumbersFacts
<1>2. strategy'.kind = "bdd"
  BY <1>1 DEF SameFormulas
<1>3. {strategy'.atom2ids[a] : a \in as} = 0 .. n - 1
  BY <1>1 DEF Numbered
<1>4. as \subseteq DOMAIN strategy'.atom2ids
      /\ \A a, b \in as : a < b => strategy'.atom2ids[a] < strategy'.atom2ids[b]
  BY <1>1 DEF Numbered
<1>5. Cardinality(as) = n
  BY DEF HasSize
<1>6. QED
  BY <1>2, <1>3, <1>4, <1>5 DEF IndicesAreThoseOfTheFormula

(* ... and its variables, which in an empty manager are the first.          *)
LEMMA ToSymbolicDfaObjects ==
  ASSUME IInv, OInv, NEW as \in SUBSET Atoms, ToSymbolicDfa(as)
  PROVE  OInv'
<1>1. PICK n \in Nat : HasSize(as, n)
  BY AtomsAreFinite DEF HasSize
<1>2. PICK bits \in Nat \ {0} : bits = strategy.max_nb_bits /\ size \in Nat
  <2> DEFINE b == strategy.max_nb_bits
  <2>1. b \in 1 .. MaxBits /\ size \in Nat
    BY KindFacts DEF IInv, ToSymbolicDfa
  <2> HIDE DEF b
  <2>2. b \in Nat \ {0}
    BY <2>1, BoundsAssumption
  <2>3. QED
    BY <2>1, <2>2 DEF b
<1>3. Build(bits, n)
  BY <1>1, <1>2 DEF ToSymbolicDfa, HasSize
<1>4. atoms' = as /\ strategy.kind # "compositional"
  BY DEF ToSymbolicDfa
<1>5. /\ size' = size + bits + n /\ Len(automata') = Len(automata) + 1
      /\ Len(automata) \in Nat
      /\ automata'[Len(automata')] = dfa(size, bits, n)
  BY <1>2, <1>3, BuildStacks
<1>6. CASE strategy.kind = "naive"
  <2>1. strategy' = strategy /\ ~ running'
    BY <1>6 DEF ToSymbolicDfa
  <2>2. FirstOne' /\ OnItsAutomaton' /\ IndicesAreThoseOfTheFormula'
    BY <1>6, <2>1 DEF FirstOne, OnItsAutomaton, IndicesAreThoseOfTheFormula
  <2>3. QED
    BY <2>2 DEF OInv
<1>7. CASE strategy.kind = "bdd"
  <2>1. strategy' = number(strategy, as) /\ HasFields(strategy)
    BY <1>7 DEF ToSymbolicDfa, IInv
  <2>2. Numbered(strategy', as, n) /\ SameFormulas(strategy', strategy)
    BY <1>1, <2>1, NumbersFacts
  <2>3. IndicesAreThoseOfTheFormula'
    BY <1>1, <1>4, <1>7, <2>1, BddNumbers
  <2>4. OnItsAutomaton'
    <3>1. automaton' = dfa(size, bits, n)
      BY <1>5 DEF automaton, Last
    <3>2. size + bits + n <= size'
      BY <1>2, <1>5
    <3>3. size = 0 => Len(automata') = 1
      BY <1>2, <1>5, NotEmpty DEF IInv
    <3>4. HasSize(atoms', n) /\ bits \in Nat
      BY <1>1, <1>2, <1>4
    <3>5. QED
      BY <1>2, <3>1, <3>2, <3>3, <3>4 DEF OnItsAutomaton, HasSize
  <2>5. ASSUME Len(automata') = 1 PROVE Layout(bits, n, 0)'
    <3>1. Len(automata) = 0 /\ automata = << >> /\ size = 0
      <4>1. Len(automata) = 0
        <5>1. PICK l \in Nat : l = Len(automata)
          BY <1>5
        <5>2. l + 1 = 1
          BY <1>5, <2>5, <5>1
        <5>3. QED
          BY <5>1, <5>2
      <4>2. automata = << >>
        BY <4>1 DEF IInv
      <4>3. size = 0
        BY <4>1 DEF IInv, Stacked
      <4>4. QED
        BY <4>1, <4>2, <4>3
    <3>2. /\ strategy'.subformula2id = << >> /\ strategy'.id2subformula = << >>
          /\ strategy'.subformula_bddvars = << >>
      BY <1>7, <2>2, <3>1 DEF OInv, FirstOne, SameFormulas
    <3>3. Known' = {}
      BY <3>2 DEF Known
    <3>4. automata'[1] = dfa(0, bits, n) /\ size' = bits + n + 0
      BY <1>2, <1>5, <2>5, <3>1
    <3>5. << >> \in Seq({}) /\ Len(<< >>) = 0 /\ \A j \in 1 .. 0 : FALSE
      OBVIOUS
    <3>6. /\ \A a \in atoms' : strategy'.atom2ids[a] \in 0 .. n - 1
          /\ \A i \in 0 .. n - 1 : \E a \in atoms' : strategy'.atom2ids[a] = i
      BY <1>4, <2>2 DEF Numbered
    <3>7. /\ strategy'.id2subformula \in Seq(Known') /\ Len(strategy'.id2subformula) = 0
          /\ Len(strategy'.subformula_bddvars) = 0
      BY <3>2, <3>3, <3>5
    <3>8. \A f \in Known' : FALSE
      BY <3>3
    <3>9. QED
      BY <2>5, <3>4, <3>5, <3>6, <3>7, <3>8 DEF Layout
  <2>6. FirstOne'
    <3>1. automata' # << >> /\ bits \in Nat /\ 0 \in Nat
      BY <1>2, <1>5
    <3>2. ASSUME Len(automata') = 1 PROVE \E b, m, k \in Nat : Layout(b, m, k)'
      BY <2>5, <3>1, <3>2
    <3>3. QED
      BY <3>1, <3>2 DEF FirstOne
  <2>7. QED
    BY <2>3, <2>4, <2>6 DEF OInv
<1>8. strategy.kind \in {"naive", "bdd"}
  BY <1>4 DEF IInv, Kinds
<1>9. QED
  BY <1>6, <1>7, <1>8

LEMMA ResetFacts ==
  ASSUME NEW s, HasFields(s)
  PROVE  /\ reset(s).atom2ids = << >> /\ reset(s).id2atoms = << >>
         /\ reset(s).kind = s.kind /\ HasFields(reset(s))
<1> DEFINE s1 == [s EXCEPT !.atom2ids = << >>]
           s2 == [s1 EXCEPT !.id2atoms = << >>]
           s3 == [s2 EXCEPT !.indices = << >>]
<1>1. reset(s) = s3
  BY DEF reset
<1>2. HasFields(s1) /\ s1.atom2ids = << >> /\ s1.kind = s.kind
  BY DEF HasFields
<1> HIDE DEF s1
<1>3. HasFields(s2) /\ s2.atom2ids = << >> /\ s2.id2atoms = << >> /\ s2.kind = s.kind
  BY <1>2 DEF HasFields
<1> HIDE DEF s2
<1>4. HasFields(s3) /\ s3.atom2ids = << >> /\ s3.id2atoms = << >> /\ s3.kind = s.kind
  BY <1>3 DEF HasFields
<1> HIDE DEF s3
<1>5. QED
  BY <1>1, <1>4

LEMMA ToComposedDfaObjects ==
  ASSUME IInv, OInv, NEW as \in SUBSET Atoms, ToComposedDfa(as)
  PROVE  OInv'
<1> DEFINE r == number(reset(strategy), as)
<1>1. PICK n \in Nat : HasSize(as, n)
  BY AtomsAreFinite DEF HasSize
<1>2. /\ reset(strategy).atom2ids = << >> /\ reset(strategy).id2atoms = << >>
      /\ reset(strategy).kind = "compositional" /\ HasFields(reset(strategy))
  <2>1. HasFields(strategy) /\ strategy.kind = "compositional"
    BY DEF ToComposedDfa, IInv
  <2>2. QED
    BY <2>1, ResetFacts
<1>3. Numbered(r, as, n) /\ OnlyNumbered(r, as) /\ r.kind = "compositional"
  BY <1>1, <1>2, NumbersFacts DEF SameFormulas
<1>4. /\ strategy' = [r EXCEPT !.indices = [i \in 1 .. Cardinality(DOMAIN r.atom2ids) |-> i - 1]]
      /\ atoms' = as /\ ~ running'
  BY DEF ToComposedDfa, with_indices
<1>5. /\ strategy'.kind = r.kind /\ strategy'.atom2ids = r.atom2ids
      /\ strategy'.id2atoms = r.id2atoms
      /\ strategy'.indices = [i \in 1 .. Cardinality(DOMAIN r.atom2ids) |-> i - 1]
  BY <1>4 DEF number, reset, IInv, HasFields
<1> HIDE DEF r
<1>6. Len(strategy'.indices) = n /\ Cardinality(as) = n
  BY <1>1, <1>3, <1>5 DEF HasSize, OnlyNumbered
<1>7. {strategy'.atom2ids[a] : a \in as} = 0 .. n - 1
  <2>1. {r.atom2ids[a] : a \in as} = 0 .. n - 1
    BY <1>3 DEF Numbered
  <2>2. QED
    BY <1>5, <2>1
<1>8. /\ as \subseteq DOMAIN strategy'.atom2ids
      /\ \A a, b \in as : a < b => strategy'.atom2ids[a] < strategy'.atom2ids[b]
      /\ DOMAIN strategy'.atom2ids = as
      /\ \A a \in as : strategy'.id2atoms[strategy'.atom2ids[a] + 1] = a
  BY <1>3, <1>5 DEF Numbered, OnlyNumbered
<1>9. IndicesAreThoseOfTheFormula'
  BY <1>4, <1>6, <1>7, <1>8 DEF IndicesAreThoseOfTheFormula
<1>10. FirstOne' /\ OnItsAutomaton'
  BY <1>3, <1>4, <1>5 DEF FirstOne, OnItsAutomaton
<1>11. QED
  BY <1>9, <1>10 DEF OInv

(* A new variable of a quoted formula changes no atom's and no automaton's; *)
(* while the first automaton is built it is the next in the layout.         *)
LEMMA VisitQuotedLayout ==
  ASSUME IInv, NEW f, VisitQuoted(f), NEW bits \in Nat, NEW n \in Nat, NEW k \in Nat,
         Layout(bits, n, k)
  PROVE  Layout(bits, n, k + 1)'
<1> DEFINE ids == strategy.subformula2id
           fs == strategy.id2subformula
           vs == strategy.subformula_bddvars
<1>1. Layout(bits, n, k)
  OBVIOUS
<1>2. Cardinality(Known) = k /\ f \notin Known /\ vs \in Seq(Int)
  <2>1. Len(vs) = k /\ Len(vs) = Cardinality(Known) /\ vs \in Seq(0 .. size - 1)
    BY <1>1 DEF Layout, IInv, Quoted
  <2>2. f \notin Known
    BY DEF VisitQuoted, Known
  <2>3. size \in Nat
    BY DEF IInv
  <2> HIDE DEF vs
  <2>4. QED
    BY <2>1, <2>2, <2>3
<1>3. /\ strategy'.subformula2id = [g \in Known \union {f} |-> IF g = f THEN k ELSE ids[g]]
      /\ strategy'.id2subformula = Append(fs, f)
      /\ strategy'.subformula_bddvars = Append(vs, size)
      /\ strategy'.kind = "bdd" /\ strategy'.atom2ids = strategy.atom2ids
      /\ automata' = automata /\ atoms' = atoms /\ size' = size + 1
  BY <1>2 DEF VisitQuoted, subformula_id, IInv, Known, HasFields
<1>4. Known' = Known \union {f}
  BY <1>3 DEF Known
<1> HIDE DEF ids, fs, vs
<1>5. /\ fs \in Seq(Known) /\ Len(fs) = k /\ Len(vs) = k /\ size = bits + n + k
      /\ \A j \in 1 .. k : vs[j] = bits + n + j - 1 /\ ids[fs[j]] = j - 1
      /\ \A g \in Known : ids[g] \in 0 .. k - 1 /\ fs[ids[g] + 1] = g
  BY <1>1 DEF Layout, ids, fs, vs
<1> DEFINE ids2 == strategy'.subformula2id
           fs2 == strategy'.id2subformula
           vs2 == strategy'.subformula_bddvars
<1>6. /\ fs2 \in Seq(Known') /\ Len(fs2) = k + 1 /\ fs2[k + 1] = f
      /\ \A j \in 1 .. k : fs2[j] = fs[j] /\ fs[j] \in Known
  <2>1. fs \in Seq(Known') /\ f \in Known'
    BY <1>4, <1>5
  <2>2. \A j \in 1 .. k : fs[j] \in Known
    BY <1>5, Positions
  <2>3. /\ Append(fs, f) \in Seq(Known') /\ Len(Append(fs, f)) = k + 1
        /\ Append(fs, f)[k + 1] = f /\ \A j \in 1 .. k : Append(fs, f)[j] = fs[j]
    BY <1>5, <2>1, AppendPositions
  <2>4. QED
    BY <1>3, <2>2, <2>3
<1>7. /\ Len(vs2) = k + 1 /\ vs2[k + 1] = size
      /\ \A j \in 1 .. k : vs2[j] = vs[j]
  <2>1. size \in Int /\ vs \in Seq(Int)
    BY <1>2, <1>5 DEF vs
  <2>2. /\ Len(Append(vs, size)) = k + 1 /\ Append(vs, size)[k + 1] = size
        /\ \A j \in 1 .. k : Append(vs, size)[j] = vs[j]
    BY <1>5, <2>1, AppendPositions
  <2>3. QED
    BY <1>3, <2>2
<1>8. ids2[f] = k /\ \A g \in Known : ids2[g] = ids[g]
  BY <1>2, <1>3
<1> HIDE DEF ids2, fs2, vs2
<1>9. ASSUME NEW j \in 1 .. k + 1
      PROVE  vs2[j] = bits + n + j - 1 /\ ids2[fs2[j]] = j - 1
  <2>1. CASE j = k + 1
    BY <1>5, <1>6, <1>7, <1>8, <2>1
  <2>2. CASE j \in 1 .. k
    BY <1>5, <1>6, <1>7, <1>8, <2>2
  <2>3. QED
    BY <2>1, <2>2
<1>10. ASSUME NEW g \in Known \union {f}
       PROVE  ids2[g] \in 0 .. k /\ fs2[ids2[g] + 1] = g
  <2>1. CASE g = f
    BY <1>6, <1>8, <2>1
  <2>2. CASE g \in Known
    <3>1. PICK i \in 0 .. k - 1 : i = ids[g] /\ fs[i + 1] = g
      BY <1>5, <2>2
    <3>2. i + 1 \in 1 .. k
      OBVIOUS
    <3>3. QED
      BY <1>6, <1>8, <2>2, <3>1, <3>2
  <2>3. QED
    BY <2>1, <2>2
<1>11. QED
  <2>1. /\ Len(automata') = 1 /\ automata'[1] = dfa(0, bits, n)
        /\ \A a \in atoms' : strategy'.atom2ids[a] \in 0 .. n - 1
        /\ \A i \in 0 .. n - 1 : \E a \in atoms' : strategy'.atom2ids[a] = i
    BY <1>1, <1>3 DEF Layout
  <2>2. size' = bits + n + (k + 1) /\ (k + 1) - 1 = k
    BY <1>3, <1>5
  <2>3. \A g \in Known' : ids2[g] \in 0 .. (k + 1) - 1 /\ fs2[ids2[g] + 1] = g
    BY <1>4, <1>10
  <2>4. QED
    BY <1>6, <1>7, <1>9, <2>1, <2>2, <2>3 DEF Layout, ids2, fs2, vs2

LEMMA VisitQuotedObjects ==
  ASSUME IInv, OInv, NEW f, VisitQuoted(f)
  PROVE  OInv'
<1>1. /\ strategy'.kind = strategy.kind /\ strategy'.atom2ids = strategy.atom2ids
      /\ strategy'.id2atoms = strategy.id2atoms /\ strategy'.indices = strategy.indices
      /\ automata' = automata /\ atoms' = atoms /\ running /\ running' /\ size' = size + 1
  BY DEF VisitQuoted, IInv, HasFields
<1>2. IndicesAreThoseOfTheFormula'
  BY <1>1 DEF OInv, IndicesAreThoseOfTheFormula
<1>3. OnItsAutomaton'
  <2>1. PICK base \in Nat, bits \in Nat, n \in Nat :
          /\ automaton = dfa(base, bits, n)
          /\ HasSize(atoms, n)
          /\ base + bits + n <= size
          /\ base = 0 => Len(automata) = 1
    BY <1>1 DEF OInv, OnItsAutomaton
  <2>2. base + bits + n <= size'
    BY <1>1, <2>1 DEF IInv
  <2>3. automaton' = dfa(base, bits, n)
    BY <1>1, <2>1 DEF automaton
  <2>4. QED
    BY <1>1, <2>1, <2>2, <2>3 DEF OnItsAutomaton, HasSize
<1>4. FirstOne'
  <2>1. automata' # << >>
    BY <1>1 DEF IInv
  <2>2. ASSUME Len(automata') = 1 PROVE \E bits, n, k \in Nat : Layout(bits, n, k)'
    <3>1. PICK bits \in Nat, n \in Nat, k \in Nat : Layout(bits, n, k)
      BY <1>1, <2>2 DEF OInv, FirstOne
    <3>2. Layout(bits, n, k + 1)' /\ k + 1 \in Nat
      BY <3>1, VisitQuotedLayout
    <3>3. QED
      BY <3>2
  <2>3. QED
    BY <2>1, <2>2 DEF FirstOne
<1>5. QED
  BY <1>2, <1>3, <1>4 DEF OInv

LEMMA ReadFileObjects ==
  ASSUME IInv, OInv, NEW bits \in 1 .. MaxBits, NEW n \in 1 .. NbAtoms, ReadFile(bits, n)
  PROVE  OInv'
<1>1. strategy' = strategy /\ atoms' = atoms /\ ~ running'
  BY DEF ReadFile
<1>2. Build(bits, n) /\ bits \in Nat \ {0} /\ n \in Nat
  BY DEF ReadFile
<1>3. automata' # << >>
  BY <1>2, BuildStacks
<1>4. FirstOne' /\ OnItsAutomaton'
  BY <1>1, <1>3 DEF FirstOne, OnItsAutomaton
<1>5. IndicesAreThoseOfTheFormula'
  BY <1>1 DEF OInv, IndicesAreThoseOfTheFormula
<1>6. QED
  BY <1>4, <1>5 DEF OInv

LEMMA SameObjects ==
  ASSUME OInv, UNCHANGED vars
  PROVE  OInv'
<1>1. Known' = Known /\ automaton' = automaton /\ UNCHANGED <<automata, strategy, atoms, running, size>>
  BY DEF Known, automaton, vars
<1>2. \A bits, n, k : Layout(bits, n, k)' <=> Layout(bits, n, k)
  BY <1>1 DEF Layout, dfa
<1>3. FirstOne'
  BY <1>1, <1>2 DEF OInv, FirstOne
<1>4. IndicesAreThoseOfTheFormula'
  BY <1>1 DEF OInv, IndicesAreThoseOfTheFormula
<1>5. OnItsAutomaton'
  BY <1>1 DEF OInv, OnItsAutomaton, HasSize
<1>6. QED
  BY <1>3, <1>4, <1>5 DEF OInv

LEMMA ObjectsStep == IInv /\ OInv /\ [Next]_vars => OInv'
<1> SUFFICES ASSUME IInv, OInv, [Next]_vars
             PROVE  OInv'
  OBVIOUS
<1>1. ASSUME NEW kind \in Kinds, NewStrategy(kind)
      PROVE  OInv'
  BY <1>1, NewObjects DEF NewStrategy
<1>2. ASSUME NEW kind \in Kinds, NewManager(kind)
      PROVE  OInv'
  BY <1>2, NewObjects DEF NewManager
<1>3. ASSUME NEW as \in SUBSET Atoms, ToSymbolicDfa(as)
      PROVE  OInv'
  BY <1>3, ToSymbolicDfaObjects
<1>4. ASSUME NEW as \in SUBSET Atoms, ToComposedDfa(as)
      PROVE  OInv'
  BY <1>4, ToComposedDfaObjects
<1>5. ASSUME NEW bits \in 1 .. MaxBits, NEW n \in 1 .. NbAtoms, ReadFile(bits, n)
      PROVE  OInv'
  BY <1>5, ReadFileObjects
<1>6. ASSUME NEW f \in Subformulas, VisitQuoted(f)
      PROVE  OInv'
  BY <1>6, VisitQuotedObjects
<1>7. CASE UNCHANGED vars
  BY <1>7, SameObjects
<1>8. QED
  BY <1>1, <1>2, <1>3, <1>4, <1>5, <1>6, <1>7 DEF Next

LEMMA Objects == Spec => []OInv
<1>1. QED
  BY ObjectsInit, ObjectsStep, Invariance, PTL DEF Spec

(* However often a strategy is used again, the atoms of the last formula    *)
(* have the numbers 0, 1, ... in their order: in a BDDStrategy, whose map   *)
(* keeps the atoms of earlier formulas, and in the compositional one, where *)
(* they are the only ones and these are the indices that are projected      *)
(* (bdd/base.cpp:38-44, compositional/base.cpp:60-75).                      *)
THEOREM IndicesFollowTheFormula == Spec => []IndicesAreThoseOfTheFormula
<1>1. OInv => IndicesAreThoseOfTheFormula
  BY DEF OInv
<1>2. QED
  BY <1>1, Objects, PTL

-----------------------------------------------------------------------------
(* The positions that the code counts are the variables' indices.           *)
LEMMA LayoutFacts ==
  ASSUME NEW bits \in Nat, NEW n \in Nat, NEW k \in Nat, Layout(bits, n, k)
  PROVE  /\ Len(automaton.bddvars) = bits + n /\ automaton.nb_bits = bits
         /\ \A j \in bits .. bits + n - 1 : automaton.bddvars[j + 1] = j
         /\ nb_all_variables = bits + n + k
         /\ \A a \in atoms : /\ strategy.atom2ids[a] \in 0 .. n - 1
                            /\ VariableOfAtom(a) = bits + strategy.atom2ids[a]
         /\ \A f \in Known : /\ strategy.subformula2id[f] \in 0 .. k - 1
                            /\ VariableOfFormula(f) = bits + n + strategy.subformula2id[f]
<1>1. automaton = dfa(0, bits, n)
  BY DEF automaton, Last, Layout
<1>2. automaton.nb_bits = bits
  BY <1>1 DEF dfa
<1>3. /\ Len(automaton.bddvars) = bits + n
      /\ \A i \in 1 .. bits + n : automaton.bddvars[i] = i - 1
  <2>1. automaton.bddvars = [i \in 1 .. bits + n |-> 0 + i - 1]
    BY <1>1 DEF dfa
  <2>2. QED
    BY <2>1
<1>4. ASSUME NEW j \in bits .. bits + n - 1
      PROVE  automaton.bddvars[j + 1] = j
  <2>1. j + 1 \in 1 .. bits + n /\ (j + 1) - 1 = j
    OBVIOUS
  <2>2. QED
    BY <1>3, <2>1
<1>5. nb_all_variables = bits + n + k
  BY <1>3 DEF nb_all_variables, Layout
<1>6. ASSUME NEW a \in atoms
      PROVE  /\ strategy.atom2ids[a] \in 0 .. n - 1
             /\ VariableOfAtom(a) = bits + strategy.atom2ids[a]
  <2>1. PICK i \in 0 .. n - 1 : i = strategy.atom2ids[a]
    BY DEF Layout
  <2>2. bits + i + 1 \in 1 .. bits + n /\ (bits + i + 1) - 1 = bits + i
    OBVIOUS
  <2>3. automaton.bddvars[bits + i + 1] = bits + i
    BY <1>3, <2>2
  <2>4. QED
    BY <1>2, <2>1, <2>3 DEF VariableOfAtom
<1>7. ASSUME NEW f \in Known
      PROVE  /\ strategy.subformula2id[f] \in 0 .. k - 1
             /\ VariableOfFormula(f) = bits + n + strategy.subformula2id[f]
  <2>1. PICK i \in 0 .. k - 1 : i = strategy.subformula2id[f]
    BY DEF Layout
  <2>2. i + 1 \in 1 .. k /\ bits + n + (i + 1) - 1 = bits + n + i
    OBVIOUS
  <2>3. strategy.subformula_bddvars[i + 1] = bits + n + (i + 1) - 1
    BY <2>2 DEF Layout
  <2>4. QED
    BY <2>1, <2>2, <2>3 DEF VariableOfFormula
<1>8. QED
  BY <1>2, <1>3, <1>4, <1>5, <1>6, <1>7

(* A prime of the first automaton's manager, read back.                     *)
LEMMA ReadsBack ==
  ASSUME NEW bits \in Nat, NEW n \in Nat, NEW k \in Nat, Layout(bits, n, k), NEW cube
  PROVE  read_prime(cube) = Meaning(cube)
<1> DEFINE bddvars == automaton.bddvars
           first == automaton.nb_bits
           last == Len(bddvars)
           symbol == {<<bddvars[i + 1], cube[i]>> : i \in {j \in first .. last - 1 : cube[j] # 2}}
           next_state == {strategy.id2subformula[i - last + 1] :
                           i \in {j \in last .. nb_all_variables - 1 : cube[j] = 1}}
           Values == {<<VariableOfAtom(a), cube[VariableOfAtom(a)]>> :
                        a \in {b \in atoms : cube[VariableOfAtom(b)] # 2}}
           Formulas == {f \in Known : cube[VariableOfFormula(f)] = 1}
<1>1. read_prime(cube) = [symbol |-> symbol, next_state |-> next_state]
  BY DEF read_prime
<1>2. Meaning(cube) = [symbol |-> Values, next_state |-> Formulas]
  BY DEF Meaning, Known
<1>3. /\ last = bits + n /\ first = bits /\ nb_all_variables = bits + n + k
      /\ \A j \in bits .. bits + n - 1 : bddvars[j + 1] = j
      /\ \A a \in atoms : /\ strategy.atom2ids[a] \in 0 .. n - 1
                         /\ VariableOfAtom(a) = bits + strategy.atom2ids[a]
      /\ \A f \in Known : /\ strategy.subformula2id[f] \in 0 .. k - 1
                         /\ VariableOfFormula(f) = bits + n + strategy.subformula2id[f]
  BY LayoutFacts
<1> HIDE DEF bddvars, first, last
<1>4. ASSUME NEW p \in symbol PROVE p \in Values
  <2>1. PICK j \in bits .. bits + n - 1 : cube[j] # 2 /\ p = <<bddvars[j + 1], cube[j]>>
    BY <1>3
  <2>2. j - bits \in 0 .. n - 1 /\ bits + (j - bits) = j
    OBVIOUS
  <2>3. PICK a \in atoms : strategy.atom2ids[a] = j - bits
    BY <2>2 DEF Layout
  <2>4. VariableOfAtom(a) = j /\ bddvars[j + 1] = j
    BY <1>3, <2>2, <2>3
  <2>5. p = <<VariableOfAtom(a), cube[VariableOfAtom(a)]>> /\ cube[VariableOfAtom(a)] # 2
    BY <2>1, <2>4
  <2>6. QED
    BY <2>5
<1>5. ASSUME NEW p \in Values PROVE p \in symbol
  <2>1. PICK a \in atoms : /\ cube[VariableOfAtom(a)] # 2
                          /\ p = <<VariableOfAtom(a), cube[VariableOfAtom(a)]>>
    OBVIOUS
  <2>2. PICK i \in 0 .. n - 1 : i = strategy.atom2ids[a] /\ VariableOfAtom(a) = bits + i
    BY <1>3, <2>1
  <2>3. PICK j \in bits .. bits + n - 1 : j = bits + i
    BY <2>2
  <2>4. j \in first .. last - 1 /\ bddvars[j + 1] = j /\ VariableOfAtom(a) = j
    BY <1>3, <2>2, <2>3
  <2>5. cube[j] # 2 /\ p = <<bddvars[j + 1], cube[j]>>
    BY <2>1, <2>4
  <2>6. QED
    BY <2>4, <2>5
<1>6. symbol = Values
  <2> HIDE DEF symbol, Values
  <2>1. QED
    BY <1>4, <1>5
<1>7. next_state = Formulas
  <2>1. ASSUME NEW f \in Formulas PROVE f \in next_state
    <3>1. PICK i \in 0 .. k - 1 :
            /\ i = strategy.subformula2id[f]
            /\ VariableOfFormula(f) = bits + n + i /\ strategy.id2subformula[i + 1] = f
      BY <1>3 DEF Layout
    <3>2. /\ bits + n + i \in last .. nb_all_variables - 1
          /\ (bits + n + i) - last + 1 = i + 1
      BY <1>3
    <3>3. cube[bits + n + i] = 1
      BY <3>1
    <3>4. QED
      BY <3>1, <3>2, <3>3
  <2>2. ASSUME NEW f \in next_state PROVE f \in Formulas
    <3>1. PICK j \in last .. nb_all_variables - 1 :
            cube[j] = 1 /\ f = strategy.id2subformula[j - last + 1]
      OBVIOUS
    <3>2. PICK i \in 1 .. k : i = j - last + 1 /\ j = bits + n + i - 1
      BY <1>3
    <3>3. f \in Known /\ strategy.subformula2id[f] = i - 1
      BY <3>1, <3>2, Positions DEF Layout
    <3>4. VariableOfFormula(f) = bits + n + (i - 1) /\ bits + n + (i - 1) = j
      BY <1>3, <3>2, <3>3
    <3>5. QED
      BY <3>1, <3>3, <3>4
  <2> HIDE DEF next_state, Formulas
  <2>3. QED
    BY <2>1, <2>2
<1> HIDE DEF symbol, next_state, Values, Formulas
<1>8. QED
  BY <1>1, <1>2, <1>6, <1>7

(* The prime that gives one atom and nothing else, when the automaton's     *)
(* variables do not start from 0.                                           *)
LEMMA Misread ==
  ASSUME OInv, size \in Nat, running, Len(automata) # 1, atoms # {},
         strategy.kind = "bdd"
  PROVE  \E cube \in Primes : read_prime(cube) # Meaning(cube)
<1>1. PICK base \in Nat, bits \in Nat, n \in Nat :
        /\ automaton = dfa(base, bits, n)
        /\ HasSize(atoms, n)
        /\ base + bits + n <= size
        /\ base # 0
  <2>1. PICK base \in Nat, bits \in Nat, n \in Nat :
          /\ automaton = dfa(base, bits, n)
          /\ HasSize(atoms, n)
          /\ base + bits + n <= size
          /\ base = 0 => Len(automata) = 1
    BY DEF OInv, OnItsAutomaton
  <2>2. base # 0
    BY <2>1
  <2>3. QED
    BY <2>1, <2>2
<1>2. PICK a \in atoms : TRUE
  OBVIOUS
<1>3. PICK i \in 0 .. n - 1 : i = strategy.atom2ids[a]
  BY <1>1, <1>2 DEF OInv, IndicesAreThoseOfTheFormula, HasSize
<1>4. automaton.nb_bits = bits
  BY <1>1 DEF dfa
<1>5. /\ Len(automaton.bddvars) = bits + n
      /\ \A j \in 1 .. bits + n : automaton.bddvars[j] = base + j - 1
  <2>1. automaton.bddvars = [j \in 1 .. bits + n |-> base + j - 1]
    BY <1>1 DEF dfa
  <2>2. QED
    BY <2>1
<1>6. PICK v \in 0 .. size - 1 : v = base + bits + i
  BY <1>1
<1>7. VariableOfAtom(a) = v
  <2>1. bits + i + 1 \in 1 .. bits + n /\ base + (bits + i + 1) - 1 = v
    BY <1>6
  <2>2. automaton.bddvars[bits + i + 1] = v
    BY <1>5, <2>1
  <2>3. QED
    BY <1>3, <1>4, <2>2 DEF VariableOfAtom
<1> DEFINE given == {VariableOfAtom(b) : b \in atoms}
                      \union {VariableOfFormula(f) : f \in DOMAIN strategy.subformula2id}
           c == [w \in given |-> IF w = v THEN 1 ELSE 2]
           cube == [w \in 0 .. size - 1 |-> IF w \in given THEN c[w] ELSE 2]
<1>8. v \in given
  BY <1>2, <1>7
<1>9. cube \in Primes
  <2> HIDE DEF given
  <2>1. c \in [given -> 0 .. 2]
    OBVIOUS
  <2> HIDE DEF c
  <2>2. QED
    BY <2>1 DEF Primes, given
<1>10. cube[v] = 1 /\ \A w \in 0 .. size - 1 : cube[w] # 2 => w = v
  <2> HIDE DEF given
  <2>1. QED
    BY <1>8
<1> HIDE DEF cube, c, given
<1>11. ASSUME read_prime(cube) = Meaning(cube) PROVE FALSE
  <2>1. <<v, 1>> \in Meaning(cube).symbol
    <3>1. <<VariableOfAtom(a), cube[VariableOfAtom(a)]>> = <<v, 1>> /\ cube[VariableOfAtom(a)] # 2
      BY <1>7, <1>10
    <3>2. QED
      BY <1>2, <3>1 DEF Meaning
  <2>2. <<v, 1>> \in read_prime(cube).symbol
    BY <1>11, <2>1
  <2>3. PICK j \in bits .. bits + n - 1 : cube[j] # 2 /\ automaton.bddvars[j + 1] = v
    BY <1>4, <1>5, <2>2 DEF read_prime
  <2>4. j \in 0 .. size - 1
    BY <1>1
  <2>5. j = v
    BY <1>10, <2>3, <2>4
  <2>6. automaton.bddvars[j + 1] = base + j
    <3>1. j + 1 \in 1 .. bits + n /\ base + (j + 1) - 1 = base + j
      OBVIOUS
    <3>2. QED
      BY <1>5, <3>1
  <2>7. QED
    BY <1>1, <2>3, <2>4, <2>5, <2>6
<1>12. QED
  BY <1>9, <1>11

(* For any number of bits, atoms and formulas: the loop of a BDDStrategy    *)
(* that builds the first automaton of its manager reads every prime as what *)
(* it says; when the manager had an automaton before, by the same strategy  *)
(* or any other, and the formula has atoms, there are primes it misreads    *)
(* (bdd/base.cpp:148-183, delta_bdd.cpp:29-52).                             *)
THEOREM PrimesAreReadBack == Spec => []PrimeIsReadBack
<1>1. IInv /\ OInv => PrimeIsReadBack
  <2> SUFFICES ASSUME IInv, OInv, running
               PROVE  /\ Len(automata) = 1 =>
                           \A cube \in Primes : read_prime(cube) = Meaning(cube)
                      /\ Len(automata) > 1 /\ atoms # {} =>
                           \E cube \in Primes : read_prime(cube) # Meaning(cube)
    BY DEF PrimeIsReadBack
  <2>1. ASSUME Len(automata) = 1, NEW cube \in Primes
        PROVE  read_prime(cube) = Meaning(cube)
    <3>1. PICK bits \in Nat, n \in Nat, k \in Nat : Layout(bits, n, k)
      BY <2>1 DEF OInv, FirstOne
    <3>2. QED
      BY <3>1, ReadsBack
  <2>2. ASSUME Len(automata) > 1, atoms # {}
        PROVE  \E cube \in Primes : read_prime(cube) # Meaning(cube)
    <3>1. size \in Nat /\ strategy.kind = "bdd"
      BY DEF IInv
    <3>2. PICK l \in Nat : l = Len(automata)
      BY DEF IInv
    <3>3. l > 1
      BY <2>2, <3>2
    <3>4. l # 1
      BY <3>3
    <3>5. QED
      BY <2>2, <3>1, <3>2, <3>4, Misread
  <2>3. QED
    BY <2>1, <2>2
<1>2. QED
  BY <1>1, Objects, Invariance, PTL
=============================================================================
