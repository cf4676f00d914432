CONSTANTS
  NbAtoms = 3
  Subformulas = {f1, f2}
  MaxBits = 2
  MaxAutomata = 3
  f1 = f1
  f2 = f2
SPECIFICATION Spec
INVARIANTS
  TypeOK
  EvalReadsOnlyTheFirst
  PrimeIsReadBack
  IndicesAreThoseOfTheFormula
