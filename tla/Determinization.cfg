\* Every NFA with two states over one proposition, both strategies, and room for
\* no, two, four or eight states.
CONSTANTS
  NbVariables = 1
  MaxBits = 3
  NfaStates = {f, g}
  InitialNfa = f
  BitBudgets = {0, 1, 2, 3}
  MaxWord = 3
SPECIFICATION Spec
INVARIANTS TypeOK Simulation LanguageAgrees FailsOnlyWhenFull
PROPERTIES Terminates ImplementsSubsetConstruction
CHECK_DEADLOCK FALSE
