CONSTANTS
  NbVariables = 2
  MaxBits = 3
  Inputs <- MCInputs
  Names <- MCNames
  Mentioned <- MCMentioned
SPECIFICATION Spec
INVARIANTS TypeOK SameAutomaton VariablesAreRead
