CONSTANTS
  lo = lo
  hi = hi
  NbStates = 3
  Rest <- MCRest
  Inputs <- MCInputs
  MaxWord = 3
SPECIFICATION Spec
INVARIANTS TypeOK HashConsed RecursionDescends BddsAreUnions ListIsNumbered ResultIsUniversal
PROPERTIES Terminates ImplementsSubsetConstruction
CHECK_DEADLOCK FALSE
