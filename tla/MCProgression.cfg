CONSTANTS
  Inputs <- MCInputs
  MaxLength = 3
SPECIFICATION Spec
INVARIANTS TypeOK NaiveAgrees BddAgrees
CHECK_DEADLOCK FALSE
