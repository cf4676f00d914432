CONSTANTS
  id2atoms <- MCid2atoms
  N = 2
  past = "X"
  Clients = {"library"}
  Parsed <- MCUnbalanced
  NoFormula = NoFormula
  MaxLength = 3
SPECIFICATION Spec
INVARIANT ComposedAgrees
\* Words are bounded.
CHECK_DEADLOCK FALSE
