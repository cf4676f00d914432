CONSTANTS
  id2atoms <- MCid2atoms
  N = 2
  past = "X"
  Clients = {"library", "ltlf", "ldlf"}
  Parsed <- MCParsed
  NoFormula = NoFormula
  MaxLength = 3
SPECIFICATION Spec
INVARIANTS TypeOK ComposedAgrees DecidesLtlf EmptyIsRejected NormalFormAgrees
\* The command line ends, and words are bounded.
CHECK_DEADLOCK FALSE
