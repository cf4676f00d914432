\* A disciplined caller: automata of up to 4 states over one proposition.
CONSTANTS
  NbVariables = 1
  MaxBits = 2
  MaxTransitions = 2
SPECIFICATION DisciplinedSpec
INVARIANTS TypeOK RunsStayAllocated
PROPERTY ImplementsContract
