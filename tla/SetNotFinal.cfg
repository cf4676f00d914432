\* Any caller: set_final_state(s, false) is also called.
CONSTANTS
  NbVariables = 1
  MaxBits = 2
  MaxTransitions = 1
SPECIFICATION Spec
PROPERTY SetFinalStateIsLocal
