SPECIFICATION FairSpec
CONSTANTS
  WarmUp = 8
  Settle = 4
  Cap = 4
  Weight = 8
  EventModulus = 24
  InitialSquare = 1
  Deviations = {0, 12, 64}
  Frequencies = {1, 2}
INVARIANTS BudgetInv SteadyAccepted
PROPERTIES ConstantFrequency Recovers
