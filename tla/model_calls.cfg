SPECIFICATION Spec
CONSTANTS
  N = 3
  MaxTries = 2
  Workers = 2
  MaxExtra = 1
  MaxSignals = 2
  Setups <- MCSetups
INVARIANTS OwnAnswers OneStallPerCall
PROPERTIES InterruptHeeded Ends
