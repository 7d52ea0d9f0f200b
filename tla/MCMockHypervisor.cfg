\* A call of verify_segment on every small segment and budget.
SPECIFICATION Spec
CONSTANTS
  End = 6
  MaxEpochs = 3
  Segments <- MCSegments
  Budgets <- MCBudgets
INVARIANTS
  WindowSound
  ResolvedUnlessExhausted
  CostLogarithmic
PROPERTIES
  WindowNeverWidens
  CallReturns
