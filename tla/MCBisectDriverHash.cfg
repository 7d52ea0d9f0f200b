SPECIFICATION DriverSpec
CONSTANTS
  End = 5
  MaxRetries = 2
  MaxRunsBefore = 1
  Segments <- MCSegments
  Budgets <- MCBudgets
INVARIANT ActualDiffersFromExpected
