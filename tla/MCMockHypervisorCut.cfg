\* The same calls, asking what the comment at the budget break promises.
SPECIFICATION Spec
CONSTANTS
  End = 6
  MaxEpochs = 3
  Segments <- WriterSegments
  Budgets <- MCBudgets
INVARIANT BudgetCutKeepsDivergence
