SPECIFICATION PathSpec
CONSTANTS
  MaxEdges = 3
  Segments <- MCSegments
  Budgets <- MCBudgets
  Paths <- MCPaths
INVARIANTS
  LocalisationIsFree
  AdjacentPathsReplay
PROPERTIES
  ImplementsPathCheck
