\* Record every small script, then replay it honestly or probe any icount.
SPECIFICATION Spec
CONSTANTS
  Ends = {4, 5}
  EpochIcounts = 2
  Scripts <- MCScripts
  Defects <- MCDefects
INVARIANTS
  SealedIsWellFormed
  OracleReproducesRecording
  ProbeTellsTruth
  HonestTellsTruth
  NeverStepsBack
