\* Every file of up to MaxRecords records, one more than seq can number and one after it.
SPECIFICATION Spec
CONSTANTS
  SeqMax = 2
  MaxRecords = 5
  EndIcount = 1
  Headers <- MCHeaders
  Records <- MCRecords
INVARIANTS
  AcceptedIsWellFormed
  RejectionIsJustified
