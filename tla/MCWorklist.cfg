CONSTANTS
  Cyclic = 4
  Dag = 5
  Label <- MCLabel
  State <- MCState
  Entries <- MCEntries
  Cfgs <- AllGraphs
SPECIFICATION Spec
INVARIANTS
  TypeOK
  PredecessorsFirst
  NoStaleInput
  ResultCertified
  OneArrivalEach
  NoneForgotten
  SatisfiedIsSafe
PROPERTIES
  AnalysedOnce
  Termination
CHECK_DEADLOCK FALSE
