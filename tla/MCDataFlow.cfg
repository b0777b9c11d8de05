CONSTANTS
  Cyclic = 4
  Dag = 5
  State <- MCState
  Entries <- MCEntries
  Cfgs <- NoReturnGraphs
SPECIFICATION Spec
INVARIANTS
  ValueExact
  VerdictExact
CHECK_DEADLOCK FALSE
