CONSTANTS
  Cyclic = 4
  Dag = 5
  Label <- MCLabel
  State <- MCState
  Entries <- MCEntries
  Cfgs <- EntrySourceGraphs
SPECIFICATION Spec
PROPERTIES
  Implements
CHECK_DEADLOCK FALSE
