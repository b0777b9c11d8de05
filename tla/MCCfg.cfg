CONSTANTS
  Size = 3
  Lead = 8
  Progs <- MCProgs
  ExpandLocks = FALSE
SPECIFICATION Spec
INVARIANTS
  EdgesAgree
  FlowPreserved
  ItemsOnce
  EntryFirst
  ChainsReplaced
  HandsOver
PROPERTIES
  Termination
CHECK_DEADLOCK FALSE
