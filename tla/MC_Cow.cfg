CONSTANTS
  ObjIds <- MC_ObjIds
  FileObj = 7
  LOW = 1
  HIGH = 2
  Procs <- MC_Procs3
  InitProc = 1
  Vals = {1, 2}

SPECIFICATION Spec

INVARIANT TypeOK
INVARIANT RefCountExact
INVARIANT BottomCorrect
INVARIANT PteCoherent
PROPERTY CowRefinement
\* Every process may exit, and then nothing runs.
CHECK_DEADLOCK FALSE
