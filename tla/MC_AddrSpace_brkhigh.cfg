CONSTANTS
  ObjIds <- MC_ObjIds
  FileObj = 6
  LOW = 1
  HIGH = 5
  PAGE_SIZE = 2
  DataEnd = 2
  StartBrk = 3
  MmapAddrs <- MC_MmapAddrs
  MmapLens <- MC_MmapLens
  MmapOffs = {0}
  MmapKinds = {}
  BrkAddrs = {3, 5, 7, 9, 10}

SPECIFICATION Spec

INVARIANT NoCrash

\* A process stops for good when it exits or the kernel crashes.
CHECK_DEADLOCK FALSE
