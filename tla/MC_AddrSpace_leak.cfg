CONSTANTS
  ObjIds <- MC_ObjIds
  FileObj = 6
  LOW = 1
  HIGH = 5
  PAGE_SIZE = 2
  DataEnd = 2
  StartBrk = 3
  MmapAddrs <- MC_MmapAddrs
  MmapLens <- MC_MmapLens
  MmapOffs = {0}
  MmapKinds = {"private_anon", "private_file", "shared_file"}
  BrkAddrs = {3, 5, 7, 9}

SPECIFICATION Spec

INVARIANT NoLeak

\* A process stops for good when it exits or the kernel crashes.
CHECK_DEADLOCK FALSE
