\* The vfs-submit VFS system calls of one process: a reference is put that was never taken.
CONSTANTS
  Procs = {p1}
  FirstProc = p1
  NFILES = 2
  FileIds = {f1, f2}
  NoFile = NoFile
  Vnodes = {r, v1}
  Root = r
  NoVnode = NoVnode
  Names <- MC_Names
  Paths <- MC_Paths
  MaxLen = 1
  MaxRef = 5
INIT FirstInit
NEXT FirstNext
INVARIANT NoDanglingRef
