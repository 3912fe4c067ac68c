\* The vnode reference counts of the vm-submit VFS are not exact: a reference is taken that is never put.
CONSTANTS
  Procs = {p1, p2}
  FirstProc = p1
  NFILES = 2
  FileIds = {f1}
  NoFile = NoFile
  Vnodes = {r, v1}
  Root = r
  NoVnode = NoVnode
  Names <- MC_Names
  Paths <- MC_Paths
  MaxLen = 1
  MaxRef = 5
INIT VmInit
NEXT VmNext
INVARIANT VnRefsExact
