\* Five process slots and five pids: the table never fills, and the
\* creations after init make next_pid wrap past pids still in use.
CONSTANTS
  NSlots = 5
  PROC_MAX_COUNT = 5
  MaxCreates = 6

SPECIFICATION Spec

INVARIANT TypeOK
INVARIANT TreeConsistent
INVARIANT PidsValid
PROPERTY AllReaped

\* Idle halts the CPU after reaping init (hard_shutdown).
CHECK_DEADLOCK FALSE
