CONSTANTS
  t1 = t1
  t2 = t2
  t3 = t3
  NoThread = NoThread
  Threads <- MC_Threads
  Cancellable = {t2, t3}
  Cancellers = {t1}
  Rounds = 1

SPECIFICATION Spec

INVARIANT IntrNotHolding

\* When every thread has exited or sleeps, sched_switch waits for an
\* interrupt forever: the CPU really stops here.
CHECK_DEADLOCK FALSE
