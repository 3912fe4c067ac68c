------------------------------- MODULE KMutex -------------------------------
(***************************************************************************)
(* The kernel mutex of proc/kmutex.c over the scheduler of proc/sched.c   *)
(* and the cancel/exit of proc/kthread.c, on Weenix's single CPU.         *)
(*                                                                         *)
(* Threads run one at a time: curthr runs until it sleeps, yields or      *)
(* exits, and sched_switch then dequeues the next thread from the run     *)
(* queue.  Every action is a step of curthr.  A ktqueue is a list whose   *)
(* head is the front of the sequence: ktqueue_enqueue inserts at the      *)
(* head and ktqueue_dequeue takes the tail (l_prev), the last element.    *)
(*                                                                         *)
(* Each thread runs the body of the kernel's mutex tests (kmain.c): it    *)
(* locks the mutex (kmutex_lock, or kmutex_lock_cancellable for threads   *)
(* in Cancellable), may yield inside the critical section as those tests *)
(* do (sched_make_runnable(curthr); sched_switch()), unlocks, does that   *)
(* Rounds times and exits.  A thread that gets -EINTR from the            *)
(* cancellable lock has not acquired it, gives up and exits.  A running   *)
(* thread in Cancellers may cancel another (proc_kill -> kthread_cancel). *)
(***************************************************************************)
EXTENDS Naturals, SequencesExt

CONSTANTS
  Threads,      \* the kernel threads
  NoThread,     \* NULL
  Cancellable,  \* threads that lock with kmutex_lock_cancellable
  Cancellers,   \* threads that may call kthread_cancel on another thread
  Rounds        \* lock/unlock rounds per thread

ASSUME /\ NoThread \notin Threads
       /\ Cancellable \subseteq Threads /\ Cancellers \subseteq Threads
       /\ Rounds \in Nat \ {0}

VARIABLES
  curthr,     \* the running thread, NoThread while sched_switch idles
  runq,       \* kt_runq
  waitq,      \* mtx->km_waitq
  holder,     \* mtx->km_holder
  kstate,     \* kt_state
  cancelled,  \* kt_cancelled
  pc,         \* where each thread is in its body
  left,       \* rounds still to do
  eintr,      \* history: threads the cancellable lock returned -EINTR to
  waitedAt,   \* history: when each thread last started to wait on the mutex
  clock       \* history: number of sleeps on the mutex so far

vars == <<curthr, runq, waitq, holder, kstate, cancelled, pc, left, eintr,
          waitedAt, clock>>

States == {"run", "sleep", "sleep_c", "exited"}
PCs    == {"start", "lockwait", "cs", "cs_yielded", "done", "exited"}

(* kthread_create + sched_make_runnable of every thread, in some order,  *)
(* then the first sched_switch.                                          *)
Init ==
  /\ \E order \in {s \in [1..Cardinality(Threads) -> Threads] : IsInjective(s)} :
       /\ curthr = Last(order)
       /\ runq = Front(order)
  /\ waitq = <<>>
  /\ holder = NoThread
  /\ kstate = [t \in Threads |-> "run"]
  /\ cancelled = [t \in Threads |-> FALSE]
  /\ pc = [t \in Threads |-> "start"]
  /\ left = [t \in Threads |-> Rounds]
  /\ eintr = {}
  /\ waitedAt = [t \in Threads |-> 0]
  /\ clock = 0

-----------------------------------------------------------------------------
(* The queue primitives of sched.c.                                      *)
KtqueueEnqueue(q, t) == <<t>> \o q
KtqueueDequeue(q) == [thr |-> Last(q), q |-> Front(q)]
MutKtqueueRemoveNoUnlink(q, t) == q
KtqueueRemove(q, t) == Remove(q, t)

(* sched_switch: the next thread off the run queue, or an idle CPU that *)
(* waits for an interrupt when the queue is empty.                       *)
SchedSwitch(q) ==
  IF q = <<>> THEN curthr' = NoThread /\ runq' = q
  ELSE LET d == KtqueueDequeue(q) IN curthr' = d.thr /\ runq' = d.q

(* sched_sleep_on / sched_cancellable_sleep_on on the mutex queue: the   *)
(* state, the enqueue and the switch away.                               *)
SleepOnMutex(t, st) ==
  /\ kstate' = [kstate EXCEPT ![t] = st]
  /\ waitq' = KtqueueEnqueue(waitq, t)
  /\ waitedAt' = [waitedAt EXCEPT ![t] = clock]
  /\ clock' = clock + 1
  /\ SchedSwitch(runq)

Running(t) == curthr = t

(* kmutex_lock: take a free mutex, else sleep until unlock hands it over. *)
KmutexLock(t) ==
  /\ Running(t) /\ pc[t] = "start" /\ t \notin Cancellable
  /\ IF holder = NoThread
       THEN /\ holder' = t /\ pc' = [pc EXCEPT ![t] = "cs"]
            /\ UNCHANGED <<curthr, runq, waitq, kstate, waitedAt, clock>>
       ELSE /\ pc' = [pc EXCEPT ![t] = "lockwait"]
            /\ SleepOnMutex(t, "sleep")
            /\ UNCHANGED holder
  /\ UNCHANGED <<cancelled, left, eintr>>

(* kmutex_lock_cancellable: as kmutex_lock, but the sleep is the         *)
(* cancellable one, which returns -EINTR at once for a thread already    *)
(* cancelled.                                                            *)
MutCancellableNoPrecheck(t) ==
  /\ pc' = [pc EXCEPT ![t] = "lockwait"]
  /\ SleepOnMutex(t, "sleep_c")
  /\ UNCHANGED eintr
SchedCancellableSleepOn(t) ==
  IF cancelled[t]
    THEN /\ pc' = [pc EXCEPT ![t] = "done"] /\ eintr' = eintr \cup {t}
         /\ UNCHANGED <<curthr, runq, waitq, kstate, waitedAt, clock>>
    ELSE /\ pc' = [pc EXCEPT ![t] = "lockwait"]
         /\ SleepOnMutex(t, "sleep_c")
         /\ UNCHANGED eintr

KmutexLockCancellable(t) ==
  /\ Running(t) /\ pc[t] = "start" /\ t \in Cancellable
  /\ IF holder = NoThread
       THEN /\ holder' = t /\ pc' = [pc EXCEPT ![t] = "cs"]
            /\ UNCHANGED <<curthr, runq, waitq, kstate, eintr, waitedAt, clock>>
       ELSE /\ SchedCancellableSleepOn(t)
            /\ UNCHANGED holder
  /\ UNCHANGED <<cancelled, left>>

(* The return from sched_switch of a thread that slept on the mutex:     *)
(* kmutex_lock returns and the thread is in its critical section; the    *)
(* cancellable sleep returns -EINTR if kt_cancelled is set, 0 otherwise. *)
WakeFromLock(t) ==
  /\ Running(t) /\ pc[t] = "lockwait"
  /\ IF t \in Cancellable /\ cancelled[t]
       THEN pc' = [pc EXCEPT ![t] = "done"] /\ eintr' = eintr \cup {t}
       ELSE pc' = [pc EXCEPT ![t] = "cs"] /\ UNCHANGED eintr
  /\ UNCHANGED <<curthr, runq, waitq, holder, kstate, cancelled, left,
                 waitedAt, clock>>

(* sched_make_runnable(curthr); sched_switch() inside the critical      *)
(* section, as the tests do.                                             *)
Yield(t) ==
  /\ Running(t) /\ pc[t] = "cs"
  /\ pc' = [pc EXCEPT ![t] = "cs_yielded"]
  /\ SchedSwitch(KtqueueEnqueue(runq, t))
  /\ UNCHANGED <<waitq, holder, kstate, cancelled, left, eintr, waitedAt, clock>>

(* sched_make_runnable: KT_RUN and onto the run queue.                   *)
MakeRunnable(w, q) ==
  /\ kstate' = [kstate EXCEPT ![w] = "run"]
  /\ runq' = KtqueueEnqueue(q, w)

(* sched_wakeup_on's choice of the thread to wake: ktqueue_dequeue.     *)
MutWakeupNewest(q) == [thr |-> Head(q), q |-> Tail(q)]
SchedWakeupOn(q) == KtqueueDequeue(q)

(* The hand-off of kmutex_unlock when the wait queue is not empty:       *)
(* km_holder = sched_wakeup_on(&km_waitq), which dequeues the thread     *)
(* that waited longest and makes it runnable.                            *)
MutHandOffNoWake ==
  /\ holder' = NoThread
  /\ UNCHANGED <<waitq, runq, kstate>>
MutHandOffWakeOnly ==
  LET d == SchedWakeupOn(waitq) IN
  /\ holder' = NoThread /\ waitq' = d.q
  /\ MakeRunnable(d.thr, runq)
MutHandOffNotRunnable ==
  LET d == SchedWakeupOn(waitq) IN
  /\ holder' = d.thr /\ waitq' = d.q
  /\ UNCHANGED <<runq, kstate>>
HandOff ==
  LET d == SchedWakeupOn(waitq) IN
  /\ holder' = d.thr /\ waitq' = d.q
  /\ MakeRunnable(d.thr, runq)

(* kmutex_unlock, then the next round of the body or its end.            *)
KmutexUnlock(t) ==
  /\ Running(t) /\ pc[t] \in {"cs", "cs_yielded"}
  /\ IF waitq = <<>> THEN holder' = NoThread /\ UNCHANGED <<waitq, runq, kstate>>
                     ELSE HandOff
  /\ pc' = [pc EXCEPT ![t] = IF left[t] > 1 THEN "start" ELSE "done"]
  /\ left' = [left EXCEPT ![t] = @ - 1]
  /\ UNCHANGED <<curthr, cancelled, eintr, waitedAt, clock>>

(* sched_cancel: a thread in a cancellable sleep is marked, taken off    *)
(* its queue and made runnable; any other thread is only marked.         *)
SchedCancel(u) ==
  /\ cancelled' = [cancelled EXCEPT ![u] = TRUE]
  /\ IF kstate[u] = "sleep_c"
       THEN /\ waitq' = KtqueueRemove(waitq, u)
            /\ MakeRunnable(u, runq)
       ELSE UNCHANGED <<waitq, runq, kstate>>

(* kthread_cancel of another thread, from proc_kill.                    *)
KthreadCancel(t, u) ==
  /\ Running(t) /\ t \in Cancellers /\ pc[t] \in {"start", "cs", "done"}
  /\ u # t /\ kstate[u] # "exited" /\ ~cancelled[u]
  /\ SchedCancel(u)
  /\ UNCHANGED <<curthr, holder, pc, left, eintr, waitedAt, clock>>

(* kthread_exit: KT_EXITED, then proc_thread_exited cleans the process  *)
(* up and switches away for good.                                        *)
KthreadExit(t) ==
  /\ Running(t) /\ pc[t] = "done"
  /\ kstate' = [kstate EXCEPT ![t] = "exited"]
  /\ pc' = [pc EXCEPT ![t] = "exited"]
  /\ SchedSwitch(runq)
  /\ UNCHANGED <<waitq, holder, cancelled, left, eintr, waitedAt, clock>>

Next ==
  \E t \in Threads :
    \/ KmutexLock(t)
    \/ KmutexLockCancellable(t)
    \/ WakeFromLock(t)
    \/ Yield(t)
    \/ KmutexUnlock(t)
    \/ KthreadExit(t)
    \/ \E u \in Threads : KthreadCancel(t, u)

(* One CPU that always runs curthr until it blocks: every step the      *)
(* current thread can take is eventually taken.                          *)
Spec == Init /\ [][Next]_vars /\ WF_vars(Next)

-----------------------------------------------------------------------------
(* Properties.                                                           *)

(* Types, and kt_wchan: a thread is on at most one queue, at most once,  *)
(* the running thread on none, and a sleeping thread on the mutex queue. *)
TypeOK ==
  /\ curthr \in Threads \cup {NoThread}
  /\ holder \in Threads \cup {NoThread}
  /\ kstate \in [Threads -> States] /\ pc \in [Threads -> PCs]
  /\ cancelled \in [Threads -> BOOLEAN]
  /\ IsInjective(runq \o waitq) /\ curthr \notin ToSet(runq \o waitq)
  /\ \A t \in Threads : kstate[t] \in {"sleep", "sleep_c"} <=> t \in ToSet(waitq)

(* Mutual exclusion: a thread that kmutex_lock (or a 0 from the         *)
(* cancellable lock) let into its critical section is the holder, also  *)
(* after it yielded and others ran, slept and were cancelled.           *)
MutualExclusion == \A t \in Threads : pc[t] \in {"cs", "cs_yielded"} => holder = t

(* No lost wake-up: nobody sleeps on the mutex queue while the mutex is *)
(* free (kmutex_unlock must hand the mutex to a waiter).                *)
NoLostWakeup == waitq # <<>> => holder # NoThread

(* FIFO hand-off (kmutex_unlock's header: the thread at the head of the *)
(* wait queue becomes the owner): when unlock makes a waiter the holder, *)
(* no other waiter has waited longer.                                   *)
FifoHandoff ==
  [][\A u \in ToSet(waitq) :
       holder' = u => \A w \in ToSet(waitq) \ {u} : waitedAt[u] < waitedAt[w]]_vars

(* sched_cancellable_sleep_on checks kt_cancelled before it sleeps, and *)
(* sched_cancel wakes a cancellable sleeper: a cancelled thread is never *)
(* left in a cancellable sleep, whatever order cancel and lock come in. *)
CancelledNeverAsleep == \A t \in Threads : kstate[t] = "sleep_c" => ~cancelled[t]

(* A thread that kmutex_lock_cancellable returned -EINTR to does not    *)
(* hold the mutex: it will never unlock it.                             *)
IntrNotHolding == \A t \in eintr : holder # t

(* Every thread finishes its rounds and exits: no one waits forever on   *)
(* the mutex.                                                            *)
AllExit == <>(\A t \in Threads : pc[t] = "exited")
====
