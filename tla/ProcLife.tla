------------------------------ MODULE ProcLife ------------------------------
(***************************************************************************)
(* The process tree of src/vm-submit/kernel/proc/proc.c: pid allocation  *)
(* (_proc_getid), proc_create as do_fork calls it, proc_cleanup (wake the *)
(* parent, reparent the children to init, become a zombie), do_waitpid    *)
(* for -1 and for a pid, and disposeZombie.  Each process has one thread *)
(* and runs the program of its kind:                                      *)
(*   idle   (idleproc_run)  : do_waitpid(-1) for init, then halt;         *)
(*   init   (initproc_run)  : create children, then do_waitpid on the    *)
(*                            first child until it has none, then exit;   *)
(*   others (user programs) : fork, then either exit at once or          *)
(*                            do_waitpid(-1) until -ECHILD and exit.      *)
(* One CPU: each step is one process running until it blocks or returns, *)
(* since the kernel is not preempted.                                     *)
(***************************************************************************)
EXTENDS Naturals, SequencesExt

CONSTANTS
  NSlots,          \* proc_t slab slots: 0 is idle, 1 is init
  PROC_MAX_COUNT,  \* pids are 0..PROC_MAX_COUNT-1
  MaxCreates       \* bound on the processes created after init

Slots == 0..(NSlots - 1)
Idle == 0
InitSlot == 1
PID_IDLE == 0
PID_INIT == 1

ASSUME NSlots >= 2 /\ PROC_MAX_COUNT >= 2

VARIABLES
  st,        \* "free", "run", "wait" (asleep on p_wait) or "dead" (zombie)
  pid,       \* p_pid
  parent,    \* p_pproc
  children,  \* p_children, in list order
  pc,        \* where the program is: "fork", "wait", "exit" or "halt"
  next_pid,  \* _proc_getid's static next_pid
  created    \* processes created so far (bounded by MaxCreates)

vars == <<st, pid, parent, children, pc, next_pid, created>>

Live == {s \in Slots : st[s] # "free"}
Used == {pid[s] : s \in Live}

(* After boot: idle (pid 0) waits for init (pid 1), which runs.          *)
Init ==
  /\ st = [s \in Slots |-> CASE s = Idle -> "wait" [] s = InitSlot -> "run"
                                [] OTHER -> "free"]
  /\ pid = [s \in Slots |-> IF s = InitSlot THEN PID_INIT ELSE PID_IDLE]
  /\ parent = [s \in Slots |-> IF s = InitSlot THEN Idle ELSE s]
  /\ children = [s \in Slots |-> IF s = Idle THEN <<InitSlot>> ELSE <<>>]
  /\ pc = [s \in Slots |-> IF s = Idle THEN "wait" ELSE "fork"]
  /\ next_pid = 2 % PROC_MAX_COUNT
  /\ created = 0

-----------------------------------------------------------------------------
(* _proc_getid: from next_pid on, cyclically, the first pid no process  *)
(* in the list has; -1 when it comes back round to next_pid.            *)
MutProcGetidNoCheck == next_pid
ProcGetid ==
  LET free == {i \in 0..(PROC_MAX_COUNT - 1) : (next_pid + i) % PROC_MAX_COUNT \notin Used}
  IN  IF free = {} THEN -1 ELSE (next_pid + Min(free)) % PROC_MAX_COUNT

(* proc_create called by process s (do_fork, or initproc_run's         *)
(* proc_create and kthread_create): the lowest free slab slot, the pid  *)
(* from _proc_getid stored unchecked, the caller as parent, appended to *)
(* the caller's children; the new thread is made runnable.              *)
ProcCreate(s) ==
  LET c == Min({x \in Slots : st[x] = "free"})
      p == ProcGetid
  IN
  /\ st[s] = "run" /\ pc[s] = "fork"
  /\ created < MaxCreates
  /\ \E x \in Slots : st[x] = "free"
  /\ st' = [st EXCEPT ![c] = "run"]
  /\ pid' = [pid EXCEPT ![c] = p]
  /\ parent' = [parent EXCEPT ![c] = s]
  /\ children' = [children EXCEPT ![s] = Append(@, c), ![c] = <<>>]
  /\ pc' = [pc EXCEPT ![c] = "fork"]
  /\ next_pid' = IF p = -1 THEN next_pid ELSE (p + 1) % PROC_MAX_COUNT
  /\ created' = created + 1

(* The program moves on from forking: init and a waiting user program   *)
(* to their wait loop, a user program that does not wait to its exit.   *)
StopForking(s) ==
  /\ st[s] = "run" /\ pc[s] = "fork"
  /\ \/ pc' = [pc EXCEPT ![s] = "wait"]
     \/ s # InitSlot /\ pc' = [pc EXCEPT ![s] = "exit"]
  /\ UNCHANGED <<st, pid, parent, children, next_pid, created>>

(* disposeZombie of child z by its parent s: the slot is freed and z    *)
(* leaves s's children.                                                  *)
MutDisposeZombieNoUnlink(s, z) ==
  /\ st' = [st EXCEPT ![z] = "free"]
  /\ children' = [children EXCEPT ![z] = <<>>]
  /\ parent' = [parent EXCEPT ![z] = z]
DisposeZombie(s, z) ==
  /\ st' = [st EXCEPT ![z] = "free"]
  /\ children' = [children EXCEPT ![s] = Remove(@, z), ![z] = <<>>]
  /\ parent' = [parent EXCEPT ![z] = z]

(* One pass of do_waitpid's loop in s for the children in match:       *)
(* dispose of the first dead one and return, or sleep on p_wait.  With  *)
(* no children at all it returns -ECHILD.  What the program does with   *)
(* the result: idle halts after init, init and a user program loop.     *)
WaitPass(s, match) ==
  LET ch   == children[s]
      dead == {i \in 1..Len(ch) : ch[i] \in match /\ st[ch[i]] = "dead"}
  IN
  /\ st[s] = "run" /\ pc[s] = "wait"
  /\ IF ch = <<>> THEN
       /\ pc' = [pc EXCEPT ![s] = IF s = Idle THEN "halt" ELSE "exit"]
       /\ UNCHANGED <<st, children, parent>>
     ELSE IF dead # {} THEN
       /\ DisposeZombie(s, ch[Min(dead)])
       /\ pc' = [pc EXCEPT ![s] = IF s = Idle THEN "halt" ELSE "wait"]
     ELSE
       /\ st' = [st EXCEPT ![s] = "wait"]
       /\ UNCHANGED <<children, parent, pc>>
  /\ UNCHANGED <<pid, next_pid, created>>

AnyChild == Slots

(* do_waitpid(-1) of idle and of a user program; initproc_run's          *)
(* do_waitpid(p->p_pid) on the first of its children.                     *)
WaitAny(s) == s # InitSlot /\ WaitPass(s, AnyChild)
InitWait ==
  WaitPass(InitSlot, IF children[InitSlot] = <<>> THEN {}
                     ELSE {Head(children[InitSlot])})

(* proc_cleanup of s (after kthread_exit): wake the parent's p_wait,     *)
(* hand every child to init in list order, become a zombie.              *)
MutProcCleanupNoWakeup(s) ==
  /\ parent' = [c \in Slots |-> IF c \in ToSet(children[s]) THEN InitSlot ELSE parent[c]]
  /\ children' = [children EXCEPT ![InitSlot] = @ \o children[s], ![s] = <<>>]
  /\ st' = [st EXCEPT ![s] = "dead"]
MutProcCleanupNoReparent(s) ==
  /\ st' = [st EXCEPT ![s] = "dead",
                      ![parent[s]] = IF @ = "wait" THEN "run" ELSE @]
  /\ UNCHANGED <<parent, children>>
ProcCleanup(s) ==
  /\ parent' = [c \in Slots |-> IF c \in ToSet(children[s]) THEN InitSlot ELSE parent[c]]
  /\ children' = [children EXCEPT ![InitSlot] = @ \o children[s], ![s] = <<>>]
  /\ st' = [st EXCEPT ![s] = "dead",
                      ![parent[s]] = IF @ = "wait" THEN "run" ELSE @]

Exit(s) ==
  /\ st[s] = "run" /\ pc[s] = "exit"
  /\ ProcCleanup(s)
  /\ pc' = [pc EXCEPT ![s] = "halt"]
  /\ UNCHANGED <<pid, next_pid, created>>

Next ==
  \/ InitWait
  \/ \E s \in Slots :
       \/ ProcCreate(s)
       \/ StopForking(s)
       \/ WaitAny(s)
       \/ Exit(s)

Spec == Init /\ [][Next]_vars /\ WF_vars(Next)

-----------------------------------------------------------------------------
TypeOK ==
  /\ st \in [Slots -> {"free", "run", "wait", "dead"}]
  /\ pc \in [Slots -> {"fork", "wait", "exit", "halt"}]
  /\ parent \in [Slots -> Slots]
  /\ \A s \in Slots : children[s] \in Seq(Slots) /\ IsInjective(children[s])
  /\ next_pid \in 0..(PROC_MAX_COUNT - 1)
  /\ created \in 0..MaxCreates

(* The tree stays whole through every fork, exit and reap: p_pproc and  *)
(* the p_children lists agree, and every process other than idle has a  *)
(* parent that is still running or waiting, so that someone can reap it *)
(* once it is a zombie (proc_cleanup's reparenting to init).             *)
TreeConsistent ==
  \A s \in Live \ {Idle} :
    /\ st[parent[s]] \in {"run", "wait"}
    /\ \A x \in Slots : (s \in ToSet(children[x])) <=> x = parent[s]

(* Every process in the list has a pid in 0..PROC_MAX_COUNT-1 that no   *)
(* other process has (_proc_getid, as proc_create uses it).              *)
PidsValid ==
  \A s \in Live : pid[s] \in 0..(PROC_MAX_COUNT - 1)
                  /\ \A x \in Live \ {s} : pid[x] # pid[s]

(* Every process is eventually reaped and idle's do_waitpid returns     *)
(* init: a parent asleep in do_waitpid is woken by its children's exits, *)
(* and zombies handed to init are reaped by its loop.                    *)
AllReaped == <>(pc[Idle] = "halt" /\ Live = {Idle})
====
