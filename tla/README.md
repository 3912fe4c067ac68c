# TLA+ models of the Weenix kernel

This directory holds TLA+ models of the kernel in `src/`, chiefly the
virtual-memory layer in `src/vm-submit/kernel/vm`, which `spec.md`
describes, and the VFS system calls of the `vfs-submit` and `vm-submit`
builds, and the circular list of the `warmup2` programs. Each model is
checked with TLC.

## The system

The code in `src/` comes in three stages: `procs-submit`, `vfs-submit` and
`vm-submit` (the latest, a superset of the others), plus the user-level warm-up
in `warmup2`.

| Part | Source | State | Operations |
|---|---|---|---|
| vmmap | `vm/vmmap.c` | sorted list of vmareas `[start,end)` with `vma_off`, `vma_obj`, flags | insert, find_range, lookup, clone, map, remove, is_range_empty, destroy, read, write |
| anonymous objects | `vm/anon.c` | `mmo_refcount`, resident pages | create, ref, put, lookuppage, fillpage |
| shadow objects | `vm/shadow.c` | refcount, `mmo_shadowed`, bottom object, resident pages | create, ref, put, lookuppage (walks the chain), fillpage |
| mmap/munmap | `vm/mmap.c` | — (the process's vmmap) | do_mmap, do_munmap |
| brk | `vm/brk.c` | `p_start_brk`, `p_brk` | do_brk |
| page fault | `vm/pagefault.c` | page table | handle_pagefault |
| fork | `proc/fork.c` | child process, shadow pairs | do_fork |
| processes | `proc/proc.c` | process tree, `p_vmmap` | proc_create, proc_cleanup, waitpid |
| threads, scheduler, mutex | `proc/kthread.c`, `proc/sched.c`, `proc/kmutex.c` | wait queues, `km_holder`, `kt_cancelled` | sleep_on, cancellable_sleep_on, wakeup_on, cancel, lock, lock_cancellable, unlock |
| VFS | `fs/namev.c`, `fs/open.c`, `fs/vfs_syscall.c` | `p_files`, `p_cwd`, file_t (`f_refcount`, `f_mode`, `f_pos`, `f_vnode`), `vn_refcount`, directory entries | lookup, dir_namev, open_namev, open, close, read, write, lseek, dup, dup2, getdent, mknod, mkdir, rmdir, unlink, link, rename, chdir |
| warm-up list | `warmup2/my402list.c` | anchor, cells with `next`/`prev`/`obj`, `num_members` | init, append, prepend, insert after/before, unlink, unlink all, find and the queries |
| warm-up sort program | `warmup2/my402sort.c` (and the drafts `mytrial1.c`, `mytrial2.c`) | the list of transactions | read, sorting, print |

These parts interact as follows:
- The system calls (mmap, munmap, brk, exit) change the vmmap through `vmmap_map`, `vmmap_remove` and `vmmap_destroy`.
- Those calls in turn create, ref and put memory objects.
- A page fault looks up the area and walks its object's shadow chain.
- Fork clones the map and puts a pair of new shadow objects over every private area.
- Everything that blocks does so on a scheduler wait queue.
- Fork copies `p_files` (fref on each file_t) and `p_cwd` (a vnode reference); exit puts them all.
- Every VFS call resolves its path with `dir_namev`/`open_namev`, which take a vnode reference the call must put on every path out.

The hard parts are:
- the four overlap cases of `vmmap_remove`, met after arbitrary call histories;
- unsigned arithmetic at the edges of the user range;
- reference counts that must equal the number of holders;
- the copy-on-write chains after several forks;
- the cancellable sleep racing a wake-up;
- the file_t and vnode references taken and put on every error path of the VFS calls, and a file that is unlinked while still open.

## Modules

- **`MmObj`** is the memory objects, as operators on an object store (a function from slab slot to record). Its definitions:
  - `Created` is `anon_create`/`shadow_create`.
  - `Ref` is `anon_ref`/`shadow_ref`.
  - `AnonPut` and `ShadowPut` are the two `put`s, and `Put` dispatches on the kind as `mmo_ops->put` does.
  - The frame cache (`pframe.c`) is not in the repository. Following the header comments of the puts, each resident frame holds one reference on its object. That part is modelled from the spec.
- **`VmMapOps`** is the vmmap functions, as pure operators over a sequence of area records. The code's loops become RECURSIVE scans that keep the same early returns:
  - `EmptyScan` is `vmmap_is_range_empty`.
  - `LoHiScan` and `HiLoScan` are `vmmap_find_range`.
  - `RemoveScan`, with `RemoveCase1` and `RemoveCase3`, is `vmmap_remove`.

  uint32 arithmetic is reduced modulo `Word` (2^16, wide enough that only the real wraps happen). `vmmap_remove` and `vmmap_destroy` return a record that holds the new map, the new objects, the unmapped pages, and `ub` when the code would call through an uninitialised `vma_obj`.
- **`AddrSpace`** is one process's address space as a state machine:
  - Variables: `vmm` (`p_vmmap`), `mo` (objects), `brk` (`p_brk`), `exited`, `crashed`, and the history variable `lastCall`.
  - Actions: `Mmap` and `Munmap` (do_mmap/do_munmap after their argument checks), `Brk` (every path of do_brk) and `Exit` (the `vmmap_destroy` of proc_cleanup).
  - A call that fails validation returns an error and changes nothing, so it is a stutter step.
  - A failed KASSERT or a NULL dereference is the `Crash` step, after which nothing runs.
- **`AbstractAddrSpace`** is what an address space promises: a map from page to (object, page of object). Each step either maps one run of pages to consecutive pages of one object or unmaps one run. `AddrSpace` refines it through `MemOf(vmm)`; this is the property `AbsRefinement`.
- **`MC_AddrSpace`** instantiates `AddrSpace` for TLC.
- **`Cow`** is copy-on-write across processes that share one object store. It extends `VmMapOps`.
  - Variables: `alive` (the running process slots), `vmm[p]` (each `p_vmmap`), `mo` (the objects, now with resident pages and their contents), and `pt[p][v]` (each page table entry: frame object, page number, writable or not).
  - The frame cache: `PframeGet` returns a resident frame or allocates one (`Install`: a page and a reference) and calls the object's fillpage. `AnonFillpage` zero-fills. `ShadowFillpage` copies from the object its loop finds (`FillSource`).
  - `ShadowLookuppage` walks the chain (`LookScan`, which checks only objects with an `mmo_shadowed`), misses to `mmo_bottom_obj`, and for a write gets the page of `o` itself, which fills by copying.
  - The actions:
    - `UserWrite`: a store through a writable entry.
    - `HandlePagefault`: any other access, including the EFAULT exit outside every area.
    - `Fork`: `ForkAreas` over `ForkStep`, with `ForkPair` (the shadow pair, its bottom pointers and the one ref) and `ParentUnmap` (the parent's `pt_unmap_range`).
    - `Munmap`.
    - `Exit`: `ProcExit` is `proc_cleanup`'s `vmmap_destroy`, whose removes unmap the page table.
  - Only private areas occur, so `handle_pagefault`'s branch for a `vma_obj` without a shadowed object is in the model but is not reached.
- **`ProcMemory`** is what copy-on-write promises: each process has its own memory (page to value). A store changes the storing process's page, fork copies the parent's memory into a free slot, and munmap/exit unmap. `Cow` refines it through `View(p, v)`: the contents of the first object of the area's chain with the page resident, else the zero fill.
- **`MC_Cow`** holds the instances.
- **`ProcLife`** is the process tree (`proc.c`) with the programs of kmain: idle waits for init and halts, init waits on its first child until it has none, and a user process forks, then either exits or waits with `do_waitpid(-1)` until -ECHILD.
  - Variables: `st` (free slot, running, asleep on `p_wait`, zombie), `pid`, `parent` (`p_pproc`), `children` (`p_children` in list order), the program counter `pc`, `_proc_getid`'s `next_pid`, and the number of processes `created`.
  - `ProcGetid` is the cyclic search of `_proc_getid`. `ProcCreate` is `proc_create`: the lowest free slab slot and the unchecked pid.
  - `WaitPass` is one pass of `do_waitpid`'s loop: reap the first dead matching child, sleep, or return -ECHILD. `WaitAny` (pid -1) and `InitWait` (the first child's pid) instantiate it.
  - `Exit` is `proc_cleanup`: wake the parent, hand the children to init, become a zombie.
  - `DisposeZombie` frees the slot.
- **`KMutex`** is one kernel mutex on a single CPU, with the scheduler's queues and thread cancellation. Every step is a step of `curthr`.
  - Variables: `curthr`, `runq` (`kt_runq`), `waitq` (`km_waitq`), `holder` (`km_holder`), `kstate` (`kt_state`), `cancelled` (`kt_cancelled`), and each thread's program counter `pc` and remaining rounds `left`. The history variables are `eintr` (threads whose lock returned -EINTR) and `waitedAt`/`clock` (when each waiter went to sleep).
  - A ktqueue is a sequence. `ktqueue_enqueue` prepends (`list_insert_head`) and `ktqueue_dequeue` takes the last element (`l_prev`).
  - `SchedSwitch` dequeues the next runnable thread, or idles (`curthr = NoThread`) when the run queue is empty.
  - The actions are `KmutexLock`, `KmutexLockCancellable` (with `sched_cancellable_sleep_on`'s check before sleeping), `WakeFromLock` (the return after `sched_switch`), `Yield` (the `sched_make_runnable(curthr); sched_switch()` of the kmain tests), `KmutexUnlock` (with the hand-off of `sched_wakeup_on`), `KthreadCancel` (`sched_cancel`) and `KthreadExit`.
  - Each thread runs the body of the kmain mutex tests `Rounds` times: lock, yield, unlock.
- **`MC_KMutex`** gives the thread set as model values.
- **`Vfs`** is the state both VFS builds work on, and the layers under them that the repository does not contain (`file.c`, `vnode.c`, s5fs), modelled from what the calls rely on.
  - Variables: `alive`, `cwd` (`p_cwd`), `fd` (`p_files`), `file` (each file_t: `ref`, `mode`, `pos`, `vn`), `vref` (`vn_refcount`), and the file system: `kind` of each inode ("free" when unallocated), `dirent` (a directory's entries), `dotdot`, `vlen` (`vn_len`), `hasdev` (a device node whose device exists).
  - `Init` is the state after `idleproc_run` set the cwd of idle and init: the root is referenced by the vfs, idle and init. The `/dev` nodes kmain makes are outside the names the paths use.
  - `FgetNew`, `FputFile`, `VAdjust` are fget(-1), fput, vget/vput. An inode whose last reference is put and that no directory names is deleted (`SettleInodes`).
  - `FsLookup`, `FsCreate`, `FsRmdirErr`, `FsRead`, `FsReaddir` are the s5fs operations. Entries are not added to a removed directory.
  - Paths are records `[abs, toks]`: a sequence of components, each a name, ".", ".." or the empty component of "a/" or "a//b". Name length limits (ENAMETOOLONG) are abstracted away.
- **`VfsVm`** is the `vm-submit` build: its `lookup`, `dir_namev` (which also looks up the last component), `open_namev` (with "/" read as "."), and every system call as one action taking the whole call, every error path with its puts included. `Fork` and `Exit` are the `p_files`/`p_cwd` part of `do_fork`/`proc_create` and `proc_cleanup`. `do_rename` is two steps, `DoRename` (the link) and `RenameUnlink`, since s5fs may block between them; `renaming` holds the old path in between.
- **`VfsFirst`** is the `vfs-submit` build, whose `dir_namev` does not look up the last component and whose error paths differ; that tree has no process code, so one process makes the calls. A `p_files` slot left holding a freed file_t is not followed further (`Freed`).
- **`My402List`** is the warm-up list at the level of its pointers:
  - Variables: `next`, `prev`, `obj` (the fields of the anchor and of every cell of a bounded heap `Elems`), `num` (`num_members`), `heap` (the cells malloc has handed out) and the history variable `call` (the side of the member the last call named: after, before, drop, clear).
  - Actions: one per call that changes the list, with the code's pointer assignments in the code's order (`My402ListInsertAfter` reads `elem->next->prev` before changing it). `My402ListUnlinkAll` runs its loop as the RECURSIVE `FreeLoop` and then `My402ListInit`. A failed malloc returns FALSE and changes nothing, which is the case of a full heap.
  - Queries are operators; `My402ListFind` is the RECURSIVE `FindLoop`, which takes `num_members` steps.
  - `Cells` walks the ring from `anchor.next`, `Items` gives the objects in order and `Members` the (cell, object) pairs.
- **`AbstractList`** is what the list promises: a sequence of members, each an object with the handle (`My402ListElem *`) callers name it by. An insert puts a fresh member right after or right before the member it names (at the end or the front for NULL), an unlink removes the member named, and unlink-all clears the list. `My402List` refines it under `items <- Members` with the cells as handles; `call` ties each step to the call that made it, so a member put in the wrong place is a refinement failure.
- **`My402Sort`** is `sorting()` of `my402sort.c`, two RECURSIVE operators for its two loops, over the pointer state of `My402List`. An object is a transaction pointer, and `TimeOf` is its time.
- **`MC_VfsVm`** and **`MC_VfsFirst`** give the paths "/", "a", "b", "a/b", "..", "a/"; `MC_VfsFirst` adds the empty path.

## Runs

All runs use `MC_AddrSpace` with the following bounds:
- Pages LOW..HIGH-1 = 1..4, with PAGE_SIZE = 2 bytes.
- A data area [1,2) with p_start_brk = 3.
- 6 object slots, one of them the file's.
- mmap addresses {2,4,6,8} and lengths {1,2,4} bytes. The lengths cover unaligned, one-page and two-page calls; the addresses cover fixed calls that overlap the data area and each other.
- brk targets {3,5,7,9}: grow, shrink and no-op.

With these bounds all four remove cases occur, as do splits inside the data area, the gaps find_range looks for, and the top of the user range. Four pages are the fewest in which an area can be split with something on either side and still leave a free gap.

| Run | cfg | Expect | What it shows |
|---|---|---|---|
| as_core | `MC_AddrSpace.cfg` | pass | the properties listed below hold over every sequence of calls (30,196 states, about 1m40s) |
| as_leak | `MC_AddrSpace_leak.cfg` | violation of `NoLeak` | mmap private anonymous, then munmap, leaves the shadow object and its anonymous object allocated (`shadow_put`'s static `num`) |
| as_brk_high | `MC_AddrSpace_brkhigh.cfg` | violation of `NoCrash` | `brk(USER_MEM_HIGH)` fails the KASSERT of `vmmap_is_range_empty` |

The properties that as_core checks:
- `MapWellFormed`: the areas are non-empty, in the user range, sorted and disjoint.
- `RefCountExact`: every live object's refcount equals its holders, which are the areas, the shadow objects over it, its frames and the vnode. A shadow object that `shadow_put` left allocated still counts as a holder, since it still stores the pointer; that it is never freed is what `NoLeak` (as_leak) shows.
- `CallEffect`: the last call mapped or unmapped exactly its pages.
- `FindRangeCorrect`: `vmmap_find_range` equals first fit from either end, including for more pages than exist.
- `IsRangeEmptyCorrect`: `vmmap_is_range_empty` equals disjointness.
- `AbsRefinement`: `AddrSpace` refines `AbstractAddrSpace`.

Each of these properties has a mutant in `PROJECT.json`: a plausible bug in the code that TLC then catches. The mutants are:
- a swapped `vma_off` update;
- an append instead of a sorted insert;
- the missing ref in case 1;
- case 2 keeping the first page of the unmapped range;
- an off-by-one in LOHI;
- a wrong edge in is_range_empty;
- a missing `vma_off` update in case 3.

`Cow` runs use 7 object slots, the last of them the file's. After the loader's two objects, 4 are left: enough for two forks, because a shadow object is never freed. Two forks make chains three shadows deep, and in cow_core a fork can follow the exit of the other process.
- cow_core: three process slots, one page, values {1,2}, so a parent and two children can hold different values of one page, and a fork can follow the exit of another process. 15,811 states, about 15s. Two pages took four minutes with the refinement, and nine object slots four, so the run keeps one page and seven slots; munmap of part of an area is covered by the `AddrSpace` runs.

| Run | cfg | Expect | What it shows |
|---|---|---|---|
| cow_core | `MC_Cow.cfg` | pass | `TypeOK`; `RefCountExact` across all processes (areas, shadows over an object, frames); `BottomCorrect` (every shadow's `mmo_bottom_obj` is the end of its chain); `PteCoherent` (every page table entry names a resident frame of the process's own chain, at the area's page, holding what the process sees); `CowRefinement`: `Cow` refines `ProcMemory` |

The mutants:

| Mutant | Caught by |
|---|---|
| exit that leaves the page table | `TypeOK` |
| fork without the ref of the old object | `RefCountExact` |
| fork giving the new shadows the old object as bottom | `BottomCorrect` |
| a lookuppage loop that checks only the top object | `PteCoherent` |
| a fork unmap range one page short | `CowRefinement`: the parent's store is seen by the child |

`ProcLife` runs:
- pl_core: 5 slots and 5 pids, with 6 creations after init (24,778 states). The pids wrap past processes that are still alive, zombies are handed to init, and a process may exit before its children.

| Run | cfg | Expect | What it shows |
|---|---|---|---|
| pl_core | `MC_ProcLife.cfg` | pass | `TypeOK`; `TreeConsistent` (parent pointers and child lists agree, and every process has a running or waiting parent); `PidsValid` (pids in range and unique); `AllReaped`: eventually only idle is left and it has halted, under `WF_vars(Next)` |

Mutants: a `disposeZombie` that leaves the list entry, a cleanup without reparenting, a cleanup without the wake-up, and a `_proc_getid` that does not skip used pids.

`KMutex` runs use three threads t1, t2, t3. t1 may cancel the others; t2 and t3 lock cancellably in km_core and km_intr, and km_live uses the plain lock. The runs use 2 rounds (1 in km_intr). Three threads are the fewest in which two waiters queue behind a holder, so FIFO order and a cancel that races a hand-off can both happen. Two rounds let a thread come back to the queue after being served.

| Run | cfg | Expect | What it shows |
|---|---|---|---|
| km_core | `MC_KMutex.cfg` | pass | `TypeOK` (the queues are disjoint, hold no duplicates and never hold `curthr`, and a thread is asleep exactly when it is on the wait queue), `MutualExclusion`, `NoLostWakeup` (a non-empty wait queue always has a holder), `CancelledNeverAsleep`, and `FifoHandoff` (unlock hands the mutex to the longest waiter) |
| km_live | `MC_KMutex_live.cfg` | pass | `AllExit`: every thread eventually exits |
| km_intr | `MC_KMutex_intr.cfg` | violation of `IntrNotHolding` | unlock makes t3 the holder and puts it on the run queue. t1 then cancels t3, and `sched_cancel` only sets the flag of a runnable thread. t3 returns -EINTR from `kmutex_lock_cancellable` while holding the mutex, and nobody unlocks it |

`VfsVm` runs use two process slots (init and one forked child), two `p_files` slots, one file_t, two inodes (the root and one more), names {"a","b"}, files of at most one byte (`MaxLen`) and vnode counts of at most 5 (`MaxRef`: the root starts at 3 and a fork adds 2). Two processes are what rename's window and fork/exit need; one non-root inode is enough for a file or a directory to be unlinked while open or while it is a cwd, and for link to try to give a directory a second name. A larger instance (three inodes, two file_t) exceeded five minutes.

| Run | cfg | Expect | What it shows |
|---|---|---|---|
| vfs_vm | `MC_VfsVm.cfg` | pass | `TypeOK`; `NoDanglingRef` (no file_t or vnode count is below its holders, and no held inode is deleted); `DirTree` (a directory is named by at most one entry, in the directory its ".." names). 70,600 states, about 1 minute |
| vfs_vm_leak | `MC_VfsVm_leak.cfg` | violation of `VnRefsExact` | fork gives the child's `p_cwd` two references (`proc_create`'s vref and `do_fork`'s vget) and exit puts one |
| vfs_first | `MC_VfsFirst.cfg` | violation of `NoDanglingRef` | in the `vfs-submit` build, an open of a missing file fputs the new file_t but leaves it in `p_files` |

Mutants: an lseek without the negative-offset check (`TypeOK`), a close that puts the file_t but keeps the slot (`NoDanglingRef`), a link without the -EISDIR check (`DirTree`).

`My402List` runs use four cells and three transactions t1, t2, t3 with times 2, 1, 1. Four cells let an insert land between two members with one on each side and fill the heap; equal times reach the duplicate branch of the sort, and three objects over four cells put one object in the list twice for `My402ListFind`. The run reaches 20,802 states in about 35 seconds.

| Run | cfg | Expect | What it shows |
|---|---|---|---|
| list_core | `MC_My402List.cfg` | pass | `TypeOK`; `ListWellFormed` (next from the anchor meets each allocated cell once and returns, prev inverts next, `num_members` is the ring's length, and freed cells are cleared); `FindCorrect` (Find returns the first cell holding the object, or NULL); `SortCorrect` (on every non-empty list, `sorting()` leaves the times in non-decreasing order with the same bag of transactions); `ListRefinement`: `My402List` refines `AbstractList`, so every insert lands next to the member it names and every unlink removes only that member |

The mutants:

| Mutant | Caught by |
|---|---|
| an unlink that leaves `num_members` as it was | `TypeOK` |
| an insert-before that does not point `elem->prev->next` at the new cell | `ListWellFormed` |
| a find loop that stops with one member left | `FindCorrect` |
| a swap without `temp` | `SortCorrect` |
| an insert-after that links the new cell on the wrong side of `elem`, as insert-before does: the ring stays well formed, only the position is wrong | `ListRefinement` |

`sorting()` crashes on an empty list: `My402ListFirst` is NULL, and the loop condition reads `NULL->next`. This is why `SortCorrect` covers only non-empty lists. `main` reaches the crash on an input file with no lines.

**Fairness.** The AddrSpace runs check safety only and assume no fairness. `KMutex` assumes `WF_vars(Next)`. There is a single CPU, and whenever a thread is current it has an enabled step, so the CPU is never stuck while some thread can run. `sched_switch` serves the run queue in FIFO order, so no per-thread fairness is needed beyond that.

**Deadlock checking.** The VFS runs check deadlock: a process can always make another call. list_core checks it too: `My402ListUnlinkAll` is always enabled. `CHECK_DEADLOCK FALSE` is set in every other run. A process stops for good after exit or a kernel crash. When every thread has exited, `sched_switch` waits for an interrupt forever.

## Plan

1. **Cow with mmap**: private file and shared file areas, so that the shared branch of fork and the no-shadow branch of the fault handler are reached.
2. **vmmap_read/vmmap_write**: the offset and length arithmetic of the copy through frames, as a roundtrip property against a byte map.
3. **Sched**: `sched_broadcast_on` and a second mutex (the deadlock test of kmain).
4. **Sort program**: `main` and `read()` as a state machine (input lines as a small set of transactions, each validation error an exit), so that the empty-input crash is a violation run.

## Not modelled

- The s5fs file system, the vnode cache and the file_t slab are not in the repository; the VFS models take from them only what the calls rely on. `do_stat` changes no state; `do_mount`/`do_umount` are stubs. `O_TRUNC` is left out.
- Some VFS hazards are listed in `PROJECT.json` without a property: exact file_t counts (the -EINVAL leak of the `vm-submit` open, the `vfs-submit` dup2 leak), rename unlinking a file it never moved, and the `vfs-submit` build's use of a directory after putting it.
- The violation runs that showed do_brk's unpinned heap, the shared anonymous area without an object, the -1 pid and the byte offset in `vma_off` (`MmapOffsetInPages`) have been retired; their hazards are kept in `PROJECT.json`.
- The boot and test drivers (`kmain.c`) and the warm-up's parsing and printing are pure I/O. `PrintList` also prints amounts under ten cents as the bare digit ("5" for 0.05): its digit loop breaks before the ".0".
- `mytrial1.c` and `mytrial2.c` are drafts of the sort program. The first reads into a transaction it never allocates. The second's sort loop never advances its counter.
- `vmmap_mapping_info` is formatting.
- The file-descriptor checks of do_mmap only choose which error is returned. They are abstracted to the mapping kinds `MmapKinds`.
