------------------------------ MODULE AddrSpace ------------------------------
(***************************************************************************)
(* One process's address space driven through its system calls:          *)
(* do_mmap and do_munmap (vm/mmap.c), do_brk (vm/brk.c) and the           *)
(* vmmap_destroy of process exit (proc/proc.c), over the map and object   *)
(* operations of VmMapOps and MmObj.  No page is ever resident here: the  *)
(* page-fault path is in the Cow module.                                  *)
(*                                                                         *)
(* Addresses are bytes, with a page of PAGE_SIZE bytes.  A system call   *)
(* that fails validation returns an error without changing any state, so *)
(* it is a stuttering step and is not written out.  A failed KASSERT or   *)
(* a NULL or wild-pointer dereference in kernel mode crashes the kernel: *)
(* crashed becomes TRUE and nothing runs afterwards.                     *)
(***************************************************************************)
EXTENDS VmMapOps

CONSTANTS
  PAGE_SIZE,
  DataEnd,     \* end page of the loader's data/bss area [LOW, DataEnd)
  StartBrk,    \* p_start_brk (a byte address, not necessarily aligned)
  MmapAddrs,   \* addr arguments of mmap and munmap
  MmapLens,    \* len arguments of mmap and munmap
  MmapOffs,    \* off arguments of mmap
  MmapKinds,   \* flag combinations passed to mmap
  BrkAddrs     \* addr arguments of brk

ASSUME /\ PAGE_SIZE \in Nat \ {0}
       /\ DataEnd \in (LOW + 1)..HIGH
       /\ StartBrk \in (LOW * PAGE_SIZE)..(DataEnd * PAGE_SIZE)
       /\ MmapKinds \subseteq {"private_anon", "private_file", "shared_file", "shared_anon"}

USER_MEM_LOW  == LOW * PAGE_SIZE
USER_MEM_HIGH == HIGH * PAGE_SIZE
ADDR_TO_PN(a) == a \div PAGE_SIZE
PN_TO_ADDR(p) == p * PAGE_SIZE
PAGE_ALIGNED(a) == a % PAGE_SIZE = 0

VARIABLES
  vmm,        \* curproc->p_vmmap->vmm_list
  mo,         \* the memory objects
  brk,        \* curproc->p_brk
  exited,     \* proc_cleanup has destroyed the map
  crashed,    \* the kernel has crashed
  lastCall    \* history: the last call that changed the map

vars == <<vmm, mo, brk, exited, crashed, lastCall>>

RW == "rw"
Call(name, lo, n, obj, off) == [name |-> name, lo |-> lo, n |-> n, obj |-> obj, off |-> off]

(* The loader's state: one private anonymous area [LOW, DataEnd) made by *)
(* vmmap_map (shadow object 1 over anonymous object 2), the file's       *)
(* object held once by its vnode, and the break at its start.            *)
InitObjs ==
  [o \in ObjIds |->
     CASE o = 1       -> [Created("shadow") EXCEPT !.shadowed = 2, !.bottom = 2]
       [] o = 2       -> Created("anon")
       [] o = FileObj -> Created("file")
       [] OTHER       -> FreeSlot]

InitVmm == <<[start |-> LOW, end |-> DataEnd, off |-> 0, obj |-> 1,
              shared |-> FALSE, prot |-> RW]>>

Init ==
  /\ vmm = InitVmm
  /\ mo = InitObjs
  /\ brk = StartBrk
  /\ exited = FALSE
  /\ crashed = FALSE
  /\ lastCall = Call("exec", LOW, DataEnd - LOW, 1, 0)

Running == ~exited /\ ~crashed

Crash ==
  /\ crashed' = TRUE
  /\ UNCHANGED <<vmm, mo, brk, exited, lastCall>>

(* The effect of a call on the map: a crash if it went through an        *)
(* uninitialised vma_obj, else the new map and objects and break.         *)
Apply(x, call, newBrk) ==
  IF x.ub THEN Crash
  ELSE /\ vmm' = x.map
       /\ mo' = x.mo
       /\ brk' = newBrk
       /\ lastCall' = call
       /\ UNCHANGED <<exited, crashed>>

(* do_mmap after its argument checks: the length rounded up to pages, an *)
(* address chosen first fit from the bottom unless MAP_FIXED, then       *)
(* vmmap_map.  MmapErr is the error it returns, "" on success.           *)
RoundLen(len) == IF PAGE_ALIGNED(len) THEN len ELSE PN_TO_ADDR(ADDR_TO_PN(len) + 1)

MmapStart(addr, len, fixed) ==
  IF fixed THEN ADDR_TO_PN(addr)
  ELSE VmmapFindRange(vmm, ADDR_TO_PN(RoundLen(len)), "LOHI")

MmapErr(addr, len, fixed) ==
  LET rl == RoundLen(len) IN
  IF rl = 0 THEN "EINVAL"
  ELSE IF ~fixed /\ MmapStart(addr, len, fixed) < 0 THEN "EINVAL"
  ELSE IF fixed /\ (addr + rl > USER_MEM_HIGH \/ addr > USER_MEM_HIGH
                    \/ addr < USER_MEM_LOW) THEN "EINVAL"
  ELSE IF fixed /\ ~PAGE_ALIGNED(addr) THEN "EINVAL"
  ELSE ""

DoMmap(addr, len, kind, fixed, off, newBrk) ==
  LET lo == MmapStart(addr, len, fixed)
      n  == ADDR_TO_PN(RoundLen(len))
      x  == VmmapMap(vmm, mo, kind \in {"private_file", "shared_file"}, lo, n,
                     RW, kind \in {"shared_file", "shared_anon"}, off)
  IN  Apply(x, Call("mmap", lo, n, x.map[VmmapLookup(x.map, lo)].obj, off), newBrk)

(* The slab is bounded: a private mapping needs two free object slots.   *)
Mmap ==
  /\ Running
  /\ \E addr \in MmapAddrs, len \in MmapLens, kind \in MmapKinds,
        fixed \in BOOLEAN, off \in MmapOffs :
       /\ MmapErr(addr, len, fixed) = ""
       /\ CanAlloc(mo, 2)
       /\ DoMmap(addr, len, kind, fixed, off, brk)

(* do_munmap: the checks, then vmmap_remove (and a TLB flush).           *)
Munmap ==
  /\ Running
  /\ \E addr \in MmapAddrs, len \in MmapLens :
       LET rl == RoundLen(len) IN
       /\ PAGE_ALIGNED(addr)
       /\ rl > 0
       /\ ~(addr + rl > USER_MEM_HIGH \/ addr > USER_MEM_HIGH \/ addr < USER_MEM_LOW)
       /\ Apply(VmmapRemove(vmm, mo, ADDR_TO_PN(addr), ADDR_TO_PN(rl)),
                Call("munmap", ADDR_TO_PN(addr), ADDR_TO_PN(rl), NoObj, 0), brk)

(* do_brk.  When no area holds the page of p_start_brk, the heap is made *)
(* by do_mmap of the pages from there to the new break, without         *)
(* MAP_FIXED.  Otherwise the area holding the page of the current break  *)
(* is grown to end one page past the new break's page, or the pages past *)
(* the new break's page are removed.                                     *)
Brk ==
  /\ Running
  /\ \E addr \in BrkAddrs :
     LET final   == ADDR_TO_PN(addr)
         initial == ADDR_TO_PN(StartBrk)
         cur     == ADDR_TO_PN(brk)
         i       == VmmapLookup(vmm, cur)
         n       == U(1 + final - vmm[i].end)
         len     == PN_TO_ADDR(final - initial)
     IN
     /\ StartBrk <= addr
     /\ addr <= USER_MEM_HIGH
     /\ IF VmmapLookup(vmm, initial) = 0 THEN
          /\ MmapErr(PN_TO_ADDR(initial), len, FALSE) = ""
          /\ CanAlloc(mo, 2)
          /\ DoMmap(PN_TO_ADDR(initial), len, "private_anon", FALSE, 0, addr)
        ELSE IF cur = final THEN
          /\ brk' = addr
          /\ UNCHANGED <<vmm, mo, exited, crashed, lastCall>>
        ELSE IF cur < final THEN
          \* vmarea_temp is NULL when no area holds the break's page
          IF i = 0 \/ ~IsRangeEmptyPre(vmm[i].end, n) THEN Crash
          ELSE /\ VmmapIsRangeEmpty(vmm, vmm[i].end, n)
               /\ vmm' = [vmm EXCEPT ![i].end = 1 + final]
               /\ brk' = addr
               /\ lastCall' = Call("brk", vmm[i].end, 1 + final - vmm[i].end, vmm[i].obj,
                                    PN_TO_ADDR(vmm[i].off + vmm[i].end - vmm[i].start))
               /\ UNCHANGED <<mo, exited, crashed>>
        ELSE Apply(VmmapRemove(vmm, mo, final + 1, cur - final),
                   Call("munmap", final + 1, cur - final, NoObj, 0), addr)

(* proc_cleanup: vmmap_destroy of the whole map.                        *)
Exit ==
  /\ Running
  /\ LET x == VmmapDestroy(vmm, mo) IN
     IF x.ub THEN Crash
     ELSE /\ vmm' = x.map
          /\ mo' = x.mo
          /\ exited' = TRUE
          /\ lastCall' = Call("munmap", LOW, HIGH - LOW, NoObj, 0)
          /\ UNCHANGED <<brk, crashed>>

Next == Mmap \/ Munmap \/ Brk \/ Exit

Spec == Init /\ [][Next]_vars

-----------------------------------------------------------------------------
(* The object chain below an object, and the objects some area reaches.  *)
RECURSIVE ChainOf(_)
ChainOf(o) == IF o \in ObjIds THEN {o} \cup ChainOf(mo[o].shadowed) ELSE {}

Reachable == UNION {ChainOf(vmm[i].obj) : i \in DOMAIN vmm}

(* Who holds a reference on an object: areas, shadow objects over it,   *)
(* its resident frames, and for the file object its vnode.              *)
Holders(o) ==
  Cardinality({i \in DOMAIN vmm : vmm[i].obj = o})
  + Cardinality({s \in Live(mo) : mo[s].shadowed = o})
  + NRes(mo, o)
  + (IF o = FileObj THEN 1 ELSE 0)

(* The address space as the process sees it: the backing of every page. *)
MemOf(map) ==
  [p \in Pages |-> LET i == VmmapLookup(map, p) IN
                   IF i = 0 THEN <<>>
                   ELSE <<map[i].obj, map[i].off + p - map[i].start>>]

-----------------------------------------------------------------------------
(* Properties.                                                           *)

TypeOK ==
  /\ vmm \in Seq([start : Nat, end : Nat, off : Nat, obj : ObjIds \cup {Garbage},
                  shared : BOOLEAN, prot : {RW}])
  /\ \A o \in ObjIds : /\ mo[o].kind \in Kinds
                      /\ mo[o].ref \in Nat
                      /\ mo[o].shadowed \in ObjIds \cup {NoObj}
  /\ brk \in Nat
  /\ exited \in BOOLEAN /\ crashed \in BOOLEAN

(* Spec 3/8: within the map, areas are non-empty, inside the user range, *)
(* in ascending order and pairwise disjoint, after any sequence of mmap  *)
(* (MAP_FIXED replacing what was there), munmap splitting and trimming, *)
(* and brk growing an area in place (vmmap_insert, vmmap_remove, do_brk).*)
MapWellFormed ==
  /\ \A i \in DOMAIN vmm : LOW <= vmm[i].start /\ vmm[i].start < vmm[i].end
                          /\ vmm[i].end <= HIGH
  /\ \A i \in 1..(Len(vmm) - 1) : vmm[i].end <= vmm[i + 1].start

(* Spec 3: every object's reference count is exactly the number of its   *)
(* holders (areas, shadow objects over it, its frames, the vnode), after *)
(* the splits of vmmap_remove case 1 (ref for the new tail), the puts of *)
(* case 4, and the objects vmmap_map creates.  A holder is anything that *)
(* stores a pointer to the object, a shadow object that shadow_put has   *)
(* left allocated included; that it is never freed is NoLeak's question. *)
RefCountExact == \A o \in Live(mo) : mo[o].ref = Holders(o)

(* The last call did what it was asked, page for page: mmap (and brk     *)
(* growing the heap) backs every page of its range by its new area's     *)
(* object, munmap (and brk shrinking, and exit) leaves every page of its *)
(* range unmapped.  vmmap_remove must handle all four overlap cases of  *)
(* every area it meets, and vmmap_insert must not drop the area.         *)
CallEffect ==
  \A p \in Pages : lastCall.lo <= p /\ p < lastCall.lo + lastCall.n =>
    LET i == VmmapLookup(vmm, p) IN
    IF lastCall.name = "munmap" THEN i = 0
    ELSE i # 0 /\ vmm[i].obj = lastCall.obj

(* vmmap_find_range agrees, on every reachable map, with first fit over  *)
(* the free runs of the user range: the lowest (LOHI) or highest (HILO)  *)
(* start of npages free pages, and a negative result when there is none, *)
(* including for more pages than the user range holds.                   *)
FreeStarts(map, n) ==
  {s \in Pages : s + n <= HIGH /\
                 \A i \in DOMAIN map : map[i].end <= s \/ map[i].start >= s + n}

FindRangeCorrect ==
  \A n \in 1..(HIGH + 1), dir \in {"LOHI", "HILO"} :
    LET r == VmmapFindRange(vmm, n, dir)
        F == FreeStarts(vmm, n)
    IN  IF F = {} THEN r < 0
        ELSE r = IF dir = "LOHI" THEN Min(F) ELSE Max(F)

(* vmmap_is_range_empty agrees with disjointness from every area, for   *)
(* every range that satisfies its KASSERT.                                *)
IsRangeEmptyCorrect ==
  \A s \in Pages, n \in 1..(HIGH - LOW) :
    IsRangeEmptyPre(s, n) =>
      (VmmapIsRangeEmpty(vmm, s, n) <=>
         \A i \in DOMAIN vmm : vmm[i].end <= s \/ vmm[i].start >= s + n)

(* Every step changes the address space the way the abstract one does:  *)
(* one contiguous run of pages backed by consecutive pages of one object *)
(* or one run unmapped, nothing else.  It fails if a split or trim in   *)
(* vmmap_remove gets vma_off wrong or touches pages outside the range.   *)
MaxOff == HIGH + PAGE_SIZE * HIGH
AS == INSTANCE AbstractAddrSpace
        WITH Objs <- ObjIds \cup {Garbage}, InitMem <- MemOf(InitVmm), mem <- MemOf(vmm)
AbsRefinement == AS!Spec

(* Spec 3 and the header of anon_put/shadow_put: an object no area can  *)
(* reach any more is freed.  Unmapping a private area puts its shadow    *)
(* object, and that must release the anonymous object below it.          *)
NoLeak == \A o \in Live(mo) : o = FileObj \/ o \in Reachable

(* The kernel survives every sequence of mmap, munmap and brk calls with *)
(* legal arguments (brk to any address up to USER_MEM_HIGH).             *)
NoCrash == ~crashed

(* Spec 3 and the use of vma_off in handle_pagefault (a page number): an *)
(* mmap at file offset off backs its first page by page off/PAGE_SIZE of *)
(* the object.                                                           *)
MmapOffsetInPages ==
  lastCall.name = "mmap" =>
    vmm[VmmapLookup(vmm, lastCall.lo)].off = ADDR_TO_PN(lastCall.off)

=============================================================================
