-------------------------------- MODULE Cow --------------------------------
(***************************************************************************)
(* Copy-on-write across processes: the page fault handler                 *)
(* (vm/pagefault.c), the shadow object's lookuppage and fillpage           *)
(* (vm/shadow.c), anon_fillpage (vm/anon.c), do_fork's shadow pairs       *)
(* (proc/fork.c), munmap and exit, over several process slots that share *)
(* one object store.  The page table of a process maps a virtual page to *)
(* a frame, named by its object and page number, read-only or writable.  *)
(* A process writes through a writable entry; any other access faults.   *)
(*                                                                         *)
(* Processes run one at a time (one CPU, one thread each), and each call *)
(* below is one atomic step: the spec's single map-mutator discipline.   *)
(***************************************************************************)
EXTENDS VmMapOps

CONSTANTS
  Procs,      \* process slots
  InitProc,   \* the process that exists at the start
  Vals        \* the values a process stores (0 is the zero fill)

ASSUME InitProc \in Procs /\ 0 \notin Vals

VARIABLES
  alive,      \* the running processes
  vmm,        \* vmm[p]: p_vmmap of process p (<<>> for a free slot)
  mo,         \* the object store, shared by all processes
  pt          \* pt[p][v]: the page table entry of virtual page v

vars == <<alive, vmm, mo, pt>>

NoVal == -1                       \* the view of an unmapped page
NoPte == [obj |-> NoObj, pn |-> 0, wr |-> FALSE]
EmptyPt == [v \in Pages |-> NoPte]
Pte(o, n, w) == [obj |-> o, pn |-> n, wr |-> w]

RW == "rw"

(* The page of the area's object that backs virtual page v.              *)
PageNum(a, v) == a.off + v - a.start

(* The initial process: one private anonymous area over the user range, *)
(* shadow object 1 over anonymous object 2, as vmmap_map makes it; the  *)
(* file's object is held by its vnode.                                   *)
Init ==
  /\ alive = {InitProc}
  /\ vmm = [p \in Procs |->
              IF p = InitProc
              THEN <<[start |-> LOW, end |-> HIGH, off |-> 0, obj |-> 1,
                      shared |-> FALSE, prot |-> RW]>>
              ELSE <<>>]
  /\ mo = [o \in ObjIds |->
             CASE o = 1       -> [Created("shadow") EXCEPT !.shadowed = 2, !.bottom = 2]
               [] o = 2       -> Created("anon")
               [] o = FileObj -> Created("file")
               [] OTHER       -> FreeSlot]
  /\ pt = [p \in Procs |-> EmptyPt]

-----------------------------------------------------------------------------
(* The frame cache.  pframe_get returns the resident frame of (o, n), or *)
(* allocates one (a page and a reference on o) and has o's fillpage fill *)
(* it.  Frames are pinned once filled and never paged out.              *)
Install(m, o, n, x) ==
  [m EXCEPT ![o].res = @ @@ (n :> x), ![o].ref = @ + 1]

(* anon_fillpage: a zeroed page.                                         *)
AnonFillpage == 0

(* The loop of shadow_fillpage: from o's shadowed object, the first     *)
(* object with page n resident, or the last object of the chain.        *)
RECURSIVE FillSource(_, _, _)
FillSource(m, t, n) ==
  IF m[t].shadowed = NoObj \/ n \in DOMAIN m[t].res THEN t
  ELSE FillSource(m, m[t].shadowed, n)

RECURSIVE PframeGet(_, _, _), ShadowFillpage(_, _, _)

(* shadow_fillpage: pframe_get the source page found by the loop (which *)
(* fills the bottom object first when no shadow has it) and copy it.     *)
ShadowFillpage(m, o, n) ==
  LET src == FillSource(m, m[o].shadowed, n)
      m1  == PframeGet(m, src, n)
  IN  Install(m1, o, n, m1[src].res[n])

PframeGet(m, o, n) ==
  IF n \in DOMAIN m[o].res THEN m
  ELSE IF m[o].kind = "shadow" THEN ShadowFillpage(m, o, n)
  ELSE Install(m, o, n, AnonFillpage)

(* The loop of shadow_lookuppage: the first object from o down, among   *)
(* those with an mmo_shadowed, that has page n resident; NoObj if none. *)
MutLookScanTopOnly(m, t, n) ==
  IF m[t].shadowed = NoObj \/ n \notin DOMAIN m[t].res THEN NoObj ELSE t
RECURSIVE LookScan(_, _, _)
LookScan(m, t, n) ==
  IF m[t].shadowed = NoObj THEN NoObj
  ELSE IF n \in DOMAIN m[t].res THEN t
  ELSE LookScan(m, m[t].shadowed, n)

(* shadow_lookuppage: the frame found by the loop, else pframe_get of    *)
(* the bottom object.  For a write the frame must be o's own: when it   *)
(* is not, pframe_get(o, n) allocates one that fillpage copies.  The    *)
(* result is the new store and the object of the frame returned.        *)
ShadowLookuppage(m, o, n, forwrite) ==
  LET found == LookScan(m, o, n)
      sp    == IF found = NoObj THEN m[o].bottom ELSE found
      m1    == IF found = NoObj THEN PframeGet(m, sp, n) ELSE m
  IN  IF forwrite /\ sp # o THEN [mo |-> PframeGet(m1, o, n), obj |-> o]
      ELSE [mo |-> m1, obj |-> sp]

-----------------------------------------------------------------------------
(* pt_unmap_range over a set of pages of one page table.               *)
PtUnmap(ptp, S) == [v \in Pages |-> IF v \in S THEN NoPte ELSE ptp[v]]

(* proc_cleanup (on exit, or on a fault outside every area): the        *)
(* vmmap_destroy, whose vmmap_removes unmap the pages of every area.    *)
MutProcExitKeepPt(p) ==
  LET x == VmmapDestroy(vmm[p], mo) IN
  /\ ~x.ub /\ alive' = alive \ {p} /\ vmm' = [vmm EXCEPT ![p] = <<>>]
  /\ mo' = x.mo /\ UNCHANGED pt
ProcExit(p) ==
  LET x == VmmapDestroy(vmm[p], mo) IN
  /\ ~x.ub
  /\ alive' = alive \ {p}
  /\ vmm' = [vmm EXCEPT ![p] = <<>>]
  /\ mo' = x.mo
  /\ pt' = [pt EXCEPT ![p] = PtUnmap(pt[p], x.unmap)]

(* A store through a writable page table entry (the MMU).               *)
UserWrite(p, v, x) ==
  LET e == pt[p][v] IN
  /\ p \in alive
  /\ e.wr
  /\ mo' = [mo EXCEPT ![e.obj].res[e.pn] = x]
  /\ UNCHANGED <<alive, vmm, pt>>

(* handle_pagefault, for an access the page table does not allow: a     *)
(* missing entry, or a write to a read-only one.  Outside every area the *)
(* process exits with EFAULT.  Every area is read-write, so addr_perm    *)
(* passes.  With no shadowed object the frame is pframe_get of vma_obj, *)
(* else the object's lookuppage; the entry is writable only for a write *)
(* fault.                                                                *)
HandlePagefault(p, v, w) ==
  LET i == VmmapLookup(vmm[p], v)
      a == vmm[p][i]
      n == PageNum(a, v)
      r == IF mo[a.obj].shadowed = NoObj
           THEN [mo |-> PframeGet(mo, a.obj, n), obj |-> a.obj]
           ELSE ShadowLookuppage(mo, a.obj, n, w)
  IN
  /\ p \in alive
  /\ pt[p][v].obj = NoObj \/ (w /\ ~pt[p][v].wr)
  /\ IF i = 0 THEN ProcExit(p)
     ELSE /\ mo' = r.mo
          /\ pt' = [pt EXCEPT ![p][v] = Pte(r.obj, n, w)]
          /\ UNCHANGED <<alive, vmm>>

(* The shadow pair do_fork puts over a private area's object old: sh_p *)
(* and sh_c from shadow_create, both shadowing old, both with old's     *)
(* bottom object, and old ref'd once (the area's reference passes to    *)
(* sh_p).  The result is the store and the two new ids.                 *)
MutForkPairNoRef(m, old) ==
  LET sp == AllocId(m)
      m1 == [m EXCEPT ![sp] = Created("shadow")]
      sc == AllocId(m1)
      m2 == [m1 EXCEPT ![sc] = Created("shadow")]
  IN  [mo |-> [m2 EXCEPT ![sp].shadowed = old, ![sc].shadowed = old,
                         ![sp].bottom = m[old].bottom, ![sc].bottom = m[old].bottom],
       sp |-> sp, sc |-> sc]
MutForkPairBottomOfOld(m, old) ==
  LET sp == AllocId(m)
      m1 == [m EXCEPT ![sp] = Created("shadow")]
      sc == AllocId(m1)
      m2 == [m1 EXCEPT ![sc] = Created("shadow")]
  IN  [mo |-> Ref([m2 EXCEPT ![sp].shadowed = old, ![sc].shadowed = old,
                             ![sp].bottom = old, ![sc].bottom = old], old),
       sp |-> sp, sc |-> sc]
ForkPair(m, old) ==
  LET sp == AllocId(m)
      m1 == [m EXCEPT ![sp] = Created("shadow")]
      sc == AllocId(m1)
      m2 == [m1 EXCEPT ![sc] = Created("shadow")]
  IN  [mo |-> Ref([m2 EXCEPT ![sp].shadowed = old, ![sc].shadowed = old,
                             ![sp].bottom = m[old].bottom, ![sc].bottom = m[old].bottom], old),
       sp |-> sp, sc |-> sc]

(* The parent's pages do_fork unmaps for a private area a: the range    *)
(* PN_TO_ADDR(vma_start) to PN_TO_ADDR(vma_end).                         *)
MutParentUnmapShort(a) == PagesOf(a.start, a.end - 1)
ParentUnmap(a) == PagesOf(a.start, a.end)

(* One turn of do_fork's area loop over r = [mo, pm, cm, unmap]: the    *)
(* parent's map pm and the clone cm.  A private area gets a shadow pair *)
(* (sh_c for the child, sh_p for the parent) and its pages unmapped; a  *)
(* shared area's object is ref'd for the child.                          *)
ForkStep(r, i) ==
  LET old == r.pm[i].obj
      f   == ForkPair(r.mo, old)
  IN  IF r.pm[i].shared
      THEN [r EXCEPT !.mo = Ref(r.mo, old), !.cm[i].obj = old]
      ELSE [mo |-> f.mo, pm |-> [r.pm EXCEPT ![i].obj = f.sp],
            cm |-> [r.cm EXCEPT ![i].obj = f.sc],
            unmap |-> r.unmap \cup ParentUnmap(r.pm[i])]

RECURSIVE ForkAreas(_, _)
ForkAreas(r, i) == IF i > Len(r.pm) THEN r ELSE ForkAreas(ForkStep(r, i), i + 1)

(* do_fork: a free process slot, the cloned map with its shadow pairs,  *)
(* a fresh page directory for the child, and the parent's private pages *)
(* unmapped (tlb_flush_all).                                             *)
Fork(p) ==
  LET f == ForkAreas([mo |-> mo, pm |-> vmm[p], cm |-> VmmapClone(vmm[p]),
                       unmap |-> {}], 1) IN
  /\ p \in alive
  /\ CanAlloc(mo, 2 * Len(vmm[p]))
  /\ \E c \in Procs \ alive :
       /\ alive' = alive \cup {c}
       /\ vmm' = [vmm EXCEPT ![p] = f.pm, ![c] = f.cm]
       /\ mo' = f.mo
       /\ pt' = [pt EXCEPT ![p] = PtUnmap(pt[p], f.unmap), ![c] = EmptyPt]

(* do_munmap of n pages from page lo: vmmap_remove, whose pt_unmap_range *)
(* drops the page table entries of the removed pages.                    *)
Munmap(p, lo, n) ==
  LET x == VmmapRemove(vmm[p], mo, lo, n) IN
  /\ p \in alive
  /\ lo + n <= HIGH
  /\ ~x.ub
  /\ vmm' = [vmm EXCEPT ![p] = x.map]
  /\ mo' = x.mo
  /\ pt' = [pt EXCEPT ![p] = PtUnmap(pt[p], x.unmap)]
  /\ UNCHANGED alive

Exit(p) == p \in alive /\ ProcExit(p)

Next ==
  \E p \in Procs :
    \/ \E v \in Pages, x \in Vals : UserWrite(p, v, x)
    \/ \E v \in Pages, w \in BOOLEAN : HandlePagefault(p, v, w)
    \/ Fork(p)
    \/ \E lo \in Pages, n \in 1..(HIGH - LOW) : Munmap(p, lo, n)
    \/ Exit(p)

Spec == Init /\ [][Next]_vars

-----------------------------------------------------------------------------
(* What a process sees at a page: the contents of the first object of   *)
(* its area's chain with the page resident, else the bottom's zero fill. *)
RECURSIVE ValueIn(_, _)
ValueIn(o, n) ==
  IF n \in DOMAIN mo[o].res THEN mo[o].res[n]
  ELSE IF mo[o].shadowed = NoObj THEN AnonFillpage
  ELSE ValueIn(mo[o].shadowed, n)

View(p, v) ==
  LET i == VmmapLookup(vmm[p], v) IN
  IF i = 0 THEN NoVal ELSE ValueIn(vmm[p][i].obj, PageNum(vmm[p][i], v))

RECURSIVE ChainOf(_)
ChainOf(o) == IF o \in ObjIds THEN {o} \cup ChainOf(mo[o].shadowed) ELSE {}

RECURSIVE ChainEnd(_)
ChainEnd(o) == IF mo[o].shadowed = NoObj THEN o ELSE ChainEnd(mo[o].shadowed)

(* Who holds a reference: the areas of every process, the shadow         *)
(* objects over it, its resident frames, and the vnode of the file.     *)
Holders(o) ==
  Cardinality({<<p, i>> \in Procs \X (1..(HIGH - LOW)) :
                 i <= Len(vmm[p]) /\ vmm[p][i].obj = o})
  + Cardinality({s \in Live(mo) : mo[s].shadowed = o})
  + NRes(mo, o)
  + (IF o = FileObj THEN 1 ELSE 0)

TypeOK ==
  /\ alive \subseteq Procs
  /\ \A p \in Procs : p \notin alive => vmm[p] = <<>> /\ pt[p] = EmptyPt
  /\ \A p \in Procs, v \in Pages :
       pt[p][v] \in [obj : ObjIds \cup {NoObj}, pn : Nat, wr : BOOLEAN]
  /\ \A o \in ObjIds : mo[o].kind \in Kinds /\ mo[o].ref \in Nat
                       /\ \A n \in DOMAIN mo[o].res : mo[o].res[n] \in Vals \cup {0}

(* Every live object's mmo_refcount equals its holders, across all      *)
(* processes: do_fork's one ref of the old object for its two new       *)
(* shadows, and every frame pframe_get adds, must balance the puts.     *)
(* A holder is anything that stores a pointer to the object, a shadow   *)
(* object that shadow_put has left allocated included; that such a      *)
(* shadow is never freed is the question of AddrSpace's NoLeak.         *)
RefCountExact == \A o \in Live(mo) : mo[o].ref = Holders(o)

(* The mmo_bottom_obj that do_fork copies into a new shadow is the      *)
(* object at the end of its chain, where shadow_lookuppage sends the    *)
(* fill when no shadow has the page.                                     *)
BottomCorrect ==
  \A s \in Live(mo) : mo[s].kind = "shadow" => mo[s].bottom = ChainEnd(s)

(* Every page table entry of a running process names a resident frame   *)
(* of its area's chain, at the area's page for that address, holding    *)
(* what the process sees there: a read through the MMU returns what the *)
(* chain holds, after any sequence of faults, forks, stores and unmaps. *)
PteCoherent ==
  \A p \in alive, v \in Pages :
    LET e == pt[p][v]
        i == VmmapLookup(vmm[p], v)
    IN  e.obj # NoObj =>
          /\ i # 0
          /\ e.obj \in ChainOf(vmm[p][i].obj)
          /\ e.pn = PageNum(vmm[p][i], v)
          /\ e.pn \in DOMAIN mo[e.obj].res
          /\ mo[e.obj].res[e.pn] = View(p, v)

(* Copy-on-write is invisible: the views of all processes behave as     *)
(* ProcMemory, in which a store changes the storing process's page only,*)
(* fork copies the parent's memory, munmap and exit unmap, and faults   *)
(* change nothing.                                                       *)
Mem == [p \in Procs |-> [v \in Pages |-> View(p, v)]]
PM == INSTANCE ProcMemory
        WITH mem <- Mem, VPages <- Pages,
             InitMem <- [p \in Procs |-> [v \in Pages |->
                           IF p = InitProc THEN AnonFillpage ELSE NoVal]]
CowRefinement == PM!Spec
====
