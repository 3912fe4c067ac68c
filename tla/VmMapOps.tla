------------------------------ MODULE VmMapOps ------------------------------
(***************************************************************************)
(* The address-space map of src/vm-submit/kernel/vm/vmmap.c as operators  *)
(* on a map value.  A map (vmm_list) is a sequence of vm areas, records    *)
(*   [start, end, off, obj, shared, prot]                                  *)
(* for vma_start, vma_end (page numbers, end exclusive), vma_off (object  *)
(* page of vma_start), vma_obj, MAP_SHARED in vma_flags, and vma_prot.    *)
(* Every loop of vmmap.c is a RECURSIVE operator that walks the list in   *)
(* the code's order, with the code's early returns, so that the checks    *)
(* in the state-machine modules are about the code's algorithms and not  *)
(* about a restatement of what they should compute.                      *)
(***************************************************************************)
EXTENDS MmObj, SequencesExt

CONSTANTS
  LOW,        \* ADDR_TO_PN(USER_MEM_LOW)
  HIGH        \* ADDR_TO_PN(USER_MEM_HIGH)

ASSUME LOW \in Nat \ {0} /\ HIGH \in Nat /\ LOW < HIGH

(* uint32_t arithmetic, with a word narrowed to 16 bits: every page      *)
(* number of the model is far below 2^15, as USER_MEM_HIGH is below 2^31 *)
(* in the kernel, so wrap-around and the int conversion of a wrapped     *)
(* value behave as they do on 32 bits.                                    *)
(* Definitions named Mut... are mutants: each is a plausible coding error *)
(* in the definition that follows it, and some property must catch it.  *)

Word == 2^16
U(x) == x % Word
ToInt(x) == IF x >= Word \div 2 THEN x - Word ELSE x

Pages == LOW..(HIGH - 1)
PagesOf(lo, hi) == lo..(hi - 1)     \* the pages of [lo, hi)

(* vmmap_is_range_empty: one pass keeping vfnMemLow, the end of the      *)
(* previous area.                                                          *)
RECURSIVE MutEmptyScanEdge(_, _, _, _, _)
MutEmptyScanEdge(map, i, memLow, s, e) ==
  IF i > Len(map) THEN HIGH >= e /\ memLow <= s
  ELSE IF map[i].start > e /\ memLow <= s THEN TRUE
  ELSE IF map[i].start > s /\ map[i].start <= e THEN FALSE
  ELSE IF memLow > s THEN FALSE
  ELSE MutEmptyScanEdge(map, i + 1, map[i].end, s, e)

RECURSIVE EmptyScan(_, _, _, _, _)
EmptyScan(map, i, memLow, s, e) ==
  IF i > Len(map) THEN HIGH >= e /\ memLow <= s
  ELSE IF map[i].start >= e /\ memLow <= s THEN TRUE
  ELSE IF map[i].start > s /\ map[i].start < e THEN FALSE
  ELSE IF memLow > s THEN FALSE
  ELSE EmptyScan(map, i + 1, map[i].end, s, e)

VmmapIsRangeEmpty(map, s, n) == EmptyScan(map, 1, LOW, s, U(s + n))

(* Its KASSERT: startvfn < endvfn and the range inside the user range.   *)
IsRangeEmptyPre(s, n) == s < U(s + n) /\ LOW <= s /\ HIGH >= U(s + n)

(* vmmap_find_range, VMMAP_DIR_LOHI: first fit from the bottom.          *)
RECURSIVE MutLoHiScanOffByOne(_, _, _, _)
MutLoHiScanOffByOne(map, i, memLow, n) ==
  IF i > Len(map) THEN IF HIGH < n + memLow THEN -1 ELSE memLow
  ELSE IF n >= U(map[i].start - memLow) THEN MutLoHiScanOffByOne(map, i + 1, map[i].end, n)
  ELSE memLow

RECURSIVE LoHiScan(_, _, _, _)
LoHiScan(map, i, memLow, n) ==
  IF i > Len(map) THEN IF HIGH < n + memLow THEN -1 ELSE memLow
  ELSE IF n > U(map[i].start - memLow) THEN LoHiScan(map, i + 1, map[i].end, n)
  ELSE memLow

(* VMMAP_DIR_HILO: the list walked in reverse from the top.  The final   *)
(* memHighAddr - npages is unsigned and is returned through an int.      *)
RECURSIVE HiLoScan(_, _, _, _)
HiLoScan(map, i, memHigh, n) ==
  IF i = 0 THEN IF LOW > U(memHigh - n) THEN -1 ELSE ToInt(U(memHigh - n))
  ELSE IF n > U(memHigh - map[i].end) THEN HiLoScan(map, i - 1, map[i].start, n)
  ELSE ToInt(U(memHigh - n))

VmmapFindRange(map, n, dir) ==
  IF dir = "LOHI" THEN LoHiScan(map, 1, LOW, n) ELSE HiLoScan(map, Len(map), HIGH, n)

(* vmmap_lookup: the index of the first area covering vfn, 0 if none.   *)
VmmapLookup(map, vfn) ==
  LET hits == {i \in 1..Len(map) : map[i].start <= vfn /\ map[i].end > vfn}
  IN  IF hits = {} THEN 0 ELSE Min(hits)

(* vmmap_insert: returns silently when the range is taken, else links    *)
(* the area before the first one that does not start below its end.     *)
MutVmmapInsertAppend(map, vma) ==
  IF ~VmmapIsRangeEmpty(map, vma.start, vma.end - vma.start) THEN map
  ELSE Append(map, vma)
VmmapInsert(map, vma) ==
  LET later == {i \in 1..Len(map) : ~(map[i].start < vma.end)}
  IN  IF ~VmmapIsRangeEmpty(map, vma.start, vma.end - vma.start) THEN map
      ELSE IF later = {} THEN Append(map, vma)
      ELSE InsertAt(map, Min(later), vma)

(* vmmap_clone: the same areas with no memory object yet.               *)
VmmapClone(map) == [i \in DOMAIN map |-> [map[i] EXCEPT !.obj = NoObj]]

(* vmmap_remove.  The outcome is the new map, the new object store, the  *)
(* pages whose translations pt_unmap_range removed, and ub when the code *)
(* calls ref or put through a vma_obj that was never initialised.        *)
Result(map, mo, unmap, ub) == [map |-> map, mo |-> mo, unmap |-> unmap, ub |-> ub]

(* Case 1: the range lies inside the area: shorten it to end at lopage, *)
(* link a new tail area from the range's end with vma_off advanced, ref *)
(* the object once more for the tail, unmap the range, return.          *)
MutRemoveCase1NoRef(map, mo, i, lo, fin, unmap) ==
  LET a == map[i] IN
  IF a.obj \notin ObjIds THEN Result(map, mo, unmap, TRUE)
  ELSE Result(VmmapInsert([map EXCEPT ![i].end = lo],
                          [a EXCEPT !.start = fin, !.off = a.off + fin - a.start]),
              mo, unmap \cup PagesOf(lo, fin), FALSE)
RemoveCase1(map, mo, i, lo, fin, unmap) ==
  LET a == map[i] IN
  IF a.obj \notin ObjIds THEN Result(map, mo, unmap, TRUE)
  ELSE Result(VmmapInsert([map EXCEPT ![i].end = lo],
                          [a EXCEPT !.start = fin, !.off = a.off + fin - a.start]),
              Ref(mo, a.obj), unmap \cup PagesOf(lo, fin), FALSE)

(* Case 2: the range covers the end of the area: vma_end becomes lopage *)
(* and the pages from lopage to the old end are unmapped.                *)
MutRemoveCase2OffByOne(map, i, lo) == [map EXCEPT ![i].end = lo + 1]
RemoveCase2(map, i, lo) == [map EXCEPT ![i].end = lo]

(* Case 3: the range covers the start of the area: advance vma_off and  *)
(* vma_start to the range's end, unmap the trimmed pages, return.       *)
MutRemoveCase3NoOff(map, mo, i, lo, fin, unmap) ==
  Result([map EXCEPT ![i].start = fin], mo, unmap \cup PagesOf(map[i].start, fin), FALSE)
MutRemoveCase3Swapped(map, mo, i, lo, fin, unmap) ==
  Result([map EXCEPT ![i].off = map[i].off + map[i].start - fin, ![i].start = fin],
         mo, unmap \cup PagesOf(map[i].start, fin), FALSE)
RemoveCase3(map, mo, i, lo, fin, unmap) ==
  Result([map EXCEPT ![i].off = map[i].off + fin - map[i].start, ![i].start = fin],
         mo, unmap \cup PagesOf(map[i].start, fin), FALSE)

(* vmmap_remove: the four cases, tested in the code's order, for each   *)
(* area in list order; cases 1 and 3 return, cases 2 and 4 go on.  Case *)
(* 4 unlinks the area (list iteration survives the removal), puts its   *)
(* object and goes on with the area that followed it.                   *)
RECURSIVE RemoveScan(_, _, _, _, _, _)
RemoveScan(map, mo, i, lo, fin, unmap) ==
  IF i > Len(map) THEN Result(map, mo, unmap, FALSE)
  ELSE LET a == map[i] IN
  IF fin < a.end /\ lo > a.start THEN RemoveCase1(map, mo, i, lo, fin, unmap)
  ELSE IF lo < a.end /\ lo > a.start THEN
    RemoveScan(RemoveCase2(map, i, lo), mo, i + 1, lo, fin,
               unmap \cup PagesOf(lo, a.end))
  ELSE IF fin < a.end /\ fin > a.start THEN RemoveCase3(map, mo, i, lo, fin, unmap)
  ELSE IF fin >= a.end /\ lo <= a.start THEN
    IF a.obj \notin ObjIds THEN Result(map, mo, unmap, TRUE)
    ELSE RemoveScan(RemoveAt(map, i), Put(mo, a.obj), i, lo, fin,
                    unmap \cup PagesOf(a.start, a.end))
  ELSE RemoveScan(map, mo, i + 1, lo, fin, unmap)

VmmapRemove(map, mo, lo, n) == RemoveScan(map, mo, 1, lo, lo + n, {})

(* vmmap_destroy: vmmap_remove of each area in list order.              *)
RECURSIVE VmmapDestroy(_, _)
VmmapDestroy(map, mo) ==
  IF map = <<>> THEN Result(map, mo, {}, FALSE)
  ELSE LET x == VmmapRemove(map, mo, map[1].start, map[1].end - map[1].start)
           y == VmmapDestroy(x.map, x.mo)
       IN  IF x.ub THEN x ELSE [y EXCEPT !.unmap = @ \cup x.unmap]

(* vmmap_map for a non-zero lopage (every caller in the repository       *)
(* passes one: do_mmap resolves the address itself).  An occupied range  *)
(* is first removed.  A shared area takes the object the vnode mmap      *)
(* operation returns (a reference), or, for MAP_ANON, nothing: vma_obj  *)
(* is left uninitialised.  A private area gets a new shadow object over  *)
(* a new anonymous object, or over the file's object.                    *)
VmmapMap(map, mo, file, lo, n, prot, shared, off) ==
  LET rm   == IF VmmapIsRangeEmpty(map, lo, n) THEN Result(map, mo, {}, FALSE)
              ELSE VmmapRemove(map, mo, lo, n)
      vma  == [start |-> lo, end |-> lo + n, off |-> off, obj |-> NoObj,
               shared |-> shared, prot |-> prot]
      s    == AllocId(rm.mo)
      mo1  == [rm.mo EXCEPT ![s] = Created("shadow")]
      a    == AllocId(mo1)
      bot  == IF file THEN FileObj ELSE a
      mo2  == IF file THEN Ref(mo1, FileObj) ELSE [mo1 EXCEPT ![a] = Created("anon")]
      priv == [mo2 EXCEPT ![s].shadowed = bot, ![s].bottom = bot]
  IN  IF rm.ub THEN rm
      ELSE IF shared /\ file THEN
        Result(VmmapInsert(rm.map, [vma EXCEPT !.obj = FileObj]),
               Ref(rm.mo, FileObj), rm.unmap, FALSE)
      ELSE IF shared THEN
        Result(VmmapInsert(rm.map, [vma EXCEPT !.obj = Garbage]), rm.mo, rm.unmap, FALSE)
      ELSE Result(VmmapInsert(rm.map, [vma EXCEPT !.obj = s]), priv, rm.unmap, FALSE)
=============================================================================
