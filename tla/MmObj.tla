------------------------------- MODULE MmObj -------------------------------
(***************************************************************************)
(* The memory objects of the Weenix VM layer (src/vm-submit/kernel/vm/    *)
(* anon.c, shadow.c): anonymous and shadow objects, plus the file object  *)
(* a vnode supplies.  An object store is a function from object ids to    *)
(* records; this module defines the object operations as operators on a  *)
(* store, so that the address-space and copy-on-write modules share one  *)
(* definition of ref/put/create.                                          *)
(*                                                                         *)
(*   kind     : "none" (slab slot free), "anon", "shadow" or "file"       *)
(*   ref      : mmo_refcount                                               *)
(*   shadowed : mmo_shadowed (NoObj for a bottom object)                   *)
(*   bottom   : mmo_un.mmo_bottom_obj of a shadow (NoObj otherwise)        *)
(*   res      : the resident pages, mmo_respages: a function from the     *)
(*              page numbers resident in the object to their contents;    *)
(*              Cardinality(DOMAIN res) is mmo_nrespages.                  *)
(*                                                                         *)
(* The frame cache (pframe.c) is not in the repository.  As the header   *)
(* comments of anon_put/shadow_put require, a resident frame holds one    *)
(* reference on its object: allocating a frame adds a page and a          *)
(* reference, pframe_free drops both.                                      *)
(***************************************************************************)
EXTENDS Integers, FiniteSets

CONSTANTS
  ObjIds,     \* slab slots for memory objects (a finite set of positive ints)
  FileObj     \* the id of the object the vnode mmap operation returns

NoObj   == 0      \* NULL
Garbage == -1     \* an uninitialised vma_obj pointer

ASSUME FileObj \in ObjIds /\ NoObj \notin ObjIds /\ Garbage \notin ObjIds

Kinds == {"none", "anon", "shadow", "file"}

FreeSlot == [kind |-> "none", ref |-> 0, shadowed |-> NoObj,
             bottom |-> NoObj, res |-> <<>>]

NRes(mo, o) == Cardinality(DOMAIN mo[o].res)

Live(mo) == {o \in ObjIds : mo[o].kind # "none"}

\* slab_obj_alloc: some free slot (the lowest, the slab is deterministic);
\* CanAlloc(mo, k) says k slots are still free.
CanAlloc(mo, k) == Cardinality({o \in ObjIds : mo[o].kind = "none"}) >= k
AllocId(mo) == CHOOSE o \in ObjIds : mo[o].kind = "none"
                                     /\ \A p \in ObjIds :
                                          mo[p].kind = "none" => o <= p

(* anon_create / shadow_create: mmobj_init and a reference count of 1.    *)
Created(kind) == [FreeSlot EXCEPT !.kind = kind, !.ref = 1]

(* anon_ref / shadow_ref (and the vnode's vref for a file object).        *)
Ref(mo, o) == [mo EXCEPT ![o].ref = @ + 1]

(* anon_put and shadow_put.  Both decrement the count and, when it falls  *)
(* to the number of resident pages, unpin and free every resident frame  *)
(* (each pframe_free drops the frame's reference).  anon_put then frees  *)
(* the object, since its static counter temp_c is back to 0.  shadow_put *)
(* decrements its static counter num before each pframe_free, so num is   *)
(* 0 after the loop and the branch that puts mmo_shadowed and frees the   *)
(* object is never taken.  A file object's put is the vnode's vput.       *)
AnonPut(mo, o) ==
  IF mo[o].ref - 1 = NRes(mo, o) THEN [mo EXCEPT ![o] = FreeSlot]
  ELSE [mo EXCEPT ![o].ref = @ - 1]

ShadowPut(mo, o) ==
  IF mo[o].ref - 1 = NRes(mo, o) THEN [mo EXCEPT ![o].ref = 0, ![o].res = <<>>]
  ELSE [mo EXCEPT ![o].ref = @ - 1]

\* mmo_ops->put, by the object's kind; vput for the file object.
Put(mo, o) ==
  CASE mo[o].kind = "anon"   -> AnonPut(mo, o)
    [] mo[o].kind = "shadow" -> ShadowPut(mo, o)
    [] OTHER                 -> [mo EXCEPT ![o].ref = @ - 1]

=============================================================================
