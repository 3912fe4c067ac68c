-------------------------- MODULE AbstractAddrSpace --------------------------
(***************************************************************************)
(* What an address space promises its process, page by page: each user   *)
(* page is unmapped or backed by a page of some memory object.  A step   *)
(* either backs one contiguous run of pages by consecutive pages of one  *)
(* object (mmap, growing the break) or unmaps one contiguous run         *)
(* (munmap, shrinking the break, process exit); no other page changes.   *)
(***************************************************************************)
EXTENDS Integers, FiniteSets

CONSTANTS
  Pages,      \* the user pages
  Objs,       \* what a page can be backed by
  MaxOff,     \* the largest object page a page can be backed by
  InitMem     \* the address space the loader sets up

Unmapped == <<>>
Backing  == (Objs \X (0..MaxOff)) \cup {Unmapped}

VARIABLE mem

TypeOK == mem \in [Pages -> Backing]

Init == mem = InitMem

Run(lo, n) == {p \in Pages : lo <= p /\ p < lo + n}

(* The backing chosen for the first page of the run, <<object, page>>,  *)
(* fixes the backing of the rest.                                        *)
Map(lo, n) ==
  LET b == mem'[lo] IN
  /\ b \in (Objs \X (0..MaxOff))
  /\ mem' = [p \in Pages |-> IF p \in Run(lo, n) THEN <<b[1], b[2] + p - lo>> ELSE mem[p]]

Unmap(lo, n) ==
  mem' = [p \in Pages |-> IF p \in Run(lo, n) THEN Unmapped ELSE mem[p]]

Next == \E lo \in Pages, n \in 1..Cardinality(Pages) : Map(lo, n) \/ Unmap(lo, n)

Spec == Init /\ [][Next]_mem
=============================================================================
