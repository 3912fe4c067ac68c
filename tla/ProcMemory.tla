----------------------------- MODULE ProcMemory -----------------------------
(***************************************************************************)
(* What the VM layer promises the processes (spec sections 3 and 4): each *)
(* process sees its own memory, a function from its virtual pages to      *)
(* values.  A store by a process changes that process's page and no other *)
(* process's; fork gives the child a copy of the parent's memory;         *)
(* munmap and exit make pages unmapped.  Page faults, fills and copies   *)
(* are invisible here.                                                   *)
(***************************************************************************)
EXTENDS Naturals

CONSTANTS
  Procs,     \* process slots
  VPages,    \* virtual page numbers
  Vals,      \* values a process stores
  NoVal,     \* an unmapped page
  InitMem    \* the memory of every slot at the start

Unmapped == [v \in VPages |-> NoVal]

VARIABLE mem

Init == mem = InitMem

(* The steps, over the memory before (m) and after (n) the step.        *)
Store(m, n, p, v) ==
  /\ m[p][v] # NoVal
  /\ n[p][v] \in Vals
  /\ n = [m EXCEPT ![p][v] = n[p][v]]

Fork(m, n, p, c) ==
  /\ m[c] = Unmapped
  /\ n = [m EXCEPT ![c] = m[p]]

(* munmap of some pages, or exit and a fault on an unmapped page, which *)
(* unmap all of them: each page of p keeps its value or is unmapped.    *)
Unmap(m, n, p) ==
  /\ \A v \in VPages : n[p][v] \in {m[p][v], NoVal}
  /\ n = [m EXCEPT ![p] = n[p]]

Next ==
  LET m == mem
      n == mem'
  IN  \E p \in Procs :
        \/ \E v \in VPages : Store(m, n, p, v)
        \/ \E c \in Procs \ {p} : Fork(m, n, p, c)
        \/ Unmap(m, n, p)

Spec == Init /\ [][Next]_mem
====
