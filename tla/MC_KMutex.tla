------------------------------ MODULE MC_KMutex ------------------------------
(* Three kernel threads on one mutex, as in the kernel's mutex tests.     *)
EXTENDS KMutex

CONSTANTS t1, t2, t3

MC_Threads == {t1, t2, t3}
====
