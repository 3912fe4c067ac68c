---------------------------- MODULE MC_My402List ----------------------------
(***************************************************************************)
(* Four cells and three transactions, two of them with the same time, so  *)
(* that full lists, lists holding one object twice, and the duplicate-time *)
(* branch of sorting() all occur.                                          *)
(***************************************************************************)
EXTENDS My402Sort, TLC

CONSTANTS c1, c2, c3, c4, t1, t2, t3

MC_Elems == {c1, c2, c3, c4}

MC_Objs == {t1, t2, t3}

MC_TimeOf == (t1 :> 2) @@ (t2 :> 1) @@ (t3 :> 1)
=============================================================================
