------------------------------- MODULE MC_Cow -------------------------------
(* Small instances of Cow.  Seven object slots, the last the file's: the *)
(* loader's shadow and anonymous objects leave four, enough for two      *)
(* forks, since a shadow object is never freed (shadow_put's counter).  *)
EXTENDS Cow

MC_ObjIds == 1..7
MC_Procs2 == {1, 2}
MC_Procs3 == {1, 2, 3}
=============================================================================
