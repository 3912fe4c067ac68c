---------------------------- MODULE MC_AddrSpace ----------------------------
(* Small instance of AddrSpace: four user pages of two bytes, one data   *)
(* page, six object slots (the last is the file's object).                *)
EXTENDS AddrSpace

MC_ObjIds == 1..6
MC_MmapAddrs == {2, 4, 6, 8}     \* pages 1..4
MC_MmapLens == {1, 2, 4}         \* 1 byte is rounded up to a page
=============================================================================
