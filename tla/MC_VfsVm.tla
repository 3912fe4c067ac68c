------------------------------ MODULE MC_VfsVm ------------------------------
(* Small instances of VfsVm (the cfg gives two process slots, two       *)
(* p_files slots, one file_t, two inodes: the root and one more), two   *)
(* names.  The paths reach the branches of dir_namev and open_namev:    *)
(* "/", a name, a name under a name, "..", and a trailing "/" (the      *)
(* empty last component).  The empty path is in MC_VfsFirst only.       *)
EXTENDS VfsVm

P(abs, toks) == [abs |-> abs, toks |-> toks]
MC_Paths ==
  { P(TRUE, <<>>), P(FALSE, <<"a">>), P(FALSE, <<"b">>),
    P(FALSE, <<"a", "b">>), P(FALSE, <<"..">>),
    P(FALSE, <<"a", "">>) }
MC_Names == {"a", "b"}
=============================================================================
