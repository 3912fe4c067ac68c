----------------------------- MODULE MC_VfsFirst -----------------------------
(* Small instances of VfsFirst: the paths of MC_VfsVm and the empty one. *)
EXTENDS VfsFirst

P(abs, toks) == [abs |-> abs, toks |-> toks]
MC_Paths ==
  { P(TRUE, <<>>), P(FALSE, <<>>), P(FALSE, <<"a">>), P(FALSE, <<"b">>),
    P(FALSE, <<"a", "b">>), P(FALSE, <<"..">>), P(FALSE, <<"a", "">>) }
MC_Names == {"a", "b"}
=============================================================================
