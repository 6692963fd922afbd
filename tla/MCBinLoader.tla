---------------------------- MODULE MCBinLoader ----------------------------
(***************************************************************************)
(* A file that grows, shrinks and changes its bytes between five contents, *)
(* one of them larger than the largest block; bases that fit and that run  *)
(* past the last address.                                                  *)
(***************************************************************************)
EXTENDS BinLoader

MCEntrySize == [t \in Tables |-> 1]
MCFirstCap == [t \in Tables |-> 1]

MCContents == {<<>>, <<1>>, <<0, 1>>, <<1, 0, 1>>, <<0, 0, 0, 0, 0>>}

=============================================================================
