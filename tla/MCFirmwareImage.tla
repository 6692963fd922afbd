-------------------------- MODULE MCFirmwareImage --------------------------
(***************************************************************************)
(* A small platform on which every check of add_chunk can fail: sixteen    *)
(* addresses, size_t and the heap so small that a fourth table growth and  *)
(* a third large chunk are refused.                                        *)
(***************************************************************************)
EXTENDS FirmwareImage

MCEntrySize == [t \in Tables |-> 1]
MCFirstCap == [t \in Tables |-> 1]

MCData == {<<>>, <<0>>, <<0, 0>>, <<0, 0, 0, 0, 0, 0, 0>>, <<0, 0, 0, 0, 0, 0, 0, 0>>}

=============================================================================
