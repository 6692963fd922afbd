------------------------------ MODULE MCMemMap ------------------------------
(***************************************************************************)
(* Small instances of MemMap, with its buffers grown step by step, for    *)
(* TLC.  Three chunks that can nest, adjoin, overlap, leave a gap of one   *)
(* byte or end on the last address (start 30).  A tail of 15 bytes behind  *)
(* two needs 17: doubling 2 gives 16 and then wraps.  Every table starts   *)
(* with one entry, so the second and the third push grow it; any request   *)
(* may be refused.                                                         *)
(***************************************************************************)
EXTENDS BufferGrowth

MCByte == {0, 1}
MCEntrySize == [t \in Tables |-> IF t = "chunks" THEN 2 ELSE 3]
MCFirstCap == [t \in Tables |-> 1]

MCLong == [k \in 1 .. 15 |-> k % 2]
MCData == {<<>>, <<0>>, <<0, 1>>, <<0, 0>>, MCLong}
MCStarts == {0, 1, 3, 30}

=============================================================================
