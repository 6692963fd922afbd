---------------------------- MODULE MCLineReader ----------------------------
(***************************************************************************)
(* A buffer of four bytes and every file of up to six characters.        *)
(***************************************************************************)
EXTENDS LineReader

MCFiles == UNION {[1 .. n -> Char] : n \in 0 .. 6}

MCRecords == {<<"x">>, <<"x", "x">>}

=============================================================================
