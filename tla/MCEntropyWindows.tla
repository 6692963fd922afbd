-------------------------- MODULE MCEntropyWindows --------------------------
(***************************************************************************)
(* size_t of four bits and blocks of at most seven bytes, with every window*)
(* size of the platform; rows of two symbols.  One layout ends on the last *)
(* address.                                                                *)
(***************************************************************************)
EXTENDS EntropyWindows

MCRegion(start, length) ==
  [start |-> start, end |-> start + length - 1, bytes |-> [k \in 1 .. length |-> 0]]

MCLayouts ==
  {<<>>} \cup {<<MCRegion(0, m)>> : m \in 1 .. 7}
         \cup {<<MCRegion(3, m), MCRegion(24, n)>> : m \in 1 .. 5, n \in {1, 2, 7}}
         \cup {<<MCRegion(0, 5), MCRegion(6, 1), MCRegion(30 - m, m + 2)>> : m \in 0 .. 5}

=============================================================================
