--------------------------- MODULE MCVectorTable ---------------------------
(***************************************************************************)
(* Bytes of one bit, so that a word counts to 15 and every table of eight  *)
(* bytes can be tried; SRAM is 8..11, the flash base 4.  Regions lie before*)
(* and around the common addresses, apart, and at the last address.        *)
(***************************************************************************)
EXTENDS VectorTable

Bits(n) == [1 .. n -> {0, 1}]

At(start, bytes) == [start |-> start, end |-> start + Len(bytes) - 1, bytes |-> bytes]

Code == <<0, 0, 0>>

Tables ==
  {<<0, 0, 0, 1, 1, 0, 0, 0>>, <<0, 1, 0, 1, 1, 0, 1, 0>>,
   <<0, 0, 0, 0, 0, 0, 0, 1>>, <<1, 1, 1, 1, 0, 1, 1, 1>>}

MCLayouts ==
  {<<>>}
    \* one table at address 0, at the flash base, before it, and at the end
    \cup {<<At(s, t \o Code)>> : s \in {0, 2, 4}, t \in Bits(8)}
    \cup {<<At(24, t)>> : t \in Bits(8)}
    \* fewer than eight bytes
    \cup {<<At(s, t)>> : s \in {4, 25}, t \in Bits(7)}
    \* equal and unequal tables at 0 and behind a gap, and a byte apart
    \cup {<<At(0, t), At(9, u)>> : t \in Tables, u \in Bits(8)}
    \cup {<<At(0, t), At(9, <<1>>), At(11, u)>> : t, u \in Tables}

=============================================================================
