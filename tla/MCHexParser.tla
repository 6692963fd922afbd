---------------------------- MODULE MCHexParser ----------------------------
(***************************************************************************)
(* A small Intel HEX: bytes of three bits, so record types 3, 6 and 7 are  *)
(* unsupported ones, 64 offsets, paragraphs of four bytes.  The lines are  *)
(* one of each kind the parser tells apart, most with a correct checksum.  *)
(***************************************************************************)
EXTENDS HexParser

MCByte == 0 .. 7
MCEntrySize == [t \in Tables |-> 1]
MCFirstCap == [t \in Tables |-> 3]

Rec(type, offset, data) ==
  LET raw == [form |-> "record", type |-> type, offset |-> offset,
              data |-> data, checksum |-> 0]
  IN  [raw EXCEPT !.checksum = CHOOSE c \in MCByte : (RecordSum(raw) + c) % 8 = 0]

Corrupt(l) == [l EXCEPT !.checksum = (@ + 1) % 8]

MCLines ==
  {[form |-> "blank"], [form |-> "long"], [form |-> "garbled"],
   Rec(0, 3, <<1, 2>>), Rec(0, 63, <<7>>), Rec(0, 1, <<>>),
   Corrupt(Rec(0, 63, <<7>>)),
   Rec(1, 0, <<>>), Rec(1, 3, <<>>),
   Rec(2, 0, <<1, 2>>), Rec(4, 0, <<7, 7>>),
   Rec(5, 0, <<1, 2, 3, 4>>), Rec(3, 0, <<>>)}

=============================================================================
