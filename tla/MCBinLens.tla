----------------------------- MODULE MCBinLens -----------------------------
(***************************************************************************)
(* The whole program on HEX files of up to five lines whose data records   *)
(* overlap, adjoin and leave a gap, and on raw files of up to three bytes. *)
(* Any allocation, read or seek may fail.                                  *)
(***************************************************************************)
EXTENDS BinLens, Functions

MCByte == 0 .. 7
MCEntrySize == [t \in Tables |-> 1]
MCFirstCap == [t \in Tables |-> 1]

\* A record with the checksum that makes the sum of its bytes a multiple of 8.
Rec(type, offset, data) ==
  LET sum == Len(data) + (offset \div 8) + (offset % 8) + type
               + FoldFunction(+, 0, data)
  IN  [form |-> "record", type |-> type, offset |-> offset, data |-> data,
       checksum |-> (8 - (sum % 8)) % 8]

MCLines ==
  {[form |-> "garbled"],
   Rec(0, 8, <<1, 2>>), Rec(0, 9, <<3>>), Rec(0, 9, <<2, 4>>), Rec(0, 7, <<7>>),
   Rec(0, 7, <<>>), Rec(2, 0, <<0, 1>>), Rec(5, 0, <<1, 2, 3, 4>>), Rec(1, 0, <<>>)}

MCContents == {<<>>, <<1>>, <<0, 1, 7>>}

Command(accepted, extension, format, address, flags) ==
  [accepted |-> accepted, extension |-> extension, format |-> format,
   base |-> address, flags |-> flags]

MCCommands ==
  {Command(TRUE, "ihex", "auto", 13, {}),
   Command(TRUE, "bin", "hex", 0, {}),
   Command(TRUE, "bin", "auto", 0, {}),
   Command(TRUE, "hex", "bin", 13, {}),
   Command(TRUE, "none", "auto", 0, {}),
   Command(TRUE, "other", "auto", 0, {"help"}),
   Command(TRUE, "hex", "auto", 0, {"version"}),
   Command(FALSE, "none", "auto", 0, {})}

=============================================================================
