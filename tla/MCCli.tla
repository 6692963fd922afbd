------------------------------- MODULE MCCli -------------------------------
(***************************************************************************)
(* Addresses of four bits, sizes of three (of four in MCCliChunk.cfg);     *)
(* every option in both its forms, and arguments that are a number, a      *)
(* format name, a negative number (an unknown option unless it is a        *)
(* value), empty and too long.                                             *)
(***************************************************************************)
EXTENDS Cli

MCNumberIn ==
  [t \in {"", "=", "fw", "hex", "bin", "0", "5", "12", "99", "-3", "-x", "long"} |->
     CASE t = "0" -> 0 [] t = "5" -> 5 [] t = "12" -> 12 [] t = "99" -> 99
       [] t = "-3" -> -3 [] OTHER -> NoNumber]

MCFormatNamed ==
  [t \in Texts |-> IF t \in {"hex", "bin"} THEN t ELSE "unknown"]

MCTextLength ==
  [t \in Texts |-> CASE t = "" -> 0 [] t = "long" -> 4 [] t \in {"fw", "12", "99"} -> 2
                     [] t \in {"hex", "bin"} -> 3 [] OTHER -> 1]

A(kind, text) == [kind |-> kind, text |-> text]

MCArgs ==
  {A("help", "-x"), A("version", "-x"), A("heatmap", "-x"),
   A("format", "-x"), A("format=", "bin"), A("format=", "fw"),
   A("base", "-x"), A("base=", "5"), A("base=", "99"),
   A("chunk", "-x"), A("chunk=", "0"), A("chunk=", "5"), A("chunk=", "-3"),
   A("path", ""), A("path", "fw"), A("path", "hex"), A("path", "12"), A("path", "long"),
   A("unknown", "-3"), A("unknown", "-x")}

=============================================================================
