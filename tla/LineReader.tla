----------------------------- MODULE LineReader -----------------------------
(***************************************************************************)
(* The line reader of bl_hex_parse_file (src/hex_parser.c): fgets into a   *)
(* buffer of BufferSize bytes, the length taken with strlen, the check for *)
(* a line that does not fit, and strip_line_ending.  HexParser starts from *)
(* its result, lines that are blank, long, garbled or a record.            *)
(*                                                                         *)
(* The file is a sequence of characters of which only newline, carriage    *)
(* return and NUL matter here; which texts pass the lexical checks of a    *)
(* record is the parameter Records.                                        *)
(***************************************************************************)
EXTENDS Integers, Sequences, FiniteSets

CONSTANTS
  BufferSize,  \* BL_HEX_MAX_LINE, 1024
  Text,        \* the characters with no meaning to the reader
  Records,     \* the texts that are records
  Files        \* the files

Char == Text \cup {"nl", "cr", "nul"}

ASSUME ReaderAssumption ==
  /\ BufferSize \in Nat /\ BufferSize > 2
  /\ Text \cap {"nl", "cr", "nul"} = {}
  /\ Records \subseteq Seq(Text)
  /\ <<>> \notin Records
  /\ \A f \in Files : f \in Seq(Char)

VARIABLES
  file,    \* the characters of the file
  pos,     \* how many of them fgets has consumed
  count,   \* stats->line_count
  state,   \* "reading", or why the loop ended: "long", "garbled", "error", "end"
  handed   \* history: the records found, with where they begin and their line

vars == <<file, pos, count, state, handed>>

Init ==
  /\ file \in Files
  /\ pos = 0
  /\ count = 0
  /\ state = "reading"
  /\ handed = <<>>

-----------------------------------------------------------------------------
\* The last position fgets reads: through a newline, to a full buffer or the end.
LastRead ==
  CHOOSE n \in pos + 1 .. Len(file) :
    /\ n - pos <= BufferSize - 1
    /\ \A m \in pos + 1 .. n - 1 : file[m] # "nl"
    /\ n = Len(file) \/ n - pos = BufferSize - 1 \/ file[n] = "nl"

Buffer == SubSeq(file, pos + 1, LastRead)

\* What strlen and every later use see of a buffer.
CString(s) ==
  LET ends == {n \in 1 .. Len(s) : s[n] = "nul"}
  IN  IF ends = {} THEN s ELSE SubSeq(s, 1, (CHOOSE n \in ends : \A m \in ends : n <= m) - 1)

\* Mutant: a full buffer passes, and the rest of its line is the next line.
TooLongNever(s) == Len(s) = BufferSize

\* Mutant: a line whose newline just fits is refused.
TooLongAtNewline(s) == Len(s) = BufferSize - 1

TooLong(s) == Len(s) = BufferSize - 1 /\ s[Len(s)] # "nl"

StripLineEnding(s) ==
  LET kept == {0} \cup {n \in 1 .. Len(s) : s[n] \notin {"nl", "cr"}}
  IN  SubSeq(s, 1, CHOOSE n \in kept : \A m \in kept : m <= n)

Stripped == StripLineEnding(CString(Buffer))

-----------------------------------------------------------------------------
(* The fgets loop, one action per way a line leaves it.                    *)

ReadLine ==
  /\ state = "reading"
  /\ pos < Len(file)
  /\ pos' = LastRead
  /\ count' = count + 1
  /\ UNCHANGED file

RefuseLong ==
  /\ ReadLine
  /\ TooLong(CString(Buffer))
  /\ state' = "long"
  /\ UNCHANGED handed

SkipBlank ==
  /\ ReadLine
  /\ ~TooLong(CString(Buffer))
  /\ Stripped = <<>>
  /\ UNCHANGED <<state, handed>>

RefuseGarbled ==
  /\ ReadLine
  /\ ~TooLong(CString(Buffer))
  /\ Stripped \notin Records \cup {<<>>}
  /\ state' = "garbled"
  /\ UNCHANGED handed

HandRecord ==
  /\ ReadLine
  /\ ~TooLong(CString(Buffer))
  /\ Stripped \in Records
  /\ handed' = Append(handed, [text |-> Stripped, from |-> pos + 1, line |-> count + 1])
  /\ UNCHANGED state

ReadError ==
  /\ state = "reading"
  /\ state' = "error"
  /\ UNCHANGED <<file, pos, count, handed>>

EndOfFile ==
  /\ state = "reading"
  /\ pos = Len(file)
  /\ state' = "end"
  /\ UNCHANGED <<file, pos, count, handed>>

Next ==
  \/ RefuseLong \/ SkipBlank \/ RefuseGarbled \/ HandRecord
  \/ ReadError \/ EndOfFile

Spec == Init /\ [][Next]_vars

-----------------------------------------------------------------------------
(* What a line of a text file is, said without the reader.                 *)

\* The line a position is on, counting from 1.
LineOf(p) == 1 + Cardinality({q \in 1 .. p - 1 : file[q] = "nl"})

\* The positions of the line that p is on.
LineAt(p) == {q \in 1 .. Len(file) : LineOf(q) = LineOf(p)}

TextOfLine(p) ==
  LET start == CHOOSE q \in LineAt(p) : \A x \in LineAt(p) : q <= x
      end == CHOOSE q \in LineAt(p) : \A x \in LineAt(p) : x <= q
  IN  StripLineEnding(SubSeq(file, start, end))

NoNulBefore(p) == \A q \in 1 .. p : file[q] # "nul"

-----------------------------------------------------------------------------
(* Properties.                                                             *)

\* In a file without NUL every record handed on is a whole line of the file
\* and carries its line number: the two halves of a line that does not fit are
\* never read as two lines (hex_parser.c:135, 149-158).
RecordsAreWholeLines ==
  \A n \in 1 .. Len(handed) :
    LET h == handed[n]
    IN  NoNulBefore(pos) =>
          /\ h.line = LineOf(h.from)
          /\ h.from = 1 \/ file[h.from - 1] = "nl"
          /\ h.text = TextOfLine(h.from)

\* Whatever the file, a line that leaves room for its newline in the buffer is
\* not called too long (hex_parser.c:152).
LongLinesAreLong ==
  state = "long" => Cardinality({p \in LineAt(pos) : file[p] # "nl"}) >= BufferSize - 1

\* The comment above the function says that the length check catches extra data
\* on a line (hex_parser.c:83-84).
ExtraDataIsCaught ==
  \A n \in 1 .. Len(handed) :
    Len(handed[n].text) = Cardinality({p \in LineAt(handed[n].from) : file[p] \in Text})

=============================================================================
