----------------------------- MODULE HexParser -----------------------------
(***************************************************************************)
(* bl_hex_parse_file (src/hex_parser.c): read an Intel HEX file line by    *)
(* line into a firmware image and keep statistics.  The file is chosen as  *)
(* it is read: each fgets returns any line of Lines, the end of the file,  *)
(* or a read error.  A caller may parse several files into one image.      *)
(*                                                                         *)
(* A line is what the lexical checks leave of it: "long" and "garbled"     *)
(* stand for every line they refuse (no ':', too short, a non-hex digit, a *)
(* length other than byte_count says), and a "record" has its fields read, *)
(* with the checksum still to be compared.  byte_count is Len(data).       *)
(***************************************************************************)
EXTENDS FirmwareImage, FiniteSets, Functions

CONSTANTS
  ByteBase,   \* 256, the number of values of a byte
  Paragraph,  \* 16, the unit of an extended segment address
  Lines,      \* the lines a file may hold
  MaxLines,   \* bound on the lines of one file
  MaxPrior    \* bound on the chunks of an image a file is parsed into

\* One more than the largest 16-bit offset.
Word == ByteBase * ByteBase

Line ==
  [form : {"blank", "long", "garbled"}]
    \cup [form : {"record"}, type : 0 .. ByteBase - 1, offset : 0 .. Word - 1,
          data : Seq(0 .. ByteBase - 1), checksum : 0 .. ByteBase - 1]

ASSUME HexAssumption ==
  /\ ByteBase \in Nat /\ ByteBase > 5
  /\ Byte = 0 .. ByteBase - 1
  /\ Paragraph \in 1 .. Word
  /\ Word * Word + ByteBase <= AddrMax
  /\ Lines \subseteq Line
  /\ \A l \in Lines : l.form = "record" => Len(l.data) < ByteBase
  /\ MaxLines \in Nat /\ MaxPrior \in Nat

VARIABLES
  pc,      \* "idle" between calls, "reading" in the fgets loop
  base,    \* address_base
  stats,   \* BlHexParseStats
  diag,    \* what the diagnostic of the last call is about
  result,  \* what the last call returned
  missing, \* history: the argument of the last call that was NULL, or none
  seen,    \* history: the lines the call has read
  prior    \* history: the chunks and bytes the image held at the call

callVars == <<pc, base, stats, diag, result, missing, seen, prior>>
vars == <<imageVars, callVars>>

StatsInit ==
  [lines |-> 0, records |-> 0, dataRecords |-> 0, dataBytes |-> 0,
   sawEof |-> FALSE, hasStart |-> FALSE, start |-> <<>>]

NothingPrior == [chunks |-> 0, bytes |-> 0]

Init ==
  /\ ImageInit
  /\ pc = "idle"
  /\ base = 0
  /\ stats = StatsInit
  /\ diag = "none"
  /\ result = "none"
  /\ missing = "none"
  /\ seen = <<>>
  /\ prior = NothingPrior

-----------------------------------------------------------------------------
(* One record.                                                             *)

AddressBytes(l) == <<l.offset \div ByteBase, l.offset % ByteBase>>

Total(bytes) == FoldFunction(+, 0, bytes)

RecordSum(l) == Len(l.data) + Total(AddressBytes(l)) + l.type + Total(l.data)

\* Mutant: the complement of a sum of zero is 256 and not 0.
ChecksumOKWide(l) == l.checksum = ByteBase - (RecordSum(l) % ByteBase)

ChecksumOK(l) ==
  l.checksum = (ByteBase - (RecordSum(l) % ByteBase)) % ByteBase

\* The 16-bit operand of an extended address record.
Operand(l) == l.data[1] * ByteBase + l.data[2]

\* Mutant: a linear address is added to the base before it.
NewBaseAdds(l) ==
  IF l.type = 2 THEN Operand(l) * Paragraph ELSE base + Operand(l) * Word

\* Mutant: a linear address is shifted by three bytes and not by two.
NewBaseWide(l) ==
  IF l.type = 2 THEN Operand(l) * Paragraph ELSE Operand(l) * Word * ByteBase

NewBase(l) == IF l.type = 2 THEN Operand(l) * Paragraph ELSE Operand(l) * Word

\* The length and address a control record must have.
ShapeOK(l) ==
  CASE l.type = 0 -> TRUE
    [] l.type = 1 -> l.data = <<>> /\ l.offset = 0
    [] l.type \in {2, 4} -> Len(l.data) = 2 /\ l.offset = 0
    [] l.type = 5 -> Len(l.data) = 4 /\ l.offset = 0
    [] OTHER -> FALSE

-----------------------------------------------------------------------------
(* The call: arguments and fopen.                                          *)

Begin(null) ==
  /\ pc = "idle"
  /\ Len(chunks) <= MaxPrior
  /\ missing' = null
  /\ seen' = <<>>
  /\ prior' = [chunks |-> Len(chunks), bytes |-> totalLoaded]
  /\ base' = 0
  /\ UNCHANGED imageVars

InvalidArgument ==
  \E null \in {"path", "image", "stats"} :
    /\ Begin(null)
    /\ stats' = IF null = "stats" THEN stats ELSE StatsInit
    /\ diag' = "argument"
    /\ result' = "failed"
    /\ UNCHANGED pc

OpenFails ==
  /\ Begin("none")
  /\ stats' = StatsInit
  /\ diag' = "open"
  /\ result' = "failed"
  /\ UNCHANGED pc

\* Mutant: the statistics of the file before are not reset.
OpenKeepsStats ==
  /\ Begin("none")
  /\ stats' = [stats EXCEPT !.sawEof = FALSE]
  /\ diag' = "none"
  /\ result' = "none"
  /\ pc' = "reading"

Open ==
  /\ Begin("none")
  /\ stats' = StatsInit
  /\ diag' = "none"
  /\ result' = "none"
  /\ pc' = "reading"

-----------------------------------------------------------------------------
(* The fgets loop: one action per way a line leaves it.                    *)

\* Every line read is counted, also the one that fails.
Read(l) ==
  /\ pc = "reading"
  /\ Len(seen) < MaxLines
  /\ seen' = Append(seen, l)

Counted == [stats EXCEPT !.lines = @ + 1]
CountedRecord == [Counted EXCEPT !.records = @ + 1]

Continue == UNCHANGED <<pc, diag, result, missing, prior>>

Fail(about) ==
  /\ FreeImage
  /\ pc' = "idle"
  /\ diag' = about
  /\ result' = "failed"
  /\ base' = 0
  /\ prior' = NothingPrior
  /\ UNCHANGED missing

SkipBlank(l) ==
  /\ Read(l)
  /\ l.form = "blank"
  /\ stats' = Counted
  /\ Continue
  /\ UNCHANGED <<imageVars, base>>

\* Mutant: lines after the EOF record are parsed like any other.
RefusedBeforeSwitchAnywhere(l) ==
  \/ l.form \in {"long", "garbled"}
  \/ l.form = "record" /\ ~ChecksumOK(l)

RefusedBeforeSwitch(l) ==
  \/ l.form = "long"
  \/ l.form # "blank" /\ stats.sawEof
  \/ l.form = "garbled"
  \/ l.form = "record" /\ ~ChecksumOK(l)

RefuseLine(l) ==
  /\ Read(l)
  /\ RefusedBeforeSwitch(l)
  /\ stats' = Counted
  /\ Fail("syntax")

Dispatched(l) ==
  /\ Read(l)
  /\ l.form = "record"
  /\ ~RefusedBeforeSwitch(l)

RefuseRecord(l) ==
  /\ Dispatched(l)
  /\ ~ShapeOK(l)
  /\ stats' = CountedRecord
  /\ Fail("syntax")

StartOf(l) == WrapAddr(base + l.offset)

DataRecord(l) ==
  /\ Dispatched(l)
  /\ l.type = 0
  /\ \/ AddChunkEmpty(l.data)
     \/ AddChunkStored(StartOf(l), l.data, stats.lines + 1)
  /\ stats' = [CountedRecord EXCEPT !.dataRecords = @ + 1,
                                    !.dataBytes = WrapSize(@ + Len(l.data))]
  /\ Continue
  /\ UNCHANGED base

\* add_chunk fails; what it did to the image is freed with the rest.
DataRecordFails(l) ==
  /\ Dispatched(l)
  /\ l.type = 0
  /\ l.data # <<>>
  /\ stats' = CountedRecord
  /\ Fail("resource")

EofRecord(l) ==
  /\ Dispatched(l)
  /\ l.type = 1 /\ ShapeOK(l)
  /\ stats' = [CountedRecord EXCEPT !.sawEof = TRUE]
  /\ Continue
  /\ UNCHANGED <<imageVars, base>>

AddressRecord(l) ==
  /\ Dispatched(l)
  /\ l.type \in {2, 4} /\ ShapeOK(l)
  /\ base' = NewBase(l)
  /\ stats' = CountedRecord
  /\ Continue
  /\ UNCHANGED imageVars

StartRecord(l) ==
  /\ Dispatched(l)
  /\ l.type = 5 /\ ShapeOK(l)
  /\ stats' = [CountedRecord EXCEPT !.hasStart = TRUE, !.start = l.data]
  /\ Continue
  /\ UNCHANGED <<imageVars, base>>

-----------------------------------------------------------------------------
(* fgets returns NULL: a read error, or the end of the file.               *)

ReadError ==
  /\ pc = "reading"
  /\ Fail("io")
  /\ UNCHANGED <<stats, seen>>

MissingEof ==
  /\ pc = "reading"
  /\ ~stats.sawEof
  /\ Fail("no eof")
  /\ UNCHANGED <<stats, seen>>

Succeed ==
  /\ pc = "reading"
  /\ stats.sawEof
  /\ pc' = "idle"
  /\ result' = "ok"
  /\ base' = 0
  /\ UNCHANGED <<imageVars, stats, diag, missing, seen, prior>>

\* The caller frees the image and forgets the call.
CallerFrees ==
  /\ pc = "idle"
  /\ FreeImage
  /\ seen' = <<>>
  /\ prior' = NothingPrior
  /\ result' = "none"
  /\ diag' = "none"
  /\ UNCHANGED <<pc, base, stats, missing>>

ReadLine ==
  \E l \in Lines :
    \/ SkipBlank(l) \/ RefuseLine(l) \/ RefuseRecord(l)
    \/ DataRecord(l) \/ DataRecordFails(l)
    \/ EofRecord(l) \/ AddressRecord(l) \/ StartRecord(l)

Next ==
  \/ InvalidArgument \/ OpenFails \/ Open
  \/ ReadLine \/ ReadError \/ MissingEof \/ Succeed
  \/ CallerFrees

Spec == Init /\ [][Next]_vars

-----------------------------------------------------------------------------
(* What an Intel HEX file means, said without the parser's state.          *)

IsRecord(l, types) == l.form = "record" /\ l.type \in types

\* All the bytes of a sound record add up to zero in a byte.
SumsToZero(l) == (RecordSum(l) + l.checksum) % ByteBase = 0

ValidLine(l) ==
  \/ l.form = "blank"
  \/ l.form = "record" /\ SumsToZero(l) /\ ShapeOK(l)

\* Valid lines, with nothing but blank lines after the EOF record.
ValidPrefix(s) ==
  /\ \A k \in 1 .. Len(s) : ValidLine(s[k])
  /\ \A k, m \in 1 .. Len(s) : k < m /\ IsRecord(s[k], {1}) => s[m].form = "blank"

HasEof(s) == \E k \in 1 .. Len(s) : IsRecord(s[k], {1})

\* The base the last address record before line k sets.
BaseAt(s, k) ==
  LET earlier == {m \in 1 .. k - 1 : IsRecord(s[m], {2, 4})}
      last == CHOOSE m \in earlier : \A n \in earlier : n <= m
  IN  IF earlier = {} THEN 0
      ELSE Operand(s[last]) * (IF s[last].type = 2 THEN Paragraph ELSE Word)

\* The record types the parser supports, and the records of some of them.
Supported == {0, 1, 2, 4, 5}
RecordLines(s, types) == {k \in 1 .. Len(s) : IsRecord(s[k], types)}

\* What the file says of itself: its records, and the entry point its last
\* start record gives.
Describes(s, st) ==
  /\ st.records = Cardinality(RecordLines(s, Supported))
  /\ st.dataRecords = Cardinality(RecordLines(s, {0}))
  /\ st.hasStart <=> RecordLines(s, {5}) # {}
  /\ \A k \in RecordLines(s, {5}) :
       st.start = s[k].data \/ \E m \in RecordLines(s, {5}) : k < m

\* The lines that carry bytes.
DataLines(s) == {k \in 1 .. Len(s) : IsRecord(s[k], {0}) /\ s[k].data # <<>>}

InCall == pc = "reading" \/ result = "ok"

-----------------------------------------------------------------------------
(* Properties.                                                             *)

\* The type of every variable.
TypeOK ==
  /\ ImageTypeOK
  /\ pc \in {"idle", "reading"}
  /\ base \in 0 .. Word * Word
  /\ stats \in [lines : Nat, records : Nat, dataRecords : Nat, dataBytes : 0 .. SizeMax,
                sawEof : BOOLEAN, hasStart : BOOLEAN, start : Seq(0 .. ByteBase - 1)]
  /\ diag \in {"none", "argument", "open", "io", "syntax", "no eof", "resource"}
  /\ result \in {"none", "ok", "failed"}
  /\ missing \in {"none", "path", "image", "stats"}
  /\ seen \in Seq(Lines)
  /\ prior \in [chunks : Nat, bytes : Nat]

\* The image holds what it held before the call and then one chunk per data
\* line, in file order, at the base the latest address record set, numbered by
\* its line (hex_parser.c:253-301): a base never leaks from the file before, and
\* neither kind of address record adds to the other.
ChunksMatchRecords ==
  InCall =>
    /\ Len(chunks) = prior.chunks + Cardinality(DataLines(seen))
    /\ \A k \in DataLines(seen) :
         LET at == prior.chunks + Cardinality(DataLines(SubSeq(seen, 1, k)))
             start == BaseAt(seen, k) + seen[k].offset
         IN  chunks[at] = [start |-> start, end |-> start + Len(seen[k].data) - 1,
                           bytes |-> seen[k].data, line |-> k]

\* The statistics of a call are those of the lines it read and agree with what
\* it did to the image, also one that was not empty; a call that fails once the
\* file is open leaves an empty image and the number of the last line it read
\* (hex_parser.c:149, 249, 253-264, 312-315, 346-349).
StatsMatchImage ==
  /\ InCall =>
       /\ Describes(seen, stats)
       /\ stats.lines = Len(seen)
       /\ stats.dataBytes = totalLoaded - prior.bytes
  /\ result = "failed" /\ diag \notin {"argument", "open"} =>
       stats.lines = Len(seen) /\ chunks = <<>> /\ totalLoaded = 0

\* A file the parser accepts is valid: every record sums to zero and has its
\* type's shape, and one EOF record comes last (hex_parser.c:166-172, 240-247, 336).
AcceptsOnlyValid == result = "ok" => ValidPrefix(seen) /\ HasEof(seen)

\* The parser blames the file only when the file is at fault: a line it refuses
\* is the first at which the file stops being a valid one, and is the line the
\* message names; and it misses the EOF record only of a file that has none
\* (hex_parser.c:144-346).
SyntaxErrorsAreReal ==
  /\ diag = "syntax" =>
       /\ ~ValidPrefix(seen)
       /\ ValidPrefix(SubSeq(seen, 1, Len(seen) - 1))
       /\ stats.lines = Len(seen)
  /\ diag = "no eof" => ValidPrefix(seen) /\ ~HasEof(seen)

\* No record can make add_chunk refuse it for its address: whatever base the
\* file set, base, offset and length stay inside the address space
\* (hex_parser.c:255, 289, 301 and firmware_image.c:99).
RecordsStayInAddressSpace ==
  pc = "reading" =>
    \A l \in Lines : IsRecord(l, {0}) /\ l.data # <<>> =>
      /\ StartOf(l) = base + l.offset
      /\ ~AddressOverflows(StartOf(l), Len(l.data))

\* The header calls the statistics object optional (hex_parser.h:25): a call
\* with a path and an image is not refused for its arguments.
StatsObjectIsOptional == diag = "argument" => missing # "stats"

=============================================================================
