--------------------------- MODULE BinLensProofs ---------------------------
(***************************************************************************)
(* The whole program frees every block it allocates exactly once, tells    *)
(* the outcome in its exit status, sorts chunks of which no two compare    *)
(* equal, and prints what the file says and nothing else, for every        *)
(* command, file, width and failing call.                                  *)
(*                                                                         *)
(* ProgramInv follows main's stages: what each finds of the image, the     *)
(* buffer, the region under assembly and the diagnostic of the call before *)
(* it.  That no two chunks compare equal rests on their lines: the HEX     *)
(* parser gives each chunk the number of a line it has not used before,    *)
(* and the raw loader stores one chunk.                                    *)
(*                                                                         *)
(* FileInv, for the report, carries through the stages what the proof      *)
(* modules of the parser, the loader and the map prove of each part alone: *)
(* every step main takes inside a callee is a step of that callee, the     *)
(* table a loader hands to the map is that of a valid file, and the layout *)
(* of that table is what the file says.                                    *)
(*                                                                         *)
(* HeapInv, for the blocks, weighs the calls of each step against what it  *)
(* does to the owning fields.  It needs both: the capacity of a table grows*)
(* from zero or the push makes no block, and the builder's buffer is there *)
(* from the start of a region to its end.                                  *)
(***************************************************************************)
EXTENDS BinLens, FiniteSetTheorems, SequenceTheorems, TLAPS

-----------------------------------------------------------------------------
(* The inductive invariant.                                                *)

NoLayout(caps, rs) == rs = <<>> /\ \A t \in Tables \ {"chunks"} : caps[t] = 0

NoImage(caps, rs, cs) == NoLayout(caps, rs) /\ caps["chunks"] = 0 /\ cs = <<>>

\* The fields the sort compares are numbers, and no line is used twice.
LinesDiffer(cs) ==
  /\ \A p \in 1 .. Len(cs) :
       cs[p].start \in Int /\ cs[p].end \in Int /\ cs[p].line \in Int
  /\ \A p, q \in 1 .. Len(cs) : p # q => cs[p].line # cs[q].line

LinesUpTo(cs, n) == \A p \in 1 .. Len(cs) : cs[p].line <= n

Running == status = 0 /\ report = NoReport

Accepted == command.accepted /\ ~WantsText /\ ResolvedFormat # "auto"

Closed == open = FALSE /\ buffer = FALSE

\* What a stage that calls knows of the call: none runs once one has returned.
Returned ==
  /\ result # "none" => pc = "idle" /\ Closed
  /\ result = "failed" => diag # "none"

AtStart ==
  stage = "start" =>
    /\ Running
    /\ NoImage(capacity, regions, chunks)
    /\ Closed /\ builder.cap = 0
    /\ pc = "idle" /\ result = "none"

AtLoad ==
  stage = "load" =>
    /\ Running /\ Accepted /\ Returned
    /\ builder.cap = 0
    /\ pc = "idle" => Closed
    /\ pc = "idle" /\ result = "none" => NoImage(capacity, regions, chunks)

InHexLoad ==
  stage = "load" /\ ResolvedFormat = "hex" =>
    /\ Closed
    /\ pc # "idle" => /\ base \in Int
                      /\ "lines" \in DOMAIN stats /\ stats.lines \in Nat
                      /\ LinesUpTo(chunks, stats.lines)

InBinLoad ==
  stage = "load" /\ ResolvedFormat = "bin" =>
    /\ result = "none" => NoImage(capacity, regions, chunks)
    /\ pc # "idle" => base \in Int /\ size \in Int /\ got \in Seq(Byte)

AtMap ==
  stage = "map" =>
    /\ Running /\ Accepted /\ Returned /\ Closed
    /\ pc = "idle" => builder.cap = 0
    /\ pc # "idle" => Len(chunks) # 0

AtExit ==
  stage = "exit" =>
    /\ NoImage(capacity, regions, chunks) /\ Closed /\ builder.cap = 0
    /\ StatusTellsTheOutcome

ProgramInv ==
  /\ \E S : chunks \in Seq(S)
  /\ \E S : regions \in Seq(S)
  /\ disk \in Contents
  /\ LinesDiffer(chunks)
  /\ AtStart /\ AtLoad /\ InHexLoad /\ InBinLoad /\ AtMap /\ AtExit

-----------------------------------------------------------------------------
(* main before and after its calls.                                        *)

LEMMA SameCommand ==
  ASSUME command' = command
  PROVE  /\ WantsText' = WantsText /\ ResolvedFormat' = ResolvedFormat /\ Accepted' = Accepted
         /\ ReadAsHex' = ReadAsHex /\ FormatUnknown' = FormatUnknown
BY DEF WantsText, ResolvedFormat, Accepted, ReadAsHex, FormatUnknown

\* What main resolves is what the command asks for.
LEMMA FormatTold ==
  /\ ReadAsHex <=> ResolvedFormat = "hex"
  /\ FormatUnknown <=> ResolvedFormat = "auto"
<1>1. CASE command.format # "auto"
  <2>1. ResolvedFormat = command.format
    BY <1>1 DEF ResolvedFormat
  <2>2. (ReadAsHex <=> command.format = "hex") /\ ~FormatUnknown
    BY <1>1 DEF ReadAsHex, FormatUnknown
  <2> QED
    BY <1>1, <2>1, <2>2
<1>2. CASE command.format = "auto" /\ command.extension \in {"hex", "ihex"}
  <2>1. ResolvedFormat = "hex"
    BY <1>2 DEF ResolvedFormat
  <2> QED
    BY <1>2, <2>1 DEF ReadAsHex, FormatUnknown
<1>3. CASE command.format = "auto" /\ command.extension = "bin"
  <2>1. ResolvedFormat = "bin"
    BY <1>3 DEF ResolvedFormat
  <2> QED
    BY <1>3, <2>1 DEF ReadAsHex, FormatUnknown
<1>4. CASE command.format = "auto" /\ command.extension \notin {"hex", "ihex", "bin"}
  <2>1. ResolvedFormat = "auto"
    BY <1>4 DEF ResolvedFormat
  <2> QED
    BY <1>4, <2>1 DEF ReadAsHex, FormatUnknown
<1> QED
  BY <1>1, <1>2, <1>3, <1>4

LEMMA FreedImage ==
  ASSUME FreeImage
  PROVE  /\ NoImage(capacity', regions', chunks') /\ LinesDiffer(chunks')
         /\ \E S : chunks' \in Seq(S)
         /\ \E S : regions' \in Seq(S)
<1>1. NoImage(capacity', regions', chunks')
  BY DEF FreeImage, NoImage, NoLayout, Tables
<1>2. chunks' = <<>> /\ regions' = <<>>
  BY DEF FreeImage
<1>3. chunks' \in Seq({}) /\ regions' \in Seq({})
  BY <1>2
<1> QED
  BY <1>1, <1>2, <1>3 DEF LinesDiffer

LEMMA UsageErrorKeepsInv ==
  ASSUME ProgramInv, UsageError \/ PrintHelpOrVersion
  PROVE  ProgramInv'
<1>1. /\ stage = "start" /\ stage' = "exit"
      /\ UNCHANGED <<imageVars, command, report, heap, callVars>>
  BY DEF UsageError, PrintHelpOrVersion, Exit
<1>2. /\ chunks' = chunks /\ regions' = regions /\ capacity' = capacity
      /\ builder' = builder /\ buffer' = buffer /\ open' = open /\ disk' = disk /\ command' = command
      /\ report' = report
  BY <1>1 DEF imageVars, layoutVars, callVars, binVars, mapVars
<1>3. /\ NoImage(capacity, regions, chunks) /\ Closed /\ builder.cap = 0
      /\ report = NoReport
  BY <1>1 DEF ProgramInv, AtStart, Running
<1>4. NoImage(capacity', regions', chunks') /\ Closed' /\ builder'.cap = 0
  BY <1>2, <1>3 DEF Closed
<1>5. StatusTellsTheOutcome'
  <2>1. report'.printed = FALSE
    BY <1>2, <1>3 DEF NoReport
  <2>2. \/ ~command.accepted /\ status' = 2
        \/ command.accepted /\ WantsText /\ status' = 0
    BY DEF UsageError, PrintHelpOrVersion, Exit
  <2> QED
    BY <1>1, <1>2, <1>3, <2>1, <2>2, SameCommand DEF StatusTellsTheOutcome, Closed
<1>6. (\E S : chunks' \in Seq(S)) /\ (\E S : regions' \in Seq(S)) /\ LinesDiffer(chunks')
  BY <1>2 DEF ProgramInv
<1> QED
  BY <1>1, <1>2, <1>3, <1>4, <1>5, <1>6
  DEF ProgramInv, AtStart, AtLoad, InHexLoad, InBinLoad, AtMap, AtExit

LEMMA CannotInferKeepsInv ==
  ASSUME ProgramInv, CannotInfer
  PROVE  ProgramInv'
<1>1. /\ stage = "start" /\ stage' = "exit" /\ status' = 2
      /\ command.accepted /\ ~WantsText /\ ResolvedFormat = "auto"
      /\ FreeImage
      /\ UNCHANGED <<command, report, callVars>>
  BY DEF CannotInfer, Resolving, Exit
<1>2. /\ builder' = builder /\ buffer' = buffer /\ open' = open /\ disk' = disk /\ command' = command
      /\ report' = report
  BY <1>1 DEF callVars, binVars, mapVars
<1>3. Closed /\ builder.cap = 0 /\ report = NoReport
  BY <1>1 DEF ProgramInv, AtStart, Running
<1>4. /\ NoImage(capacity', regions', chunks') /\ LinesDiffer(chunks')
      /\ \E S : chunks' \in Seq(S)
      /\ \E S : regions' \in Seq(S)
  BY <1>1, FreedImage
<1>5. Closed' /\ builder'.cap = 0
  BY <1>2, <1>3 DEF Closed
<1>6. StatusTellsTheOutcome'
  <2>1. report'.printed = FALSE
    BY <1>2, <1>3 DEF NoReport
  <2> QED
    BY <1>1, <1>2, <1>3, <2>1, SameCommand, FormatTold DEF StatusTellsTheOutcome, Closed
<1> QED
  BY <1>1, <1>2, <1>4, <1>5, <1>6
  DEF ProgramInv, AtStart, AtLoad, InHexLoad, InBinLoad, AtMap, AtExit

LEMMA ResolveKeepsInv ==
  ASSUME ProgramInv, Resolve
  PROVE  ProgramInv'
<1>1. /\ stage = "start" /\ stage' = "load" /\ status' = status
      /\ command.accepted /\ ~WantsText /\ ResolvedFormat # "auto"
      /\ UNCHANGED <<imageVars, command, report, heap, callVars>>
  BY DEF Resolve, Resolving
<1>2. /\ chunks' = chunks /\ regions' = regions /\ capacity' = capacity
      /\ builder' = builder /\ buffer' = buffer /\ open' = open /\ disk' = disk /\ command' = command
      /\ report' = report /\ pc' = pc /\ result' = result
  BY <1>1 DEF imageVars, layoutVars, callVars, binVars, mapVars
<1>3. /\ Running /\ NoImage(capacity, regions, chunks) /\ Closed /\ builder.cap = 0
      /\ pc = "idle" /\ result = "none"
  BY <1>1 DEF ProgramInv, AtStart
<1>4. Accepted'
  BY <1>1, <1>2, SameCommand DEF Accepted
<1>5. Running' /\ Closed' /\ Returned' /\ NoImage(capacity', regions', chunks')
      /\ pc' = "idle" /\ result' = "none"
  BY <1>1, <1>2, <1>3 DEF Running, Closed, Returned
<1>6. AtLoad' /\ InHexLoad' /\ InBinLoad'
  BY <1>2, <1>3, <1>4, <1>5 DEF AtLoad, InHexLoad, InBinLoad
<1>7. (\E S : chunks' \in Seq(S)) /\ (\E S : regions' \in Seq(S)) /\ LinesDiffer(chunks')
  BY <1>2 DEF ProgramInv
<1> QED
  BY <1>1, <1>2, <1>6, <1>7 DEF ProgramInv, AtStart, AtMap, AtExit

LEMMA CallFailedKeepsInv ==
  ASSUME ProgramInv, CallFailed
  PROVE  ProgramInv'
<1>1. /\ stage \in {"load", "map"} /\ stage' = "exit" /\ status' = 1 /\ result = "failed"
      /\ FreeImage
      /\ UNCHANGED <<command, report, callVars>>
  BY DEF CallFailed, Exit
<1>2. /\ builder' = builder /\ buffer' = buffer /\ open' = open /\ disk' = disk /\ command' = command
      /\ report' = report /\ result' = result /\ diag' = diag
  BY <1>1 DEF callVars, binVars, mapVars
<1>3. /\ Closed /\ builder.cap = 0 /\ report = NoReport
      /\ diag # "none" /\ Accepted
  BY <1>1 DEF ProgramInv, AtLoad, AtMap, Running, Returned
<1>4. /\ NoImage(capacity', regions', chunks') /\ LinesDiffer(chunks')
      /\ \E S : chunks' \in Seq(S)
      /\ \E S : regions' \in Seq(S)
  BY <1>1, FreedImage
<1>5. Closed' /\ builder'.cap = 0
  BY <1>2, <1>3 DEF Closed
<1>6. StatusTellsTheOutcome'
  <2>1. report'.printed = FALSE
    BY <1>2, <1>3 DEF NoReport
  <2> QED
    BY <1>1, <1>2, <1>3, <2>1, SameCommand, FormatTold DEF StatusTellsTheOutcome, Closed, Accepted
<1> QED
  BY <1>1, <1>2, <1>4, <1>5, <1>6
  DEF ProgramInv, AtStart, AtLoad, InHexLoad, InBinLoad, AtMap, AtExit

LEMMA ReportKeepsInv ==
  ASSUME ProgramInv, Report
  PROVE  ProgramInv'
<1>1. /\ stage = "map" /\ stage' = "exit" /\ status' = 0 /\ result = "ok"
      /\ FreeImage
      /\ UNCHANGED <<command, callVars>>
      /\ report'.printed = TRUE
  BY DEF Report, Exit
<1>2. /\ builder' = builder /\ buffer' = buffer /\ open' = open /\ disk' = disk /\ command' = command
  BY <1>1 DEF callVars, binVars, mapVars
<1>3. Closed /\ builder.cap = 0 /\ Accepted
  BY <1>1 DEF ProgramInv, AtMap, Returned
<1>4. /\ NoImage(capacity', regions', chunks') /\ LinesDiffer(chunks')
      /\ \E S : chunks' \in Seq(S)
      /\ \E S : regions' \in Seq(S)
  BY <1>1, FreedImage
<1>5. Closed' /\ builder'.cap = 0
  BY <1>2, <1>3 DEF Closed
<1>6. StatusTellsTheOutcome'
  BY <1>1, <1>2, <1>3, SameCommand, FormatTold DEF StatusTellsTheOutcome, Closed, Accepted
<1> QED
  BY <1>1, <1>2, <1>4, <1>5, <1>6
  DEF ProgramInv, AtStart, AtLoad, InHexLoad, InBinLoad, AtMap, AtExit

LEMMA LoadedKeepsInv ==
  ASSUME ProgramInv, Loaded
  PROVE  ProgramInv'
<1>1. /\ stage = "load" /\ stage' = "map" /\ result = "ok" /\ result' = "none"
      /\ UNCHANGED <<imageVars, command, status, report, heap, pc, base, hexVars, binVars, mapVars>>
  BY DEF Loaded
<1>2. /\ chunks' = chunks /\ regions' = regions /\ capacity' = capacity
      /\ builder' = builder /\ buffer' = buffer /\ open' = open /\ disk' = disk /\ command' = command
      /\ report' = report /\ pc' = pc /\ status' = status
  BY <1>1 DEF imageVars, layoutVars, binVars, mapVars
<1>3. Running /\ Closed /\ builder.cap = 0 /\ pc = "idle" /\ Accepted
  BY <1>1 DEF ProgramInv, AtLoad, Returned
<1>4. AtMap'
  BY <1>1, <1>2, <1>3, SameCommand DEF AtMap, Running, Closed, Returned
<1>5. (\E S : chunks' \in Seq(S)) /\ (\E S : regions' \in Seq(S)) /\ LinesDiffer(chunks')
  BY <1>2 DEF ProgramInv
<1> QED
  BY <1>1, <1>2, <1>4, <1>5 DEF ProgramInv, AtStart, AtLoad, InHexLoad, InBinLoad, AtExit

-----------------------------------------------------------------------------
(* The HEX parser's call.                                                  *)

\* What both loaders leave of main's own state and of the map's.
LEMMA LoadingKeeps ==
  ASSUME ProgramInv, Loading
  PROVE  /\ stage = "load" /\ stage' = "load" /\ result = "none" /\ command' = command
         /\ Running' /\ Accepted' /\ ResolvedFormat' = ResolvedFormat
         /\ builder' = builder /\ builder'.cap = 0
<1>1. /\ stage = "load" /\ result = "none"
      /\ UNCHANGED <<command, stage, status, report, mapVars>>
  BY DEF Loading, Calling
<1>2. Running /\ Accepted /\ builder.cap = 0
  BY <1>1 DEF ProgramInv, AtLoad
<1> QED
  BY <1>1, <1>2, SameCommand DEF Running, mapVars

\* A chunk with a line no other has keeps the lines apart.
LEMMA AppendLine ==
  ASSUME NEW S, NEW cs \in Seq(S), NEW c, NEW n \in Int,
         LinesDiffer(cs), LinesUpTo(cs, n),
         c.start \in Int, c.end \in Int, c.line = n + 1
  PROVE  /\ LinesDiffer(Append(cs, c)) /\ LinesUpTo(Append(cs, c), n + 1)
         /\ Append(cs, c) \in Seq(S \cup {c})
<1> DEFINE ds == Append(cs, c)
<1>1. /\ ds \in Seq(S \cup {c}) /\ Len(cs) \in Nat /\ Len(ds) = Len(cs) + 1
      /\ \A p \in 1 .. Len(cs) : ds[p] = cs[p]
      /\ ds[Len(cs) + 1] = c
  OBVIOUS
<1> HIDE DEF ds
<1>2. PICK m \in Nat : m = Len(cs)
  BY <1>1
<1>3. \A p \in 1 .. Len(ds) : p \in 1 .. m \/ p = m + 1
  BY <1>1, <1>2
<1>4. \A p \in 1 .. m : ds[p] = cs[p] /\ cs[p].line \in Int /\ cs[p].line <= n
                        /\ cs[p].start \in Int /\ cs[p].end \in Int
  BY <1>1, <1>2 DEF LinesDiffer, LinesUpTo
<1>5. ds[m + 1].line = n + 1 /\ ds[m + 1].start \in Int /\ ds[m + 1].end \in Int
  BY <1>1, <1>2
<1>6. \A p \in 1 .. Len(ds) :
        ds[p].start \in Int /\ ds[p].end \in Int /\ ds[p].line \in Int
  BY <1>3, <1>4, <1>5
<1>7. \A p \in 1 .. m : ds[p].line \in Int /\ ds[p].line <= n
  BY <1>4
<1>8. \A p, q \in 1 .. m : p # q => ds[p].line # ds[q].line
  BY <1>2, <1>4 DEF LinesDiffer
<1>9. \A p, q \in 1 .. Len(ds) : p # q => ds[p].line # ds[q].line
  BY <1>3, <1>5, <1>7, <1>8
<1>10. \A p \in 1 .. Len(ds) : ds[p].line <= n + 1
  BY <1>3, <1>5, <1>7
<1>11. LinesDiffer(ds) /\ LinesUpTo(ds, n + 1)
  BY <1>6, <1>9, <1>10 DEF LinesDiffer, LinesUpTo
<1> QED
  BY <1>1, <1>11 DEF ds

\* What the parser assumes of its lines.
LEMMA LineFacts ==
  ASSUME NEW l \in Lines, l.form = "record"
  PROVE  /\ l.offset \in Int /\ l.data \in Seq(0 .. ByteBase - 1)
         /\ ByteBase \in Nat /\ Paragraph \in Int /\ AddrMax \in Nat
<1>1. l \in Hex!Line /\ ByteBase \in Nat /\ Paragraph \in 1 .. ByteBase * ByteBase
  BY PartsAssumption DEF Hex!HexAssumption, Hex!Word
<1>2. l \in [form : {"record"}, type : 0 .. ByteBase - 1, offset : 0 .. ByteBase * ByteBase - 1,
            data : Seq(0 .. ByteBase - 1), checksum : 0 .. ByteBase - 1]
  BY <1>1 DEF Hex!Line, Hex!Word
<1>3. l.offset \in 0 .. ByteBase * ByteBase - 1 /\ l.data \in Seq(0 .. ByteBase - 1)
  BY <1>2
<1> QED
  BY <1>1, <1>3, WidthAssumption

LEMMA WrapAddrInt ==
  ASSUME NEW x \in Int
  PROVE  Hex!WrapAddr(x) \in Int /\ Bin!WrapAddr(x) \in Int
BY WidthAssumption DEF Hex!WrapAddr, Bin!WrapAddr

\* The chunk of a data record.
LEMMA StoredFields ==
  ASSUME NEW l \in Lines, l.form = "record", base \in Int
  PROVE  /\ Hex!StartOf(l) \in Int
         /\ Hex!EndOf(Hex!StartOf(l), l.data) \in Int
<1>1. l.offset \in Int /\ l.data \in Seq(0 .. ByteBase - 1)
  BY LineFacts
<1>2. PICK a \in Int : a = base + l.offset
  BY <1>1
<1>3. PICK s \in Int : s = Hex!StartOf(l)
  BY <1>2, WrapAddrInt DEF Hex!StartOf
<1>4. PICK n \in Int : n = Len(l.data)
  BY <1>1
<1>5. PICK e \in Int : e = s + n - 1
  OBVIOUS
<1>6. Hex!EndOf(s, l.data) \in Int
  BY <1>4, <1>5, WrapAddrInt DEF Hex!EndOf
<1> QED
  BY <1>3, <1>6

LEMMA NewBaseInt ==
  ASSUME NEW l \in Lines, l.form = "record", l.type \in {2, 4}, Hex!ShapeOK(l)
  PROVE  Hex!NewBase(l) \in Int
<1>1. l.data \in Seq(0 .. ByteBase - 1) /\ ByteBase \in Nat /\ Paragraph \in Int
  BY LineFacts
<1>2. Len(l.data) = 2
  BY DEF Hex!ShapeOK
<1>3. PICK x, y \in Int : x = l.data[1] /\ y = l.data[2]
  BY <1>1, <1>2
<1>4. PICK z \in Int : z = x * ByteBase + y
  BY <1>1
<1>5. Hex!Operand(l) = z
  BY <1>3, <1>4 DEF Hex!Operand
<1>6. PICK w \in Int : w = ByteBase * ByteBase
  BY <1>1
<1>7. Hex!NewBase(l) = z * Paragraph \/ Hex!NewBase(l) = z * w
  BY <1>5, <1>6 DEF Hex!NewBase, Hex!Word
<1> QED
  BY <1>1, <1>7

\* Every way a line leaves the parser counts it.
LEMMA LineCounted ==
  ASSUME NEW r, "lines" \in DOMAIN r, r.lines \in Nat
  PROVE  LET one == [r EXCEPT !.lines = @ + 1]
             two == [one EXCEPT !.records = @ + 1]
         IN  \A x, y :
               /\ one.lines = r.lines + 1 /\ "lines" \in DOMAIN one
               /\ two.lines = r.lines + 1 /\ "lines" \in DOMAIN two
               /\ LET data == [two EXCEPT !.dataRecords = @ + 1, !.dataBytes = x]
                  IN  data.lines = r.lines + 1 /\ "lines" \in DOMAIN data
               /\ LET eof == [two EXCEPT !.sawEof = TRUE]
                  IN  eof.lines = r.lines + 1 /\ "lines" \in DOMAIN eof
               /\ LET st == [two EXCEPT !.hasStart = TRUE, !.start = y]
                  IN  st.lines = r.lines + 1 /\ "lines" \in DOMAIN st
OBVIOUS

ImageKept == chunks' = chunks /\ regions' = regions /\ capacity' = capacity

\* The ways the parser's call goes on.
HexFails ==
  /\ result' = "failed" /\ diag' # "none" /\ pc' = "idle"
  /\ NoImage(capacity', regions', chunks')

HexOpens ==
  /\ result' = "none" /\ pc' = "reading"
  /\ base' = 0 /\ stats' = Hex!StatsInit
  /\ ImageKept
  /\ pc = "idle"

HexSucceeds == result' = "ok" /\ pc' = "idle" /\ ImageKept

HexReads ==
  /\ pc = "reading" /\ pc' = "reading" /\ result' = result
  /\ base \in Int => base' \in Int
  /\ "lines" \in DOMAIN stats /\ stats.lines \in Nat =>
       "lines" \in DOMAIN stats' /\ stats'.lines = stats.lines + 1
  /\ \/ chunks' = chunks
     \/ base \in Int => \E c : /\ chunks' = Append(chunks, c)
                             /\ c.start \in Int /\ c.end \in Int
                             /\ c.line = stats.lines + 1
  /\ regions' = regions

LEMMA HexFailure ==
  ASSUME NEW about, Hex!Fail(about), about # "none"
  PROVE  HexFails
BY DEF Hex!Fail, Hex!FreeImage, Hex!Tables, Tables, HexFails, NoImage, NoLayout

LEMMA HexRecord ==
  ASSUME NEW l \in Lines,
         \/ Hex!SkipBlank(l) \/ Hex!DataRecord(l) \/ Hex!EofRecord(l)
         \/ Hex!AddressRecord(l) \/ Hex!StartRecord(l)
  PROVE  HexReads
<1>1. CASE Hex!SkipBlank(l)
  <2>1. /\ pc = "reading" /\ pc' = pc /\ result' = result /\ base' = base
        /\ stats' = [stats EXCEPT !.lines = @ + 1]
        /\ chunks' = chunks /\ regions' = regions
    BY <1>1 DEF Hex!SkipBlank, Hex!Read, Hex!Continue, Hex!Counted, Hex!imageVars, Hex!layoutVars
  <2> QED
    BY <2>1, LineCounted DEF HexReads
<1>2. CASE Hex!DataRecord(l)
  <2>1. /\ pc = "reading" /\ pc' = pc /\ result' = result /\ base' = base
        /\ l.form = "record"
        /\ \E x : stats' = [[[stats EXCEPT !.lines = @ + 1] EXCEPT !.records = @ + 1]
                             EXCEPT !.dataRecords = @ + 1, !.dataBytes = x]
    BY <1>2 DEF Hex!DataRecord, Hex!Dispatched, Hex!Read, Hex!Continue, Hex!Counted,
                Hex!CountedRecord
  <2>2. \/ Hex!AddChunkEmpty(l.data)
        \/ Hex!AddChunkStored(Hex!StartOf(l), l.data, stats.lines + 1)
    BY <1>2 DEF Hex!DataRecord
  <2>3. CASE Hex!AddChunkEmpty(l.data)
    <3>1. chunks' = chunks /\ regions' = regions
      BY <2>3 DEF Hex!AddChunkEmpty, Hex!imageVars, Hex!layoutVars
    <3> QED
      BY <2>1, <3>1, LineCounted DEF HexReads
  <2>4. CASE Hex!AddChunkStored(Hex!StartOf(l), l.data, stats.lines + 1)
    <3> DEFINE c == [start |-> Hex!StartOf(l), end |-> Hex!EndOf(Hex!StartOf(l), l.data),
                     bytes |-> l.data, line |-> stats.lines + 1]
    <3>1. chunks' = Append(chunks, c) /\ regions' = regions
      BY <2>4 DEF Hex!AddChunkStored, Hex!layoutVars
    <3>2. base \in Int => c.start \in Int /\ c.end \in Int
      BY <2>1, StoredFields
    <3>3. c.line = stats.lines + 1
      OBVIOUS
    <3> HIDE DEF c
    <3> QED
      BY <2>1, <3>1, <3>2, <3>3, LineCounted DEF HexReads
  <2> QED
    BY <2>2, <2>3, <2>4
<1>3. CASE Hex!EofRecord(l)
  <2>1. /\ pc = "reading" /\ pc' = pc /\ result' = result /\ base' = base
        /\ stats' = [[[stats EXCEPT !.lines = @ + 1] EXCEPT !.records = @ + 1]
                        EXCEPT !.sawEof = TRUE]
        /\ chunks' = chunks /\ regions' = regions
    BY <1>3 DEF Hex!EofRecord, Hex!Dispatched, Hex!Read, Hex!Continue, Hex!Counted,
                Hex!CountedRecord, Hex!imageVars, Hex!layoutVars
  <2> QED
    BY <2>1, LineCounted DEF HexReads
<1>4. CASE Hex!AddressRecord(l)
  <2>1. /\ pc = "reading" /\ pc' = pc /\ result' = result /\ base' = Hex!NewBase(l)
        /\ l.form = "record" /\ l.type \in {2, 4} /\ Hex!ShapeOK(l)
        /\ stats' = [[stats EXCEPT !.lines = @ + 1] EXCEPT !.records = @ + 1]
        /\ chunks' = chunks /\ regions' = regions
    BY <1>4 DEF Hex!AddressRecord, Hex!Dispatched, Hex!Read, Hex!Continue, Hex!Counted,
                Hex!CountedRecord, Hex!imageVars, Hex!layoutVars
  <2>2. base' \in Int
    BY <2>1, NewBaseInt
  <2> QED
    BY <2>1, <2>2, LineCounted DEF HexReads
<1>5. CASE Hex!StartRecord(l)
  <2>1. /\ pc = "reading" /\ pc' = pc /\ result' = result /\ base' = base
        /\ stats' = [[[stats EXCEPT !.lines = @ + 1] EXCEPT !.records = @ + 1]
                        EXCEPT !.hasStart = TRUE, !.start = l.data]
        /\ chunks' = chunks /\ regions' = regions
    BY <1>5 DEF Hex!StartRecord, Hex!Dispatched, Hex!Read, Hex!Continue, Hex!Counted,
                Hex!CountedRecord, Hex!imageVars, Hex!layoutVars
  <2> QED
    BY <2>1, LineCounted DEF HexReads
<1> QED
  BY <1>1, <1>2, <1>3, <1>4, <1>5

\* A step of main inside the parser, with what it does to the heap left out.
LEMMA HexStepIs ==
  ASSUME LoadHex
  PROVE  /\ ResolvedFormat = "hex" /\ Loading /\ UNCHANGED binVars
         /\ \/ Hex!OpenFails \/ Hex!Open
            \/ Hex!ReadLine \/ Hex!ReadError \/ Hex!MissingEof \/ Hex!Succeed
<1>1. \/ Hex!OpenFails \/ Hex!Open \/ Hex!Succeed \/ Hex!ReadError \/ Hex!MissingEof
      \/ \E l \in Lines : HexLine(l)
  BY DEF LoadHex
<1>2. (\E l \in Lines : HexLine(l)) => Hex!ReadLine
  BY DEF HexLine, Hex!ReadLine
<1> QED
  BY <1>1, <1>2 DEF LoadHex

LEMMA HexStep ==
  ASSUME ProgramInv, LoadHex
  PROVE  HexFails \/ HexOpens \/ HexSucceeds \/ HexReads
<1>1. CASE Hex!OpenFails
  <2>1. /\ pc = "idle" /\ result' = "failed" /\ diag' = "open" /\ pc' = pc /\ ImageKept
    BY <1>1 DEF Hex!OpenFails, Hex!Begin, Hex!imageVars, Hex!layoutVars, ImageKept
  <2>2. stage = "load" /\ result = "none"
    BY HexStepIs DEF Loading, Calling
  <2>3. NoImage(capacity, regions, chunks)
    BY <2>1, <2>2 DEF ProgramInv, AtLoad
  <2> QED
    BY <2>1, <2>3 DEF HexFails, ImageKept
<1>2. CASE Hex!Open
  BY <1>2 DEF Hex!Open, Hex!Begin, Hex!imageVars, Hex!layoutVars, ImageKept, HexOpens
<1>3. CASE Hex!ReadLine
  <2>1. PICK l \in Lines :
          \/ Hex!SkipBlank(l) \/ Hex!RefuseLine(l) \/ Hex!RefuseRecord(l)
          \/ Hex!DataRecord(l) \/ Hex!DataRecordFails(l)
          \/ Hex!EofRecord(l) \/ Hex!AddressRecord(l) \/ Hex!StartRecord(l)
    BY <1>3 DEF Hex!ReadLine
  <2>2. CASE Hex!RefuseLine(l) \/ Hex!RefuseRecord(l) \/ Hex!DataRecordFails(l)
    <3>1. Hex!Fail("syntax") \/ Hex!Fail("resource")
      BY <2>2 DEF Hex!RefuseLine, Hex!RefuseRecord, Hex!DataRecordFails
    <3> QED
      BY <3>1, HexFailure
  <2> QED
    BY <2>1, <2>2, HexRecord
<1>4. CASE Hex!ReadError \/ Hex!MissingEof
  <2>1. Hex!Fail("no eof") \/ Hex!Fail("io")
    BY <1>4 DEF Hex!ReadError, Hex!MissingEof
  <2> QED
    BY <2>1, HexFailure
<1>5. CASE Hex!Succeed
  BY <1>5 DEF Hex!Succeed, Hex!imageVars, Hex!layoutVars, ImageKept, HexSucceeds
<1> QED
  BY <1>1, <1>2, <1>3, <1>4, <1>5, HexStepIs

LEMMA LoadHexKeepsInv ==
  ASSUME ProgramInv, LoadHex
  PROVE  ProgramInv'
<1>1. Loading /\ ResolvedFormat = "hex" /\ UNCHANGED binVars
  BY HexStepIs
<1>2. /\ stage = "load" /\ stage' = "load" /\ result = "none" /\ command' = command
      /\ Running' /\ Accepted' /\ ResolvedFormat' = "hex"
      /\ builder' = builder /\ builder'.cap = 0
  BY <1>1, LoadingKeeps
<1>3. Closed /\ Closed' /\ buffer' = FALSE
  BY <1>1, <1>2 DEF ProgramInv, InHexLoad, Closed, binVars
<1>4. SUFFICES /\ \E S : chunks' \in Seq(S)
               /\ \E S : regions' \in Seq(S)
               /\ LinesDiffer(chunks')
               /\ result' # "none" => pc' = "idle"
               /\ result' = "failed" => diag' # "none"
               /\ pc' = "idle" => result' # "none"
               /\ pc' # "idle" => /\ base' \in Int
                                  /\ "lines" \in DOMAIN stats' /\ stats'.lines \in Nat
                                  /\ LinesUpTo(chunks', stats'.lines)
  <2>1. AtLoad' /\ InHexLoad' /\ InBinLoad'
    BY <1>2, <1>3, <1>4 DEF AtLoad, InHexLoad, InBinLoad, Returned
  <2>2. disk' = disk
    BY <1>1 DEF binVars
  <2> QED
    BY <1>2, <1>4, <2>1, <2>2 DEF ProgramInv, AtStart, AtMap, AtExit
<1>5. PICK S, R : chunks \in Seq(S) /\ regions \in Seq(R)
  BY DEF ProgramInv
<1>6. LinesDiffer(chunks)
  BY DEF ProgramInv
<1>7. CASE HexFails
  <2>1. /\ NoImage(capacity', regions', chunks') /\ result' = "failed"
        /\ diag' # "none" /\ pc' = "idle"
    BY <1>7 DEF HexFails
  <2>2. chunks' = <<>> /\ regions' = <<>>
    BY <2>1 DEF NoImage, NoLayout
  <2>3. chunks' \in Seq({}) /\ regions' \in Seq({}) /\ LinesDiffer(chunks')
    BY <2>2 DEF LinesDiffer
  <2> QED
    BY <2>1, <2>3
<1>8. CASE HexOpens
  <2>1. /\ pc = "idle" /\ pc' = "reading" /\ result' = "none" /\ base' = 0
        /\ chunks' = chunks /\ regions' = regions
        /\ "lines" \in DOMAIN stats' /\ stats'.lines = 0
    BY <1>8 DEF HexOpens, ImageKept, Hex!StatsInit
  <2>2. chunks = <<>>
    BY <1>2, <2>1 DEF ProgramInv, AtLoad, NoImage
  <2>3. LinesUpTo(chunks', stats'.lines)
    BY <2>1, <2>2 DEF LinesUpTo
  <2> QED
    BY <1>5, <1>6, <2>1, <2>3
<1>9. CASE HexSucceeds
  <2>1. result' = "ok" /\ pc' = "idle" /\ chunks' = chunks /\ regions' = regions
    BY <1>9 DEF HexSucceeds, ImageKept
  <2> QED
    BY <1>5, <1>6, <2>1
<1>10. CASE HexReads
  <2>1. pc = "reading" /\ pc' = "reading" /\ result' = "none" /\ regions' = regions
    BY <1>2, <1>10 DEF HexReads
  <2>2. /\ base \in Int /\ "lines" \in DOMAIN stats /\ stats.lines \in Nat
        /\ LinesUpTo(chunks, stats.lines)
    BY <1>1, <1>2, <2>1 DEF ProgramInv, InHexLoad
  <2>3. /\ base' \in Int /\ "lines" \in DOMAIN stats' /\ stats'.lines = stats.lines + 1
        /\ \/ chunks' = chunks
           \/ \E c : /\ chunks' = Append(chunks, c)
                    /\ c.start \in Int /\ c.end \in Int
                    /\ c.line = stats.lines + 1
    BY <1>10, <2>2 DEF HexReads
  <2>4. PICK n \in Nat : n = stats.lines
    BY <2>2
  <2>5. stats'.lines = n + 1 /\ LinesUpTo(chunks, n)
    BY <2>2, <2>3, <2>4
  <2>6. \E T : chunks' \in Seq(T) /\ LinesDiffer(chunks') /\ LinesUpTo(chunks', n + 1)
    <3>1. CASE chunks' = chunks
      <4>1. LinesUpTo(chunks, n + 1)
        BY <1>6, <2>5 DEF LinesUpTo, LinesDiffer
      <4>2. chunks' \in Seq(S) /\ LinesDiffer(chunks') /\ LinesUpTo(chunks', n + 1)
        BY <1>5, <1>6, <3>1, <4>1
      <4> QED
        BY <4>2
    <3>2. ASSUME NEW c, chunks' = Append(chunks, c),
                 c.start \in Int, c.end \in Int, c.line = n + 1
          PROVE  chunks' \in Seq(S \cup {c}) /\ LinesDiffer(chunks') /\ LinesUpTo(chunks', n + 1)
      <4>1. n \in Int /\ chunks \in Seq(S) /\ LinesDiffer(chunks) /\ LinesUpTo(chunks, n)
        BY <1>5, <1>6, <2>5
      <4>2. /\ LinesDiffer(Append(chunks, c)) /\ LinesUpTo(Append(chunks, c), n + 1)
            /\ Append(chunks, c) \in Seq(S \cup {c})
        BY <3>2, <4>1, AppendLine
      <4> QED
        BY <3>2, <4>2
    <3>3. CASE chunks' # chunks
      <4>1. PICK c : /\ chunks' = Append(chunks, c)
                     /\ c.start \in Int /\ c.end \in Int /\ c.line = n + 1
        BY <2>3, <2>4, <3>3
      <4> QED
        BY <3>2, <4>1
    <3> QED
      BY <3>1, <3>3
  <2> QED
    BY <1>5, <2>1, <2>3, <2>4, <2>5, <2>6
<1> QED
  BY <1>7, <1>8, <1>9, <1>10, HexStep

-----------------------------------------------------------------------------
(* The raw loader's call.                                                  *)

BinLoadFails ==
  /\ result' = "failed" /\ diag' # "none" /\ pc' = "idle" /\ Closed'
  /\ NoImage(capacity', regions', chunks')

BinGoesOn ==
  /\ result' = "none" /\ pc' # "idle"
  /\ base' \in Int /\ size' \in Int /\ got' \in Seq(Byte)
  /\ ImageKept

BinSucceeds ==
  /\ result' = "ok" /\ pc' = "idle" /\ Closed'
  /\ regions' = regions
  /\ \/ chunks' = chunks
     \/ \E c : /\ chunks' = Append(chunks, c)
              /\ c.start \in Int /\ c.end \in Int /\ c.line = 0

LEMMA BinFailure ==
  ASSUME NEW about, Bin!Fail(about), about # "none"
  PROVE  BinLoadFails /\ disk' = disk
BY DEF Bin!Fail, Bin!FreeImage, Bin!Tables, Tables, BinLoadFails, NoImage, NoLayout, Closed

\* The file is read into the buffer piece by piece.
LEMMA PieceRead ==
  ASSUME disk \in Seq(Byte), got \in Seq(Byte), size \in Int, Bin!ReadSome
  PROVE  got' \in Seq(Byte)
<1>1. PICK n \in Len(got) + 1 .. size :
        n <= Len(disk) /\ got' = got \o SubSeq(disk, Len(got) + 1, n)
  BY DEF Bin!ReadSome
<1>2. Len(got) \in Nat /\ Len(disk) \in Nat /\ n \in Int
  OBVIOUS
<1>3. PICK m \in Nat : m = Len(got) + 1
  BY <1>2
<1>4. 1 <= m /\ \A k \in m .. n : disk[k] \in Byte
  BY <1>1, <1>2, <1>3
<1>5. SubSeq(disk, m, n) \in Seq(Byte)
  BY <1>2, <1>3, <1>4, SubSeqProperties
<1> QED
  BY <1>1, <1>3, <1>5

\* A step of main inside the loader, with what it does to the heap left out.
LEMMA BinStepIs ==
  ASSUME LoadBin
  PROVE  /\ ResolvedFormat = "bin" /\ Loading /\ UNCHANGED hexVars
         /\ Bin!OpenFails \/ OpenBin \/ Bin!LoadStep
<1>1. BinFails => Bin!LoadStep
  BY DEF BinFails, Bin!LoadStep
<1> QED
  BY <1>1 DEF LoadBin, Bin!LoadStep

LEMMA BinStep ==
  ASSUME ProgramInv, LoadBin
  PROVE  disk' = disk /\ (BinLoadFails \/ BinGoesOn \/ BinSucceeds)
<1>1. stage = "load" /\ result = "none" /\ ResolvedFormat = "bin"
  BY BinStepIs DEF Loading, Calling
<1>2. /\ pc = "idle" => NoImage(capacity, regions, chunks) /\ Closed
      /\ pc # "idle" => base \in Int /\ size \in Int /\ got \in Seq(Byte)
      /\ disk \in Seq(Byte)
  BY <1>1, PartsAssumption DEF ProgramInv, AtLoad, InBinLoad, Bin!LoaderAssumption
<1>3. CASE Bin!OpenFails
  <2>1. /\ pc = "idle" /\ result' = "failed" /\ diag' = "io" /\ pc' = pc /\ disk' = disk
        /\ open' = open /\ buffer' = buffer /\ ImageKept
    BY <1>3 DEF Bin!OpenFails, Bin!ReturnEarly, Bin!imageVars, Bin!layoutVars, ImageKept
  <2> QED
    BY <1>2, <2>1 DEF BinLoadFails, ImageKept, Closed
<1>4. CASE OpenBin
  <2>1. /\ base' \in Bases /\ size' = 0 /\ got' = <<>> /\ result' = "none" /\ pc' = "opened"
        /\ disk' = disk /\ ImageKept
    BY <1>4 DEF OpenBin, Bin!OpenFile, Bin!imageVars, Bin!layoutVars, ImageKept
  <2>2. base' \in Int
    BY <2>1, PartsAssumption, WidthAssumption DEF Bin!LoaderAssumption, Bin!Address
  <2> QED
    BY <2>1, <2>2 DEF BinGoesOn
<1>5. CASE Bin!LoadStep
  <2>1. CASE Bin!MeasureFails \/ Bin!RewindFails \/ Bin!AllocateFails \/ Bin!ReadShort
             \/ Bin!StoreFails
    <3>1. Bin!Fail("io") \/ Bin!Fail("memory") \/ Bin!Fail("resource")
      BY <2>1 DEF Bin!MeasureFails, Bin!RewindFails, Bin!AllocateFails, Bin!ReadShort,
                  Bin!StoreFails
    <3> QED
      BY <3>1, BinFailure
  <2>2. CASE Bin!Measure
    <3>1. /\ pc = "opened" /\ pc' = "measured" /\ size' = Len(disk) /\ disk' = disk
          /\ base' = base /\ got' = got /\ result' = result /\ ImageKept
      BY <2>2 DEF Bin!Measure, Bin!imageVars, Bin!layoutVars, ImageKept
    <3>2. Len(disk) \in Int
      BY <1>2
    <3> QED
      BY <1>1, <1>2, <3>1, <3>2 DEF BinGoesOn
  <2>3. CASE Bin!Rewind \/ Bin!Allocate \/ Bin!ReadDone
    <3>1. /\ pc \in {"measured", "rewound", "reading"} /\ pc' \in {"rewound", "reading", "read"}
          /\ disk' = disk /\ base' = base /\ size' = size /\ got' = got /\ result' = result
          /\ ImageKept
      BY <2>3 DEF Bin!Rewind, Bin!Allocate, Bin!ReadDone, Bin!callVars, Bin!imageVars,
                  Bin!layoutVars, ImageKept
    <3> QED
      BY <1>1, <1>2, <3>1 DEF BinGoesOn
  <2>4. CASE Bin!ReadSome
    <3>1. /\ pc = "reading" /\ pc' = pc /\ disk' = disk /\ base' = base /\ size' = size
          /\ result' = result /\ ImageKept
      BY <2>4 DEF Bin!ReadSome, Bin!imageVars, Bin!layoutVars, ImageKept
    <3>2. got' \in Seq(Byte)
      BY <1>2, <2>4, <3>1, PieceRead
    <3> QED
      BY <1>1, <1>2, <3>1, <3>2 DEF BinGoesOn
  <2>5. CASE Bin!EmptyFile
    <3>1. /\ result' = "ok" /\ pc' = "idle" /\ open' = FALSE /\ buffer' = FALSE /\ disk' = disk
          /\ ImageKept
      BY <2>5 DEF Bin!EmptyFile, Bin!Succeed, Bin!imageVars, Bin!layoutVars, ImageKept
    <3> QED
      BY <3>1 DEF BinSucceeds, Closed, ImageKept
  <2>6. CASE Bin!Store
    <3> DEFINE c == [start |-> base, end |-> Bin!EndOf(base, got), bytes |-> got, line |-> 0]
    <3>1. /\ pc = "read" /\ result' = "ok" /\ pc' = "idle" /\ open' = FALSE /\ buffer' = FALSE
          /\ disk' = disk /\ chunks' = Append(chunks, c) /\ regions' = regions
      BY <2>6 DEF Bin!Store, Bin!Succeed, Bin!AddChunkStored, Bin!layoutVars
    <3>2. base \in Int /\ Len(got) \in Nat
      BY <1>2, <3>1
    <3>3. PICK x \in Int : x = base + Len(got) - 1
      BY <3>2
    <3>4. Bin!EndOf(base, got) \in Int
      BY <3>3, WrapAddrInt DEF Bin!EndOf
    <3>5. c.start \in Int /\ c.end \in Int /\ c.line = 0
      BY <3>2, <3>4
    <3> HIDE DEF c
    <3> QED
      BY <3>1, <3>5 DEF BinSucceeds, Closed
  <2> QED
    BY <1>5, <2>1, <2>2, <2>3, <2>4, <2>5, <2>6 DEF Bin!LoadStep
<1> QED
  BY <1>3, <1>4, <1>5, BinStepIs

LEMMA LoadBinKeepsInv ==
  ASSUME ProgramInv, LoadBin
  PROVE  ProgramInv'
<1>1. Loading /\ ResolvedFormat = "bin"
  BY BinStepIs
<1>2. /\ stage = "load" /\ stage' = "load" /\ result = "none" /\ command' = command
      /\ Running' /\ Accepted' /\ ResolvedFormat' = "bin"
      /\ builder' = builder /\ builder'.cap = 0
  BY <1>1, LoadingKeeps
<1>3. NoImage(capacity, regions, chunks) /\ chunks = <<>> /\ regions = <<>>
  BY <1>1, <1>2 DEF ProgramInv, InBinLoad, NoImage, NoLayout
<1>4. disk' \in Contents
  BY BinStep DEF ProgramInv
<1>5. SUFFICES /\ \E S : chunks' \in Seq(S)
               /\ \E S : regions' \in Seq(S)
               /\ LinesDiffer(chunks')
               /\ pc' = "idle" => Closed' /\ result' # "none"
               /\ result' # "none" => pc' = "idle"
               /\ result' = "failed" => diag' # "none"
               /\ result' = "none" => NoImage(capacity', regions', chunks')
               /\ pc' # "idle" => base' \in Int /\ size' \in Int /\ got' \in Seq(Byte)
  <2>1. AtLoad' /\ InHexLoad' /\ InBinLoad'
    BY <1>2, <1>5 DEF AtLoad, InHexLoad, InBinLoad, Returned
  <2> QED
    BY <1>2, <1>4, <1>5, <2>1 DEF ProgramInv, AtStart, AtMap, AtExit
<1>6. chunks \in Seq({}) /\ regions \in Seq({}) /\ LinesDiffer(chunks)
  BY <1>3 DEF LinesDiffer
<1>7. CASE BinLoadFails
  <2>1. /\ NoImage(capacity', regions', chunks') /\ result' = "failed"
        /\ diag' # "none" /\ pc' = "idle" /\ Closed' /\ buffer' = FALSE
    BY <1>7 DEF BinLoadFails, Closed
  <2>2. chunks' = <<>> /\ regions' = <<>>
    BY <2>1 DEF NoImage, NoLayout
  <2>3. chunks' \in Seq({}) /\ regions' \in Seq({}) /\ LinesDiffer(chunks')
    BY <2>2 DEF LinesDiffer
  <2> QED
    BY <2>1, <2>3
<1>8. CASE BinGoesOn
  <2>1. /\ result' = "none" /\ pc' # "idle"
        /\ base' \in Int /\ size' \in Int /\ got' \in Seq(Byte)
        /\ chunks' = chunks /\ regions' = regions /\ capacity' = capacity
    BY <1>8 DEF BinGoesOn, ImageKept
  <2> QED
    BY <1>3, <1>6, <2>1
<1>9. CASE BinSucceeds
  <2>1. result' = "ok" /\ pc' = "idle" /\ Closed' /\ regions' = regions
    BY <1>9 DEF BinSucceeds
  <2>2. \E T : chunks' \in Seq(T) /\ LinesDiffer(chunks')
    <3>1. CASE chunks' = chunks
      BY <1>6, <3>1
    <3>2. ASSUME NEW c, chunks' = Append(chunks, c),
                 c.start \in Int, c.end \in Int, c.line = 0
          PROVE  chunks' \in Seq({} \cup {c}) /\ LinesDiffer(chunks')
      <4>1. PICK n \in Int : n = -1
        OBVIOUS
      <4>2. LinesUpTo(chunks, n) /\ c.line = n + 1
        BY <1>3, <3>2, <4>1 DEF LinesUpTo
      <4> QED
        BY <1>6, <3>2, <4>2, AppendLine
    <3>3. CASE chunks' # chunks
      <4>1. PICK c : /\ chunks' = Append(chunks, c)
                     /\ c.start \in Int /\ c.end \in Int /\ c.line = 0
        BY <1>9, <3>3 DEF BinSucceeds
      <4> QED
        BY <3>2, <4>1
    <3> QED
      BY <3>1, <3>3
  <2> QED
    BY <1>6, <2>1, <2>2
<1> QED
  BY <1>7, <1>8, <1>9, BinStep

-----------------------------------------------------------------------------
(* The map's call.                                                         *)

\* Sorting permutes the chunks and so keeps their lines apart.
LEMMA SortedLinesDiffer ==
  ASSUME NEW S, NEW cs \in Seq(S), LinesDiffer(cs), NEW ds \in Map!Sortings(cs)
  PROVE  LinesDiffer(ds) /\ Len(ds) = Len(cs) /\ ds \in Seq(S)
<1>1. ds \in Map!Arrangements(cs)
  BY DEF Map!Sortings
<1>2. PICK p \in Map!Bijection(1 .. Len(cs), 1 .. Len(cs)) : ds = [k \in 1 .. Len(cs) |-> cs[p[k]]]
  BY <1>1 DEF Map!Arrangements
<1>3. /\ p \in [1 .. Len(cs) -> 1 .. Len(cs)]
      /\ \A a, b \in 1 .. Len(cs) : p[a] = p[b] => a = b
  BY <1>2 DEF Map!Bijection, Map!Injection, Map!IsInjective
<1>4. Len(cs) \in Nat /\ \A k \in 1 .. Len(cs) : ds[k] = cs[p[k]] /\ p[k] \in 1 .. Len(cs)
  BY <1>2, <1>3
<1>5. ds \in Seq(S) /\ Len(ds) = Len(cs)
  BY <1>2, <1>4
<1>6. \A k \in 1 .. Len(ds) : ds[k].start \in Int /\ ds[k].end \in Int /\ ds[k].line \in Int
  BY <1>4, <1>5 DEF LinesDiffer
<1>7. ASSUME NEW a \in 1 .. Len(ds), NEW b \in 1 .. Len(ds), a # b
      PROVE  ds[a].line # ds[b].line
  <2>1. p[a] # p[b] /\ p[a] \in 1 .. Len(cs) /\ p[b] \in 1 .. Len(cs)
    BY <1>3, <1>5, <1>7
  <2> QED
    BY <1>4, <1>5, <2>1 DEF LinesDiffer
<1> QED
  BY <1>5, <1>6, <1>7 DEF LinesDiffer

MapEnds ==
  /\ pc' = "idle" /\ built' = Len(chunks) /\ builder'.cap = 0

MapAbandons ==
  /\ pc' = "idle" /\ built' = 0 /\ builder'.cap = 0
  /\ NoLayout(capacity', regions') /\ capacity'["chunks"] = capacity["chunks"]

LEMMA MapAbandonment ==
  ASSUME Map!Abandon
  PROVE  MapAbandons /\ chunks' = chunks /\ regions' = <<>>
BY DEF Map!Abandon, Map!ClearLayout, Map!Tables, Map!NoBuilder, Tables, MapAbandons, NoLayout

LEMMA RegionsTakenSeq ==
  ASSUME ProgramInv
  PROVE  \E S : Map!RegionsTaken \in Seq(S)
<1>1. PICK S : regions \in Seq(S)
  BY DEF ProgramInv
<1>2. Map!RegionsTaken \in Seq(S \cup {Map!BuilderRegion})
  BY <1>1 DEF Map!RegionsTaken
<1> QED
  BY <1>2

\* A step of main inside the map is one of reconstruct's, with what it does to
\* the heap left out.
LEMMA ReconstructIsStep ==
  ASSUME ReconstructGoesOn \/ ReconstructEnds \/ ReconstructFails
  PROVE  Mapping /\ Map!ReconstructStep
BY DEF ReconstructGoesOn, ReconstructEnds, ReconstructFails, Map!ReconstructStep, Map!CloseFails

LEMMA GoesOnStep ==
  ASSUME ProgramInv, ReconstructGoesOn
  PROVE  /\ pc # "idle" /\ pc' # "idle" /\ chunks' = chunks /\ \E S : regions' \in Seq(S)
         /\ UNCHANGED <<result, diag>>
<1>1. PICK S : regions \in Seq(S)
  BY DEF ProgramInv
<1>2. CASE Map!RecordOverlap \/ Map!NextOverlapRow \/ Map!StartBuilder
           \/ Map!MergeContained \/ Map!MergeTail
  <2>1. /\ pc \in {"overlap", "start", "merge"} /\ pc' \in {"overlap", "start", "merge"}
        /\ chunks' = chunks /\ regions' = regions
    BY <1>2 DEF Map!RecordOverlap, Map!NextOverlapRow, Map!StartBuilder,
                Map!MergeContained, Map!MergeTail, Map!Merging, Map!imageVars, Map!layoutVars
  <2> QED
    BY <1>1, <2>1 DEF ReconstructGoesOn
<1>3. CASE Map!CloseRegion
  <2>1. pc = "merge" /\ pc' = pc /\ chunks' = chunks /\ regions' = Map!RegionsTaken
    BY <1>3 DEF Map!CloseRegion, Map!Separated
  <2> QED
    BY <2>1, RegionsTakenSeq DEF ReconstructGoesOn
<1> QED
  BY <1>2, <1>3 DEF ReconstructGoesOn

LEMMA EndStep ==
  ASSUME ProgramInv, ReconstructEnds
  PROVE  /\ pc # "idle" /\ chunks' = chunks /\ \E S : regions' \in Seq(S)
         /\ MapEnds /\ result' = "ok" /\ UNCHANGED diag
<1>1. Map!FinishLayout /\ result' = "ok" /\ UNCHANGED diag
  BY DEF ReconstructEnds
<1>2. /\ pc = "merge" /\ chunks' = chunks /\ regions' = Map!RegionsTaken
      /\ pc' = "idle" /\ built' = Len(chunks) /\ builder'.cap = 0
  BY <1>1 DEF Map!FinishLayout, Map!NoBuilder
<1> QED
  BY <1>1, <1>2, RegionsTakenSeq DEF MapEnds

LEMMA FailStep ==
  ASSUME ReconstructFails
  PROVE  /\ pc # "idle" /\ chunks' = chunks /\ regions' \in Seq({})
         /\ MapAbandons /\ result' = "failed" /\ diag' = "resource"
<1>1. /\ \/ Map!OverlapFails \/ Map!StartFails \/ Map!MergeFails \/ Map!FinishFails
         \/ Map!CloseTakeFails \/ Map!CloseGapFails \/ Map!CloseStartFails
      /\ result' = "failed" /\ diag' = "resource"
  BY DEF ReconstructFails
<1>2. Map!Abandon /\ pc \in {"overlap", "start", "merge"}
  BY <1>1 DEF Map!OverlapFails, Map!StartFails, Map!MergeFails, Map!FinishFails,
              Map!CloseTakeFails, Map!CloseGapFails, Map!CloseStartFails,
              Map!Merging, Map!Separated
<1>3. regions' \in Seq({})
  BY <1>2, MapAbandonment
<1> QED
  BY <1>1, <1>2, <1>3, MapAbandonment

\* What a step of the map leaves of main's own state.
LEMMA MappingKeeps ==
  ASSUME ProgramInv, Mapping
  PROVE  /\ stage = "map" /\ stage' = "map" /\ result = "none" /\ disk' \in Contents
         /\ Running' /\ Accepted' /\ Closed' /\ buffer' = buffer
<1>1. /\ stage = "map" /\ result = "none"
      /\ UNCHANGED <<command, stage, status, report, base, hexVars, binVars>>
  BY DEF Mapping, Calling
<1>2. Running /\ Accepted /\ Closed
  BY <1>1 DEF ProgramInv, AtMap
<1>3. disk' = disk /\ open' = open /\ buffer' = buffer
  BY <1>1 DEF binVars
<1> QED
  BY <1>1, <1>2, <1>3, SameCommand DEF Running, Closed, ProgramInv

\* The parts of the invariant a step of the map has to establish.
LEMMA MapKeepsInv ==
  ASSUME ProgramInv, Mapping,
         \E S : chunks' \in Seq(S), \E S : regions' \in Seq(S),
         LinesDiffer(chunks'), Returned',
         pc' = "idle" => builder'.cap = 0, pc' # "idle" => Len(chunks') # 0
  PROVE  ProgramInv'
BY MappingKeeps DEF ProgramInv, AtStart, AtLoad, InHexLoad, InBinLoad, AtMap, AtExit

LEMMA ReconstructNothingKeepsInv ==
  ASSUME ProgramInv, ReconstructNothing
  PROVE  ProgramInv'
<1>1. /\ Mapping /\ result' = "ok" /\ pc = "idle" /\ pc' = pc
      /\ chunks' = chunks /\ builder' = builder
      /\ NoLayout(capacity', regions') /\ capacity'["chunks"] = capacity["chunks"]
  BY DEF ReconstructNothing, Map!ReconstructEmpty, Map!ClearLayout, Map!Tables, Tables, NoLayout
<1>2. stage = "map" /\ buffer' = buffer /\ Closed'
  BY <1>1, MappingKeeps
<1>3. builder'.cap = 0
  BY <1>1, <1>2 DEF ProgramInv, AtMap
<1>4. regions' \in Seq({})
  BY <1>1 DEF NoLayout
<1>5. (\E S : chunks' \in Seq(S)) /\ LinesDiffer(chunks')
  BY <1>1 DEF ProgramInv
<1> QED
  BY <1>1, <1>2, <1>3, <1>4, <1>5, MapKeepsInv DEF Returned

LEMMA ReconstructBeginsKeepsInv ==
  ASSUME ProgramInv, ReconstructBegins
  PROVE  ProgramInv'
<1>1. /\ Mapping /\ result' = result /\ pc = "idle"
      /\ pc' = "overlap" /\ chunks # <<>> /\ chunks' \in Map!Sortings(chunks)
      /\ builder' = builder
      /\ NoLayout(capacity', regions') /\ capacity'["chunks"] = capacity["chunks"]
  BY DEF ReconstructBegins, Map!ReconstructStart, Map!ClearLayout, Map!Tables, Tables, NoLayout
<1>2. stage = "map" /\ buffer' = buffer /\ result = "none"
  BY <1>1, MappingKeeps
<1>3. builder'.cap = 0
  BY <1>1, <1>2 DEF ProgramInv, AtMap
<1>4. regions' \in Seq({})
  BY <1>1 DEF NoLayout
<1>5. PICK S : chunks \in Seq(S)
  BY DEF ProgramInv
<1>6. LinesDiffer(chunks') /\ Len(chunks') = Len(chunks) /\ chunks' \in Seq(S)
  BY <1>1, <1>5, SortedLinesDiffer DEF ProgramInv
<1>7. Len(chunks') # 0
  BY <1>1, <1>5, <1>6
<1>8. Returned'
  BY <1>1, <1>2 DEF Returned
<1> QED
  BY <1>1, <1>4, <1>6, <1>7, <1>8, MapKeepsInv

LEMMA ReconstructGoesOnKeepsInv ==
  ASSUME ProgramInv, ReconstructGoesOn \/ ReconstructEnds \/ ReconstructFails
  PROVE  ProgramInv'
<1>1. /\ pc # "idle" /\ chunks' = chunks /\ \E S : regions' \in Seq(S)
      /\ \/ pc' # "idle" /\ UNCHANGED <<result, diag>>
         \/ pc' = "idle" /\ builder'.cap = 0 /\ result' = "ok"
         \/ pc' = "idle" /\ builder'.cap = 0 /\ result' = "failed" /\ diag' = "resource"
  BY GoesOnStep, EndStep, FailStep DEF MapEnds, MapAbandons
<1>2. stage = "map" /\ result = "none" /\ Closed' /\ Mapping
  BY ReconstructIsStep, MappingKeeps
<1>3. Len(chunks) # 0 /\ LinesDiffer(chunks) /\ \E S : chunks \in Seq(S)
  BY <1>1, <1>2 DEF ProgramInv, AtMap
<1>4. Returned'
  BY <1>1, <1>2 DEF Returned
<1> QED
  BY <1>1, <1>2, <1>3, <1>4, MapKeepsInv

-----------------------------------------------------------------------------
(* The theorems of the stages.                                             *)

LEMMA InitialProgram == Init => ProgramInv
<1> SUFFICES ASSUME Init PROVE ProgramInv
  OBVIOUS
<1>1. /\ chunks = <<>> /\ regions = <<>> /\ capacity = [t \in Tables |-> 0]
      /\ pc = "idle" /\ result = "none"
      /\ disk \in Contents /\ open = FALSE /\ buffer = FALSE
      /\ builder.cap = 0
      /\ stage = "start" /\ status = 0 /\ report = NoReport
  BY DEF Init, Hex!Init, Hex!ImageInit, Hex!Tables, Tables, Bin!Init, Map!Init, Map!NoBuilder
<1>2. NoImage(capacity, regions, chunks)
  BY <1>1 DEF NoImage, NoLayout, Tables
<1>3. chunks \in Seq({}) /\ regions \in Seq({}) /\ LinesDiffer(chunks)
  BY <1>1 DEF LinesDiffer
<1> QED
  BY <1>1, <1>2, <1>3
  DEF ProgramInv, AtStart, AtLoad, InHexLoad, InBinLoad, AtMap, AtExit, Running, Closed

LEMMA StutterKeepsInv ==
  ASSUME ProgramInv, UNCHANGED vars
  PROVE  ProgramInv'
<1>1. /\ chunks' = chunks /\ regions' = regions /\ capacity' = capacity
      /\ command' = command /\ stage' = stage /\ status' = status /\ report' = report
      /\ pc' = pc /\ base' = base /\ result' = result /\ diag' = diag
      /\ stats' = stats /\ disk' = disk /\ open' = open /\ buffer' = buffer
      /\ size' = size /\ got' = got /\ builder' = builder
  BY DEF vars, imageVars, layoutVars, callVars, hexVars, binVars, mapVars
<1>2. StatusTellsTheOutcome => StatusTellsTheOutcome'
  BY <1>1, SameCommand DEF StatusTellsTheOutcome
<1>3. Running' = Running /\ Closed' = Closed /\ Returned' = Returned
      /\ Accepted' = Accepted /\ ResolvedFormat' = ResolvedFormat
  BY <1>1, SameCommand DEF Running, Closed, Returned
<1>4. AtStart' /\ AtLoad' /\ InHexLoad' /\ InBinLoad' /\ AtMap' /\ AtExit'
  BY <1>1, <1>2, <1>3 DEF ProgramInv, AtStart, AtLoad, InHexLoad, InBinLoad, AtMap, AtExit
<1> QED
  BY <1>1, <1>4 DEF ProgramInv

LEMMA ProgramInvariance == Spec => []ProgramInv
<1>1. ProgramInv /\ [Next]_vars => ProgramInv'
  BY UsageErrorKeepsInv, CannotInferKeepsInv, ResolveKeepsInv, LoadHexKeepsInv, LoadBinKeepsInv,
     ReconstructNothingKeepsInv, ReconstructBeginsKeepsInv, ReconstructGoesOnKeepsInv,
     CallFailedKeepsInv, LoadedKeepsInv, ReportKeepsInv, StutterKeepsInv DEF Next
<1> QED
  BY <1>1, InitialProgram, PTL DEF Spec

\* The exit status says what happened, for every command and every failure
\* (main.c:379-460).
THEOREM StatusAlwaysTellsTheOutcome == Spec => []StatusTellsTheOutcome
<1>1. ProgramInv => StatusTellsTheOutcome
  BY DEF ProgramInv, AtExit, StatusTellsTheOutcome
<1> QED
  BY <1>1, ProgramInvariance, PTL

\* The chunks main sorts are in one order only: the report does not depend on
\* the order qsort leaves equal elements in (memmap.c:18-45, 462).
THEOREM SortAlwaysDeterministic == Spec => []SortIsDeterministic
<1>1. ASSUME ProgramInv, NEW p \in 1 .. Len(chunks), NEW q \in 1 .. Len(chunks), p # q
      PROVE  Map!KeyBefore(chunks[p], chunks[q]) \/ Map!KeyBefore(chunks[q], chunks[p])
  <2>1. PICK s, t, e, f, k, m \in Int :
          /\ s = chunks[p].start /\ t = chunks[q].start
          /\ e = chunks[p].end /\ f = chunks[q].end
          /\ k = chunks[p].line /\ m = chunks[q].line
    BY <1>1 DEF ProgramInv, LinesDiffer
  <2>2. k # m
    BY <1>1, <2>1 DEF ProgramInv, LinesDiffer
  <2>3. \/ s < t
        \/ s = t /\ e < f
        \/ s = t /\ e = f /\ k < m
        \/ t < s
        \/ t = s /\ f < e
        \/ t = s /\ f = e /\ m < k
    BY <2>2
  <2> QED
    BY <2>1, <2>3 DEF Map!KeyBefore
<1>2. ProgramInv => SortIsDeterministic
  BY <1>1 DEF SortIsDeterministic
<1> QED
  BY <1>2, ProgramInvariance, PTL

-----------------------------------------------------------------------------
(* The file, and what of it stays as it is.  The chunks a file asks for are*)
(* in the table in any order, since the map sorts them.                    *)

\* The chunk line k of the HEX file s asks for, a table of the chunks a HEX file
\* asks for, in any order, and the table of a raw file d loaded at b.
LineChunk(s, k) ==
  [start |-> Hex!BaseAt(s, k) + s[k].offset,
   end |-> Hex!BaseAt(s, k) + s[k].offset + Len(s[k].data) - 1,
   bytes |-> s[k].data, line |-> k]

HexTable(s, cs) ==
  /\ \A p \in 1 .. Len(cs) :
       cs[p].line \in Hex!DataLines(s) /\ cs[p] = LineChunk(s, cs[p].line)
  /\ \A k \in Hex!DataLines(s) : \E p \in 1 .. Len(cs) : cs[p].line = k

BinTable(d, b, cs) ==
  cs = IF d = <<>> THEN <<>>
       ELSE <<[start |-> b, end |-> b + Len(d) - 1, bytes |-> d, line |-> 0]>>

\* What the table and the total are once the file is loaded.
TableOfFile ==
  IF ResolvedFormat = "hex" THEN HexTable(seen, chunks)
                            ELSE BinTable(disk, command.base, chunks)

FileBytes == IF ResolvedFormat = "hex" THEN HexBytes ELSE Len(disk)

\* Nothing was laid out yet.
Unmapped ==
  /\ regions = <<>> /\ gaps = <<>> /\ overlaps = <<>>
  /\ \A t \in Tables \ {"chunks"} : capacity[t] = 0
  /\ i = 1 /\ j = 1 /\ builder = Map!NoBuilder /\ built = 0

\* LineStart, LineSpan, LineBefore, HexMemory and HexBytes for any lines s.
StartIn(s, k) == Hex!BaseAt(s, k) + s[k].offset
SpanIn(s, k) == StartIn(s, k) .. StartIn(s, k) + Len(s[k].data) - 1
BeforeIn(s, k, m) ==
  \/ StartIn(s, k) < StartIn(s, m)
  \/ StartIn(s, k) = StartIn(s, m) /\ Len(s[k].data) < Len(s[m].data)
  \/ StartIn(s, k) = StartIn(s, m) /\ Len(s[k].data) = Len(s[m].data) /\ k < m

MemoryIn(s) ==
  LET lines == Hex!DataLines(s)
  IN  [a \in UNION {SpanIn(s, k) : k \in lines} |->
        LET k == CHOOSE m \in lines :
                   /\ a \in SpanIn(s, m)
                   /\ \A n \in lines : a \in SpanIn(s, n) => ~BeforeIn(s, n, m)
        IN  s[k].data[a - StartIn(s, k) + 1]]

BytesIn(s) == Hex!Total([k \in Hex!DataLines(s) |-> Len(s[k].data)])

\* What the file says depends on the lines read alone.
LEMMA SameLines ==
  ASSUME seen' = seen
  PROVE  /\ HexMemory' = HexMemory /\ HexBytes' = HexBytes /\ SharingLines' = SharingLines
<1>1. Hex!DataLines(seen)' = Hex!DataLines(seen)
  BY DEF Hex!DataLines, Hex!IsRecord
<1>2. ASSUME NEW k PROVE LineStart(k)' = LineStart(k)
  BY DEF LineStart, Hex!BaseAt, Hex!IsRecord, Hex!Operand, Hex!Word
<1>3. ASSUME NEW k PROVE LineSpan(k)' = LineSpan(k)
  BY <1>2 DEF LineSpan
<1>4. ASSUME NEW k, NEW m PROVE LineBefore(k, m)' = LineBefore(k, m)
  BY <1>2 DEF LineBefore
<1>5. SharingLines' = SharingLines
  BY <1>1, <1>3, <1>4 DEF SharingLines
<1>6. HexMemory' = HexMemory
  <2>1. HexMemory = MemoryIn(seen)
    BY DEF HexMemory, MemoryIn, LineSpan, LineStart, LineBefore, SpanIn, StartIn, BeforeIn
  <2>2. HexMemory' = MemoryIn(seen')
    BY DEF HexMemory, MemoryIn, LineSpan, LineStart, LineBefore, SpanIn, StartIn, BeforeIn,
           Hex!DataLines, Hex!BaseAt, Hex!IsRecord, Hex!Operand, Hex!Word
  <2> QED
    BY <2>1, <2>2
<1>7. HexBytes' = HexBytes
  <2>1. HexBytes = BytesIn(seen)
    BY DEF HexBytes, BytesIn
  <2>2. HexBytes' = BytesIn(seen')
    BY DEF HexBytes, BytesIn, Hex!DataLines, Hex!IsRecord, Hex!Total, Hex!FoldFunction,
           Hex!FoldFunctionOnSet, Hex!MapThenFoldSet
  <2> QED
    BY <2>1, <2>2
<1> QED
  BY <1>5, <1>6, <1>7

MemoryAt(d, b) == [a \in b .. b + Len(d) - 1 |-> d[a - b + 1]]

\* The same for either format.
LEMMA SameFile ==
  ASSUME command' = command, seen' = seen, disk' = disk
  PROVE  /\ ResolvedFormat' = ResolvedFormat /\ ReadAsHex' = ReadAsHex
         /\ FileMemory' = FileMemory
         /\ SharingLines' = SharingLines
         /\ (IF ResolvedFormat = "hex" THEN HexBytes ELSE Len(disk))'
              = (IF ResolvedFormat = "hex" THEN HexBytes ELSE Len(disk))
         /\ FileBytes' = FileBytes
<1>1. ResolvedFormat' = ResolvedFormat /\ ReadAsHex' = ReadAsHex
  BY SameCommand
<1>2. BinMemory' = BinMemory
  <2>1. BinMemory = MemoryAt(disk, command.base)
    BY DEF BinMemory, MemoryAt
  <2>2. BinMemory' = MemoryAt(disk', command'.base)
    BY DEF BinMemory, MemoryAt
  <2> QED
    BY <2>1, <2>2
<1>3. HexMemory' = HexMemory /\ HexBytes' = HexBytes /\ SharingLines' = SharingLines
  BY SameLines
<1> QED
  BY <1>1, <1>2, <1>3 DEF FileMemory, FileBytes

\* A valid HEX file, and statistics that are its own.
ValidFile(s, st) == Hex!ValidPrefix(s) /\ Hex!HasEof(s) /\ Hex!Describes(s, st)

\* Whether a file is valid depends on its lines and the statistics alone.
LEMMA ValidityNext ==
  /\ ValidFile(seen, stats)' <=> ValidFile(seen', stats')
  /\ ValidFile(seen, report.stats)' <=> ValidFile(seen', (report.stats)')
<1>1. Hex!ValidPrefix(seen)' <=> Hex!ValidPrefix(seen')
  BY DEF Hex!ValidPrefix, Hex!ValidLine, Hex!SumsToZero, Hex!RecordSum, Hex!AddressBytes,
         Hex!ShapeOK, Hex!IsRecord, Hex!Total, Hex!FoldFunction, Hex!FoldFunctionOnSet,
         Hex!MapThenFoldSet
<1>2. Hex!HasEof(seen)' <=> Hex!HasEof(seen')
  BY DEF Hex!HasEof, Hex!IsRecord
<1>3. Hex!Describes(seen, stats)' <=> Hex!Describes(seen', stats')
  BY DEF Hex!Describes, Hex!RecordLines, Hex!Supported, Hex!IsRecord, Hex!Cardinality
<1>4. Hex!Describes(seen, report.stats)' <=> Hex!Describes(seen', (report.stats)')
  BY DEF Hex!Describes, Hex!RecordLines, Hex!Supported, Hex!IsRecord, Hex!Cardinality
<1> QED
  BY <1>1, <1>2, <1>3, <1>4 DEF ValidFile

\* The table still is the file's when the file is the same and the table is.
LEMMA TableFollows ==
  ASSUME command' = command, seen' = seen, disk' = disk,
         IF ResolvedFormat = "hex" THEN HexTable(seen, chunks')
                                   ELSE BinTable(disk, command.base, chunks')
  PROVE  TableOfFile'
<1>1. HexTable(seen, chunks)' <=> HexTable(seen', chunks')
  BY DEF HexTable, LineChunk, Hex!DataLines, Hex!BaseAt, Hex!IsRecord, Hex!Operand, Hex!Word
<1>2. BinTable(disk, command.base, chunks)' <=> BinTable(disk', command'.base, chunks')
  BY DEF BinTable
<1>3. ResolvedFormat' = ResolvedFormat
  BY SameCommand
<1> QED
  BY <1>1, <1>2, <1>3 DEF TableOfFile

\* Sorting a file's table leaves the chunks of the file in it.
LEMMA SortKeepsTable ==
  ASSUME NEW s, NEW d, NEW b, NEW cs, NEW ds \in Map!Sortings(cs), Len(cs) \in Nat
  PROVE  /\ HexTable(s, cs) => HexTable(s, ds)
         /\ BinTable(d, b, cs) => BinTable(d, b, ds)
<1>1. ds \in Map!Arrangements(cs)
  BY DEF Map!Sortings
<1>2. PICK p \in Map!Bijection(1 .. Len(cs), 1 .. Len(cs)) : ds = [k \in 1 .. Len(cs) |-> cs[p[k]]]
  BY <1>1 DEF Map!Arrangements
<1>3. /\ p \in [1 .. Len(cs) -> 1 .. Len(cs)]
      /\ \A q \in 1 .. Len(cs) : \E k \in 1 .. Len(cs) : p[k] = q
  BY <1>2 DEF Map!Bijection, Map!Surjection
<1>4. Len(ds) = Len(cs)
  BY <1>2
<1>5. \A k \in 1 .. Len(cs) : ds[k] = cs[p[k]] /\ p[k] \in 1 .. Len(cs)
  BY <1>2, <1>3
<1>6. HexTable(s, cs) => HexTable(s, ds)
  <2> SUFFICES ASSUME HexTable(s, cs) PROVE HexTable(s, ds)
    OBVIOUS
  <2>1. \A k \in 1 .. Len(ds) :
          ds[k].line \in Hex!DataLines(s) /\ ds[k] = LineChunk(s, ds[k].line)
    BY <1>4, <1>5 DEF HexTable
  <2>2. ASSUME NEW k \in Hex!DataLines(s) PROVE \E q \in 1 .. Len(ds) : ds[q].line = k
    <3>1. PICK q \in 1 .. Len(cs) : cs[q].line = k
      BY DEF HexTable
    <3>2. PICK r \in 1 .. Len(cs) : p[r] = q
      BY <1>3
    <3> QED
      BY <1>4, <1>5, <3>1, <3>2
  <2> QED
    BY <2>1, <2>2 DEF HexTable
<1>7. BinTable(d, b, cs) => BinTable(d, b, ds)
  <2> SUFFICES ASSUME BinTable(d, b, cs) PROVE ds = cs
    BY DEF BinTable
  <2>1. cs = <<>> \/ \E c : cs = <<c>>
    BY DEF BinTable
  <2>2. CASE cs = <<>>
    BY <1>2, <2>2
  <2>3. ASSUME NEW c, cs = <<c>> PROVE ds = cs
    <3>1. Len(cs) = 1 /\ cs[1] = c
      BY <2>3
    <3>2. p[1] = 1
      BY <1>3, <3>1
    <3>3. ds = [k \in 1 .. 1 |-> c]
      BY <1>2, <1>3, <3>1, <3>2
    <3> QED
      BY <2>3, <3>3
  <2> QED
    BY <2>1, <2>2, <2>3
<1> QED
  BY <1>6, <1>7

\* The map leaves the totals alone.
LEMMA MapKeepsTotals ==
  ASSUME Map!ReconstructEmpty \/ Map!ReconstructStart \/ Map!ReconstructStep
  PROVE  UNCHANGED totalVars
<1>1. (UNCHANGED Map!totalVars) => UNCHANGED totalVars
  BY DEF Map!totalVars, totalVars
<1>2. (UNCHANGED Map!imageVars) => UNCHANGED Map!totalVars
  BY DEF Map!imageVars
<1>3. Map!Abandon => UNCHANGED Map!totalVars
  BY DEF Map!Abandon
<1>4. CASE Map!ReconstructEmpty \/ Map!ReconstructStart
  BY <1>1, <1>4 DEF Map!ReconstructEmpty, Map!ReconstructStart
<1>5. CASE Map!ReconstructStep
  BY <1>1, <1>2, <1>3, <1>5 DEF
    Map!ReconstructStep, Map!RecordOverlap, Map!OverlapFails, Map!NextOverlapRow,
    Map!StartBuilder, Map!StartFails, Map!MergeContained, Map!MergeTail, Map!MergeFails,
    Map!CloseRegion, Map!CloseFails, Map!CloseTakeFails, Map!CloseGapFails,
    Map!CloseStartFails, Map!FinishLayout, Map!FinishFails
<1> QED
  BY <1>4, <1>5

\* A step that stores a chunk, frees the image or leaves it alone lays nothing out.
LEMMA StaysUnmapped ==
  ASSUME Unmapped, UNCHANGED mapVars,
         \/ UNCHANGED imageVars
         \/ FreeImage
         \/ /\ capacity \in [Tables -> Nat] /\ UNCHANGED layoutVars
            /\ \E n : capacity' = [capacity EXCEPT !["chunks"] = n]
  PROVE  Unmapped'
<1>1. /\ regions' = <<>> /\ gaps' = <<>> /\ overlaps' = <<>>
  BY DEF Unmapped, imageVars, layoutVars, FreeImage
<1>2. \A t \in Tables \ {"chunks"} : capacity'[t] = 0
  <2>1. CASE UNCHANGED imageVars
    BY <2>1 DEF Unmapped, imageVars
  <2>2. CASE FreeImage
    BY <2>2 DEF FreeImage
  <2>3. ASSUME capacity \in [Tables -> Nat], NEW n,
               capacity' = [capacity EXCEPT !["chunks"] = n]
        PROVE  \A t \in Tables \ {"chunks"} : capacity'[t] = 0
    BY <2>3 DEF Unmapped
  <2> QED
    BY <2>1, <2>2, <2>3
<1>3. i' = i /\ j' = j /\ builder' = builder /\ built' = built
  BY DEF mapVars
<1> QED
  BY <1>1, <1>2, <1>3 DEF Unmapped, Map!NoBuilder

\* Until a report is printed nothing is said of the file.
LEMMA Unprinted ==
  ASSUME ProgramInv, report' = report, stage \in {"start", "load", "map"}
  PROVE  (ReportIsOfTheFile /\ OverlapsNameTheLines)'
<1>1. report = NoReport
  BY DEF ProgramInv, AtStart, AtLoad, AtMap, Running
<1> QED
  BY <1>1 DEF ReportIsOfTheFile, OverlapsNameTheLines, NoReport

\* The assumptions of the parts, for the theorems about them.
LEMMA WidthsHold ==
  /\ AddrMax \in Nat /\ SizeMax \in 1 .. AddrMax /\ AllocMax \in Nat /\ 2 * AllocMax <= SizeMax
  /\ ChunkStarts \subseteq Address
  /\ ChunkData \subseteq Seq(Byte) /\ ChunkLines \subseteq Nat /\ MaxChunks \in Nat
  /\ EntrySize \in [Tables -> Nat \ {0}] /\ FirstCap \in [Tables -> Nat \ {0}]
  /\ \A t \in Tables : FirstCap[t] * EntrySize[t] <= SizeMax
BY WidthAssumption, TableAssumption, CallerAssumption

-----------------------------------------------------------------------------
(* The HEX parser in main.  HP is its proof module on the state of main;   *)
(* every step main takes in the parser is a step of the parser, so that    *)
(* what is proved of the parser holds in main while it runs, and once it   *)
(* has succeeded the table holds the chunks of the file's data lines.      *)

HP == INSTANCE HexParserProofs WITH missing <- "none", prior <- [chunks |-> 0, bytes |-> 0]

LEMMA HexPart ==
  /\ HP!Tables = Tables /\ HP!Address = Address
  /\ ByteBase \in Nat /\ ByteBase > 5
  /\ Byte = 0 .. ByteBase - 1
  /\ Paragraph \in 1 .. HP!Word
  /\ HP!Word * HP!Word + ByteBase <= AddrMax
  /\ Lines \subseteq HP!Line
  /\ \A l \in Lines : l.form = "record" => Len(l.data) < ByteBase
  /\ MaxLines \in Nat /\ MaxPrior \in Nat
<1>1. Hex!HexAssumption
  BY PartsAssumption
<1>2. Hex!Word = HP!Word
  BY DEF Hex!Word, HP!Word
<1>3. Hex!Line = HP!Line
  BY <1>2 DEF Hex!Line, HP!Line
<1> QED
  BY <1>1, <1>2, <1>3 DEF Hex!HexAssumption, HP!Tables, Tables, HP!Address, Address

LEMMA ParserStepKeepsLoad == HP!LoadInv /\ [HP!Next]_(HP!vars) => HP!LoadInv'
BY WidthsHold, HexPart, HP!StepLoad

\* The parser's sums and tests are the same in both instances of it.
LEMMA TotalSame == ASSUME NEW f PROVE Hex!Total(f) = HP!Total(f)
BY DEF
    Hex!Total, HP!Total, Hex!FoldFunction, HP!FoldFunction, Hex!FoldFunctionOnSet,
    HP!FoldFunctionOnSet, Hex!MapThenFoldSet, HP!MapThenFoldSet

LEMMA CheckSame == ASSUME NEW l PROVE Hex!ChecksumOK(l) <=> HP!ChecksumOK(l)
BY TotalSame DEF
    Hex!ChecksumOK, HP!ChecksumOK, Hex!RecordSum, HP!RecordSum, Hex!AddressBytes,
    HP!AddressBytes

\* So is what they say of a file.
LEMMA ValidSame ==
  /\ HP!ValidPrefix(seen) <=> Hex!ValidPrefix(seen)
  /\ HP!HasEof(seen) <=> Hex!HasEof(seen)
  /\ HP!Describes(seen, stats) <=> Hex!Describes(seen, stats)
<1>1. \A l : Hex!ValidLine(l) <=> HP!ValidLine(l)
  BY TotalSame DEF
    Hex!ValidLine, HP!ValidLine, Hex!SumsToZero, HP!SumsToZero, Hex!RecordSum, HP!RecordSum,
    Hex!AddressBytes, HP!AddressBytes, Hex!ShapeOK, HP!ShapeOK
<1>2. \A l, types : Hex!IsRecord(l, types) <=> HP!IsRecord(l, types)
  BY DEF Hex!IsRecord, HP!IsRecord
<1>3. \A S : Hex!Cardinality(S) = HP!Cardinality(S)
  BY DEF Hex!Cardinality, HP!Cardinality
<1>4. \A types : Hex!RecordLines(seen, types) = HP!RecordLines(seen, types)
  BY <1>2 DEF Hex!RecordLines, HP!RecordLines
<1>5. HP!Describes(seen, stats) <=> Hex!Describes(seen, stats)
  BY <1>3, <1>4 DEF Hex!Describes, HP!Describes, Hex!Supported, HP!Supported
<1> QED
  BY <1>1, <1>2, <1>5 DEF Hex!ValidPrefix, HP!ValidPrefix, Hex!HasEof, HP!HasEof

LEMMA HexChunkStep ==
  ASSUME NEW start, NEW bytes, NEW line
  PROVE  Hex!AddChunkStored(start, bytes, line) <=> HP!AddChunkStored(start, bytes, line)
BY DEF
    Hex!AddChunkStored, HP!AddChunkStored, Hex!AddressOverflows,
    HP!AddressOverflows, Hex!CountOverflows, HP!CountOverflows, Hex!CanPush,
    HP!CanPush, Hex!Full, HP!Full, Hex!NextCapacity, HP!NextCapacity, Hex!Grantable,
    HP!Grantable, Hex!TableRequest, HP!TableRequest, Hex!CapacityFor,
    HP!CapacityFor, Hex!EndOf, HP!EndOf, Hex!WrapAddr, HP!WrapAddr,
    Hex!LoweredStart, HP!LoweredStart, Hex!RaisedEnd, HP!RaisedEnd, Hex!WrapSize,
    HP!WrapSize, Hex!layoutVars, HP!layoutVars

LEMMA HexFreeStep == Hex!FreeImage <=> HP!FreeImage
BY DEF Hex!FreeImage, HP!FreeImage, Hex!Tables, HP!Tables

LEMMA HexFailStep == ASSUME NEW about PROVE Hex!Fail(about) <=> HP!Fail(about)
BY HexFreeStep DEF Hex!Fail, HP!Fail, Hex!NothingPrior, HP!NothingPrior

LEMMA HexReadStep ==
  ASSUME NEW l
  PROVE  /\ Hex!Read(l) <=> HP!Read(l)
         /\ Hex!RefusedBeforeSwitch(l) <=> HP!RefusedBeforeSwitch(l)
         /\ Hex!Dispatched(l) <=> HP!Dispatched(l)
         /\ Hex!ShapeOK(l) <=> HP!ShapeOK(l)
BY CheckSame DEF
    Hex!Read, HP!Read, Hex!RefusedBeforeSwitch, HP!RefusedBeforeSwitch,
    Hex!Dispatched, HP!Dispatched, Hex!ShapeOK, HP!ShapeOK

LEMMA HexQuiet ==
  /\ Hex!Continue <=> HP!Continue
  /\ Hex!Counted = HP!Counted /\ Hex!CountedRecord = HP!CountedRecord
  /\ Hex!imageVars = HP!imageVars /\ (UNCHANGED Hex!imageVars <=> UNCHANGED HP!imageVars)
BY DEF
    Hex!Continue, HP!Continue, Hex!Counted, HP!Counted, Hex!CountedRecord,
    HP!CountedRecord, Hex!imageVars, HP!imageVars, Hex!layoutVars, HP!layoutVars,
    Hex!totalVars, HP!totalVars

LEMMA HexLineStep ==
  ASSUME NEW l
  PROVE  /\ Hex!SkipBlank(l) => HP!SkipBlank(l)
         /\ Hex!RefuseLine(l) => HP!RefuseLine(l)
         /\ Hex!RefuseRecord(l) => HP!RefuseRecord(l)
         /\ Hex!DataRecord(l) => HP!DataRecord(l)
         /\ Hex!DataRecordFails(l) => HP!DataRecordFails(l)
         /\ Hex!EofRecord(l) => HP!EofRecord(l)
         /\ Hex!AddressRecord(l) => HP!AddressRecord(l)
         /\ Hex!StartRecord(l) => HP!StartRecord(l)
<1>1. Hex!SkipBlank(l) => HP!SkipBlank(l)
  BY HexReadStep, HexQuiet DEF Hex!SkipBlank, HP!SkipBlank
<1>2. Hex!RefuseLine(l) => HP!RefuseLine(l)
  BY HexReadStep, HexQuiet, HexFailStep DEF Hex!RefuseLine, HP!RefuseLine
<1>3. Hex!RefuseRecord(l) => HP!RefuseRecord(l)
  BY HexReadStep, HexQuiet, HexFailStep DEF Hex!RefuseRecord, HP!RefuseRecord
<1>4. Hex!DataRecord(l) => HP!DataRecord(l)
  <2>1. Hex!StartOf(l) = HP!StartOf(l)
    BY DEF Hex!StartOf, HP!StartOf, Hex!WrapAddr, HP!WrapAddr
  <2>2. Hex!AddChunkEmpty(l.data) <=> HP!AddChunkEmpty(l.data)
    BY HexQuiet DEF Hex!AddChunkEmpty, HP!AddChunkEmpty
  <2>3. \A x : Hex!WrapSize(x) = HP!WrapSize(x)
    BY DEF Hex!WrapSize, HP!WrapSize
  <2> QED
    BY <2>1, <2>2, <2>3, HexReadStep, HexQuiet, HexChunkStep DEF Hex!DataRecord, HP!DataRecord
<1>5. Hex!DataRecordFails(l) => HP!DataRecordFails(l)
  BY HexReadStep, HexQuiet, HexFailStep DEF Hex!DataRecordFails, HP!DataRecordFails
<1>6. Hex!EofRecord(l) => HP!EofRecord(l)
  BY HexReadStep, HexQuiet DEF Hex!EofRecord, HP!EofRecord
<1>7. Hex!AddressRecord(l) => HP!AddressRecord(l)
  BY HexReadStep, HexQuiet DEF
    Hex!AddressRecord, HP!AddressRecord, Hex!NewBase, HP!NewBase, Hex!Operand,
    HP!Operand, Hex!Word, HP!Word
<1>8. Hex!StartRecord(l) => HP!StartRecord(l)
  BY HexReadStep, HexQuiet DEF Hex!StartRecord, HP!StartRecord
<1> QED
  BY <1>1, <1>2, <1>3, <1>4, <1>5, <1>6, <1>7, <1>8

\* Every step of the parser in main is a step of the parser.
LEMMA HexIsParser ==
  ASSUME LoadHex
  PROVE  HP!Next
<1>1. CASE Hex!OpenFails \/ Hex!Open
  <2>1. HP!OpenFails \/ HP!Open
    BY <1>1, HexQuiet DEF
    Hex!OpenFails, HP!OpenFails, Hex!Open, HP!Open, Hex!Begin, HP!Begin,
    Hex!StatsInit, HP!StatsInit
  <2> QED
    BY <2>1 DEF HP!Next
<1>2. CASE Hex!ReadLine
  <2>1. HP!ReadLine
    BY <1>2, HexLineStep DEF Hex!ReadLine, HP!ReadLine
  <2> QED
    BY <2>1 DEF HP!Next
<1>3. CASE Hex!ReadError \/ Hex!MissingEof
  <2>1. HP!ReadError \/ HP!MissingEof
    BY <1>3, HexFailStep DEF Hex!ReadError, HP!ReadError, Hex!MissingEof, HP!MissingEof
  <2> QED
    BY <2>1 DEF HP!Next
<1>4. CASE Hex!Succeed
  <2>1. HP!Succeed
    BY <1>4, HexQuiet DEF Hex!Succeed, HP!Succeed
  <2> QED
    BY <2>1 DEF HP!Next
<1> QED
  BY <1>1, <1>2, <1>3, <1>4, HexStepIs

\* What main knows while the parser runs: what is proved of it, and no layout yet.
HexLoading == HP!LoadInv /\ HP!TotalCounts /\ Unmapped

\* What a step of the HEX parser does to the image.
LEMMA HexImageStep ==
  ASSUME LoadHex
  PROVE  \/ UNCHANGED imageVars
         \/ FreeImage
         \/ \E l \in Lines :
              /\ HP!Dispatched(l)
              /\ HP!AddChunkStored(HP!StartOf(l), l.data, stats.lines + 1)
<1>1. CASE Hex!OpenFails \/ Hex!Open
  BY <1>1 DEF Hex!OpenFails, Hex!Open, Hex!Begin, imageVars, layoutVars, totalVars,
              Hex!imageVars, Hex!layoutVars, Hex!totalVars
<1>2. ASSUME NEW about, Hex!Fail(about) PROVE FreeImage
  BY <1>2 DEF Hex!Fail, Hex!FreeImage, FreeImage, Hex!Tables, Tables
<1>3. CASE Hex!ReadError \/ Hex!MissingEof
  BY <1>2, <1>3 DEF Hex!ReadError, Hex!MissingEof
<1>4. (UNCHANGED Hex!imageVars) => UNCHANGED imageVars
  BY DEF Hex!imageVars, Hex!layoutVars, Hex!totalVars, imageVars, layoutVars, totalVars
<1>5. CASE Hex!Succeed
  BY <1>4, <1>5 DEF Hex!Succeed
<1>6. CASE Hex!ReadLine
  <2>1. PICK l \in Lines :
          \/ Hex!SkipBlank(l) \/ Hex!RefuseLine(l) \/ Hex!RefuseRecord(l)
          \/ Hex!DataRecord(l) \/ Hex!DataRecordFails(l)
          \/ Hex!EofRecord(l) \/ Hex!AddressRecord(l) \/ Hex!StartRecord(l)
    BY <1>6 DEF Hex!ReadLine
  <2>2. CASE Hex!RefuseLine(l) \/ Hex!RefuseRecord(l) \/ Hex!DataRecordFails(l)
    BY <1>2, <2>2 DEF Hex!RefuseLine, Hex!RefuseRecord, Hex!DataRecordFails
  <2>3. CASE Hex!SkipBlank(l) \/ Hex!EofRecord(l) \/ Hex!AddressRecord(l) \/ Hex!StartRecord(l)
    BY <1>4, <2>3 DEF Hex!SkipBlank, Hex!EofRecord, Hex!AddressRecord, Hex!StartRecord
  <2>4. CASE Hex!DataRecord(l)
    <3>1. HP!DataRecord(l)
      BY <2>4, HexLineStep
    <3>2. CASE HP!AddChunkEmpty(l.data)
      BY <3>2 DEF HP!AddChunkEmpty, HP!imageVars, HP!layoutVars, HP!totalVars,
                  imageVars, layoutVars, totalVars
    <3>3. CASE HP!AddChunkStored(HP!StartOf(l), l.data, stats.lines + 1)
      BY <3>1, <3>3 DEF HP!DataRecord
    <3> QED
      BY <3>1, <3>2, <3>3 DEF HP!DataRecord
  <2> QED
    BY <2>1, <2>2, <2>3, <2>4
<1> QED
  BY <1>1, <1>3, <1>5, <1>6, HexStepIs

LEMMA HexKeepsLoading ==
  ASSUME HexLoading, LoadHex
  PROVE  HexLoading'
<1>1. HP!LoadInv'
  BY HexIsParser, ParserStepKeepsLoad DEF HexLoading
<1>2. HP!HexInv /\ HP!ImageInv /\ HP!ImageTypeOK /\ UNCHANGED mapVars
  BY HexStepIs DEF HexLoading, HP!LoadInv, HP!HexInv, HP!ImageInv, Loading
<1>3. CASE UNCHANGED imageVars
  <2>1. HP!TotalCounts'
    BY <1>3 DEF HexLoading, HP!TotalCounts, HP!LoadedBytes, imageVars, totalVars
  <2>2. Unmapped'
    BY <1>2, <1>3, StaysUnmapped DEF HexLoading
  <2> QED
    BY <1>1, <2>1, <2>2 DEF HexLoading
<1>4. CASE FreeImage
  <2>1. HP!FreeImage
    BY <1>4 DEF FreeImage, HP!FreeImage, Tables, HP!Tables
  <2>2. HP!TotalCounts'
    BY <2>1, WidthsHold, HexPart, HP!FreeKeepsCount
  <2>3. Unmapped'
    BY <1>2, <1>4, StaysUnmapped DEF HexLoading
  <2> QED
    BY <1>1, <2>2, <2>3 DEF HexLoading
<1>5. CASE \E l \in Lines :
              /\ HP!Dispatched(l)
              /\ HP!AddChunkStored(HP!StartOf(l), l.data, stats.lines + 1)
  <2>1. PICK l \in Lines : /\ HP!Dispatched(l)
                           /\ HP!AddChunkStored(HP!StartOf(l), l.data, stats.lines + 1)
    BY <1>5
  <2>2. l.form = "record" /\ HP!BaseInRange /\ stats.lines + 1 \in Nat
    <3>1. l.form = "record" /\ HP!BaseInRange /\ HP!TypeOK
      BY <1>2, <2>1 DEF HP!Dispatched, HP!HexInv
    <3>2. stats.lines \in Nat
      BY <3>1 DEF HP!TypeOK
    <3> QED
      BY <3>1, <3>2
  <2>3. HP!StartOf(l) \in HP!Address /\ l.data \in Seq(Byte)
    BY <2>2, WidthsHold, HexPart, HP!RecordAddress, HP!RecordFacts
  <2>4. HP!TotalCounts'
    BY <1>2, <2>1, <2>2, <2>3, WidthsHold, HexPart, HP!StoredKeepsCount DEF HexLoading
  <2>5. Unmapped'
    <3>1. capacity \in [Tables -> Nat] /\ UNCHANGED layoutVars
      BY <1>2, <2>1, HexPart DEF HP!ImageTypeOK, HP!AddChunkStored, layoutVars, HP!layoutVars
    <3>2. \E n : capacity' = [capacity EXCEPT !["chunks"] = n]
      BY <2>1 DEF HP!AddChunkStored
    <3> QED
      BY <1>2, <3>1, <3>2, StaysUnmapped DEF HexLoading
  <2> QED
    BY <1>1, <2>4, <2>5 DEF HexLoading
<1> QED
  BY <1>3, <1>4, <1>5, HexImageStep

\* The parser that has succeeded has stored the data lines of a valid file and
\* nothing else.
LEMMA HexLoaded ==
  ASSUME HexLoading, result = "ok"
  PROVE  /\ HexTable(seen, chunks) /\ totalLoaded = HexBytes
         /\ ValidFile(seen, stats)
<1>0. ValidFile(seen, stats)
  <2>1. HP!InCall
    BY DEF HP!InCall
  <2>2. HP!ValidPrefix(seen) /\ HP!HasEof(seen) /\ HP!Describes(seen, stats)
    BY <2>1 DEF HexLoading, HP!LoadInv, HP!HexInv, HP!AcceptsOnlyValid, HP!StatsMatchImage
  <2> QED
    BY <2>2, ValidSame DEF ValidFile
<1>1. /\ HP!Loaded(seen, chunks, 0) /\ seen \in Seq(Lines) /\ HP!ImageInv
      /\ chunks \in Seq(HP!SourceChunk)
  <2>1. HP!InCall
    BY DEF HP!InCall
  <2> QED
    BY <2>1 DEF HexLoading, HP!LoadInv, HP!ChunksFollow, HP!HexInv, HP!TypeOK, HP!ImageInv,
                HP!ImageTypeOK
<1>2. Hex!DataLines(seen) = HP!DataLines(seen)
  BY DEF Hex!DataLines, HP!DataLines, Hex!IsRecord, HP!IsRecord
<1>3. \A k : LineChunk(seen, k) = HP!ChunkOf(seen, k) /\ LineChunk(seen, k).line = k
  BY DEF LineChunk, HP!ChunkOf, Hex!BaseAt, HP!BaseAt, Hex!IsRecord, HP!IsRecord,
         Hex!Operand, HP!Operand, Hex!Word, HP!Word
<1>4. /\ \A p \in 1 .. Len(chunks) : \E k \in HP!DataLines(seen) : chunks[p] = HP!ChunkOf(seen, k)
      /\ \A k \in HP!DataLines(seen) : \E p \in 1 .. Len(chunks) : chunks[p] = HP!ChunkOf(seen, k)
  BY <1>1, WidthsHold, HexPart, HP!LoadedTable
<1>5. HexTable(seen, chunks)
  BY <1>2, <1>3, <1>4 DEF HexTable
<1>6. totalLoaded = HexBytes
  <2>1. \A p \in 1 .. Len(chunks) : Len(chunks[p].bytes) = chunks[p].end - chunks[p].start + 1
    BY <1>1 DEF HP!ImageInv, HP!ChunksWellFormed
  <2>2. HP!Total([k \in HP!DataLines(seen) |-> Len(seen[k].data)])
          = HP!Cardinality(HP!LoadedBytes(chunks))
    BY <1>1, <2>1, WidthsHold, HexPart, HP!LinesTotal
  <2>3. HP!TotalCounts
    BY DEF HexLoading
  <2> QED
    BY <1>2, <2>2, <2>3, TotalSame DEF HexBytes, HP!TotalCounts
<1> QED
  BY <1>0, <1>5, <1>6

-----------------------------------------------------------------------------
(* The raw loader in main, in the same way.                                *)

BP == INSTANCE BinLoaderProofs WITH prior <- <<>>

LEMMA BinPart ==
  /\ BP!Tables = Tables /\ BP!Address = Address
  /\ Contents \subseteq Seq(Byte) /\ Bases \subseteq BP!Address /\ MaxPrior \in Nat
<1>1. Bin!LoaderAssumption
  BY PartsAssumption
<1>2. BP!Tables = Tables /\ BP!Address = Address /\ Bin!Address = Address
  BY DEF BP!Tables, Tables, BP!Address, Address, Bin!Address
<1> QED
  BY <1>1, <1>2 DEF Bin!LoaderAssumption

LEMMA LoaderStepKeepsLoader == BP!LoaderInv /\ [BP!Next]_(BP!vars) => BP!LoaderInv'
BY WidthsHold, BinPart, BP!StepLoader

LEMMA BinChunkStep ==
  ASSUME NEW start, NEW bytes, NEW line
  PROVE  Bin!AddChunkStored(start, bytes, line) <=> BP!AddChunkStored(start, bytes, line)
BY DEF
    Bin!AddChunkStored, BP!AddChunkStored, Bin!AddressOverflows,
    BP!AddressOverflows, Bin!CountOverflows, BP!CountOverflows, Bin!CanPush,
    BP!CanPush, Bin!Full, BP!Full, Bin!NextCapacity, BP!NextCapacity, Bin!Grantable,
    BP!Grantable, Bin!TableRequest, BP!TableRequest, Bin!CapacityFor,
    BP!CapacityFor, Bin!EndOf, BP!EndOf, Bin!WrapAddr, BP!WrapAddr,
    Bin!LoweredStart, BP!LoweredStart, Bin!RaisedEnd, BP!RaisedEnd, Bin!WrapSize,
    BP!WrapSize, Bin!layoutVars, BP!layoutVars

LEMMA BinFailStep == ASSUME NEW about PROVE Bin!Fail(about) <=> BP!Fail(about)
BY DEF Bin!Fail, BP!Fail, Bin!FreeImage, BP!FreeImage, Bin!Tables, BP!Tables

\* Every step of the raw loader in main is a step of the raw loader.
LEMMA BinIsLoader ==
  ASSUME LoadBin
  PROVE  BP!Next
<1>1. CASE Bin!OpenFails \/ OpenBin
  <2>1. BP!OpenFails \/ BP!OpenFile
    BY <1>1 DEF OpenBin,
    Bin!OpenFails, BP!OpenFails, Bin!ReturnEarly, BP!ReturnEarly, Bin!OpenFile,
    BP!OpenFile, Bin!imageVars, BP!imageVars, Bin!layoutVars, BP!layoutVars,
    Bin!totalVars, BP!totalVars
  <2> QED
    BY <2>1 DEF BP!Next
<1>2. CASE Bin!Store \/ Bin!StoreFails
  <2>1. BP!Store \/ BP!StoreFails
    BY <1>2, BinChunkStep, BinFailStep DEF
    Bin!Store, BP!Store, Bin!StoreFails, BP!StoreFails, Bin!Succeed, BP!Succeed
  <2> QED
    BY <2>1 DEF BP!Next, BP!LoadStep
<1>3. CASE Bin!MeasureFails \/ Bin!RewindFails \/ Bin!AllocateFails \/ Bin!ReadShort
  <2>1. BP!MeasureFails \/ BP!RewindFails \/ BP!AllocateFails \/ BP!ReadShort
    BY <1>3, BinFailStep DEF
    Bin!MeasureFails, BP!MeasureFails, Bin!RewindFails, BP!RewindFails,
    Bin!AllocateFails, BP!AllocateFails, Bin!ReadShort, BP!ReadShort
  <2> QED
    BY <2>1 DEF BP!Next, BP!LoadStep
<1>4. CASE Bin!Measure \/ Bin!Rewind \/ Bin!EmptyFile \/ Bin!Allocate \/ Bin!ReadSome \/ Bin!ReadDone
  <2>1. BP!Measure \/ BP!Rewind \/ BP!EmptyFile \/ BP!Allocate \/ BP!ReadSome \/ BP!ReadDone
    BY <1>4 DEF
    Bin!Measure, BP!Measure, Bin!Rewind, BP!Rewind, Bin!EmptyFile, BP!EmptyFile,
    Bin!Allocate, BP!Allocate, Bin!ReadSome, BP!ReadSome, Bin!ReadDone, BP!ReadDone,
    Bin!Succeed, BP!Succeed, Bin!Grantable, BP!Grantable, Bin!imageVars,
    BP!imageVars, Bin!layoutVars, BP!layoutVars, Bin!totalVars, BP!totalVars,
    Bin!callVars, BP!callVars
  <2> QED
    BY <2>1 DEF BP!Next, BP!LoadStep
<1> QED
  BY <1>1, <1>2, <1>3, <1>4, BinStepIs DEF Bin!LoadStep

\* While the raw loader runs: the same, and that the base and file are main's.
BinLoading ==
  /\ BP!LoaderInv /\ BP!TotalCounts /\ Unmapped
  /\ held \subseteq {disk}
  /\ pc # "idle" \/ result = "ok" => base = command.base
  /\ result = "ok" => held = {disk}

\* What a step of the raw loader does to the image.
LEMMA BinImageStep ==
  ASSUME LoadBin
  PROVE  UNCHANGED imageVars \/ FreeImage \/ BP!Store
<1>1. ASSUME NEW about, Bin!Fail(about) PROVE FreeImage
  BY <1>1 DEF Bin!Fail, Bin!FreeImage, FreeImage, Bin!Tables, Tables
<1>2. (UNCHANGED Bin!imageVars) => UNCHANGED imageVars
  BY DEF Bin!imageVars, Bin!layoutVars, Bin!totalVars, imageVars, layoutVars, totalVars
<1>3. CASE Bin!OpenFails \/ OpenBin
  BY <1>2, <1>3 DEF Bin!OpenFails, Bin!ReturnEarly, OpenBin, Bin!OpenFile
<1>4. CASE \/ Bin!MeasureFails \/ Bin!RewindFails \/ Bin!AllocateFails \/ Bin!ReadShort
           \/ Bin!StoreFails
  BY <1>1, <1>4 DEF Bin!MeasureFails, Bin!RewindFails, Bin!AllocateFails, Bin!ReadShort,
                    Bin!StoreFails
<1>5. CASE \/ Bin!Measure \/ Bin!Rewind \/ Bin!EmptyFile \/ Bin!Allocate
           \/ Bin!ReadSome \/ Bin!ReadDone
  BY <1>2, <1>5 DEF Bin!Measure, Bin!Rewind, Bin!EmptyFile, Bin!Allocate, Bin!ReadSome,
                    Bin!ReadDone
<1>6. CASE Bin!Store
  BY <1>6, BinChunkStep DEF Bin!Store, BP!Store, Bin!Succeed, BP!Succeed
<1> QED
  BY <1>3, <1>4, <1>5, <1>6, BinStepIs DEF Bin!LoadStep

\* The base the raw loader uses is the one asked for, and no other content of the
\* file is measured than the one main finds.
LEMMA BinRemembers ==
  ASSUME BinLoading, LoadBin
  PROVE  /\ command' = command /\ disk' = disk /\ held' \subseteq {disk'}
         /\ pc' # "idle" \/ result' = "ok" => base' = command.base
         /\ result' = "ok" => held' = {disk'}
<1>1. /\ command' = command /\ result = "none" /\ held \subseteq {disk}
      /\ pc # "idle" => base = command.base
      /\ pc \in {"measured", "rewound", "reading", "read"} => disk \in held
  BY BinStepIs DEF Loading, Calling, BinLoading, BP!LoaderInv, BP!CallInOrder
<1>2. CASE Bin!OpenFails \/ OpenBin
  BY <1>1, <1>2 DEF Bin!OpenFails, Bin!ReturnEarly, OpenBin, Bin!OpenFile
<1>3. CASE \/ Bin!MeasureFails \/ Bin!RewindFails \/ Bin!AllocateFails \/ Bin!ReadShort
           \/ Bin!StoreFails
  BY <1>1, <1>3 DEF Bin!MeasureFails, Bin!RewindFails, Bin!AllocateFails, Bin!ReadShort,
                    Bin!StoreFails, Bin!Fail
<1>4. CASE Bin!Measure \/ Bin!Rewind \/ Bin!Allocate \/ Bin!ReadSome \/ Bin!ReadDone
  BY <1>1, <1>4 DEF Bin!Measure, Bin!Rewind, Bin!Allocate, Bin!ReadSome, Bin!ReadDone,
                    Bin!callVars
<1>5. CASE Bin!EmptyFile \/ Bin!Store
  BY <1>1, <1>5 DEF Bin!EmptyFile, Bin!Store, Bin!Succeed
<1> QED
  BY <1>2, <1>3, <1>4, <1>5, BinStepIs DEF Bin!LoadStep

LEMMA BinKeepsLoading ==
  ASSUME BinLoading, LoadBin
  PROVE  BinLoading'
<1>1. BP!LoaderInv'
  BY BinIsLoader, LoaderStepKeepsLoader DEF BinLoading
<1>2. /\ BP!LoaderInv /\ BP!ImageInv /\ BP!ImageTypeOK /\ UNCHANGED mapVars
      /\ held' \subseteq {disk'}
      /\ pc' # "idle" \/ result' = "ok" => base' = command'.base
      /\ result' = "ok" => held' = {disk'}
  BY BinRemembers, BinStepIs DEF BinLoading, BP!LoaderInv, BP!ImageInv, Loading
<1>3. BP!TotalCounts' /\ Unmapped'
  <2>1. CASE UNCHANGED imageVars
    <3>1. BP!TotalCounts'
      BY <2>1 DEF BinLoading, BP!TotalCounts, BP!LoadedBytes, imageVars, totalVars
    <3> QED
      BY <1>2, <2>1, <3>1, StaysUnmapped DEF BinLoading
  <2>2. CASE FreeImage
    <3>1. BP!FreeImage
      BY <2>2 DEF FreeImage, BP!FreeImage, Tables, BP!Tables
    <3>2. BP!TotalCounts'
      BY <3>1, WidthsHold, BinPart, BP!FreeKeepsCount
    <3> QED
      BY <1>2, <2>2, <3>2, StaysUnmapped DEF BinLoading
  <2>3. CASE BP!Store
    <3>1. BP!AddChunkStored(base, got, 0) /\ base \in BP!Address /\ got \in Seq(Byte)
      BY <1>2, <2>3 DEF BP!Store, BP!LoaderInv, BP!TypeOK
    <3>2. BP!TotalCounts'
      BY <1>2, <3>1, WidthsHold, BinPart, BP!StoredKeepsCount DEF BinLoading
    <3>3. capacity \in [Tables -> Nat] /\ UNCHANGED layoutVars
      BY <1>2, <3>1, BinPart DEF BP!ImageTypeOK, BP!AddChunkStored, layoutVars, BP!layoutVars
    <3>4. \E n : capacity' = [capacity EXCEPT !["chunks"] = n]
      BY <3>1 DEF BP!AddChunkStored
    <3> QED
      BY <1>2, <3>2, <3>3, <3>4, StaysUnmapped DEF BinLoading
  <2> QED
    BY <2>1, <2>2, <2>3, BinImageStep
<1> QED
  BY <1>1, <1>2, <1>3 DEF BinLoading

\* The raw loader that has succeeded has stored the file.
LEMMA BinLoaded ==
  ASSUME BinLoading, result = "ok"
  PROVE  BinTable(disk, command.base, chunks)
<1>1. BP!LoaderInv /\ BP!LoadIsAllOrNothing /\ BP!LoadedBytesAreTheFiles
  BY WidthsHold, BinPart, BP!LoadedIsTheFiles DEF BinLoading, BP!LoaderInv
<1>2. held = {disk} /\ base = command.base
  BY DEF BinLoading
<1>3. got = disk /\ Len(got) = size /\ disk \in Seq(Byte)
  BY <1>1, <1>2, BinPart DEF BP!LoadedBytesAreTheFiles, BP!LoaderInv, BP!TypeOK
<1>4. size = 0 <=> disk = <<>>
  BY <1>3, EmptySeq
<1>5. chunks = IF size = 0 THEN <<>>
               ELSE Append(<<>>, [start |-> base, end |-> base + size - 1,
                                  bytes |-> got, line |-> 0])
  BY <1>1 DEF BP!LoadIsAllOrNothing
<1>6. chunks = IF disk = <<>> THEN <<>>
               ELSE <<[start |-> command.base, end |-> command.base + Len(disk) - 1,
                       bytes |-> disk, line |-> 0]>>
  BY <1>2, <1>3, <1>4, <1>5
<1> QED
  BY <1>6 DEF BinTable

\* The total of a raw file is its length.
LEMMA BinTotal ==
  ASSUME BP!ImageInv, BP!TotalCounts, BinTable(disk, command.base, chunks)
  PROVE  totalLoaded = Len(disk)
<1>1. CASE disk = <<>>
  <2>1. chunks = <<>> /\ Len(disk) = 0
    BY <1>1 DEF BinTable
  <2>2. BP!Cardinality(BP!LoadedBytes(<<>>)) = 0
    BY WidthsHold, BinPart, BP!NothingCounted
  <2> QED
    BY <2>1, <2>2 DEF BP!TotalCounts
<1>2. CASE disk # <<>>
  <2> DEFINE c == [start |-> command.base, end |-> command.base + Len(disk) - 1,
                   bytes |-> disk, line |-> 0]
  <2>1. c.bytes = disk
    OBVIOUS
  <2>2. chunks = <<c>>
    BY <1>2 DEF BinTable
  <2> HIDE DEF c
  <2>3. Len(chunks) = 1 /\ chunks[1] = c /\ chunks = Append(<<>>, c)
    BY <2>2
  <2>4. /\ c \in BP!SourceChunk /\ c.start <= c.end /\ Len(c.bytes) = c.end - c.start + 1
    BY <2>3 DEF BP!ImageInv, BP!ImageTypeOK, BP!ChunksWellFormed
  <2>5. <<>> \in Seq(BP!SourceChunk)
    OBVIOUS
  <2>6. BP!Cardinality(BP!LoadedBytes(Append(<<>>, c)))
          = BP!Cardinality(BP!LoadedBytes(<<>>)) + Len(c.bytes)
    BY <2>4, <2>5, WidthsHold, BinPart, BP!AppendCounts
  <2>7. BP!Cardinality(BP!LoadedBytes(<<>>)) = 0
    BY WidthsHold, BinPart, BP!NothingCounted
  <2>8. PICK n \in Nat : n = Len(disk)
    <3>1. disk \in Seq(Byte)
      BY <2>1, <2>4 DEF BP!SourceChunk
    <3> QED
      BY <3>1
  <2> QED
    BY <2>1, <2>3, <2>6, <2>7, <2>8 DEF BP!TotalCounts
<1> QED
  BY <1>1, <1>2

-----------------------------------------------------------------------------
(* The map in main.  The layout it builds is proved of any table, and here *)
(* the table is the file's.                                                *)

MP == INSTANCE MemMapProofs

LEMMA MapPart == MP!Tables = Tables /\ MP!Address = Address
BY DEF MP!Tables, Tables, MP!Address, Address

LEMMA MapStepKeepsBytes == ASSUME MP!BytesInv, [MP!Next]_(MP!vars) PROVE MP!BytesInv'
BY WidthsHold, MapPart, MP!NextKeepsBytes

LEMMA MapClearStep ==
  /\ Map!ClearLayout <=> MP!ClearLayout
  /\ Map!Abandon <=> MP!Abandon
  /\ Map!imageVars = MP!imageVars /\ (UNCHANGED Map!imageVars <=> UNCHANGED MP!imageVars)
  /\ Map!totalVars = MP!totalVars /\ (UNCHANGED Map!totalVars <=> UNCHANGED MP!totalVars)
BY DEF
    Map!ClearLayout, MP!ClearLayout, Map!Abandon, MP!Abandon, Map!Tables, MP!Tables,
    Map!NoBuilder, MP!NoBuilder, Map!imageVars, MP!imageVars, Map!layoutVars,
    MP!layoutVars, Map!totalVars, MP!totalVars

LEMMA MapSortStep == ASSUME NEW s PROVE Map!Sortings(s) = MP!Sortings(s)
<1>1. \A S, T : Map!Bijection(S, T) = MP!Bijection(S, T)
  BY DEF
    Map!Bijection, MP!Bijection, Map!Injection, MP!Injection, Map!Surjection,
    MP!Surjection, Map!IsInjective, MP!IsInjective
<1>2. \A t : Map!Ordered(t) <=> MP!Ordered(t)
  BY DEF
    Map!Ordered, MP!Ordered, Map!KeyBefore, MP!KeyBefore
<1>3. Map!Arrangements(s) = MP!Arrangements(s)
  BY <1>1 DEF Map!Arrangements, MP!Arrangements
<1> QED
  BY <1>2, <1>3 DEF Map!Sortings, MP!Sortings

LEMMA MapPushStep ==
  ASSUME NEW t, NEW n
  PROVE  /\ Map!CanPush(t, n) <=> MP!CanPush(t, n)
         /\ Map!Full(t, n) <=> MP!Full(t, n)
         /\ Map!CapacityFor(t, n) = MP!CapacityFor(t, n)
         /\ Map!Grantable(n) <=> MP!Grantable(n)
BY DEF
    Map!CanPush, MP!CanPush, Map!Full, MP!Full, Map!NextCapacity, MP!NextCapacity,
    Map!Grantable, MP!Grantable, Map!TableRequest, MP!TableRequest, Map!CapacityFor,
    MP!CapacityFor, Map!WrapSize, MP!WrapSize

LEMMA MapOverlapOf ==
  ASSUME NEW p, NEW q
  PROVE  /\ Map!OverlapOf(p, q) = MP!OverlapOf(p, q)
         /\ Map!OverlapTooLong(p, q) <=> MP!OverlapTooLong(p, q)
BY DEF
    Map!OverlapOf, MP!OverlapOf, Map!OverlapTooLong, MP!OverlapTooLong,
    Map!OverlapStart, MP!OverlapStart, Map!OverlapEnd, MP!OverlapEnd,
    Map!Conflicting, MP!Conflicting, Map!ByteAt, MP!ByteAt, Map!WrapAddr,
    MP!WrapAddr

LEMMA MapTailStep ==
  ASSUME NEW c
  PROVE  /\ Map!TailOf(c) = MP!TailOf(c)
         /\ Map!MergedBytes(c) = MP!MergedBytes(c)
         /\ Map!BuilderFrom(c) = MP!BuilderFrom(c)
         /\ Map!BuilderCapacity(c) = MP!BuilderCapacity(c)
         /\ \A last : Map!GapBetween(last, c) = MP!GapBetween(last, c)
BY DEF
    Map!TailOf, MP!TailOf, Map!MergedBytes, MP!MergedBytes, Map!BuilderFrom,
    MP!BuilderFrom, Map!BuilderCapacity, MP!BuilderCapacity, Map!GrownCapacity,
    MP!GrownCapacity, Map!GapBetween, MP!GapBetween, Map!WrapAddr, MP!WrapAddr

LEMMA MapRegionStep ==
  /\ Map!RegionsTaken = MP!RegionsTaken
  /\ Map!CanTakeRegion <=> MP!CanTakeRegion
  /\ Map!RegionCapacity = MP!RegionCapacity
BY MapPushStep DEF
    Map!RegionsTaken, MP!RegionsTaken, Map!CanTakeRegion, MP!CanTakeRegion,
    Map!RegionCapacity, MP!RegionCapacity, Map!BuilderRegion, MP!BuilderRegion

\* Every step of reconstruction in main is a step of reconstruction.
LEMMA MapIsReconstruction ==
  ASSUME Map!ReconstructEmpty \/ Map!ReconstructStart \/ Map!ReconstructStep
  PROVE  MP!Next
<1>1. CASE Map!ReconstructEmpty \/ Map!ReconstructStart
  <2>1. MP!ReconstructEmpty \/ MP!ReconstructStart
    BY <1>1, MapClearStep, MapSortStep DEF
    Map!ReconstructEmpty, MP!ReconstructEmpty, Map!ReconstructStart,
    MP!ReconstructStart
  <2> QED
    BY <2>1 DEF MP!Next
<1>2. CASE Map!RecordOverlap \/ Map!NextOverlapRow
  <2>1. MP!RecordOverlap \/ MP!NextOverlapRow
    BY <1>2, MapClearStep, MapPushStep, MapOverlapOf DEF
    Map!RecordOverlap, MP!RecordOverlap, Map!NextOverlapRow, MP!NextOverlapRow,
    Map!InnerLoop, MP!InnerLoop
  <2> QED
    BY <2>1 DEF MP!Next, MP!ReconstructStep
<1>3. CASE Map!OverlapFails \/ Map!StartFails \/ Map!CloseFails \/ Map!FinishFails \/ Map!MergeFails
  <2>1. CASE Map!CloseFails
    <3>1. Map!Separated <=> MP!Separated
      BY DEF Map!Separated, MP!Separated, Map!CanMerge, MP!CanMerge
    <3>2. MP!CloseTakeFails \/ MP!CloseGapFails \/ MP!CloseStartFails
      BY <2>1, <3>1, MapClearStep, MapPushStep, MapRegionStep DEF
      Map!CloseFails, Map!CloseTakeFails, MP!CloseTakeFails, Map!CloseGapFails,
      MP!CloseGapFails, Map!CloseStartFails, MP!CloseStartFails
    <3> QED
      BY <3>2 DEF MP!Next, MP!ReconstructStep, MP!CloseFails
  <2>2. CASE Map!OverlapFails \/ Map!StartFails \/ Map!FinishFails \/ Map!MergeFails
    <3>1. MP!OverlapFails \/ MP!StartFails \/ MP!FinishFails \/ MP!MergeFails
      BY <2>2, MapClearStep, MapPushStep, MapOverlapOf, MapTailStep DEF
      Map!OverlapFails, MP!OverlapFails, Map!InnerLoop, MP!InnerLoop, Map!StartFails,
      MP!StartFails, Map!CanMerge, MP!CanMerge, Map!FinishFails, MP!FinishFails,
      Map!MergeFails, MP!MergeFails, Map!Merging, MP!Merging
    <3> QED
      BY <3>1 DEF MP!Next, MP!ReconstructStep
  <2> QED
    BY <1>3, <2>1, <2>2
<1>4. CASE Map!StartBuilder \/ Map!MergeContained \/ Map!MergeTail
  <2>1. MP!StartBuilder \/ MP!MergeContained \/ MP!MergeTail
    BY <1>4, MapClearStep, MapPushStep, MapTailStep DEF
    Map!StartBuilder, MP!StartBuilder, Map!MergeContained, MP!MergeContained,
    Map!MergeTail, MP!MergeTail, Map!Merging, MP!Merging, Map!CanMerge, MP!CanMerge
  <2> QED
    BY <2>1 DEF MP!Next, MP!ReconstructStep
<1>5. CASE Map!CloseRegion \/ Map!FinishLayout
  <2>1. MP!CloseRegion \/ MP!FinishLayout
    BY <1>5, MapClearStep, MapPushStep, MapTailStep, MapRegionStep DEF
    Map!CloseRegion, MP!CloseRegion, Map!Separated, MP!Separated, Map!CanMerge,
    MP!CanMerge, Map!FinishLayout, MP!FinishLayout, Map!NoBuilder, MP!NoBuilder
  <2> QED
    BY <2>1 DEF MP!Next, MP!ReconstructStep
<1> QED
  BY <1>1, <1>2, <1>3, <1>4, <1>5 DEF Map!ReconstructStep

\* While the map runs: what is proved of it, of the table of the file.
BeingMapped ==
  /\ MP!BytesInv /\ MP!OverlapsComplete
  /\ TableOfFile /\ totalLoaded = FileBytes
  /\ ReadAsHex => ValidFile(seen, stats)
  /\ result = "ok" => pc = "idle" /\ built = Len(chunks) /\ MP!Ordered(chunks)

\* What the report rests on, by stages; at the exit it is the two properties.
FileInv ==
  /\ command \in Commands
  /\ stage = "start" => HexLoading /\ BinLoading
  /\ stage = "load" /\ ResolvedFormat = "hex" => HexLoading
  /\ stage = "load" /\ ResolvedFormat = "bin" => BinLoading
  /\ stage = "map" => BeingMapped
  /\ ReportIsOfTheFile /\ OverlapsNameTheLines

-----------------------------------------------------------------------------
(* What the layout built says of the chunks is what the file says.         *)

\* mem is the memory the chunks of cs describe, each address from the first.
MemoryOf(mem, cs) ==
  /\ \A a : a \in DOMAIN mem <=> \E p \in 1 .. Len(cs) : a \in MP!Span(cs[p])
  /\ \A p \in 1 .. Len(cs) : \A a \in MP!Span(cs[p]) :
       (\A m \in 1 .. p - 1 : a \notin MP!Span(cs[m])) => mem[a] = MP!ByteAt(cs[p], a)

Laid == MP!BytesInv /\ MP!OverlapsComplete /\ pc = "idle" /\ built = Len(chunks)

\* What the fields of a loaded chunk are.
LEMMA ChunkNumbers ==
  ASSUME MP!ImageInv, NEW p \in 1 .. Len(chunks)
  PROVE  \E s, e \in Nat :
           /\ s = chunks[p].start /\ e = chunks[p].end /\ s <= e /\ e <= AddrMax
           /\ Len(chunks[p].bytes) = e - s + 1 /\ chunks[p].line \in Nat
           /\ MP!Span(chunks[p]) = s .. e
<1>1. /\ chunks[p].start \in MP!Address /\ chunks[p].end \in MP!Address
      /\ chunks[p].start <= chunks[p].end /\ chunks[p].line \in Nat
      /\ Len(chunks[p].bytes) = chunks[p].end - chunks[p].start + 1
  BY WidthsHold, MapPart, MP!ChunkFacts
<1>2. PICK s, e \in Nat : s = chunks[p].start /\ e = chunks[p].end /\ e <= AddrMax
  BY <1>1, WidthsHold DEF MP!Address
<1> QED
  BY <1>1, <1>2 DEF MP!Span

LEMMA LaidFacts ==
  ASSUME Laid
  PROVE  /\ MP!ImageInv /\ chunks \in Seq(MP!SourceChunk) /\ Len(chunks) \in Nat
         /\ MP!Covers(regions, chunks, Len(chunks)) /\ MP!AllFirst(regions, chunks, Len(chunks))
         /\ overlaps \in Seq(MP!LayoutOverlap)
         /\ \A p, q \in 1 .. Len(chunks) : MP!Scanned(p, q) <=> p < q
<1>1. MP!LayoutInv /\ MP!MemMapInv /\ MP!ImageInv /\ chunks \in Seq(MP!SourceChunk)
  BY DEF Laid, MP!BytesInv, MP!LayoutInv, MP!MemMapInv, MP!ImageInv, MP!ImageTypeOK
<1>2. MP!Runs = regions /\ MP!Merged = Len(chunks)
  BY DEF Laid, MP!Runs, MP!Merged
<1>3. MP!Covers(regions, chunks, Len(chunks)) /\ MP!AllFirst(regions, chunks, Len(chunks))
  BY <1>1, <1>2 DEF Laid, MP!BytesInv, MP!LayoutInv
<1>4. \A p, q \in 1 .. Len(chunks) : MP!Scanned(p, q) <=> p < q
  BY <1>1 DEF Laid, MP!Scanned
<1>5. overlaps \in Seq(MP!LayoutOverlap)
  BY <1>1 DEF MP!MemMapInv, MP!TypeOK
<1> QED
  BY <1>1, <1>3, <1>4, <1>5

\* Of ranges that are apart no two hold the same address.
LEMMA ApartOnce ==
  ASSUME NEW ts, MP!Apart(ts), NEW n \in 1 .. Len(ts), NEW m \in 1 .. Len(ts), NEW a \in Int,
         a \in ts[n].start .. ts[n].end, a \in ts[m].start .. ts[m].end
  PROVE  n = m
<1>1. PICK s, e, t, f \in Int : /\ s = ts[n].start /\ e = ts[n].end
                               /\ t = ts[m].start /\ f = ts[m].end
  BY DEF MP!Apart
<1>2. (n < m => e + 1 < t) /\ (m < n => f + 1 < s)
  BY <1>1 DEF MP!Apart
<1>3. n \in Nat /\ m \in Nat
  BY DEF MP!Apart
<1> QED
  BY <1>1, <1>2, <1>3

LEMMA RegionsApart ==
  ASSUME Laid
  PROVE  MP!Apart(regions) /\ regions \in Seq(MP!LayoutRegion)
<1>1. MP!Runs = regions /\ regions \in Seq(MP!LayoutRegion) /\ MP!Separate(regions)
  BY DEF Laid, MP!BytesInv, MP!Runs, MP!LayoutInv, MP!MemMapInv, MP!TypeOK
<1> QED
  BY <1>1, WidthsHold, MapPart, MP!SeparateApart

\* A memory of chunks has addresses only.
LEMMA MemoryAddresses ==
  ASSUME Laid, NEW mem, MemoryOf(mem, chunks), NEW a \in DOMAIN mem
  PROVE  a \in MP!Address /\ a \in Int /\ \E p \in 1 .. Len(chunks) : a \in MP!Span(chunks[p])
<1>1. PICK p \in 1 .. Len(chunks) : a \in MP!Span(chunks[p])
  BY DEF MemoryOf
<1>2. PICK s, e \in Nat : MP!Span(chunks[p]) = s .. e /\ e <= AddrMax
  BY LaidFacts, ChunkNumbers
<1> QED
  BY <1>1, <1>2, WidthsHold DEF MP!Address

\* The regions show that memory, each address once, and no address beside it.
LEMMA RegionsShowMemory ==
  ASSUME Laid, NEW mem, MemoryOf(mem, chunks)
  PROVE  /\ \A n \in 1 .. Len(regions) : \A a \in Within(regions[n]) :
              /\ a \in DOMAIN mem
              /\ regions[n].bytes[a - regions[n].start + 1] = mem[a]
         /\ \A a \in DOMAIN mem : \E n \in 1 .. Len(regions) :
              /\ a \in Within(regions[n])
              /\ \A m \in 1 .. Len(regions) : a \in Within(regions[m]) => m = n
<1>1. ASSUME NEW n \in 1 .. Len(regions), NEW a \in MP!Span(regions[n])
      PROVE  a \in DOMAIN mem /\ MP!ByteAt(regions[n], a) = mem[a]
  <2>1. PICK p \in 1 .. Len(chunks) :
          /\ a \in MP!Span(chunks[p])
          /\ MP!ByteAt(regions[n], a) = MP!ByteAt(chunks[p], a)
          /\ \A m \in 1 .. p - 1 : a \notin MP!Span(chunks[m])
    BY LaidFacts DEF MP!AllFirst, MP!RunFirst, MP!HoldsFirst
  <2> QED
    BY <2>1 DEF MemoryOf
<1>2. ASSUME NEW a \in DOMAIN mem
      PROVE  \E n \in 1 .. Len(regions) : a \in MP!Span(regions[n])
  <2>1. a \in MP!Address /\ \E p \in 1 .. Len(chunks) : a \in MP!Span(chunks[p])
    BY MemoryAddresses
  <2> QED
    BY <2>1, LaidFacts DEF MP!Covers, MP!Covered
<1>3. ASSUME NEW a \in DOMAIN mem
      PROVE  \E n \in 1 .. Len(regions) :
               /\ a \in Within(regions[n])
               /\ \A m \in 1 .. Len(regions) : a \in Within(regions[m]) => m = n
  <2>1. PICK n \in 1 .. Len(regions) : a \in Within(regions[n])
    BY <1>2 DEF MP!Span, Within
  <2>2. ASSUME NEW m \in 1 .. Len(regions), a \in Within(regions[m]) PROVE m = n
    BY <2>1, <2>2, RegionsApart, MemoryAddresses, ApartOnce DEF Within
  <2> QED
    BY <2>1, <2>2
<1> QED
  BY <1>1, <1>3 DEF MP!Span, MP!ByteAt, Within

\* The printed span runs from the first address of that memory to the last.
LEMMA SpanShowsMemory ==
  ASSUME Laid, NEW mem, MemoryOf(mem, chunks)
  PROVE  /\ DOMAIN mem \subseteq PrintedSpan
         /\ \A a \in PrintedSpan : \E x, y \in DOMAIN mem : x <= a /\ a <= y
<1>1. MP!SpanIsTight /\ MP!TotalTellsEmpty /\ MP!ImageInv
  BY LaidFacts DEF MP!ImageInv
<1>2. CASE chunks = <<>>
  <2>1. PrintedSpan = {} /\ Len(chunks) = 0
    BY <1>1, <1>2 DEF MP!TotalTellsEmpty, PrintedSpan
  <2>2. \A a : a \notin DOMAIN mem
    BY <2>1 DEF MemoryOf
  <2> QED
    BY <2>1, <2>2
<1>3. CASE chunks # <<>>
  <2>1. PrintedSpan = addrStart .. addrEnd
    BY <1>1, <1>3 DEF MP!TotalTellsEmpty, PrintedSpan
  <2>2. PICK k, m \in 1 .. Len(chunks) :
          addrStart = chunks[k].start /\ addrEnd = chunks[m].end
    BY <1>1, <1>3 DEF MP!SpanIsTight
  <2>3. PICK lo, hi \in Nat :
          /\ lo = addrStart /\ hi = addrEnd
          /\ lo \in MP!Span(chunks[k]) /\ hi \in MP!Span(chunks[m])
    <3>1. PICK s, e \in Nat : s = chunks[k].start /\ s <= e /\ MP!Span(chunks[k]) = s .. e
      BY <1>1, ChunkNumbers
    <3>2. PICK t, f \in Nat : f = chunks[m].end /\ t <= f /\ MP!Span(chunks[m]) = t .. f
      BY <1>1, ChunkNumbers
    <3> QED
      BY <2>2, <3>1, <3>2
  <2>4. lo \in DOMAIN mem /\ hi \in DOMAIN mem
    BY <2>3 DEF MemoryOf
  <2>5. ASSUME NEW a \in DOMAIN mem PROVE a \in lo .. hi
    <3>1. PICK p \in 1 .. Len(chunks) : a \in MP!Span(chunks[p])
      BY DEF MemoryOf
    <3>2. PICK s, e \in Nat :
            s = chunks[p].start /\ e = chunks[p].end /\ MP!Span(chunks[p]) = s .. e
      BY <1>1, ChunkNumbers
    <3>3. lo <= s /\ e <= hi
      BY <1>1, <1>3, <2>3, <3>2 DEF MP!SpanIsTight
    <3> QED
      BY <3>1, <3>2, <3>3
  <2>6. ASSUME NEW a \in lo .. hi PROVE \E x, y \in DOMAIN mem : x <= a /\ a <= y
    BY <2>4
  <2> QED
    BY <2>1, <2>3, <2>5, <2>6
<1> QED
  BY <1>2, <1>3

\* The gaps show the addresses of the span the memory has not, each once.
LEMMA GapsShowMemory ==
  ASSUME Laid, NEW mem, MemoryOf(mem, chunks)
  PROVE  /\ \A n \in 1 .. Len(gaps) :
              /\ Within(gaps[n]) # {}
              /\ Within(gaps[n]) \subseteq PrintedSpan \ DOMAIN mem
         /\ \A a \in PrintedSpan \ DOMAIN mem : \E n \in 1 .. Len(gaps) :
              /\ a \in Within(gaps[n])
              /\ \A m \in 1 .. Len(gaps) : a \in Within(gaps[m]) => m = n
<1>1. MP!TotalTellsEmpty /\ Len(chunks) \in Nat
  BY LaidFacts DEF MP!ImageInv
<1>2. CASE chunks = <<>>
  <2>1. PrintedSpan = {} /\ Len(chunks) = 0
    BY <1>1, <1>2 DEF MP!TotalTellsEmpty, PrintedSpan
  <2>2. MP!Apart(regions) /\ regions \in Seq(MP!LayoutRegion)
    BY RegionsApart
  <2>3. ASSUME NEW r \in 1 .. Len(regions) PROVE FALSE
    <3>0. regions[r] \in MP!LayoutRegion
      BY <2>2
    <3>1. /\ regions[r].start \in MP!Address
          /\ regions[r].start \in Int /\ regions[r].end \in Int
          /\ regions[r].start <= regions[r].end
      BY <2>2, <3>0 DEF MP!LayoutRegion, MP!Apart
    <3>2. MP!Covered(regions[r].start, regions)
      BY <3>1 DEF MP!Covered, MP!Span
    <3> QED
      BY <2>1, <3>1, <3>2, LaidFacts DEF MP!Covers
  <2>4. regions = <<>>
    BY <2>2, <2>3
  <2>5. Len(gaps) = 0
    BY <2>4 DEF Laid, MP!BytesInv, MP!LayoutInv, MP!Runs, MP!GapsOf
  <2> QED
    BY <2>1, <2>5
<1>3. CASE chunks # <<>>
  <2>1. MP!Complete /\ MP!BytesInv
    BY <1>3 DEF Laid, MP!Complete
  <2>2. /\ MP!Apart(gaps)
        /\ \A a \in Int : MP!Covered(a, gaps)
              <=> a \in addrStart .. addrEnd /\ ~MP!Covered(a, regions)
    BY <2>1, WidthsHold, MapPart, MP!GapsFillSpan
  <2>3. PrintedSpan = addrStart .. addrEnd /\ PrintedSpan \subseteq Int
    BY <1>1, <1>3 DEF MP!TotalTellsEmpty, PrintedSpan
  <2>4. \A a \in Int : MP!Covered(a, regions) <=> a \in DOMAIN mem
    BY RegionsShowMemory DEF MP!Covered, MP!Span, Within
  <2>5. \A a \in Int : MP!Covered(a, gaps) <=> a \in PrintedSpan \ DOMAIN mem
    BY <2>2, <2>3, <2>4
  <2>6. ASSUME NEW n \in 1 .. Len(gaps)
        PROVE  Within(gaps[n]) # {} /\ Within(gaps[n]) \subseteq PrintedSpan \ DOMAIN mem
    <3>1. PICK s, e \in Int : s = gaps[n].start /\ e = gaps[n].end /\ s <= e
      BY <2>2 DEF MP!Apart
    <3>2. Within(gaps[n]) = s .. e /\ s \in s .. e
      BY <3>1 DEF Within
    <3>3. ASSUME NEW a \in s .. e PROVE a \in PrintedSpan \ DOMAIN mem
      BY <2>5, <3>1, <3>3 DEF MP!Covered, MP!Span
    <3> QED
      BY <3>2, <3>3
  <2>7. ASSUME NEW a \in PrintedSpan \ DOMAIN mem
        PROVE  \E n \in 1 .. Len(gaps) :
                 /\ a \in Within(gaps[n])
                 /\ \A m \in 1 .. Len(gaps) : a \in Within(gaps[m]) => m = n
    <3>1. a \in Int
      BY <2>3
    <3>2. PICK n \in 1 .. Len(gaps) : a \in Within(gaps[n])
      BY <2>5, <3>1 DEF MP!Covered, MP!Span, Within
    <3>3. ASSUME NEW m \in 1 .. Len(gaps), a \in Within(gaps[m]) PROVE m = n
      BY <2>2, <3>1, <3>2, <3>3, ApartOnce DEF Within
    <3> QED
      BY <3>2, <3>3
  <2> QED
    BY <2>6, <2>7
<1> QED
  BY <1>2, <1>3

\* A raw file is the memory of its one chunk, or of none.
LEMMA BinMemoryOf ==
  ASSUME BinTable(disk, command.base, chunks), command.base \in Nat, disk \in Seq(Byte)
  PROVE  MemoryOf(BinMemory, chunks)
<1>1. PICK b \in Nat : b = command.base
  OBVIOUS
<1>2. CASE disk = <<>>
  <2>1. Len(disk) = 0 /\ b .. b + Len(disk) - 1 = {}
    BY <1>2
  <2>2. chunks = <<>> /\ DOMAIN BinMemory = {}
    BY <1>1, <1>2, <2>1 DEF BinTable, BinMemory
  <2> QED
    BY <2>2 DEF MemoryOf
<1>3. CASE disk # <<>>
  <2> DEFINE c == [start |-> b, end |-> b + Len(disk) - 1, bytes |-> disk, line |-> 0]
  <2>1. chunks = <<c>> /\ Len(chunks) = 1 /\ chunks[1] = c
    BY <1>1, <1>3 DEF BinTable
  <2>2. MP!Span(c) = b .. b + Len(disk) - 1
    BY DEF MP!Span
  <2>3. \A a : MP!ByteAt(c, a) = disk[a - b + 1]
    BY DEF MP!ByteAt
  <2>4. BinMemory = [a \in b .. b + Len(disk) - 1 |-> disk[a - b + 1]]
    BY <1>1 DEF BinMemory
  <2> HIDE DEF c
  <2>5. ASSUME NEW p \in 1 .. Len(chunks) PROVE p = 1
    BY <2>1
  <2> QED
    BY <2>1, <2>2, <2>3, <2>4, <2>5 DEF MemoryOf
<1> QED
  BY <1>2, <1>3

\* A chunk of a HEX file and its line say the same.
LEMMA LineIsChunk ==
  ASSUME HexTable(seen, chunks), MP!ImageInv, NEW p \in 1 .. Len(chunks)
  PROVE  LET k == chunks[p].line
         IN  /\ k \in Hex!DataLines(seen) /\ k \in Nat /\ k # 0
             /\ LineStart(k) = chunks[p].start /\ LineSpan(k) = MP!Span(chunks[p])
             /\ seen[k].data = chunks[p].bytes
<1> DEFINE k == chunks[p].line
<1>1. k \in Hex!DataLines(seen) /\ chunks[p] = LineChunk(seen, k)
  BY DEF HexTable
<1>2. k \in Nat /\ k # 0
  <2>1. k \in Nat
    BY ChunkNumbers
  <2>2. k \in 1 .. Len(seen)
    BY <1>1 DEF Hex!DataLines
  <2> QED
    BY <2>1, <2>2
<1>3. /\ LineStart(k) = chunks[p].start /\ seen[k].data = chunks[p].bytes
      /\ LineStart(k) + Len(seen[k].data) - 1 = chunks[p].end
  BY <1>1 DEF LineChunk, LineStart
<1> QED
  BY <1>1, <1>2, <1>3 DEF LineSpan, MP!Span

\* Lines compare as their chunks do, and two of them always compare.
LEMMA LineOrder ==
  ASSUME HexTable(seen, chunks), MP!ImageInv,
         NEW p \in 1 .. Len(chunks), NEW q \in 1 .. Len(chunks)
  PROVE  LET k == chunks[p].line
             m == chunks[q].line
         IN  /\ LineBefore(k, m) <=> MP!KeyBefore(chunks[p], chunks[q])
             /\ LineBefore(k, m) => ~LineBefore(m, k)
             /\ k = m => ~LineBefore(k, m)
             /\ k # m => LineBefore(k, m) \/ LineBefore(m, k)
<1>1. PICK s, e \in Nat :
        /\ s = chunks[p].start /\ e = chunks[p].end
        /\ Len(chunks[p].bytes) = e - s + 1 /\ chunks[p].line \in Nat
  BY ChunkNumbers
<1>2. PICK t, f \in Nat :
        /\ t = chunks[q].start /\ f = chunks[q].end
        /\ Len(chunks[q].bytes) = f - t + 1 /\ chunks[q].line \in Nat
  BY ChunkNumbers
<1>3. PICK k, m \in Nat : k = chunks[p].line /\ m = chunks[q].line
  BY <1>1, <1>2
<1>4. /\ LineStart(k) = s /\ Len(seen[k].data) = e - s + 1
      /\ LineStart(m) = t /\ Len(seen[m].data) = f - t + 1
  BY <1>1, <1>2, <1>3, LineIsChunk
<1>5. LineBefore(k, m) <=>
        s < t \/ (s = t /\ e - s + 1 < f - t + 1) \/ (s = t /\ e - s + 1 = f - t + 1 /\ k < m)
  BY <1>4 DEF LineBefore
<1>6. LineBefore(m, k) <=>
        t < s \/ (t = s /\ f - t + 1 < e - s + 1) \/ (t = s /\ f - t + 1 = e - s + 1 /\ m < k)
  BY <1>4 DEF LineBefore
<1>7. MP!KeyBefore(chunks[p], chunks[q]) <=> s < t \/ (s = t /\ e < f) \/ (s = t /\ e = f /\ k < m)
  BY <1>1, <1>2, <1>3 DEF MP!KeyBefore
<1>8. /\ LineBefore(k, m) <=> s < t \/ (s = t /\ e < f) \/ (s = t /\ e = f /\ k < m)
      /\ LineBefore(m, k) <=> t < s \/ (t = s /\ f < e) \/ (t = s /\ f = e /\ m < k)
  BY <1>5, <1>6
<1>9. /\ LineBefore(k, m) <=> MP!KeyBefore(chunks[p], chunks[q])
      /\ LineBefore(k, m) => ~LineBefore(m, k)
      /\ k = m => ~LineBefore(k, m)
      /\ k # m => LineBefore(k, m) \/ LineBefore(m, k)
  BY <1>7, <1>8
<1> QED
  BY <1>3, <1>9

\* A HEX file is the memory of its chunks in sort order.
LEMMA HexMemoryOf ==
  ASSUME HexTable(seen, chunks), MP!ImageInv, MP!Ordered(chunks)
  PROVE  MemoryOf(HexMemory, chunks)
<1> DEFINE lines == Hex!DataLines(seen)
           Wins(a, m) == /\ a \in LineSpan(m)
                         /\ \A n \in lines : a \in LineSpan(n) => ~LineBefore(n, m)
           line(a) == CHOOSE m \in lines : Wins(a, m)
<1>1. HexMemory = [a \in UNION {LineSpan(k) : k \in lines} |->
                    seen[line(a)].data[a - LineStart(line(a)) + 1]]
  BY DEF HexMemory
<1>2. \A k \in lines : \E p \in 1 .. Len(chunks) : chunks[p].line = k
  BY DEF HexTable
<1>3. ASSUME NEW a
      PROVE  a \in DOMAIN HexMemory <=> \E p \in 1 .. Len(chunks) : a \in MP!Span(chunks[p])
  <2>1. a \in DOMAIN HexMemory <=> \E k \in lines : a \in LineSpan(k)
    BY <1>1
  <2>2. ASSUME NEW k \in lines, a \in LineSpan(k)
        PROVE  \E p \in 1 .. Len(chunks) : a \in MP!Span(chunks[p])
    <3>1. PICK p \in 1 .. Len(chunks) : chunks[p].line = k
      BY <1>2
    <3>2. LineSpan(k) = MP!Span(chunks[p])
      BY <3>1, LineIsChunk
    <3> QED
      BY <2>2, <3>2
  <2>3. ASSUME NEW p \in 1 .. Len(chunks), a \in MP!Span(chunks[p])
        PROVE  \E k \in lines : a \in LineSpan(k)
    BY <2>3, LineIsChunk
  <2> QED
    BY <2>1, <2>2, <2>3
<1>4. ASSUME NEW p \in 1 .. Len(chunks), NEW a \in MP!Span(chunks[p]),
             \A m \in 1 .. p - 1 : a \notin MP!Span(chunks[m])
      PROVE  HexMemory[a] = MP!ByteAt(chunks[p], a)
  <2>1. PICK k : k = chunks[p].line
    OBVIOUS
  <2>2. /\ k \in lines /\ a \in LineSpan(k) /\ LineStart(k) = chunks[p].start
        /\ seen[k].data = chunks[p].bytes
    BY <2>1, LineIsChunk
  <2>3. ASSUME NEW n \in lines, a \in LineSpan(n) PROVE ~LineBefore(n, k)
    <3>1. PICK q \in 1 .. Len(chunks) : chunks[q].line = n
      BY <1>2
    <3>2. a \in MP!Span(chunks[q])
      BY <2>3, <3>1, LineIsChunk
    <3>3. p \in Nat /\ q \in Nat /\ (q < p => q \in 1 .. p - 1)
      OBVIOUS
    <3>4. q = p \/ p < q
      BY <1>4, <3>2, <3>3
    <3>5. p < q => ~MP!KeyBefore(chunks[q], chunks[p])
      BY DEF MP!Ordered
    <3> QED
      BY <2>1, <3>1, <3>4, <3>5, LineOrder
  <2>4. Wins(a, k)
    BY <2>2, <2>3
  <2>5. ASSUME NEW m \in lines, Wins(a, m) PROVE m = k
    <3>1. PICK q \in 1 .. Len(chunks) : chunks[q].line = m
      BY <1>2
    <3>2. ~LineBefore(k, m) /\ ~LineBefore(m, k)
      BY <2>2, <2>3, <2>5
    <3> QED
      BY <2>1, <3>1, <3>2, LineOrder
  <2> HIDE DEF Wins
  <2>6. line(a) = k
    BY <2>2, <2>4, <2>5
  <2> HIDE DEF line
  <2>7. a \in DOMAIN HexMemory
    BY <1>3
  <2>8. HexMemory[a] = seen[line(a)].data[a - LineStart(line(a)) + 1]
    BY <1>1, <2>7
  <2> QED
    BY <2>2, <2>6, <2>8 DEF MP!ByteAt
<1> QED
  BY <1>3, <1>4 DEF MemoryOf

\* Overlap o is of the chunks p and q, in sort order and sharing an address.
Records(o, p, q) ==
  /\ p \in 1 .. Len(chunks) /\ q \in 1 .. Len(chunks) /\ p < q
  /\ MP!Span(chunks[p]) \cap MP!Span(chunks[q]) # {}
  /\ o.first = p /\ o.second = q
  /\ o.firstLine = chunks[p].line /\ o.secondLine = chunks[q].line

\* Every overlap is of such a pair, and every such pair has one.
LEMMA OverlapPairs ==
  ASSUME Laid
  PROVE  /\ \A o \in 1 .. Len(overlaps) : \E p, q : Records(overlaps[o], p, q)
         /\ \A p, q \in 1 .. Len(chunks) :
              p < q /\ MP!Span(chunks[p]) \cap MP!Span(chunks[q]) # {} =>
                \E o \in 1 .. Len(overlaps) : Records(overlaps[o], p, q)
         /\ \A o, u \in 1 .. Len(overlaps) : \A p, q :
              Records(overlaps[o], p, q) /\ Records(overlaps[u], p, q) => o = u
<1>1. ASSUME NEW p \in 1 .. Len(chunks), NEW q \in 1 .. Len(chunks), NEW o,
             MP!Scanned(p, q), MP!Intersecting(p, q), o = MP!OverlapOf(p, q)
      PROVE  Records(o, p, q)
  <2>1. p < q
    BY <1>1, LaidFacts
  <2>2. /\ o.first = p /\ o.second = q
        /\ o.firstLine = chunks[p].line /\ o.secondLine = chunks[q].line
    BY <1>1 DEF MP!OverlapOf
  <2> QED
    BY <1>1, <2>1, <2>2 DEF Records, MP!Intersecting
<1>2. ASSUME NEW o \in 1 .. Len(overlaps) PROVE \E p, q : Records(overlaps[o], p, q)
  <2>1. PICK p, q : p = overlaps[o].first /\ q = overlaps[o].second
    OBVIOUS
  <2>2. /\ p \in 1 .. Len(chunks) /\ q \in 1 .. Len(chunks)
        /\ MP!Scanned(p, q) /\ MP!Intersecting(p, q) /\ overlaps[o] = MP!OverlapOf(p, q)
    BY <2>1 DEF Laid, MP!OverlapsComplete
  <2> QED
    BY <1>1, <2>2
<1>3. ASSUME NEW p \in 1 .. Len(chunks), NEW q \in 1 .. Len(chunks),
             p < q, MP!Span(chunks[p]) \cap MP!Span(chunks[q]) # {}
      PROVE  \E o \in 1 .. Len(overlaps) : Records(overlaps[o], p, q)
  <2>1. MP!Scanned(p, q) /\ MP!Intersecting(p, q)
    BY <1>3, LaidFacts DEF MP!Intersecting
  <2>2. PICK o \in 1 .. Len(overlaps) : overlaps[o] = MP!OverlapOf(p, q)
    BY <2>1 DEF Laid, MP!OverlapsComplete
  <2> QED
    BY <1>1, <2>1, <2>2
<1>4. ASSUME NEW o \in 1 .. Len(overlaps), NEW u \in 1 .. Len(overlaps), NEW p, NEW q,
             Records(overlaps[o], p, q), Records(overlaps[u], p, q)
      PROVE  o = u
  <2>1. overlaps[o].first = overlaps[u].first /\ overlaps[o].second = overlaps[u].second
    BY <1>4 DEF Records
  <2> QED
    BY <2>1 DEF Laid, MP!OverlapsComplete
<1> QED
  BY <1>2, <1>3, <1>4

\* The origins printed for a HEX file are its pairs of lines that share an address.
LEMMA HexOrigins ==
  ASSUME Laid, HexTable(seen, chunks), MP!Ordered(chunks), LinesDiffer(chunks)
  PROVE  /\ {PrintedOrigins[n] : n \in DOMAIN PrintedOrigins} = SharingLines
         /\ \A n, m \in DOMAIN PrintedOrigins : n # m => PrintedOrigins[n] # PrintedOrigins[m]
<1> DEFINE origins == PrintedOrigins
<1>0. MP!ImageInv /\ Len(chunks) \in Nat
  BY LaidFacts
<1>1. DOMAIN origins = 1 .. Len(overlaps)
  BY DEF PrintedOrigins
<1>2. ASSUME NEW o \in 1 .. Len(overlaps)
      PROVE  /\ \E p, q : /\ Records(overlaps[o], p, q)
                           /\ origins[o] = <<chunks[p].line, chunks[q].line>>
             /\ origins[o] \in SharingLines
  <2>1. PICK p, q : Records(overlaps[o], p, q)
    BY OverlapPairs
  <2>2. /\ p \in 1 .. Len(chunks) /\ q \in 1 .. Len(chunks) /\ p < q
        /\ MP!Span(chunks[p]) \cap MP!Span(chunks[q]) # {}
        /\ overlaps[o].firstLine = chunks[p].line
        /\ overlaps[o].secondLine = chunks[q].line
    BY <2>1 DEF Records
  <2>3. PICK k, m : k = chunks[p].line /\ m = chunks[q].line
    OBVIOUS
  <2>4. /\ k \in Hex!DataLines(seen) /\ m \in Hex!DataLines(seen) /\ k # 0
        /\ LineSpan(k) = MP!Span(chunks[p]) /\ LineSpan(m) = MP!Span(chunks[q])
    BY <1>0, <2>2, <2>3, LineIsChunk
  <2>5. /\ p \in Nat /\ q \in Nat /\ p # q
        /\ chunks[p].line # 0 /\ chunks[q].line # 0
    BY <1>0, <2>2, LineIsChunk
  <2>6. ~MP!KeyBefore(chunks[q], chunks[p])
    BY <2>2 DEF MP!Ordered
  <2>7. k # m
    BY <2>2, <2>3, <2>5 DEF LinesDiffer
  <2>8. LineBefore(k, m)
    BY <1>0, <2>2, <2>3, <2>6, <2>7, LineOrder
  <2>9. origins[o] = <<k, m>>
    BY <2>2, <2>3, <2>4 DEF PrintedOrigins
  <2>10. <<k, m>> \in SharingLines
    BY <2>2, <2>4, <2>8 DEF SharingLines
  <2> QED
    BY <2>1, <2>3, <2>9, <2>10
<1>3. ASSUME NEW km \in SharingLines PROVE \E o \in 1 .. Len(overlaps) : origins[o] = km
  <2>1. PICK k, m \in Hex!DataLines(seen) :
          km = <<k, m>> /\ LineBefore(k, m) /\ LineSpan(k) \cap LineSpan(m) # {}
    BY DEF SharingLines
  <2>2. PICK p, q \in 1 .. Len(chunks) : chunks[p].line = k /\ chunks[q].line = m
    BY <2>1 DEF HexTable
  <2>3. LineSpan(k) = MP!Span(chunks[p]) /\ LineSpan(m) = MP!Span(chunks[q]) /\ k # 0
    BY <1>0, <2>2, LineIsChunk
  <2>4. MP!KeyBefore(chunks[p], chunks[q]) /\ k # m
    BY <1>0, <2>1, <2>2, LineOrder
  <2>5. p < q
    <3>1. p \in Nat /\ q \in Nat /\ p # q
      BY <2>2, <2>4
    <3>2. ~(q < p)
      BY <2>4 DEF MP!Ordered
    <3> QED
      BY <3>1, <3>2
  <2>6. PICK o \in 1 .. Len(overlaps) : Records(overlaps[o], p, q)
    BY <2>1, <2>3, <2>5, OverlapPairs
  <2>7. origins[o] = <<k, m>>
    BY <2>2, <2>3, <2>6 DEF PrintedOrigins, Records
  <2> QED
    BY <2>1, <2>6, <2>7
<1> HIDE DEF origins
<1>4. ASSUME NEW o \in 1 .. Len(overlaps), NEW u \in 1 .. Len(overlaps), origins[o] = origins[u]
      PROVE  o = u
  <2>1. PICK p, q : /\ Records(overlaps[o], p, q)
                    /\ origins[o] = <<chunks[p].line, chunks[q].line>>
    BY <1>2
  <2>2. PICK r, s : /\ Records(overlaps[u], r, s)
                    /\ origins[u] = <<chunks[r].line, chunks[s].line>>
    BY <1>2
  <2>3. /\ p \in 1 .. Len(chunks) /\ q \in 1 .. Len(chunks)
        /\ r \in 1 .. Len(chunks) /\ s \in 1 .. Len(chunks)
    BY <2>1, <2>2 DEF Records
  <2>4. chunks[p].line = chunks[r].line /\ chunks[q].line = chunks[s].line
    <3>1. PICK a, b, c, d : /\ a = chunks[p].line /\ b = chunks[q].line
                            /\ c = chunks[r].line /\ d = chunks[s].line
      OBVIOUS
    <3>2. <<a, b>> = <<c, d>>
      <4>1. origins[o] = <<a, b>> /\ origins[u] = <<c, d>>
        BY <2>1, <2>2, <3>1
      <4> QED
        BY <1>4, <4>1
    <3>3. a = c /\ b = d
      BY <3>2
    <3> QED
      BY <3>1, <3>3
  <2>5. chunks[p].line # 0 /\ chunks[q].line # 0
    BY <1>0, <2>3, LineIsChunk
  <2>6. p = r /\ q = s
    BY <2>3, <2>4, <2>5 DEF LinesDiffer
  <2> QED
    BY <2>1, <2>2, <2>6, OverlapPairs
<1>5. {origins[n] : n \in DOMAIN origins} = SharingLines
  <2>1. \A o \in 1 .. Len(overlaps) : origins[o] \in SharingLines
    BY <1>2
  <2> QED
    BY <1>1, <1>3, <2>1
<1> QED
  BY <1>1, <1>4, <1>5 DEF origins

\* A raw file has one chunk at most, so that none overlaps another.
LEMMA BinOrigins ==
  ASSUME Laid, BinTable(disk, command.base, chunks)
  PROVE  DOMAIN PrintedOrigins = {}
<1>1. Len(chunks) = 0 \/ Len(chunks) = 1
  BY DEF BinTable
<1>2. ASSUME NEW o \in 1 .. Len(overlaps) PROVE FALSE
  <2>1. PICK p, q : Records(overlaps[o], p, q)
    BY OverlapPairs
  <2> QED
    BY <1>1, <2>1 DEF Records
<1> QED
  BY <1>2 DEF PrintedOrigins

-----------------------------------------------------------------------------
(* The report shows what the file says.                                    *)

\* The tables of the layout built say what the file says.
LEMMA LaidShowsFile ==
  ASSUME Laid, TableOfFile, MP!Ordered(chunks), LinesDiffer(chunks),
         command \in Commands, disk \in Contents, ResolvedFormat \in {"hex", "bin"}
  PROVE  /\ MemoryOf(FileMemory, chunks)
         /\ {PrintedOrigins[n] : n \in DOMAIN PrintedOrigins}
              = IF ReadAsHex THEN SharingLines ELSE {}
         /\ \A n, m \in DOMAIN PrintedOrigins : n # m => PrintedOrigins[n] # PrintedOrigins[m]
<1>1. CASE ResolvedFormat = "hex"
  <2>1. HexTable(seen, chunks) /\ FileMemory = HexMemory /\ ReadAsHex
    BY <1>1, FormatTold DEF TableOfFile, FileMemory
  <2>2. MemoryOf(HexMemory, chunks)
    BY <2>1, LaidFacts, HexMemoryOf
  <2>3. /\ {PrintedOrigins[n] : n \in DOMAIN PrintedOrigins} = SharingLines
        /\ \A n, m \in DOMAIN PrintedOrigins : n # m => PrintedOrigins[n] # PrintedOrigins[m]
    BY <2>1, HexOrigins
  <2> QED
    BY <1>1, <2>1, <2>2, <2>3
<1>2. CASE ResolvedFormat # "hex"
  <2>1. BinTable(disk, command.base, chunks) /\ FileMemory = BinMemory /\ ~ReadAsHex
    BY <1>2, FormatTold DEF TableOfFile, FileMemory
  <2>2. command.base \in Nat /\ disk \in Seq(Byte)
    <3>1. command.base \in Bases /\ Contents \subseteq Seq(Byte) /\ Bases \subseteq BP!Address
      BY ProgramAssumption, BinPart
    <3>2. BP!Address \subseteq Nat
      BY WidthsHold DEF BP!Address
    <3> QED
      BY <3>1, <3>2
  <2>3. MemoryOf(BinMemory, chunks)
    BY <2>1, <2>2, BinMemoryOf
  <2>4. DOMAIN PrintedOrigins = {}
    BY <2>1, BinOrigins
  <2>5. /\ {PrintedOrigins[n] : n \in DOMAIN PrintedOrigins} = {}
        /\ \A n, m \in DOMAIN PrintedOrigins : n # m => PrintedOrigins[n] # PrintedOrigins[m]
    BY <2>4
  <2> QED
    BY <1>2, <2>1, <2>3, <2>5
<1> QED
  BY <1>1, <1>2

\* The report printed from them says so too.
LEMMA ReportShowsFile ==
  ASSUME ProgramInv, FileInv, Report
  PROVE  ReportIsOfTheFile' /\ OverlapsNameTheLines'
<1>1. /\ stage = "map" /\ result = "ok"
      /\ command' = command /\ seen' = seen /\ disk' = disk
      /\ report' = [printed |-> TRUE, regions |-> regions, gaps |-> gaps,
                    origins |-> PrintedOrigins, total |-> totalLoaded,
                    span |-> PrintedSpan, stats |-> PrintedStats]
  BY DEF Report, callVars, hexVars, binVars
<1>2. /\ Laid /\ TableOfFile /\ MP!Ordered(chunks) /\ LinesDiffer(chunks)
      /\ command \in Commands /\ disk \in Contents
      /\ totalLoaded = FileBytes /\ (ReadAsHex => ValidFile(seen, stats))
      /\ Len(regions) \in Nat /\ Len(gaps) \in Nat
  <2>1. Laid
    BY <1>1 DEF FileInv, BeingMapped, Laid
  <2>2. regions \in Seq(MP!LayoutRegion) /\ gaps \in Seq(MP!LayoutGap)
    BY <2>1 DEF Laid, MP!BytesInv, MP!LayoutInv, MP!MemMapInv, MP!TypeOK
  <2> QED
    BY <1>1, <2>1, <2>2 DEF FileInv, BeingMapped, ProgramInv
<1>3. ResolvedFormat \in {"hex", "bin"}
  <2>1. ResolvedFormat # "auto"
    BY <1>1 DEF ProgramInv, AtMap, Accepted
  <2> QED
    BY <1>2, <2>1, ProgramAssumption DEF ResolvedFormat, Formats
<1>4. MemoryOf(FileMemory, chunks)
  BY <1>2, <1>3, LaidShowsFile
<1>5. PICK mem : mem = FileMemory
  OBVIOUS
<1>6. /\ \A n \in 1 .. Len(regions) : \A a \in Within(regions[n]) :
              /\ a \in DOMAIN mem
              /\ regions[n].bytes[a - regions[n].start + 1] = mem[a]
      /\ \A a \in DOMAIN mem : \E n \in 1 .. Len(regions) :
              /\ a \in Within(regions[n])
              /\ \A m \in 1 .. Len(regions) : a \in Within(regions[m]) => m = n
  BY <1>2, <1>4, <1>5, RegionsShowMemory
<1>7. /\ DOMAIN mem \subseteq PrintedSpan
      /\ \A a \in PrintedSpan : \E x, y \in DOMAIN mem : x <= a /\ a <= y
  BY <1>2, <1>4, <1>5, SpanShowsMemory
<1>8. /\ ReadAsHex' = ReadAsHex /\ FileMemory' = mem /\ SharingLines' = SharingLines
      /\ FileBytes' = FileBytes
  BY <1>1, <1>5, SameFile
<1>9. /\ report'.regions = regions /\ report'.gaps = gaps /\ report'.origins = PrintedOrigins
      /\ report'.total = totalLoaded /\ report'.span = PrintedSpan
      /\ report'.stats = PrintedStats
      /\ DOMAIN regions = 1 .. Len(regions) /\ DOMAIN gaps = 1 .. Len(gaps)
  <2>1. DOMAIN regions = 1 .. Len(regions) /\ DOMAIN gaps = 1 .. Len(gaps)
    BY <1>2 DEF Laid, MP!BytesInv, MP!LayoutInv, MP!MemMapInv, MP!TypeOK
  <2> QED
    BY <1>1, <2>1
<1>10. ReportIsOfTheFile'
  <2>1. RegionsAreTheFile'
    BY <1>6, <1>8, <1>9 DEF RegionsAreTheFile, Within
  <2>2. GapsAreTheRest'
    <3>1. /\ \A n \in 1 .. Len(gaps) :
               /\ Within(gaps[n]) # {}
               /\ Within(gaps[n]) \subseteq PrintedSpan \ DOMAIN mem
          /\ \A a \in PrintedSpan \ DOMAIN mem : \E n \in 1 .. Len(gaps) :
               /\ a \in Within(gaps[n])
               /\ \A m \in 1 .. Len(gaps) : a \in Within(gaps[m]) => m = n
      BY <1>2, <1>4, <1>5, GapsShowMemory
    <3>2. PICK span : span = PrintedSpan
      OBVIOUS
    <3>3. /\ report'.span = span /\ report'.gaps = gaps /\ FileMemory' = mem
          /\ DOMAIN gaps = 1 .. Len(gaps)
      BY <1>8, <1>9, <3>2
    <3>4. /\ DOMAIN FileMemory' \subseteq report'.span
          /\ \A a \in report'.span : \E x, y \in DOMAIN FileMemory' : x <= a /\ a <= y
      BY <1>7, <3>2, <3>3
    <3>5. \A n \in DOMAIN report'.gaps :
            /\ Within(report'.gaps[n]) # {}
            /\ Within(report'.gaps[n]) \subseteq report'.span \ DOMAIN FileMemory'
      BY <3>1, <3>2, <3>3
    <3>6. \A a \in report'.span \ DOMAIN FileMemory' : \E n \in DOMAIN report'.gaps :
            /\ a \in Within(report'.gaps[n])
            /\ \A m \in DOMAIN report'.gaps : a \in Within(report'.gaps[m]) => m = n
      BY <3>1, <3>2, <3>3
    <3> QED
      BY <3>4, <3>5, <3>6 DEF GapsAreTheRest, Within
  <2>3. NumbersAreTheFiles'
    <3>1. CASE ReadAsHex
      <4>1. ResolvedFormat = "hex" /\ FileBytes = HexBytes /\ ValidFile(seen, stats)
        BY <1>2, <3>1, FormatTold DEF FileBytes
      <4>2. Hex!Describes(seen, PrintedStats)
        BY <4>1 DEF ValidFile, PrintedStats, Hex!Describes
      <4>3. ValidFile(seen', report'.stats)
        BY <1>1, <1>9, <4>1, <4>2 DEF ValidFile
      <4>4. ValidFile(seen, report.stats)'
        BY <4>3, ValidityNext
      <4>5. HexBytes' = HexBytes
        BY <1>1, SameLines
      <4> QED
        BY <1>2, <1>8, <1>9, <3>1, <4>1, <4>4, <4>5 DEF NumbersAreTheFiles, ValidFile
    <3>2. CASE ~ReadAsHex
      <4>1. ResolvedFormat # "hex" /\ FileBytes = Len(disk) /\ PrintedStats = <<>>
        BY <3>2, FormatTold DEF FileBytes, PrintedStats
      <4> QED
        BY <1>1, <1>2, <1>8, <1>9, <3>2, <4>1 DEF NumbersAreTheFiles
    <3> QED
      BY <3>1, <3>2
  <2> QED
    BY <2>1, <2>2, <2>3 DEF ReportIsOfTheFile
<1>11. OverlapsNameTheLines'
  <2>1. /\ {PrintedOrigins[n] : n \in DOMAIN PrintedOrigins}
              = IF ReadAsHex THEN SharingLines ELSE {}
        /\ \A n, m \in DOMAIN PrintedOrigins : n # m => PrintedOrigins[n] # PrintedOrigins[m]
    BY <1>2, <1>3, LaidShowsFile
  <2>2. PICK origins : origins = PrintedOrigins
    OBVIOUS
  <2> QED
    BY <1>8, <1>9, <2>1, <2>2 DEF OverlapsNameTheLines
<1> QED
  BY <1>10, <1>11

-----------------------------------------------------------------------------
(* The steps of main keep FileInv.                                         *)

\* An image that holds nothing.
LEMMA NothingLoaded == chunks = <<>> /\ totalLoaded = 0 => HP!TotalCounts /\ BP!TotalCounts
<1> SUFFICES ASSUME chunks = <<>>, totalLoaded = 0 PROVE HP!TotalCounts /\ BP!TotalCounts
  OBVIOUS
<1>1. HP!Cardinality(HP!LoadedBytes(<<>>)) = 0
  BY WidthsHold, HexPart, HP!NothingCounted
<1>2. BP!Cardinality(BP!LoadedBytes(<<>>)) = 0
  BY WidthsHold, BinPart, BP!NothingCounted
<1> QED
  BY <1>1, <1>2 DEF HP!TotalCounts, BP!TotalCounts

\* Before anything is loaded both loaders are in their initial states.
LEMMA InitialFile == Init => FileInv
<1> SUFFICES ASSUME Init PROVE FileInv
  OBVIOUS
<1>1. /\ chunks = <<>> /\ regions = <<>> /\ gaps = <<>> /\ overlaps = <<>>
      /\ capacity = [t \in Tables |-> 0] /\ totalLoaded = 0
      /\ pc = "idle" /\ result = "none" /\ held = {}
      /\ i = 1 /\ j = 1 /\ builder = Map!NoBuilder /\ built = 0
      /\ stage = "start" /\ report = NoReport /\ command \in Commands
  BY DEF Init, Hex!Init, Hex!ImageInit, Hex!Tables, Tables, Bin!Init, Map!Init
<1>2. HP!LoadInv
  <2>1. HP!Init
    BY DEF Init, Hex!Init, HP!Init, Hex!ImageInit, HP!ImageInit, Hex!Tables, HP!Tables,
           Hex!StatsInit, HP!StatsInit, Hex!NothingPrior, HP!NothingPrior
  <2> QED
    BY <2>1, WidthsHold, HexPart, HP!InitLoad
<1>3. BP!LoaderInv
  <2>1. BP!Init
    BY DEF Init, Bin!Init, BP!Init, Bin!ImageInit, BP!ImageInit, Bin!Tables, BP!Tables
  <2> QED
    BY <2>1, WidthsHold, BinPart, BP!InitLoader
<1>4. HP!TotalCounts /\ BP!TotalCounts
  BY <1>1, NothingLoaded
<1>5. Unmapped
  BY <1>1 DEF Unmapped
<1>6. HexLoading /\ BinLoading
  BY <1>1, <1>2, <1>3, <1>4, <1>5 DEF HexLoading, BinLoading
<1>7. ReportIsOfTheFile /\ OverlapsNameTheLines
  BY <1>1 DEF ReportIsOfTheFile, OverlapsNameTheLines, NoReport
<1> QED
  BY <1>1, <1>6, <1>7 DEF FileInv

\* What a loader knows while nothing changes.
LEMMA LoadingStands ==
  ASSUME UNCHANGED <<imageVars, command, callVars>>
  PROVE  /\ HexLoading => HexLoading'
         /\ BinLoading => BinLoading'
<1>1. /\ UNCHANGED <<imageVars, command, mapVars>>
      /\ pc' = pc /\ base' = base /\ result' = result /\ disk' = disk /\ held' = held
      /\ UNCHANGED HP!vars /\ UNCHANGED BP!vars
  BY DEF callVars, hexVars, binVars, HP!vars, HP!callVars, HP!imageVars, HP!layoutVars,
         HP!totalVars, BP!vars, BP!callVars, BP!imageVars, BP!layoutVars, BP!totalVars,
         imageVars, layoutVars, totalVars
<1>2. (HP!TotalCounts => HP!TotalCounts') /\ (BP!TotalCounts => BP!TotalCounts')
  BY <1>1 DEF HP!TotalCounts, HP!LoadedBytes, BP!TotalCounts, BP!LoadedBytes, imageVars,
              totalVars
<1>3. Unmapped => Unmapped'
  BY <1>1, StaysUnmapped
<1>4. (HP!LoadInv => HP!LoadInv') /\ (BP!LoaderInv => BP!LoaderInv')
  BY <1>1, ParserStepKeepsLoad, LoaderStepKeepsLoader
<1> QED
  BY <1>1, <1>2, <1>3, <1>4 DEF HexLoading, BinLoading

\* A step out of main ends without a report.
LEMMA LeavingKeepsFile ==
  ASSUME ProgramInv, FileInv, UsageError \/ PrintHelpOrVersion \/ CannotInfer \/ CallFailed
  PROVE  FileInv'
<1>1. /\ stage \in {"start", "load", "map"} /\ stage' = "exit"
      /\ command' = command /\ report' = report
  BY DEF UsageError, PrintHelpOrVersion, CannotInfer, Resolving, CallFailed, Exit
<1>2. (ReportIsOfTheFile /\ OverlapsNameTheLines)'
  BY <1>1, Unprinted
<1> QED
  BY <1>1, <1>2 DEF FileInv

LEMMA ResolveKeepsFile ==
  ASSUME ProgramInv, FileInv, Resolve
  PROVE  FileInv'
<1>1. /\ stage = "start" /\ stage' = "load" /\ report' = report
      /\ UNCHANGED <<imageVars, command, callVars>>
  BY DEF Resolve, Resolving
<1>2. HexLoading' /\ BinLoading'
  BY <1>1, LoadingStands DEF FileInv
<1>3. (ReportIsOfTheFile /\ OverlapsNameTheLines)'
  BY <1>1, Unprinted
<1>4. command' \in Commands
  BY <1>1 DEF FileInv
<1> QED
  BY <1>1, <1>2, <1>3, <1>4 DEF FileInv

LEMMA LoadKeepsFile ==
  ASSUME ProgramInv, FileInv, LoadHex \/ LoadBin
  PROVE  FileInv'
<1>1. /\ stage = "load" /\ stage' = "load" /\ report' = report /\ command' = command
      /\ ResolvedFormat' = ResolvedFormat
  BY SameCommand, HexStepIs, BinStepIs DEF Loading
<1>2. (ReportIsOfTheFile /\ OverlapsNameTheLines)'
  BY <1>1, Unprinted
<1>3. command' \in Commands
  BY <1>1 DEF FileInv
<1>4. CASE LoadHex
  <2>1. ResolvedFormat = "hex" /\ HexLoading
    BY <1>1, <1>4 DEF LoadHex, FileInv
  <2>2. HexLoading'
    BY <1>4, <2>1, HexKeepsLoading
  <2> QED
    BY <1>1, <1>2, <1>3, <2>1, <2>2 DEF FileInv
<1>5. CASE LoadBin
  <2>1. ResolvedFormat = "bin" /\ BinLoading
    BY <1>1, <1>5 DEF LoadBin, FileInv
  <2>2. BinLoading'
    BY <1>5, <2>1, BinKeepsLoading
  <2> QED
    BY <1>1, <1>2, <1>3, <2>1, <2>2 DEF FileInv
<1> QED
  BY <1>4, <1>5

\* What a load that succeeded hands to the map.
LEMMA LoadedTables ==
  ASSUME ProgramInv, FileInv, stage = "load", result = "ok"
  PROVE  /\ MP!ImageInv /\ Unmapped /\ pc = "idle"
         /\ TableOfFile /\ totalLoaded = FileBytes
         /\ ReadAsHex => ValidFile(seen, stats)
<1>1. /\ pc = "idle" /\ ResolvedFormat # "auto" /\ command \in Commands
  BY DEF ProgramInv, AtLoad, Returned, Accepted, FileInv
<1>2. ResolvedFormat \in {"hex", "bin"}
  BY <1>1, ProgramAssumption DEF ResolvedFormat, Formats
<1>3. CASE ResolvedFormat = "hex"
  <2>1. HexLoading
    BY <1>3 DEF FileInv
  <2>2. HexTable(seen, chunks) /\ totalLoaded = HexBytes /\ ValidFile(seen, stats)
    BY <2>1, HexLoaded
  <2>3. HP!ImageInv /\ Unmapped
    BY <2>1 DEF HexLoading, HP!LoadInv, HP!HexInv
  <2>4. MP!ImageInv
    BY <2>3 DEF HP!ImageInv, MP!ImageInv, HP!ImageTypeOK, MP!ImageTypeOK, HP!ChunksWellFormed,
      MP!ChunksWellFormed, HP!SpanIsTight, MP!SpanIsTight, HP!ChunkTableHolds,
      MP!ChunkTableHolds, HP!TotalTellsEmpty, MP!TotalTellsEmpty, HP!SourceChunk, MP!SourceChunk,
      HP!Address, MP!Address, HP!Tables, MP!Tables
  <2> QED
    BY <1>1, <1>3, <2>2, <2>3, <2>4 DEF TableOfFile, FileBytes
<1>4. CASE ResolvedFormat = "bin"
  <2>1. BinLoading
    BY <1>4 DEF FileInv
  <2>2. BinTable(disk, command.base, chunks)
    BY <2>1, BinLoaded
  <2>3. BP!ImageInv /\ Unmapped /\ BP!TotalCounts
    BY <2>1 DEF BinLoading, BP!LoaderInv
  <2>4. MP!ImageInv
    BY <2>3 DEF BP!ImageInv, MP!ImageInv, BP!ImageTypeOK, MP!ImageTypeOK, BP!ChunksWellFormed,
      MP!ChunksWellFormed, BP!SpanIsTight, MP!SpanIsTight, BP!ChunkTableHolds,
      MP!ChunkTableHolds, BP!TotalTellsEmpty, MP!TotalTellsEmpty, BP!SourceChunk, MP!SourceChunk,
      BP!Address, MP!Address, BP!Tables, MP!Tables
  <2>5. totalLoaded = Len(disk)
    BY <2>2, <2>3, BinTotal
  <2>6. ~ReadAsHex
    BY <1>4, FormatTold
  <2> QED
    BY <1>1, <1>4, <2>2, <2>3, <2>4, <2>5, <2>6 DEF TableOfFile, FileBytes
<1> QED
  BY <1>2, <1>3, <1>4

\* The layout, and the table, after a step that leaves them and the file alone.
LEMMA MappedStands ==
  ASSUME MP!BytesInv, MP!OverlapsComplete, UNCHANGED <<imageVars, pc, mapVars>>
  PROVE  MP!BytesInv' /\ MP!OverlapsComplete'
<1>1. UNCHANGED MP!vars
  BY DEF mapVars, MP!vars, MP!loopVars, MP!imageVars, MP!layoutVars, MP!totalVars,
         imageVars, layoutVars, totalVars
<1>2. MP!MemMapInv
  BY DEF MP!BytesInv, MP!LayoutInv
<1> QED
  BY <1>1, <1>2, MapStepKeepsBytes, WidthsHold, MapPart, MP!NextKeepsOverlaps

LEMMA TableStands ==
  ASSUME UNCHANGED <<imageVars, command, seen, disk>>
  PROVE  /\ TableOfFile => TableOfFile'
         /\ totalLoaded = FileBytes => (totalLoaded = FileBytes)'
         /\ ReadAsHex' = ReadAsHex
<1>1. /\ chunks' = chunks /\ totalLoaded' = totalLoaded
      /\ command' = command /\ seen' = seen /\ disk' = disk
  BY DEF imageVars, totalVars
<1>2. TableOfFile => TableOfFile'
  BY <1>1, TableFollows DEF TableOfFile
<1> QED
  BY <1>1, <1>2, SameFile

LEMMA LoadedKeepsFile ==
  ASSUME ProgramInv, FileInv, Loaded
  PROVE  FileInv'
<1>1. /\ stage = "load" /\ stage' = "map" /\ result = "ok" /\ result' = "none"
      /\ UNCHANGED <<imageVars, command, report, pc, mapVars>>
      /\ seen' = seen /\ disk' = disk /\ stats' = stats
  BY DEF Loaded, hexVars, binVars
<1>2. /\ MP!ImageInv /\ Unmapped /\ pc = "idle"
      /\ TableOfFile /\ totalLoaded = FileBytes
      /\ ReadAsHex => ValidFile(seen, stats)
  BY <1>1, LoadedTables
<1>3. MP!BytesInv /\ MP!OverlapsComplete
  <2>1. builder = MP!NoBuilder /\ \A t \in MP!Tables \ {"chunks"} : capacity[t] = 0
    BY <1>2, MapPart DEF Unmapped, Map!NoBuilder, MP!NoBuilder
  <2> QED
    BY <1>2, <2>1, WidthsHold, MapPart, MP!FreshLayout DEF Unmapped
<1>4. BeingMapped'
  <2>1. ReadAsHex' => ValidFile(seen, stats)'
    BY <1>1, <1>2, TableStands, ValidityNext
  <2> QED
    BY <1>1, <1>2, <1>3, <2>1, MappedStands, TableStands DEF BeingMapped
<1>5. (ReportIsOfTheFile /\ OverlapsNameTheLines)'
  BY <1>1, Unprinted
<1>6. command' \in Commands
  BY <1>1 DEF FileInv
<1> QED
  BY <1>1, <1>4, <1>5, <1>6 DEF FileInv

\* The layout being built of the table keeps to the file, whichever step it takes.
LEMMA MapKeepsFile ==
  ASSUME ProgramInv, FileInv, Mapping,
         Map!ReconstructEmpty \/ Map!ReconstructStart \/ Map!ReconstructStep,
         result' = "ok" => pc' = "idle" /\ built' = Len(chunks') /\ MP!Ordered(chunks)',
         \/ chunks' = chunks
         \/ chunks' \in Map!Sortings(chunks)
  PROVE  FileInv'
<1>1. /\ stage = "map" /\ stage' = "map" /\ command' = command /\ report' = report
      /\ seen' = seen /\ disk' = disk /\ stats' = stats
  BY DEF Mapping, Calling, hexVars, binVars
<1>2. BeingMapped
  BY <1>1 DEF FileInv
<1>3. MP!BytesInv' /\ MP!OverlapsComplete'
  <2>1. MP!Next /\ MP!MemMapInv
    BY <1>2, MapIsReconstruction DEF BeingMapped, MP!BytesInv, MP!LayoutInv
  <2> QED
    BY <1>2, <2>1, MapStepKeepsBytes, WidthsHold, MapPart, MP!NextKeepsOverlaps DEF BeingMapped
<1>4. TableOfFile'
  <2>1. Len(chunks) \in Nat
    BY DEF ProgramInv
  <2>2. IF ResolvedFormat = "hex" THEN HexTable(seen, chunks')
                                  ELSE BinTable(disk, command.base, chunks')
    <3>1. CASE chunks' = chunks
      BY <1>2, <3>1 DEF BeingMapped, TableOfFile
    <3>2. CASE chunks' \in Map!Sortings(chunks)
      BY <1>2, <2>1, <3>2, SortKeepsTable DEF BeingMapped, TableOfFile
    <3> QED
      BY <3>1, <3>2
  <2> QED
    BY <1>1, <2>2, TableFollows
<1>5. (totalLoaded = FileBytes)'
  <2>1. totalLoaded' = totalLoaded /\ FileBytes' = FileBytes
    BY <1>1, MapKeepsTotals, SameFile DEF totalVars
  <2> QED
    BY <1>2, <2>1 DEF BeingMapped
<1>6. (ReportIsOfTheFile /\ OverlapsNameTheLines)'
  BY <1>1, Unprinted
<1>7. BeingMapped' /\ command' \in Commands
  <2>1. ReadAsHex' => ValidFile(seen, stats)'
    BY <1>1, <1>2, SameFile, ValidityNext DEF BeingMapped
  <2> QED
    BY <1>1, <1>3, <1>4, <1>5, <2>1 DEF BeingMapped, FileInv
<1> QED
  BY <1>1, <1>6, <1>7 DEF FileInv

LEMMA ReconstructKeepsFile ==
  ASSUME ProgramInv, FileInv,
         \/ ReconstructNothing \/ ReconstructBegins \/ ReconstructGoesOn
         \/ ReconstructEnds \/ ReconstructFails
  PROVE  FileInv'
<1>0. stage = "map" /\ result = "none" /\ Mapping
  BY DEF ReconstructNothing, ReconstructBegins, ReconstructGoesOn, ReconstructEnds,
         ReconstructFails, Mapping, Calling
<1>1. CASE ReconstructNothing
  <2>1. /\ Map!ReconstructEmpty /\ pc' = "idle" /\ built' = 0 /\ chunks' = <<>> /\ chunks' = chunks
    BY <1>1 DEF ReconstructNothing, Map!ReconstructEmpty
  <2>2. Len(chunks') = 0 /\ MP!Ordered(chunks)'
    BY <2>1 DEF MP!Ordered
  <2> QED
    BY <1>0, <2>1, <2>2, MapKeepsFile
<1>2. CASE ReconstructBegins
  <2>1. Map!ReconstructStart /\ result' = "none" /\ chunks' \in Map!Sortings(chunks)
    BY <1>0, <1>2 DEF ReconstructBegins, Map!ReconstructStart
  <2> QED
    BY <1>0, <2>1, MapKeepsFile
<1>3. CASE ReconstructGoesOn \/ ReconstructEnds \/ ReconstructFails
  <2>1. /\ Map!ReconstructStep /\ pc # "idle" /\ chunks' = chunks
        /\ result' = "ok" => pc' = "idle" /\ built' = Len(chunks')
    <3>1. CASE ReconstructGoesOn
      BY <1>0, <3>1, ReconstructIsStep, GoesOnStep
    <3>2. CASE ReconstructEnds
      BY <1>0, <3>2, ReconstructIsStep, EndStep DEF MapEnds
    <3>3. CASE ReconstructFails
      BY <1>0, <3>3, ReconstructIsStep, FailStep
    <3> QED
      BY <1>3, <3>1, <3>2, <3>3
  <2>2. MP!Ordered(chunks)'
    <3>1. MP!Ordered(chunks)
      BY <1>0, <2>1 DEF FileInv, BeingMapped, MP!BytesInv, MP!LayoutInv, MP!MemMapInv, MP!LoopInv
    <3> QED
      BY <2>1, <3>1 DEF MP!Ordered, MP!KeyBefore
  <2> QED
    BY <1>0, <2>1, <2>2, MapKeepsFile
<1> QED
  BY <1>1, <1>2, <1>3

LEMMA ReportKeepsFile ==
  ASSUME ProgramInv, FileInv, Report
  PROVE  FileInv'
<1>1. stage' = "exit" /\ command' = command
  BY DEF Report, Exit
<1> QED
  BY <1>1, ReportShowsFile DEF FileInv

LEMMA StutterKeepsFile ==
  ASSUME FileInv, UNCHANGED vars
  PROVE  FileInv'
<1>1. /\ UNCHANGED <<imageVars, command, callVars>>
      /\ UNCHANGED <<imageVars, pc, mapVars>> /\ UNCHANGED <<imageVars, command, seen, disk>>
      /\ chunks' = chunks /\ pc' = pc /\ built' = built
      /\ command' = command /\ stage' = stage /\ report' = report /\ result' = result
      /\ seen' = seen /\ disk' = disk /\ stats' = stats
  BY DEF vars, imageVars, callVars, hexVars, binVars, mapVars
<1>2. ResolvedFormat' = ResolvedFormat
  BY <1>1, SameCommand
<1>3. (HexLoading => HexLoading') /\ (BinLoading => BinLoading')
  BY <1>1, LoadingStands
<1>4. BeingMapped => BeingMapped'
  <2>1. MP!Ordered(chunks) => MP!Ordered(chunks)'
    BY <1>1 DEF MP!Ordered, MP!KeyBefore
  <2>2. BeingMapped => (ReadAsHex' => ValidFile(seen, stats)')
    BY <1>1, TableStands, ValidityNext DEF BeingMapped
  <2> QED
    BY <1>1, <2>1, <2>2, MappedStands, TableStands DEF BeingMapped
<1>5. (ReportIsOfTheFile /\ OverlapsNameTheLines)'
  <2>1. /\ FileMemory' = FileMemory /\ SharingLines' = SharingLines
        /\ ReadAsHex' = ReadAsHex /\ HexBytes' = HexBytes
    BY <1>1, SameFile, SameLines
  <2>2. ReportIsOfTheFile /\ OverlapsNameTheLines
    BY DEF FileInv
  <2>3. RegionsAreTheFile => RegionsAreTheFile'
    BY <1>1, <2>1 DEF RegionsAreTheFile, Within
  <2>4. GapsAreTheRest => GapsAreTheRest'
    BY <1>1, <2>1 DEF GapsAreTheRest, Within
  <2>5. NumbersAreTheFiles => NumbersAreTheFiles'
    <3>1. ValidFile(seen, report.stats) => ValidFile(seen, report.stats)'
      BY <1>1, ValidityNext
    <3> QED
      BY <1>1, <2>1, <3>1 DEF NumbersAreTheFiles, ValidFile
  <2>6. ReportIsOfTheFile'
    BY <1>1, <2>2, <2>3, <2>4, <2>5 DEF ReportIsOfTheFile
  <2>7. OverlapsNameTheLines'
    BY <1>1, <2>1, <2>2 DEF OverlapsNameTheLines
  <2> QED
    BY <2>6, <2>7
<1> QED
  BY <1>1, <1>2, <1>3, <1>4, <1>5 DEF FileInv

-----------------------------------------------------------------------------
(* The theorems of the report.                                             *)

LEMMA FileInvariance == Spec => [](ProgramInv /\ FileInv)
<1>1. ProgramInv /\ FileInv /\ [Next]_vars => FileInv'
  BY LeavingKeepsFile, ResolveKeepsFile, LoadKeepsFile, LoadedKeepsFile, ReconstructKeepsFile,
     ReportKeepsFile, StutterKeepsFile DEF Next
<1>2. Init => FileInv
  BY InitialFile
<1> QED
  BY <1>1, <1>2, ProgramInvariance, PTL DEF Spec

\* What is printed is the file, for every HEX or raw file, every width of the
\* machine's integers and every command, and whatever order the records come in:
\* each address with a byte is in one region with that byte, each other address
\* of the span is in one gap, the total and the statistics are the file's, and a
\* HEX file with a line the parser must refuse, or with no EOF record, is not
\* printed at all (main.c:60-95, 172-219, 391-459).
THEOREM ReportAlwaysOfTheFile == Spec => []ReportIsOfTheFile
<1>1. FileInv => ReportIsOfTheFile
  BY DEF FileInv
<1> QED
  BY <1>1, FileInvariance, PTL

\* The overlaps printed for a HEX file are its pairs of lines that share an
\* address, each once and named by the lines' numbers in the file; a raw file has
\* none (main.c:221-263, hex_parser.c:255, memmap.c:389-428).
THEOREM OverlapsAlwaysNameTheLines == Spec => []OverlapsNameTheLines
<1>1. FileInv => OverlapsNameTheLines
  BY DEF FileInv
<1> QED
  BY <1>1, FileInvariance, PTL

-----------------------------------------------------------------------------
(* What the walks over the report assume of its regions.                   *)

\* One byte per address, no region longer than a block may be, so that no
\* offset wraps, and no two adjoining, so that a range of loaded bytes lies in
\* one region.
ReportFitsItsWalks ==
  report.printed =>
    /\ report.regions \in Seq(Map!LayoutRegion)
    /\ \A n \in 1 .. Len(report.regions) :
         /\ report.regions[n].start <= report.regions[n].end
         /\ Len(report.regions[n].bytes)
              = report.regions[n].end - report.regions[n].start + 1
         /\ Len(report.regions[n].bytes) <= AllocMax
    /\ \A n, m \in 1 .. Len(report.regions) :
         n < m => report.regions[n].end + 1 < report.regions[m].start

LEMMA PrintedRegions ==
  ASSUME Laid
  PROVE  /\ regions \in Seq(Map!LayoutRegion)
         /\ \A n \in 1 .. Len(regions) :
              /\ regions[n].start <= regions[n].end
              /\ Len(regions[n].bytes) = regions[n].end - regions[n].start + 1
              /\ Len(regions[n].bytes) <= AllocMax
         /\ \A n, m \in 1 .. Len(regions) :
              n < m => regions[n].end + 1 < regions[m].start
<1>1. /\ MP!LayoutInv /\ MP!BuffersGranted /\ MP!Runs = regions
      /\ regions \in Seq(MP!LayoutRegion)
  BY DEF Laid, MP!BytesInv, MP!Runs, MP!LayoutInv, MP!MemMapInv, MP!TypeOK
<1>2. MP!Separate(regions)
  BY <1>1 DEF MP!LayoutInv
<1>3. MP!Apart(regions)
  BY <1>1, <1>2, WidthsHold, MapPart, MP!SeparateApart
<1>4. MP!LayoutRegion = Map!LayoutRegion
  BY DEF MP!LayoutRegion, Map!LayoutRegion, MP!Address, Map!Address
<1>5. \A n \in 1 .. Len(regions) :
        /\ regions[n].start <= regions[n].end
        /\ Len(regions[n].bytes) = regions[n].end - regions[n].start + 1
        /\ Len(regions[n].bytes) <= AllocMax
  BY <1>1, <1>2 DEF MP!Separate, MP!Sound, MP!BuffersGranted
<1>6. \A n, m \in 1 .. Len(regions) : n < m => regions[n].end + 1 < regions[m].start
  BY <1>3 DEF MP!Apart
<1> QED
  BY <1>1, <1>4, <1>5, <1>6

LEMMA ReportFits ==
  ASSUME ProgramInv, FileInv, Report
  PROVE  ReportFitsItsWalks'
<1>1. stage = "map" /\ result = "ok" /\ report'.regions = regions
  BY DEF Report
<1>2. Laid
  BY <1>1 DEF FileInv, BeingMapped, Laid
<1>3. Map!LayoutRegion' = Map!LayoutRegion
  BY DEF Map!LayoutRegion, Map!Address
<1> QED
  BY <1>1, <1>2, <1>3, PrintedRegions DEF ReportFitsItsWalks

\* What is printed is printed once.
LEMMA ReportStaysFit ==
  ASSUME ReportFitsItsWalks, report' = report
  PROVE  ReportFitsItsWalks'
BY DEF ReportFitsItsWalks, Map!LayoutRegion, Map!Address

LEMMA OthersPrintNothing ==
  ASSUME [Next]_vars, ~Report
  PROVE  report' = report
<1>1. CASE LoadHex \/ LoadBin
  BY <1>1, HexStepIs, BinStepIs DEF Loading
<1> QED
  BY <1>1 DEF Next, vars, UsageError, PrintHelpOrVersion, Resolve, CannotInfer,
       CallFailed, Loaded, Mapping, ReconstructNothing, ReconstructBegins,
       ReconstructGoesOn, ReconstructEnds, ReconstructFails

LEMMA ReportAlwaysFitsItsWalks == Spec => []ReportFitsItsWalks
<1>1. Init => ReportFitsItsWalks
  BY DEF Init, NoReport, ReportFitsItsWalks
<1>2. ProgramInv /\ FileInv /\ ReportFitsItsWalks /\ [Next]_vars => ReportFitsItsWalks'
  BY ReportFits, ReportStaysFit, OthersPrintNothing
<1> QED
  BY <1>1, <1>2, FileInvariance, PTL DEF Spec

LEMMA WiderElements ==
  ASSUME NEW S, NEW T, S \subseteq T
  PROVE  Seq(S) \subseteq Seq(T)
<1> SUFFICES ASSUME NEW s \in Seq(S) PROVE s \in Seq(T)
  OBVIOUS
<1>1. Len(s) \in Nat /\ s = [k \in 1 .. Len(s) |-> s[k]]
  OBVIOUS
<1>2. \A k \in 1 .. Len(s) : s[k] \in S
  OBVIOUS
<1>3. [k \in 1 .. Len(s) |-> s[k]] \in Seq(T)
  <2>1. \A k \in 1 .. Len(s) : s[k] \in T
    BY <1>2
  <2> QED
    BY <1>1, <2>1
<1> QED
  BY <1>1, <1>3

\* The modules of the walks, for what they assume of a layout; their own
\* constants and state do not matter to that.
Windows == INSTANCE EntropyWindows WITH
  RowSymbols <- 1, Layouts <- {}, ChunkSizes <- {},
  regions <- <<>>, chunkSize <- 1, walk <- "done", r <- 1, offset <- 0,
  symbols <- 0, table <- <<>>, rows <- <<>>

Detector == INSTANCE VectorTable WITH
  SramLow <- 0, SramHigh <- 0, FlashBase <- 1, Layouts <- {},
  regions <- <<>>, next <- 0, best <- <<>>

LEMMA FitIsAssumed ==
  ASSUME NEW rs \in Seq(Map!LayoutRegion),
         \A n \in 1 .. Len(rs) :
           /\ rs[n].start <= rs[n].end
           /\ Len(rs[n].bytes) = rs[n].end - rs[n].start + 1
           /\ Len(rs[n].bytes) <= AllocMax,
         \A n, m \in 1 .. Len(rs) : n < m => rs[n].end + 1 < rs[m].start
  PROVE  Windows!LayoutOK(rs) /\ Detector!LayoutOK(rs)
<1>1. Byte = 0 .. ByteBase - 1 /\ Byte \subseteq Nat /\ AddrMax \in Nat
  BY HexPart, WidthsHold
<1>2. Seq(Byte) \subseteq Seq(Nat)
  BY <1>1, WiderElements
<1>3. Windows!Address = Map!Address /\ Detector!Address = Map!Address
  BY DEF Windows!Address, Detector!Address, Map!Address
<1>4. Map!LayoutRegion \subseteq Windows!Region
  BY <1>2, <1>3 DEF Map!LayoutRegion, Windows!Region
<1>5. rs \in Seq(Windows!Region)
  BY <1>4, WiderElements
<1>6. Map!LayoutRegion = Detector!Region
  BY <1>1, <1>3 DEF Map!LayoutRegion, Detector!Region
<1>7. \A n \in 1 .. Len(rs) : rs[n].start \in Int /\ rs[n].end \in Int
  <2>1. \A n \in 1 .. Len(rs) : rs[n] \in Map!LayoutRegion
    OBVIOUS
  <2>2. Map!Address \subseteq Int
    BY <1>1 DEF Map!Address
  <2> QED
    BY <2>1, <2>2 DEF Map!LayoutRegion
<1>8. \A n, m \in 1 .. Len(rs) : n < m => rs[n].end < rs[m].start
  BY <1>7
<1>9. Windows!LayoutOK(rs)
  BY <1>5, <1>8 DEF Windows!LayoutOK, Windows!Length
<1>10. Detector!LayoutOK(rs)
  BY <1>6 DEF Detector!LayoutOK
<1> QED
  BY <1>9, <1>10

\* What EntropyWindows and VectorTable assume of the regions they walk is true of
\* every report, whichever loader read the file and however the region buffers
\* grew, so that what is proved of the walks holds in the program
\* (main.c:277-343, vector_table.c:28-54, memmap.c:476-507).
THEOREM WalksGetWhatTheyAssume ==
  Spec => [](report.printed =>
               Windows!LayoutOK(report.regions) /\ Detector!LayoutOK(report.regions))
<1>1. ReportFitsItsWalks =>
        (report.printed =>
           Windows!LayoutOK(report.regions) /\ Detector!LayoutOK(report.regions))
  BY FitIsAssumed DEF ReportFitsItsWalks
<1> QED
  BY <1>1, ReportAlwaysFitsItsWalks, PTL

-----------------------------------------------------------------------------
(* The blocks.  The malloc and free calls of a step are weighed against    *)
(* what the step does to the fields that own blocks.                       *)

\* The loader has a buffer only from its malloc on.
HeapInv ==
  /\ heap = OwnedBlocks
  /\ buffer => pc \in {"reading", "read"}

Owners == /\ capacity \in [Tables -> Nat]
          /\ Len(chunks) \in Nat /\ Len(regions) \in Nat

LEMMA OneIs == ASSUME NEW c PROVE One(c) \in {0, 1}
BY DEF One

\* The calls of a step that match its fields keep the ledger.
LEMMA HeapFollows ==
  ASSUME heap = OwnedBlocks, NEW a, NEW f, Calls(a, f),
         \A t \in Tables : One(capacity'[t] # 0) = One(capacity[t] # 0) + a[t] - f[t],
         Len(chunks') = Len(chunks) + a["copies"] - f["copies"],
         Len(regions') + One(builder'.cap # 0)
           = Len(regions) + One(builder.cap # 0) + a["bytes"] - f["bytes"],
         One(buffer') = One(buffer) + a["buffer"] - f["buffer"]
  PROVE  heap' = OwnedBlocks'
<1>1. heap' = [k \in HeapKinds |-> OwnedBlocks[k] + a[k] - f[k]]
  BY DEF Calls
<1>2. /\ \A t \in Tables : OwnedBlocks[t] = One(capacity[t] # 0)
      /\ OwnedBlocks["copies"] = Len(chunks)
      /\ OwnedBlocks["bytes"] = Len(regions) + One(builder.cap # 0)
      /\ OwnedBlocks["buffer"] = One(buffer)
  BY DEF OwnedBlocks, HeapKinds, Tables
<1>3. PICK b : b = OwnedBlocks'
  OBVIOUS
<1>4. /\ b = [k \in HeapKinds |-> b[k]]
      /\ \A t \in Tables : b[t] = One(capacity'[t] # 0)
      /\ b["copies"] = Len(chunks')
      /\ b["bytes"] = Len(regions') + One(builder'.cap # 0)
      /\ b["buffer"] = One(buffer')
  BY <1>3 DEF OwnedBlocks, HeapKinds, Tables, One
<1>5. ASSUME NEW k \in HeapKinds PROVE OwnedBlocks[k] + a[k] - f[k] = b[k]
  <2>1. CASE k \in Tables
    BY <1>2, <1>4, <2>1
  <2>2. CASE k \in {"copies", "bytes", "buffer"}
    BY <1>2, <1>4, <2>2
  <2> QED
    BY <2>1, <2>2 DEF HeapKinds
<1> QED
  BY <1>1, <1>3, <1>4, <1>5

LEMMA HeapStands ==
  ASSUME heap = OwnedBlocks, heap' = heap, capacity' = capacity, chunks' = chunks,
         regions' = regions, builder'.cap = builder.cap, One(buffer') = One(buffer)
  PROVE  heap' = OwnedBlocks'
<1>1. PICK b : b = OwnedBlocks'
  OBVIOUS
<1>2. b = OwnedBlocks
  BY <1>1 DEF OwnedBlocks, HeapKinds, Tables, One
<1> QED
  BY <1>1, <1>2

LEMMA NoBlocksAre == \A k \in HeapKinds : NoBlocks[k] = 0
BY DEF NoBlocks

\* A push makes a block exactly where the table had none.
LEMMA TablePushed ==
  ASSUME capacity \in [Tables -> Nat], NEW t \in Tables, NEW n, CanPush(t, n)
  PROVE  /\ One(CapacityFor(t, n) # 0) = One(capacity[t] # 0) + NewTable(t, n)
         /\ NewTable(t, n) \in {0, 1} /\ CapacityFor(t, n) \in Int
<1>1. /\ FirstCap[t] \in Nat /\ FirstCap[t] # 0 /\ capacity[t] \in Nat
      /\ WrapSize(2 * capacity[t]) \in Int
  <2>1. SizeMax + 1 \in Nat /\ SizeMax + 1 > 0
    BY WidthsHold
  <2> QED
    BY <2>1, WidthsHold DEF WrapSize
<1>2. CASE ~Full(t, n)
  BY <1>1, <1>2 DEF CapacityFor, NewTable, One
<1>3. CASE Full(t, n) /\ capacity[t] = 0
  BY <1>1, <1>3 DEF CapacityFor, NextCapacity, NewTable, One
<1>4. CASE Full(t, n) /\ capacity[t] # 0
  <2>1. NextCapacity(t) = WrapSize(2 * capacity[t]) /\ NextCapacity(t) >= capacity[t]
    BY <1>4 DEF CanPush, NextCapacity
  <2>2. NextCapacity(t) # 0
    BY <1>1, <1>4, <2>1
  <2> QED
    BY <1>1, <1>4, <2>1, <2>2 DEF CapacityFor, NewTable, One
<1> QED
  BY <1>2, <1>3, <1>4

\* bl_firmware_image_free gives back what the image owns, once.
LEMMA ImageFreed ==
  ASSUME heap = OwnedBlocks, Owners, FreeImage, builder'.cap = builder.cap,
         \/ Frees(ImageBlocks) /\ One(buffer') = One(buffer)
         \/ Frees([ImageBlocks EXCEPT !["buffer"] = One(buffer)]) /\ One(buffer') = 0
  PROVE  heap' = OwnedBlocks'
<1>1. PICK f : /\ Calls(NoBlocks, f)
               /\ \/ f = ImageBlocks /\ One(buffer') = One(buffer)
                  \/ f = [ImageBlocks EXCEPT !["buffer"] = One(buffer)] /\ One(buffer') = 0
  BY DEF Frees
<1>2. /\ \A t \in Tables : capacity'[t] = 0
      /\ chunks' = <<>> /\ regions' = <<>>
  BY DEF FreeImage
<1>3. /\ \A t \in Tables : ImageBlocks[t] = One(capacity[t] # 0)
      /\ ImageBlocks["copies"] = Len(chunks) /\ ImageBlocks["bytes"] = Len(regions)
      /\ ImageBlocks["buffer"] = 0
  <2>1. PICK b : b = LayoutBlocks(regions)
    OBVIOUS
  <2>2. /\ DOMAIN b = HeapKinds
        /\ \A t \in Tables \ {"chunks"} : b[t] = One(capacity[t] # 0)
        /\ b["bytes"] = Len(regions) /\ b["buffer"] = 0
    BY <2>1 DEF LayoutBlocks, HeapKinds, Tables
  <2>3. ImageBlocks = [b EXCEPT !["chunks"] = One(capacity["chunks"] # 0),
                                !["copies"] = Len(chunks)]
    BY <2>1 DEF ImageBlocks
  <2>4. /\ ImageBlocks["chunks"] = One(capacity["chunks"] # 0)
        /\ ImageBlocks["copies"] = Len(chunks)
        /\ \A k \in HeapKinds \ {"chunks", "copies"} : ImageBlocks[k] = b[k]
    BY <2>2, <2>3 DEF HeapKinds, Tables
  <2> QED
    BY <2>2, <2>4 DEF HeapKinds, Tables
<1>4. /\ \A t \in Tables : f[t] = One(capacity[t] # 0)
      /\ f["copies"] = Len(chunks) /\ f["bytes"] = Len(regions)
      /\ One(buffer') = One(buffer) - f["buffer"] /\ f["buffer"] \in Int
  <2>1. CASE f = ImageBlocks /\ One(buffer') = One(buffer)
    BY <1>3, <2>1, OneIs
  <2>2. CASE f = [ImageBlocks EXCEPT !["buffer"] = One(buffer)] /\ One(buffer') = 0
    <3>1. f = [ImageBlocks EXCEPT !["buffer"] = One(buffer)] /\ One(buffer') = 0
      BY <2>2
    <3>2. DOMAIN ImageBlocks = HeapKinds
      BY DEF ImageBlocks, LayoutBlocks
    <3>3. f["buffer"] = One(buffer)
      BY <3>1, <3>2 DEF HeapKinds
    <3>4. \A k \in HeapKinds \ {"buffer"} : f[k] = ImageBlocks[k]
      BY <3>1, <3>2
    <3> QED
      BY <1>3, <3>1, <3>3, <3>4, OneIs DEF HeapKinds, Tables
  <2> QED
    BY <1>1, <2>1, <2>2
<1>5. \A t \in Tables : One(capacity'[t] # 0) = One(capacity[t] # 0) + NoBlocks[t] - f[t]
  <2> SUFFICES ASSUME NEW t \in Tables
               PROVE  One(capacity'[t] # 0) = One(capacity[t] # 0) + NoBlocks[t] - f[t]
    OBVIOUS
  <2>1. One(capacity'[t] # 0) = 0 /\ NoBlocks[t] = 0
    BY <1>2, NoBlocksAre DEF One, HeapKinds
  <2> QED
    BY <1>4, <2>1, OneIs
<1>6. /\ NoBlocks["copies"] = 0 /\ NoBlocks["bytes"] = 0 /\ NoBlocks["buffer"] = 0
      /\ Len(chunks') = 0 /\ Len(regions') = 0
  BY <1>2, NoBlocksAre DEF HeapKinds
<1>7. /\ Len(chunks') = Len(chunks) + NoBlocks["copies"] - f["copies"]
      /\ One(buffer') = One(buffer) + NoBlocks["buffer"] - f["buffer"]
  BY <1>4, <1>6, OneIs DEF Owners
<1>8. Len(regions') + One(builder'.cap # 0)
        = Len(regions) + One(builder.cap # 0) + NoBlocks["bytes"] - f["bytes"]
  BY <1>4, <1>6, OneIs DEF Owners
<1> QED
  BY <1>1, <1>5, <1>7, <1>8, HeapFollows

\* clear_layout gives back the regions taken and the tables; with them may go
\* the buffer of the region being built.
LEMMA LayoutFreed ==
  ASSUME heap = OwnedBlocks, Owners, NEW taken, NEW more,
         Frees([LayoutBlocks(taken) EXCEPT !["bytes"] = @ + more]),
         \A t \in Tables : capacity'[t] = IF t = "chunks" THEN capacity[t] ELSE 0,
         Len(chunks') = Len(chunks), regions' = <<>>, One(buffer') = One(buffer),
         Len(taken) \in Nat, more \in Int,
         One(builder'.cap # 0) + Len(taken) + more = Len(regions) + One(builder.cap # 0)
  PROVE  heap' = OwnedBlocks'
<1> DEFINE f == [LayoutBlocks(taken) EXCEPT !["bytes"] = @ + more]
<1>1. Calls(NoBlocks, f)
  BY DEF Frees
<1>2. /\ f["chunks"] = 0 /\ f["copies"] = 0 /\ f["buffer"] = 0
      /\ f["bytes"] = Len(taken) + more
      /\ \A t \in Tables \ {"chunks"} : f[t] = One(capacity[t] # 0)
  BY DEF LayoutBlocks, HeapKinds, Tables
<1>3. /\ NoBlocks["copies"] = 0 /\ NoBlocks["bytes"] = 0 /\ NoBlocks["buffer"] = 0
      /\ \A t \in Tables : NoBlocks[t] = 0
  BY NoBlocksAre DEF HeapKinds
<1> HIDE DEF f
<1>4. \A t \in Tables : One(capacity'[t] # 0) = One(capacity[t] # 0) + NoBlocks[t] - f[t]
  <2> SUFFICES ASSUME NEW t \in Tables
               PROVE  One(capacity'[t] # 0) = One(capacity[t] # 0) + NoBlocks[t] - f[t]
    OBVIOUS
  <2>1. CASE t = "chunks"
    BY <1>2, <1>3, <2>1, OneIs
  <2>2. CASE t # "chunks"
    <3>1. One(capacity'[t] # 0) = 0
      BY <2>2 DEF One
    <3> QED
      BY <1>2, <1>3, <2>2, <3>1, OneIs
  <2> QED
    BY <2>1, <2>2
<1>5. /\ Len(chunks') = Len(chunks) + NoBlocks["copies"] - f["copies"]
      /\ One(buffer') = One(buffer) + NoBlocks["buffer"] - f["buffer"]
  BY <1>2, <1>3, OneIs DEF Owners
<1>6. Len(regions') + One(builder'.cap # 0)
        = Len(regions) + One(builder.cap # 0) + NoBlocks["bytes"] - f["bytes"]
  <2>1. Len(regions') = 0
    OBVIOUS
  <2> QED
    BY <1>2, <1>3, <2>1, OneIs DEF Owners
<1> QED
  BY <1>1, <1>4, <1>5, <1>6, HeapFollows

\* The image's operators are the same in each part.
LEMMA SameStore ==
  ASSUME NEW s, NEW d, NEW l
  PROVE  /\ Hex!AddChunkStored(s, d, l) <=> AddChunkStored(s, d, l)
         /\ Bin!AddChunkStored(s, d, l) <=> AddChunkStored(s, d, l)
<1>1. Hex!AddChunkStored(s, d, l) <=> AddChunkStored(s, d, l)
  BY DEF
    Hex!AddChunkStored, AddChunkStored, Hex!AddressOverflows, AddressOverflows,
    Hex!CountOverflows, CountOverflows, Hex!CanPush, CanPush, Hex!Full, Full,
    Hex!NextCapacity, NextCapacity, Hex!Grantable, Grantable, Hex!TableRequest, TableRequest,
    Hex!CapacityFor, CapacityFor, Hex!EndOf, EndOf, Hex!WrapAddr, WrapAddr,
    Hex!LoweredStart, LoweredStart, Hex!RaisedEnd, RaisedEnd, Hex!WrapSize, WrapSize,
    Hex!layoutVars, layoutVars
<1>2. Bin!AddChunkStored(s, d, l) <=> AddChunkStored(s, d, l)
  BY DEF
    Bin!AddChunkStored, AddChunkStored, Bin!AddressOverflows, AddressOverflows,
    Bin!CountOverflows, CountOverflows, Bin!CanPush, CanPush, Bin!Full, Full,
    Bin!NextCapacity, NextCapacity, Bin!Grantable, Grantable, Bin!TableRequest, TableRequest,
    Bin!CapacityFor, CapacityFor, Bin!EndOf, EndOf, Bin!WrapAddr, WrapAddr,
    Bin!LoweredStart, LoweredStart, Bin!RaisedEnd, RaisedEnd, Bin!WrapSize, WrapSize,
    Bin!layoutVars, layoutVars
<1> QED
  BY <1>1, <1>2

LEMMA SamePush ==
  ASSUME NEW t, NEW n
  PROVE  /\ Map!CanPush(t, n) <=> CanPush(t, n)
         /\ Map!CapacityFor(t, n) = CapacityFor(t, n)
BY DEF
    Map!CanPush, CanPush, Map!Full, Full, Map!NextCapacity, NextCapacity, Map!Grantable,
    Grantable, Map!TableRequest, TableRequest, Map!CapacityFor, CapacityFor,
    Map!WrapSize, WrapSize

\* A chunk stored makes a copy, and the table if there was none; the raw loader
\* then frees its buffer.
LEMMA ChunkStored ==
  ASSUME heap = OwnedBlocks, Owners, NEW s, NEW d, NEW l, AddChunkStored(s, d, l),
         \E S : chunks \in Seq(S),
         builder'.cap = builder.cap,
         \/ Allocates(ChunkBlocks) /\ One(buffer') = One(buffer)
         \/ Calls(ChunkBlocks, BufferBlock) /\ One(buffer') = 0
  PROVE  heap' = OwnedBlocks'
<1>1. PICK f : /\ Calls(ChunkBlocks, f)
               /\ \/ f = NoBlocks /\ One(buffer') = One(buffer)
                  \/ f = BufferBlock /\ One(buffer') = 0
  BY DEF Allocates
<1>2. PICK new : new = NewTable("chunks", Len(chunks))
  OBVIOUS
<1>3. /\ capacity' = [capacity EXCEPT !["chunks"] = CapacityFor("chunks", Len(chunks))]
      /\ CanPush("chunks", Len(chunks)) /\ regions' = regions
      /\ Len(chunks') = Len(chunks) + 1
  <2>1. PICK S : chunks \in Seq(S)
    OBVIOUS
  <2>2. \E c : chunks' = Append(chunks, c)
    BY DEF AddChunkStored
  <2> QED
    BY <2>1, <2>2 DEF AddChunkStored, layoutVars
<1>4. /\ One(CapacityFor("chunks", Len(chunks)) # 0) = One(capacity["chunks"] # 0) + new
      /\ new \in {0, 1}
  BY <1>2, <1>3, TablePushed DEF Owners, Tables
<1>5. /\ ChunkBlocks["chunks"] = new /\ ChunkBlocks["copies"] = 1
      /\ \A k \in HeapKinds \ {"chunks", "copies"} : ChunkBlocks[k] = 0
  BY <1>2 DEF ChunkBlocks, NoBlocks, HeapKinds, Tables
<1>6. /\ \A k \in HeapKinds \ {"buffer"} : f[k] = 0
      /\ One(buffer') = One(buffer) - f["buffer"] /\ f["buffer"] \in Int
  <2>1. CASE f = NoBlocks /\ One(buffer') = One(buffer)
    <3>1. \A k \in HeapKinds : f[k] = 0
      BY <2>1, NoBlocksAre
    <3> QED
      BY <2>1, <3>1, OneIs DEF HeapKinds
  <2>2. CASE f = BufferBlock /\ One(buffer') = 0
    <3>1. (\A k \in HeapKinds \ {"buffer"} : f[k] = 0) /\ f["buffer"] = One(buffer)
      BY <2>2 DEF BufferBlock, NoBlocks, HeapKinds, Tables
    <3> QED
      BY <2>2, <3>1, OneIs
  <2> QED
    BY <1>1, <2>1, <2>2
<1>7. \A t \in Tables : One(capacity'[t] # 0) = One(capacity[t] # 0) + ChunkBlocks[t] - f[t]
  <2> SUFFICES ASSUME NEW t \in Tables
               PROVE  One(capacity'[t] # 0) = One(capacity[t] # 0) + ChunkBlocks[t] - f[t]
    OBVIOUS
  <2>1. f[t] = 0 /\ capacity \in [Tables -> Nat]
    BY <1>6 DEF HeapKinds, Tables, Owners
  <2>2. CASE t = "chunks"
    <3>1. capacity'[t] = CapacityFor("chunks", Len(chunks))
      BY <1>3, <2>1, <2>2
    <3> QED
      BY <1>4, <1>5, <2>1, <2>2, <3>1, OneIs
  <2>3. CASE t # "chunks"
    <3>1. capacity'[t] = capacity[t]
      BY <1>3, <2>1, <2>3
    <3>2. ChunkBlocks[t] = 0
      BY <1>5, <2>3 DEF HeapKinds, Tables
    <3> QED
      BY <2>1, <3>1, <3>2, OneIs
  <2> QED
    BY <2>2, <2>3
<1>8. /\ f["copies"] = 0 /\ f["bytes"] = 0
      /\ ChunkBlocks["bytes"] = 0 /\ ChunkBlocks["buffer"] = 0
  BY <1>5, <1>6 DEF HeapKinds
<1>9. /\ Len(chunks') = Len(chunks) + ChunkBlocks["copies"] - f["copies"]
      /\ One(buffer') = One(buffer) + ChunkBlocks["buffer"] - f["buffer"]
  BY <1>3, <1>5, <1>6, <1>8, OneIs DEF Owners
<1>10. Len(regions') + One(builder'.cap # 0)
         = Len(regions) + One(builder.cap # 0) + ChunkBlocks["bytes"] - f["bytes"]
  BY <1>3, <1>8, OneIs DEF Owners
<1> QED
  BY <1>1, <1>7, <1>9, <1>10, HeapFollows

\* While main runs the owning fields are what the parts say.
LEMMA OwnersHold ==
  ASSUME ProgramInv, FileInv, stage \in {"start", "load", "map"}
  PROVE  Owners
<1>1. Len(chunks) \in Nat /\ Len(regions) \in Nat
  BY DEF ProgramInv
<1>2. CASE HexLoading
  BY <1>1, <1>2, HexPart DEF HexLoading, HP!LoadInv, HP!HexInv, HP!ImageInv, HP!ImageTypeOK, Owners
<1>3. CASE BinLoading
  BY <1>1, <1>3, BinPart DEF BinLoading, BP!LoaderInv, BP!ImageInv, BP!ImageTypeOK, Owners
<1>4. CASE stage = "map"
  BY <1>1, <1>4, MapPart DEF FileInv, BeingMapped, MP!BytesInv, MP!LayoutInv, MP!MemMapInv,
                             MP!ImageInv, MP!ImageTypeOK, Owners
<1>5. stage = "load" => ResolvedFormat \in {"hex", "bin"}
  BY ProgramAssumption DEF ProgramInv, AtLoad, Accepted, FileInv, ResolvedFormat, Formats
<1> QED
  BY <1>2, <1>3, <1>4, <1>5 DEF FileInv

\* The steps of main between its calls.
LEMMA MainKeepsHeap ==
  ASSUME ProgramInv, FileInv, HeapInv,
         \/ UsageError \/ PrintHelpOrVersion \/ Resolve \/ CannotInfer
         \/ CallFailed \/ Loaded \/ Report
  PROVE  HeapInv'
<1>1. /\ builder' = builder /\ buffer' = buffer /\ pc' = pc
      /\ stage \in {"start", "load", "map"}
  BY DEF UsageError, PrintHelpOrVersion, Resolve, CannotInfer, Resolving, CallFailed, Loaded,
         Report, callVars, binVars, mapVars
<1>2. Owners
  BY <1>1, OwnersHold
<1>3. CASE UsageError \/ PrintHelpOrVersion \/ Resolve \/ Loaded
  <2>1. heap' = heap /\ capacity' = capacity /\ chunks' = chunks /\ regions' = regions
    BY <1>3 DEF UsageError, PrintHelpOrVersion, Resolve, Loaded, imageVars, layoutVars
  <2> QED
    BY <1>1, <2>1, HeapStands DEF HeapInv
<1>4. CASE CannotInfer \/ CallFailed \/ Report
  <2>1. FreeImage /\ Frees(ImageBlocks)
    BY <1>4 DEF CannotInfer, CallFailed, Report
  <2> QED
    BY <1>1, <1>2, <2>1, ImageFreed DEF HeapInv
<1> QED
  BY <1>3, <1>4

\* The parser's steps: a line that touches no block, a chunk, or the label fail.
LEMMA HexKeepsHeap ==
  ASSUME ProgramInv, FileInv, HeapInv, LoadHex
  PROVE  HeapInv'
<1>1. /\ builder' = builder /\ buffer' = buffer /\ buffer = FALSE
      /\ stage = "load"
  BY HexStepIs DEF Loading, mapVars, binVars, ProgramInv, InHexLoad, Closed
<1>2. Owners
  BY <1>1, OwnersHold
<1>3. (UNCHANGED Hex!imageVars) => capacity' = capacity /\ chunks' = chunks /\ regions' = regions
  BY DEF Hex!imageVars, Hex!layoutVars
<1>4. ASSUME UNCHANGED Hex!imageVars, UNCHANGED heap PROVE HeapInv'
  BY <1>1, <1>3, <1>4, HeapStands DEF HeapInv
<1>5. ASSUME NEW about, Hex!Fail(about), Frees(ImageBlocks) PROVE HeapInv'
  <2>1. FreeImage
    BY <1>5 DEF Hex!Fail, Hex!FreeImage, FreeImage, Hex!Tables, Tables
  <2> QED
    BY <1>1, <1>2, <1>5, <2>1, ImageFreed DEF HeapInv
<1>6. CASE (Hex!OpenFails \/ Hex!Open \/ Hex!Succeed) /\ UNCHANGED heap
  BY <1>4, <1>6 DEF Hex!OpenFails, Hex!Open, Hex!Begin, Hex!Succeed
<1>7. CASE (Hex!ReadError \/ Hex!MissingEof) /\ Frees(ImageBlocks)
  <2>1. Hex!Fail("io") \/ Hex!Fail("no eof")
    BY <1>7 DEF Hex!ReadError, Hex!MissingEof
  <2> QED
    BY <1>5, <1>7, <2>1
<1>8. ASSUME NEW l \in Lines, HexLine(l) PROVE HeapInv'
  <2>1. CASE /\ \/ Hex!SkipBlank(l) \/ Hex!EofRecord(l)
                \/ Hex!AddressRecord(l) \/ Hex!StartRecord(l)
             /\ UNCHANGED heap
    BY <1>4, <2>1 DEF Hex!SkipBlank, Hex!EofRecord, Hex!AddressRecord, Hex!StartRecord
  <2>2. CASE /\ Hex!RefuseLine(l) \/ Hex!RefuseRecord(l) \/ Hex!DataRecordFails(l)
             /\ Frees(ImageBlocks)
    BY <1>5, <2>2 DEF Hex!RefuseLine, Hex!RefuseRecord, Hex!DataRecordFails
  <2>3. CASE /\ Hex!DataRecord(l)
             /\ Allocates(IF l.data = <<>> THEN NoBlocks ELSE ChunkBlocks)
    <3>1. CASE Hex!AddChunkEmpty(l.data)
      <4>1. Calls(NoBlocks, NoBlocks) /\ UNCHANGED Hex!imageVars
        BY <2>3, <3>1 DEF Hex!AddChunkEmpty, Allocates
      <4>2. \A k \in HeapKinds : NoBlocks[k] = 0
        BY NoBlocksAre
      <4>3. /\ \A t \in Tables : One(capacity'[t] # 0)
                                   = One(capacity[t] # 0) + NoBlocks[t] - NoBlocks[t]
            /\ Len(chunks') = Len(chunks) + NoBlocks["copies"] - NoBlocks["copies"]
        BY <1>2, <1>3, <4>1, <4>2, OneIs DEF HeapKinds, Owners
      <4>4. /\ Len(regions') + One(builder'.cap # 0)
                 = Len(regions) + One(builder.cap # 0) + NoBlocks["bytes"] - NoBlocks["bytes"]
            /\ One(buffer') = One(buffer) + NoBlocks["buffer"] - NoBlocks["buffer"]
        BY <1>1, <1>2, <1>3, <4>1, <4>2, OneIs DEF HeapKinds, Owners
      <4> QED
        BY <1>1, <4>1, <4>3, <4>4, HeapFollows DEF HeapInv
    <3>2. CASE Hex!AddChunkStored(Hex!StartOf(l), l.data, stats.lines + 1)
      <4>1. AddChunkStored(Hex!StartOf(l), l.data, stats.lines + 1) /\ l.data # <<>>
        BY <3>2, SameStore DEF AddChunkStored
      <4>2. Allocates(ChunkBlocks)
        BY <2>3, <4>1
      <4> QED
        BY <1>1, <1>2, <4>1, <4>2, ChunkStored DEF HeapInv, ProgramInv
    <3> QED
      BY <2>3, <3>1, <3>2 DEF Hex!DataRecord
  <2> QED
    BY <1>8, <2>1, <2>2, <2>3 DEF HexLine
<1> QED
  BY <1>6, <1>7, <1>8 DEF LoadHex

\* The raw loader's steps: its buffer is made once and freed on every way out.
LEMMA BinKeepsHeap ==
  ASSUME ProgramInv, FileInv, HeapInv, LoadBin
  PROVE  HeapInv'
<1>1. builder' = builder /\ stage = "load" /\ ResolvedFormat = "bin"
  BY BinStepIs DEF Loading, mapVars
<1>2. Owners /\ heap = OwnedBlocks
  BY <1>1, OwnersHold DEF HeapInv
<1>3. (UNCHANGED Bin!imageVars) => capacity' = capacity /\ chunks' = chunks /\ regions' = regions
  BY DEF Bin!imageVars, Bin!layoutVars
<1>4. ASSUME UNCHANGED Bin!imageVars, UNCHANGED heap, One(buffer') = One(buffer)
      PROVE  heap' = OwnedBlocks'
  BY <1>1, <1>2, <1>3, <1>4, HeapStands
<1>5. CASE /\ \/ Bin!OpenFails \/ OpenBin \/ Bin!Measure \/ Bin!Rewind
              \/ Bin!EmptyFile \/ Bin!ReadSome \/ Bin!ReadDone
           /\ UNCHANGED heap
  <2>1. CASE Bin!OpenFails \/ OpenBin \/ Bin!Measure \/ Bin!Rewind
    <3>1. /\ UNCHANGED Bin!imageVars /\ buffer' = buffer
          /\ pc \in {"idle", "opened", "measured"}
      BY <2>1 DEF Bin!OpenFails, Bin!ReturnEarly, OpenBin, Bin!OpenFile, Bin!Measure,
                  Bin!Rewind, Bin!callVars
    <3> QED
      BY <1>4, <1>5, <3>1 DEF HeapInv
  <2>2. CASE Bin!EmptyFile
    <3>1. UNCHANGED Bin!imageVars /\ buffer' = FALSE /\ pc = "rewound"
      BY <2>2 DEF Bin!EmptyFile, Bin!Succeed
    <3>2. ~buffer
      BY <3>1 DEF HeapInv
    <3>3. One(buffer') = One(buffer)
      BY <3>1, <3>2 DEF One
    <3> QED
      BY <1>4, <1>5, <3>1, <3>3 DEF HeapInv
  <2>3. CASE Bin!ReadSome \/ Bin!ReadDone
    <3>1. UNCHANGED Bin!imageVars /\ buffer' = buffer /\ pc' \in {"reading", "read"}
      BY <2>3 DEF Bin!ReadSome, Bin!ReadDone, Bin!callVars
    <3> QED
      BY <1>4, <1>5, <3>1 DEF HeapInv
  <2> QED
    BY <1>5, <2>1, <2>2, <2>3
<1>6. CASE Bin!Allocate /\ Allocates(NewBuffer)
  <2>1. UNCHANGED Bin!imageVars /\ buffer' = TRUE /\ pc = "rewound" /\ pc' = "reading"
    BY <1>6 DEF Bin!Allocate
  <2>2. One(buffer) = 0 /\ One(buffer') = 1
    BY <2>1 DEF HeapInv, One
  <2>3. /\ Calls(NewBuffer, NoBlocks)
        /\ \A k \in HeapKinds : NoBlocks[k] = 0
        /\ \A k \in HeapKinds \ {"buffer"} : NewBuffer[k] = 0
        /\ NewBuffer["buffer"] = 1
    BY <1>6 DEF Allocates, NewBuffer, NoBlocks, HeapKinds, Tables
  <2>4. /\ \A t \in Tables : One(capacity'[t] # 0)
                               = One(capacity[t] # 0) + NewBuffer[t] - NoBlocks[t]
        /\ Len(chunks') = Len(chunks) + NewBuffer["copies"] - NoBlocks["copies"]
    BY <1>2, <1>3, <2>1, <2>3, OneIs DEF HeapKinds, Tables, Owners
  <2>5. /\ Len(regions') + One(builder'.cap # 0)
             = Len(regions) + One(builder.cap # 0) + NewBuffer["bytes"] - NoBlocks["bytes"]
        /\ One(buffer') = One(buffer) + NewBuffer["buffer"] - NoBlocks["buffer"]
    BY <1>1, <1>2, <1>3, <2>1, <2>2, <2>3, OneIs DEF HeapKinds, Owners
  <2> QED
    BY <1>2, <2>1, <2>3, <2>4, <2>5, HeapFollows DEF HeapInv
<1>7. CASE Bin!Store /\ Calls(ChunkBlocks, BufferBlock)
  <2>1. Bin!AddChunkStored(base, got, 0) /\ buffer' = FALSE
    BY <1>7 DEF Bin!Store, Bin!Succeed
  <2>2. AddChunkStored(base, got, 0) /\ One(buffer') = 0
    BY <2>1, SameStore DEF One
  <2> QED
    BY <1>1, <1>2, <1>7, <2>1, <2>2, ChunkStored DEF HeapInv, ProgramInv
<1>8. CASE BinFails
  <2>1. FreeImage /\ buffer' = FALSE /\ Frees([ImageBlocks EXCEPT !["buffer"] = One(buffer)])
    <3>1. ASSUME NEW about, Bin!Fail(about) PROVE FreeImage /\ buffer' = FALSE
      BY <3>1 DEF Bin!Fail, Bin!FreeImage, FreeImage, Bin!Tables, Tables
    <3>2. Bin!Fail("io") \/ Bin!Fail("memory") \/ Bin!Fail("resource")
      BY <1>8 DEF BinFails, Bin!MeasureFails, Bin!RewindFails, Bin!AllocateFails,
                  Bin!ReadShort, Bin!StoreFails
    <3> QED
      BY <1>8, <3>1, <3>2 DEF BinFails
  <2>2. One(buffer') = 0
    BY <2>1 DEF One
  <2> QED
    BY <1>1, <1>2, <2>1, <2>2, ImageFreed DEF HeapInv
<1> QED
  BY <1>5, <1>6, <1>7, <1>8 DEF LoadBin

\* The region under assembly has its buffer for as long as it is assembled.
LEMMA BuilderBlock ==
  ASSUME MP!BytesInv
  PROVE  /\ builder.cap \in Nat /\ Len(builder.bytes) \in Nat
         /\ pc = "merge" => builder.bytes # <<>> /\ builder.cap # 0
         /\ pc # "merge" => builder.cap = 0
<1>1. /\ builder \in [start : MP!Address, end : MP!Address, bytes : Seq(Byte), cap : Nat]
      /\ MP!LoopInv /\ MP!WithinCapacity
  BY DEF MP!BytesInv, MP!LayoutInv, MP!MemMapInv, MP!TypeOK
<1>2. builder.cap \in Nat /\ builder.bytes \in Seq(Byte)
  BY <1>1
<1>3. pc = "merge" => builder.bytes # <<>>
  BY <1>1 DEF MP!LoopInv, MP!BuilderFollowsChunks
<1>4. Len(builder.bytes) <= builder.cap
  BY <1>1 DEF MP!WithinCapacity
<1>5. pc # "merge" => builder.cap = 0
  BY <1>1 DEF MP!LoopInv, MP!NoBuilder
<1>6. pc = "merge" => builder.cap # 0
  BY <1>2, <1>3, <1>4
<1> QED
  BY <1>2, <1>3, <1>5, <1>6

\* clear_layout, at the start and where a call is abandoned.
LEMMA MapFreesHeap ==
  ASSUME ProgramInv, FileInv, HeapInv, ReconstructNothing \/ ReconstructBegins \/ ReconstructFails
  PROVE  heap' = OwnedBlocks'
<1>1. /\ stage = "map" /\ buffer' = buffer
  BY DEF ReconstructNothing, ReconstructBegins, ReconstructFails, Mapping, Calling, binVars
<1>2. Owners /\ heap = OwnedBlocks /\ MP!BytesInv
  BY <1>1, OwnersHold DEF HeapInv, FileInv, BeingMapped
<1>3. Map!ClearLayout => /\ \A t \in Tables : capacity'[t] = IF t = "chunks" THEN capacity[t] ELSE 0
                         /\ regions' = <<>>
  BY DEF Map!ClearLayout, Map!Tables, Tables
<1>5. LayoutBlocks(regions) = [LayoutBlocks(regions) EXCEPT !["bytes"] = @ + 0]
  <2>1. PICK b : b = LayoutBlocks(regions)
    OBVIOUS
  <2>2. b = [k \in HeapKinds |-> b[k]] /\ b["bytes"] = Len(regions)
    BY <2>1 DEF LayoutBlocks, HeapKinds, Tables
  <2>3. b = [b EXCEPT !["bytes"] = @ + 0]
    BY <1>2, <2>2 DEF Owners
  <2> QED
    BY <2>1, <2>3
<1>6. ASSUME Map!ClearLayout, Len(chunks') = Len(chunks), Frees(LayoutBlocks(regions)),
             One(builder'.cap # 0) = One(builder.cap # 0)
      PROVE  heap' = OwnedBlocks'
  <2>1. Frees([LayoutBlocks(regions) EXCEPT !["bytes"] = @ + 0])
    BY <1>5, <1>6
  <2>2. One(builder'.cap # 0) + Len(regions) + 0 = Len(regions) + One(builder.cap # 0)
    BY <1>2, <1>6, OneIs DEF Owners
  <2>3. Len(regions) \in Nat /\ 0 \in Int
    BY <1>2 DEF Owners
  <2> QED
    BY <1>1, <1>2, <1>3, <1>6, <2>1, <2>2, <2>3, LayoutFreed
<1>7. CASE ReconstructNothing
  <2>1. /\ Map!ClearLayout /\ chunks' = chunks /\ builder' = builder
        /\ Frees(LayoutBlocks(regions))
    BY <1>7 DEF ReconstructNothing, Map!ReconstructEmpty
  <2> QED
    BY <1>6, <2>1
<1>8. CASE ReconstructBegins
  <2>1. /\ Map!ClearLayout /\ chunks' \in Map!Sortings(chunks) /\ builder' = builder
        /\ Frees(LayoutBlocks(regions))
    BY <1>8 DEF ReconstructBegins, Map!ReconstructStart
  <2>2. Len(chunks') = Len(chunks)
    BY <2>1, SortedLinesDiffer DEF ProgramInv
  <2> QED
    BY <1>6, <2>1, <2>2
<1>9. CASE ReconstructFails
  <2>1. ASSUME Map!Abandon
        PROVE  /\ Map!ClearLayout /\ chunks' = chunks /\ One(builder'.cap # 0) = 0
               /\ Len(chunks') = Len(chunks)
    BY <2>1 DEF Map!Abandon, Map!NoBuilder, One
  <2>2. CASE (Map!OverlapFails \/ Map!StartFails) /\ Frees(LayoutBlocks(regions))
    <3>1. Map!Abandon /\ pc # "merge"
      BY <2>2 DEF Map!OverlapFails, Map!StartFails
    <3>2. One(builder.cap # 0) = 0
      BY <1>2, <3>1, BuilderBlock DEF One
    <3> QED
      BY <1>6, <2>1, <2>2, <3>1, <3>2
  <2>3. CASE /\ Map!MergeFails \/ Map!FinishFails \/ Map!CloseTakeFails
             /\ Frees([LayoutBlocks(regions) EXCEPT !["bytes"] = @ + One(builder.cap # 0)])
    <3>1. Map!Abandon
      BY <2>3 DEF Map!MergeFails, Map!FinishFails, Map!CloseTakeFails
    <3>2. /\ One(builder.cap # 0) \in Int
          /\ One(builder'.cap # 0) + Len(regions) + One(builder.cap # 0)
               = Len(regions) + One(builder.cap # 0)
      BY <1>2, <2>1, <3>1, OneIs DEF Owners
    <3> QED
      BY <1>1, <1>2, <1>3, <2>1, <2>3, <3>1, <3>2, LayoutFreed DEF Owners
  <2>4. CASE /\ Map!CloseGapFails \/ Map!CloseStartFails
             /\ Frees(LayoutBlocks(Map!RegionsTaken))
    <3>1. Map!Abandon /\ pc = "merge"
      BY <2>4 DEF Map!CloseGapFails, Map!CloseStartFails, Map!Separated
    <3>2. PICK taken : taken = Map!RegionsTaken
      OBVIOUS
    <3>3. Len(taken) = Len(regions) + 1
      <4>1. builder.bytes # <<>>
        BY <1>2, <3>1, BuilderBlock
      <4>2. PICK S : regions \in Seq(S)
        BY DEF ProgramInv
      <4>3. taken = Append(regions, Map!BuilderRegion)
        BY <3>2, <4>1 DEF Map!RegionsTaken
      <4> QED
        BY <4>2, <4>3
    <3>4. LayoutBlocks(taken) = [LayoutBlocks(taken) EXCEPT !["bytes"] = @ + 0]
      <4>1. PICK b : b = LayoutBlocks(taken)
        OBVIOUS
      <4>2. b = [k \in HeapKinds |-> b[k]] /\ b["bytes"] = Len(taken)
        BY <4>1 DEF LayoutBlocks, HeapKinds, Tables
      <4>3. b = [b EXCEPT !["bytes"] = @ + 0]
        BY <1>2, <3>3, <4>2 DEF Owners
      <4> QED
        BY <4>1, <4>3
    <3>5. Frees([LayoutBlocks(taken) EXCEPT !["bytes"] = @ + 0])
      BY <2>4, <3>2, <3>4
    <3>6. One(builder'.cap # 0) + Len(taken) + 0 = Len(regions) + One(builder.cap # 0)
      <4>1. One(builder.cap # 0) = 1
        BY <1>2, <3>1, BuilderBlock DEF One
      <4> QED
        BY <1>2, <2>1, <3>1, <3>3, <4>1 DEF Owners
    <3>7. Len(taken) \in Nat /\ 0 \in Int
      BY <1>2, <3>3 DEF Owners
    <3> QED
      BY <1>1, <1>2, <1>3, <2>1, <3>1, <3>5, <3>6, <3>7, LayoutFreed
  <2> QED
    BY <1>9, <2>2, <2>3, <2>4 DEF ReconstructFails
<1> QED
  BY <1>7, <1>8, <1>9

\* The steps that go on make the blocks they keep.
LEMMA OverlapKeepsHeap ==
  ASSUME heap = OwnedBlocks, Owners, Map!RecordOverlap, Allocates(OverlapBlock), buffer' = buffer
  PROVE  heap' = OwnedBlocks'
<1>1. /\ CanPush("overlaps", Len(overlaps))
      /\ capacity' = [capacity EXCEPT !["overlaps"] = CapacityFor("overlaps", Len(overlaps))]
      /\ chunks' = chunks /\ regions' = regions /\ builder' = builder
  BY SamePush DEF Map!RecordOverlap
<1>2. PICK new : new = NewTable("overlaps", Len(overlaps))
  OBVIOUS
<1>3. /\ One(CapacityFor("overlaps", Len(overlaps)) # 0) = One(capacity["overlaps"] # 0) + new
      /\ new \in {0, 1}
  BY <1>1, <1>2, TablePushed DEF Owners, Tables
<1>4. /\ OverlapBlock["overlaps"] = new
      /\ \A k \in HeapKinds \ {"overlaps"} : OverlapBlock[k] = 0
      /\ \A k \in HeapKinds : NoBlocks[k] = 0
  BY <1>2 DEF OverlapBlock, NoBlocks, HeapKinds, Tables
<1>5. \A t \in Tables : One(capacity'[t] # 0) = One(capacity[t] # 0) + OverlapBlock[t] - NoBlocks[t]
  <2> SUFFICES ASSUME NEW t \in Tables
               PROVE  One(capacity'[t] # 0) = One(capacity[t] # 0) + OverlapBlock[t] - NoBlocks[t]
    OBVIOUS
  <2>1. NoBlocks[t] = 0 /\ capacity \in [Tables -> Nat]
    BY <1>4 DEF HeapKinds, Owners
  <2>2. CASE t = "overlaps"
    <3>1. capacity'[t] = CapacityFor("overlaps", Len(overlaps))
      BY <1>1, <2>1, <2>2
    <3> QED
      BY <1>3, <1>4, <2>1, <2>2, <3>1, OneIs
  <2>3. CASE t # "overlaps"
    <3>1. capacity'[t] = capacity[t] /\ OverlapBlock[t] = 0
      BY <1>1, <1>4, <2>1, <2>3 DEF HeapKinds
    <3> QED
      BY <2>1, <3>1, OneIs
  <2> QED
    BY <2>2, <2>3
<1>6. /\ Len(chunks') = Len(chunks) + OverlapBlock["copies"] - NoBlocks["copies"]
      /\ One(buffer') = One(buffer) + OverlapBlock["buffer"] - NoBlocks["buffer"]
  BY <1>1, <1>4, OneIs DEF HeapKinds, Tables, Owners
<1>7. Len(regions') + One(builder'.cap # 0)
        = Len(regions) + One(builder.cap # 0) + OverlapBlock["bytes"] - NoBlocks["bytes"]
  BY <1>1, <1>4, OneIs DEF HeapKinds, Tables, Owners
<1> QED
  BY <1>5, <1>6, <1>7, HeapFollows DEF Allocates

\* A region's buffer is made where there is none.
LEMMA BytesKeepHeap ==
  ASSUME heap = OwnedBlocks, Owners, NEW c, Allocates(BytesBlock(c)),
         capacity' = capacity, chunks' = chunks, regions' = regions, buffer' = buffer,
         One(builder'.cap # 0) = One(builder.cap # 0) + One(c)
  PROVE  heap' = OwnedBlocks'
<1>1. PICK a : a = BytesBlock(c)
  OBVIOUS
<1>2. /\ a["bytes"] = One(c)
      /\ \A k \in HeapKinds \ {"bytes"} : a[k] = 0
      /\ \A k \in HeapKinds : NoBlocks[k] = 0
  BY <1>1 DEF BytesBlock, NoBlocks, HeapKinds, Tables
<1>3. /\ \A t \in Tables : One(capacity'[t] # 0) = One(capacity[t] # 0) + a[t] - NoBlocks[t]
      /\ Len(chunks') = Len(chunks) + a["copies"] - NoBlocks["copies"]
      /\ One(buffer') = One(buffer) + a["buffer"] - NoBlocks["buffer"]
  BY <1>2, OneIs DEF HeapKinds, Tables, Owners
<1>4. Len(regions') + One(builder'.cap # 0)
        = Len(regions) + One(builder.cap # 0) + a["bytes"] - NoBlocks["bytes"]
  BY <1>2, OneIs DEF HeapKinds, Owners
<1> QED
  BY <1>1, <1>3, <1>4, HeapFollows DEF Allocates

\* A region taken keeps the builder's buffer, and its table is made for the first.
LEMMA RegionTaken ==
  ASSUME Owners, \E S : regions \in Seq(S), builder.bytes # <<>>, Map!CanTakeRegion
  PROVE  /\ Len(Map!RegionsTaken) = Len(regions) + 1
         /\ Map!RegionCapacity = CapacityFor("regions", Len(regions))
         /\ One(CapacityFor("regions", Len(regions)) # 0)
              = One(capacity["regions"] # 0) + NewTable("regions", Len(regions))
         /\ NewTable("regions", Len(regions)) \in {0, 1}
         /\ RegionBlock["regions"] = NewTable("regions", Len(regions))
         /\ \A k \in HeapKinds \ {"regions"} : RegionBlock[k] = 0
<1>1. PICK S : regions \in Seq(S)
  OBVIOUS
<1>2. Map!RegionsTaken = Append(regions, Map!BuilderRegion)
  BY DEF Map!RegionsTaken
<1>3. CanPush("regions", Len(regions))
  BY SamePush DEF Map!CanTakeRegion
<1>4. /\ One(CapacityFor("regions", Len(regions)) # 0)
           = One(capacity["regions"] # 0) + NewTable("regions", Len(regions))
      /\ NewTable("regions", Len(regions)) \in {0, 1}
  BY <1>3, TablePushed DEF Owners, Tables
<1>5. PICK new : new = NewTable("regions", Len(regions))
  OBVIOUS
<1>6. /\ RegionBlock["regions"] = One(new = 1)
      /\ \A k \in HeapKinds \ {"regions"} : RegionBlock[k] = 0
  BY <1>5 DEF RegionBlock, NoBlocks, HeapKinds, Tables, One
<1>7. One(new = 1) = new
  BY <1>4, <1>5 DEF One
<1>8. Map!RegionCapacity = CapacityFor("regions", Len(regions))
  BY SamePush DEF Map!RegionCapacity
<1> QED
  BY <1>1, <1>2, <1>4, <1>5, <1>6, <1>7, <1>8

LEMMA CloseKeepsHeap ==
  ASSUME heap = OwnedBlocks, Owners, \E S : regions \in Seq(S), Map!CloseRegion,
         Allocates(CloseBlocks), buffer' = buffer,
         builder.bytes # <<>>, builder.cap # 0, builder'.cap # 0
  PROVE  heap' = OwnedBlocks'
<1>1. /\ Map!CanTakeRegion /\ CanPush("gaps", Len(gaps))
      /\ capacity' = [capacity EXCEPT !["regions"] = Map!RegionCapacity,
                                      !["gaps"] = CapacityFor("gaps", Len(gaps))]
      /\ chunks' = chunks /\ regions' = Map!RegionsTaken
  BY SamePush DEF Map!CloseRegion
<1>2. PICK first, new : /\ first = NewTable("regions", Len(regions))
                        /\ new = NewTable("gaps", Len(gaps))
  OBVIOUS
<1>3. /\ Len(regions') = Len(regions) + 1
      /\ Map!RegionCapacity = CapacityFor("regions", Len(regions))
      /\ One(CapacityFor("regions", Len(regions)) # 0) = One(capacity["regions"] # 0) + first
      /\ RegionBlock["regions"] = first /\ first \in {0, 1}
      /\ \A k \in HeapKinds \ {"regions"} : RegionBlock[k] = 0
  BY <1>1, <1>2, RegionTaken
<1>4. /\ One(CapacityFor("gaps", Len(gaps)) # 0) = One(capacity["gaps"] # 0) + new
      /\ new \in {0, 1}
  BY <1>1, <1>2, TablePushed DEF Owners, Tables
<1>5. PICK a : a = CloseBlocks
  OBVIOUS
<1>6. /\ a["regions"] = first /\ a["gaps"] = new /\ a["bytes"] = 1
      /\ \A k \in HeapKinds \ {"regions", "gaps", "bytes"} : a[k] = 0
      /\ \A k \in HeapKinds : NoBlocks[k] = 0
  <2>1. PICK b : b = RegionBlock
    OBVIOUS
  <2>2. DOMAIN b = HeapKinds
    BY <2>1 DEF RegionBlock, NoBlocks
  <2>3. a = [b EXCEPT !["gaps"] = new, !["bytes"] = 1]
    BY <1>2, <1>5, <2>1 DEF CloseBlocks
  <2>4. b["regions"] = first /\ \A k \in HeapKinds \ {"regions"} : b[k] = 0
    BY <1>3, <2>1
  <2> QED
    BY <2>2, <2>3, <2>4, NoBlocksAre DEF HeapKinds, Tables
<1>7. \A t \in Tables : One(capacity'[t] # 0) = One(capacity[t] # 0) + a[t] - NoBlocks[t]
  <2> SUFFICES ASSUME NEW t \in Tables
               PROVE  One(capacity'[t] # 0) = One(capacity[t] # 0) + a[t] - NoBlocks[t]
    OBVIOUS
  <2>1. NoBlocks[t] = 0 /\ capacity \in [Tables -> Nat]
    BY <1>6 DEF HeapKinds, Owners
  <2>2. CASE t = "regions"
    <3>1. capacity'[t] = CapacityFor("regions", Len(regions))
      BY <1>1, <1>3, <2>1, <2>2
    <3> QED
      BY <1>3, <1>6, <2>1, <2>2, <3>1, OneIs
  <2>3. CASE t = "gaps"
    <3>1. capacity'[t] = CapacityFor("gaps", Len(gaps))
      BY <1>1, <2>1, <2>3
    <3> QED
      BY <1>4, <1>6, <2>1, <2>3, <3>1, OneIs
  <2>4. CASE t \notin {"regions", "gaps"}
    <3>1. capacity'[t] = capacity[t]
      BY <1>1, <2>1, <2>4
    <3>2. a[t] = 0
      BY <1>6, <2>4 DEF HeapKinds, Tables
    <3> QED
      BY <2>1, <3>1, <3>2, OneIs
  <2> QED
    BY <2>2, <2>3, <2>4
<1>8. /\ Len(chunks') = Len(chunks) + a["copies"] - NoBlocks["copies"]
      /\ One(buffer') = One(buffer) + a["buffer"] - NoBlocks["buffer"]
  BY <1>1, <1>6, OneIs DEF HeapKinds, Tables, Owners
<1>9. Len(regions') + One(builder'.cap # 0)
        = Len(regions) + One(builder.cap # 0) + a["bytes"] - NoBlocks["bytes"]
  <2>1. One(builder.cap # 0) = 1 /\ One(builder'.cap # 0) = 1
    BY DEF One
  <2> QED
    BY <1>3, <1>6, <2>1 DEF HeapKinds, Owners
<1> QED
  BY <1>5, <1>7, <1>8, <1>9, HeapFollows DEF Allocates

LEMMA FinishKeepsHeap ==
  ASSUME heap = OwnedBlocks, Owners, \E S : regions \in Seq(S), Map!FinishLayout,
         Allocates(RegionBlock), buffer' = buffer,
         builder.bytes # <<>>, builder.cap # 0
  PROVE  heap' = OwnedBlocks'
<1>1. /\ Map!CanTakeRegion
      /\ capacity' = [capacity EXCEPT !["regions"] = Map!RegionCapacity]
      /\ chunks' = chunks /\ regions' = Map!RegionsTaken /\ builder'.cap = 0
  BY DEF Map!FinishLayout, Map!NoBuilder
<1>2. PICK first : first = NewTable("regions", Len(regions))
  OBVIOUS
<1>3. /\ Len(regions') = Len(regions) + 1
      /\ Map!RegionCapacity = CapacityFor("regions", Len(regions))
      /\ One(CapacityFor("regions", Len(regions)) # 0) = One(capacity["regions"] # 0) + first
      /\ RegionBlock["regions"] = first /\ first \in {0, 1}
      /\ \A k \in HeapKinds \ {"regions"} : RegionBlock[k] = 0
  BY <1>1, <1>2, RegionTaken
<1>4. \A t \in Tables : One(capacity'[t] # 0) = One(capacity[t] # 0) + RegionBlock[t] - NoBlocks[t]
  <2> SUFFICES ASSUME NEW t \in Tables
               PROVE  One(capacity'[t] # 0) = One(capacity[t] # 0) + RegionBlock[t] - NoBlocks[t]
    OBVIOUS
  <2>1. NoBlocks[t] = 0 /\ capacity \in [Tables -> Nat]
    BY NoBlocksAre DEF HeapKinds, Owners
  <2>2. CASE t = "regions"
    <3>1. capacity'[t] = CapacityFor("regions", Len(regions))
      BY <1>1, <1>3, <2>1, <2>2
    <3> QED
      BY <1>3, <2>1, <2>2, <3>1, OneIs
  <2>3. CASE t # "regions"
    <3>1. capacity'[t] = capacity[t] /\ RegionBlock[t] = 0
      BY <1>1, <1>3, <2>1, <2>3 DEF HeapKinds
    <3> QED
      BY <2>1, <3>1, OneIs
  <2> QED
    BY <2>2, <2>3
<1>5. \A k \in {"copies", "bytes", "buffer"} : RegionBlock[k] = 0 /\ NoBlocks[k] = 0
  BY <1>3, NoBlocksAre DEF HeapKinds
<1>6. /\ Len(chunks') = Len(chunks) + RegionBlock["copies"] - NoBlocks["copies"]
      /\ One(buffer') = One(buffer) + RegionBlock["buffer"] - NoBlocks["buffer"]
  BY <1>1, <1>5, OneIs DEF Owners
<1>7. Len(regions') + One(builder'.cap # 0)
        = Len(regions) + One(builder.cap # 0) + RegionBlock["bytes"] - NoBlocks["bytes"]
  <2>1. One(builder.cap # 0) = 1 /\ One(builder'.cap # 0) = 0
    BY <1>1 DEF One
  <2> QED
    BY <1>3, <1>5, <2>1 DEF Owners
<1> QED
  BY <1>4, <1>6, <1>7, HeapFollows DEF Allocates

\* After a step too, an open region has its buffer.
LEMMA BufferAfterMerge ==
  ASSUME MP!BytesInv', pc' = "merge"
  PROVE  builder'.cap # 0
<1>1. /\ builder' \in [start : MP!Address, end : MP!Address, bytes : Seq(Byte), cap : Nat]
      /\ MP!LoopInv' /\ MP!WithinCapacity'
  BY DEF MP!BytesInv, MP!LayoutInv, MP!MemMapInv, MP!TypeOK
<1>2. builder'.cap \in Nat /\ builder'.bytes \in Seq(Byte)
  BY <1>1
<1>3. builder'.bytes # <<>>
  BY <1>1 DEF MP!LoopInv, MP!BuilderFollowsChunks
<1>4. Len(builder'.bytes) <= builder'.cap
  BY <1>1 DEF MP!WithinCapacity
<1> QED
  BY <1>2, <1>3, <1>4

\* The map's steps keep the ledger; the loader's buffer is gone by then.
LEMMA MapKeepsHeap ==
  ASSUME ProgramInv, FileInv, FileInv', HeapInv,
         \/ ReconstructNothing \/ ReconstructBegins \/ ReconstructGoesOn
         \/ ReconstructEnds \/ ReconstructFails
  PROVE  HeapInv'
<1>1. /\ stage = "map" /\ stage' = "map" /\ buffer' = buffer /\ buffer = FALSE
  BY DEF ReconstructNothing, ReconstructBegins, ReconstructGoesOn, ReconstructEnds,
         ReconstructFails, Mapping, Calling, binVars, ProgramInv, AtMap, Closed
<1>2. /\ Owners /\ heap = OwnedBlocks /\ MP!BytesInv /\ MP!BytesInv'
      /\ \E S : regions \in Seq(S)
  BY <1>1, OwnersHold DEF HeapInv, FileInv, BeingMapped, ProgramInv
<1>3. /\ builder.cap \in Nat
      /\ pc = "merge" => builder.bytes # <<>> /\ builder.cap # 0
      /\ pc # "merge" => builder.cap = 0
  BY <1>2, BuilderBlock
<1>4. pc' = "merge" => builder'.cap # 0
  BY <1>2, BufferAfterMerge
<1>5. ASSUME ReconstructGoesOn
      PROVE  heap' = OwnedBlocks'
  <2>1. CASE Map!RecordOverlap /\ Allocates(OverlapBlock)
    BY <1>1, <1>2, <2>1, OverlapKeepsHeap
  <2>2. CASE (Map!NextOverlapRow \/ Map!MergeContained) /\ UNCHANGED heap
    <3>1. UNCHANGED Map!imageVars /\ builder' = builder
      BY <2>2 DEF Map!NextOverlapRow, Map!MergeContained
    <3>2. capacity' = capacity /\ chunks' = chunks /\ regions' = regions
      BY <3>1 DEF Map!imageVars, Map!layoutVars
    <3> QED
      BY <1>1, <1>2, <2>2, <3>1, <3>2, HeapStands
  <2>3. CASE Map!StartBuilder /\ Allocates(BytesBlock(TRUE))
    <3>1. UNCHANGED Map!imageVars /\ pc = "start" /\ pc' = "merge"
      BY <2>3 DEF Map!StartBuilder
    <3>2. capacity' = capacity /\ chunks' = chunks /\ regions' = regions
      BY <3>1 DEF Map!imageVars, Map!layoutVars
    <3>3. One(builder'.cap # 0) = One(builder.cap # 0) + One(TRUE)
      BY <1>3, <1>4, <3>1 DEF One
    <3> QED
      BY <1>1, <1>2, <2>3, <3>2, <3>3, BytesKeepHeap
  <2>4. CASE Map!MergeTail /\ Allocates(BytesBlock(builder.cap = 0))
    <3>1. UNCHANGED Map!imageVars /\ pc = "merge" /\ pc' = "merge"
      BY <2>4 DEF Map!MergeTail, Map!Merging
    <3>2. capacity' = capacity /\ chunks' = chunks /\ regions' = regions
      BY <3>1 DEF Map!imageVars, Map!layoutVars
    <3>3. One(builder'.cap # 0) = One(builder.cap # 0) + One(builder.cap = 0)
      BY <1>3, <1>4, <3>1 DEF One
    <3> QED
      BY <1>1, <1>2, <2>4, <3>2, <3>3, BytesKeepHeap
  <2>5. CASE Map!CloseRegion /\ Allocates(CloseBlocks)
    <3>1. pc = "merge" /\ pc' = "merge"
      BY <2>5 DEF Map!CloseRegion, Map!Separated
    <3> QED
      BY <1>1, <1>2, <1>3, <1>4, <2>5, <3>1, CloseKeepsHeap
  <2> QED
    BY <1>5, <2>1, <2>2, <2>3, <2>4, <2>5 DEF ReconstructGoesOn
<1>6. ASSUME ReconstructEnds
      PROVE  heap' = OwnedBlocks'
  <2>1. Map!FinishLayout /\ Allocates(RegionBlock) /\ pc = "merge"
    BY <1>6 DEF ReconstructEnds, Map!FinishLayout
  <2> QED
    BY <1>1, <1>2, <1>3, <2>1, FinishKeepsHeap
<1>7. ReconstructNothing \/ ReconstructBegins \/ ReconstructFails => heap' = OwnedBlocks'
  BY MapFreesHeap DEF HeapInv
<1>8. heap' = OwnedBlocks'
  BY <1>5, <1>6, <1>7
<1>9. ~buffer'
  BY <1>1
<1> QED
  BY <1>8, <1>9 DEF HeapInv

LEMMA StutterKeepsHeap ==
  ASSUME HeapInv, UNCHANGED vars
  PROVE  HeapInv'
<1>1. /\ heap' = heap /\ capacity' = capacity /\ chunks' = chunks /\ regions' = regions
      /\ builder' = builder /\ buffer' = buffer /\ pc' = pc
  BY DEF vars, imageVars, layoutVars, callVars, binVars, mapVars
<1>2. heap' = OwnedBlocks'
  <2>1. heap = OwnedBlocks
    BY DEF HeapInv
  <2>2. builder'.cap = builder.cap
    BY <1>1
  <2>3. One(buffer') = One(buffer)
    BY <1>1
  <2> QED
    BY <1>1, <2>1, <2>2, <2>3, HeapStands
<1>3. buffer' => pc' \in {"reading", "read"}
  <2>1. buffer => pc \in {"reading", "read"}
    BY DEF HeapInv
  <2> QED
    BY <1>1, <2>1
<1> QED
  BY <1>2, <1>3 DEF HeapInv

LEMMA InitialHeap == Init => HeapInv
<1> SUFFICES ASSUME Init PROVE HeapInv
  OBVIOUS
<1>1. /\ heap = NoBlocks /\ buffer = FALSE
      /\ capacity = [t \in Tables |-> 0] /\ chunks = <<>> /\ regions = <<>>
      /\ builder.cap = 0
  BY DEF Init, Hex!Init, Hex!ImageInit, Hex!Tables, Tables, Bin!Init, Map!Init, Map!NoBuilder
<1>2. OwnedBlocks = NoBlocks
  <2>1. \A t \in Tables : One(capacity[t] # 0) = 0
    BY <1>1 DEF One
  <2>2. Len(chunks) = 0 /\ Len(regions) + One(builder.cap # 0) = 0 /\ One(buffer) = 0
    BY <1>1 DEF One
  <2> QED
    BY <2>1, <2>2 DEF OwnedBlocks, NoBlocks, HeapKinds, Tables
<1> QED
  BY <1>1, <1>2 DEF HeapInv

LEMMA HeapInvariance == Spec => [](ProgramInv /\ FileInv /\ HeapInv)
<1>1. ProgramInv /\ FileInv /\ FileInv' /\ HeapInv /\ [Next]_vars => HeapInv'
  BY MainKeepsHeap, HexKeepsHeap, BinKeepsHeap, MapKeepsHeap, StutterKeepsHeap DEF Next
<1>2. Init => HeapInv
  BY InitialHeap
<1> QED
  BY <1>1, <1>2, FileInvariance, PTL DEF Spec

\* Every block the program allocates is freed once, whatever the file, the
\* command and the call that fails: the malloc, realloc and free calls of every
\* step leave on the heap the blocks that are owned, and at the exit none
\* (firmware_image.c:19-64, bin_loader.c:140-147, memmap.c:511-514,
\* main.c:406-459, hex_parser.c:346-349).
THEOREM BlocksAlwaysFreedOnce == Spec => []EveryBlockFreedOnce
<1>1. ProgramInv /\ HeapInv => EveryBlockFreedOnce
  <2> SUFFICES ASSUME ProgramInv, HeapInv PROVE EveryBlockFreedOnce
    OBVIOUS
  <2>1. ASSUME stage = "exit" PROVE heap = NoBlocks
    <3>1. /\ \A t \in Tables : capacity[t] = 0
          /\ chunks = <<>> /\ regions = <<>> /\ buffer = FALSE /\ builder.cap = 0
      BY <2>1 DEF ProgramInv, AtExit, NoImage, NoLayout, Closed, Tables
    <3>2. OwnedBlocks = NoBlocks
      <4>1. \A t \in Tables : One(capacity[t] # 0) = 0
        BY <3>1 DEF One
      <4>2. Len(chunks) = 0 /\ Len(regions) + One(builder.cap # 0) = 0 /\ One(buffer) = 0
        BY <3>1 DEF One
      <4> QED
        BY <4>1, <4>2 DEF OwnedBlocks, NoBlocks, HeapKinds, Tables
    <3> QED
      BY <3>2 DEF HeapInv
  <2> QED
    BY <2>1 DEF EveryBlockFreedOnce, HeapInv
<1> QED
  BY <1>1, HeapInvariance, PTL

=============================================================================
