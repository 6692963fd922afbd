------------------------------ MODULE BinLens ------------------------------
(***************************************************************************)
(* main (src/main.c): parse the command line, resolve the input format,    *)
(* load the file, reconstruct the layout, print the report, free the image *)
(* and exit.  The module composes the HEX parser, the raw loader and the   *)
(* memory map on one image and one diagnostic, as main does; pc is where   *)
(* the callee that runs is, "idle" in main itself.                         *)
(*                                                                         *)
(* The command is what bl_cli_parse returned (module Cli), with the        *)
(* extension for the path.  Of the report the regions, the gaps, the       *)
(* origins of the overlaps, the span, the total and the statistics are     *)
(* kept; the walks that print its windows and its vector table are         *)
(* EntropyWindows and VectorTable.                                         *)
(***************************************************************************)
EXTENDS FirmwareImage, FiniteSets

CONSTANTS
  ByteBase, Paragraph, Lines, MaxLines,  \* see HexParser
  Contents, Bases,                       \* see BinLoader
  Commands                               \* what the command line may ask for

\* Each loader is called once, on an image that holds nothing.
MaxPrior == 0

Formats == {"auto", "hex", "bin"}
Extensions == {"none", "hex", "ihex", "bin", "other"}

ASSUME ProgramAssumption ==
  Commands \subseteq [accepted : BOOLEAN, extension : Extensions, format : Formats,
                      base : Bases, flags : SUBSET {"help", "version"}]

VARIABLES
  command,  \* BlCliOptions, and whether bl_cli_parse accepted the arguments
  stage,    \* where main is
  status,   \* the exit status
  report,   \* output: the tables of the report
  heap,     \* history: the blocks of each kind allocated and not yet freed
  pc, base, result, diag,                \* of the call that runs
  stats, seen,                           \* the HEX parser's
  disk, open, buffer, size, got, held,   \* the raw loader's
  i, j, builder, built                   \* the memory map's

hexVars == <<stats, seen>>
binVars == <<disk, open, buffer, size, got, held>>
mapVars == <<i, j, builder, built>>
callVars == <<pc, base, result, diag, hexVars, binVars, mapVars>>
vars == <<imageVars, command, stage, status, report, heap, callVars>>

Hex == INSTANCE HexParser WITH
  missing <- "none", prior <- [chunks |-> 0, bytes |-> 0]

Bin == INSTANCE BinLoader WITH prior <- <<>>

Map == INSTANCE MemMap

\* What the parser and the loader assume of their parameters.
ASSUME PartsAssumption == Hex!HexAssumption /\ Bin!LoaderAssumption

NoReport == [printed |-> FALSE]

-----------------------------------------------------------------------------
(* The heap, moved by the malloc, realloc and free calls of each step and  *)
(* by nothing else.  A block is a table, a chunk's copy of its bytes, the  *)
(* bytes of a region or of the region being built, or the loader's buffer. *)

HeapKinds == Tables \cup {"copies", "bytes", "buffer"}

NoBlocks == [k \in HeapKinds |-> 0]

One(condition) == IF condition THEN 1 ELSE 0

Calls(allocated, freed) ==
  heap' = [k \in HeapKinds |-> heap[k] + allocated[k] - freed[k]]

Allocates(blocks) == Calls(blocks, NoBlocks)
Frees(blocks) == Calls(NoBlocks, blocks)

\* realloc makes a block of a table that has none and moves the one it has.
NewTable(t, count) == One(Full(t, count) /\ capacity[t] = 0)

\* add_chunk: the table perhaps, and the copy.
ChunkBlocks ==
  [NoBlocks EXCEPT !["chunks"] = NewTable("chunks", Len(chunks)), !["copies"] = 1]

\* Mutant: clear_layout frees the tables and not the bytes of the regions.
LayoutBlocksNoBytes(taken) ==
  [k \in HeapKinds |->
    IF k \in Tables \ {"chunks"} THEN One(capacity[k] # 0) ELSE 0]

\* clear_layout: the bytes of each region taken, and each table that is there.
LayoutBlocks(taken) ==
  [k \in HeapKinds |->
    CASE k = "bytes" -> Len(taken)
      [] k \in Tables \ {"chunks"} -> One(capacity[k] # 0)
      [] OTHER -> 0]

\* bl_firmware_image_free: the layout, the copy of each chunk, and their table.
ImageBlocks ==
  [LayoutBlocks(regions) EXCEPT !["chunks"] = One(capacity["chunks"] # 0),
                                !["copies"] = Len(chunks)]

\* What owns a block now.
OwnedBlocks ==
  [k \in HeapKinds |->
    CASE k \in Tables -> One(capacity[k] # 0)
      [] k = "copies" -> Len(chunks)
      [] k = "bytes" -> Len(regions) + One(builder.cap # 0)
      [] k = "buffer" -> One(buffer)]

Init ==
  /\ Hex!Init /\ Bin!Init /\ Map!Init
  /\ command \in Commands
  /\ stage = "start"
  /\ status = 0
  /\ report = NoReport
  /\ heap = NoBlocks

-----------------------------------------------------------------------------
(* main, before there is an image to load.                                 *)

Exit(code) == stage' = "exit" /\ status' = code

WantsText == command.flags # {}

\* Mutant: the extension is believed before the format that was asked for.
ResolvedFormatByExtension ==
  CASE command.extension \in {"hex", "ihex"} -> "hex"
    [] command.extension = "bin" -> "bin"
    [] OTHER -> command.format

\* infer_format, when no format was given.
ResolvedFormat ==
  IF command.format # "auto" THEN command.format
  ELSE CASE command.extension \in {"hex", "ihex"} -> "hex"
         [] command.extension = "bin" -> "bin"
         [] OTHER -> "auto"

UsageError ==
  /\ stage = "start"
  /\ ~command.accepted
  /\ Exit(2)
  /\ UNCHANGED <<imageVars, command, report, heap, callVars>>

PrintHelpOrVersion ==
  /\ stage = "start"
  /\ command.accepted
  /\ WantsText
  /\ Exit(0)
  /\ UNCHANGED <<imageVars, command, report, heap, callVars>>

\* Mutant: the input is looked at before --help and --version.
ResolvingAnyway == stage = "start" /\ command.accepted

Resolving ==
  /\ stage = "start"
  /\ command.accepted
  /\ ~WantsText

Resolve ==
  /\ Resolving
  /\ ResolvedFormat # "auto"
  /\ stage' = "load"
  /\ UNCHANGED <<imageVars, command, status, report, heap, callVars>>

CannotInfer ==
  /\ Resolving
  /\ ResolvedFormat = "auto"
  /\ FreeImage
  /\ Frees(ImageBlocks)
  /\ Exit(2)
  /\ UNCHANGED <<command, report, callVars>>

-----------------------------------------------------------------------------
(* The calls.                                                              *)

Calling == stage \in {"load", "map"} /\ result = "none"

Loading ==
  /\ Calling
  /\ stage = "load"
  /\ UNCHANGED <<command, stage, status, report, mapVars>>

\* The parser's lines: most touch no block, a data record stores a chunk, and
\* one it refuses frees the image, with a table grown for it.
HexLine(l) ==
  \/ /\ \/ Hex!SkipBlank(l) \/ Hex!EofRecord(l)
        \/ Hex!AddressRecord(l) \/ Hex!StartRecord(l)
     /\ UNCHANGED heap
  \/ Hex!DataRecord(l) /\ Allocates(IF l.data = <<>> THEN NoBlocks ELSE ChunkBlocks)
  \/ /\ Hex!RefuseLine(l) \/ Hex!RefuseRecord(l) \/ Hex!DataRecordFails(l)
     /\ Frees(ImageBlocks)

LoadHex ==
  /\ ResolvedFormat = "hex"
  /\ Loading
  /\ \/ (Hex!OpenFails \/ Hex!Open \/ Hex!Succeed) /\ UNCHANGED heap
     \/ \E l \in Lines : HexLine(l)
     \/ (Hex!ReadError \/ Hex!MissingEof) /\ Frees(ImageBlocks)
  /\ UNCHANGED binVars

OpenBin == Bin!OpenFile /\ base' = command.base

\* The loader's temporary buffer, and free(bytes) where it may be NULL.
NewBuffer == [NoBlocks EXCEPT !["buffer"] = 1]
BufferBlock == [NoBlocks EXCEPT !["buffer"] = One(buffer)]

\* The label fail.
BinFails ==
  /\ \/ Bin!MeasureFails \/ Bin!RewindFails \/ Bin!AllocateFails
     \/ Bin!ReadShort \/ Bin!StoreFails
  /\ Frees([ImageBlocks EXCEPT !["buffer"] = One(buffer)])

LoadBin ==
  /\ ResolvedFormat = "bin"
  /\ Loading
  /\ \/ /\ \/ Bin!OpenFails \/ OpenBin \/ Bin!Measure \/ Bin!Rewind
           \/ Bin!EmptyFile \/ Bin!ReadSome \/ Bin!ReadDone
        /\ UNCHANGED heap
     \/ Bin!Allocate /\ Allocates(NewBuffer)
     \/ Bin!Store /\ Calls(ChunkBlocks, BufferBlock)
     \/ BinFails
  /\ UNCHANGED hexVars

Mapping ==
  /\ Calling
  /\ stage = "map"
  /\ UNCHANGED <<command, stage, status, report, base, hexVars, binVars>>

ReconstructNothing ==
  /\ Mapping
  /\ Map!ReconstructEmpty
  /\ result' = "ok" /\ UNCHANGED diag
  /\ Frees(LayoutBlocks(regions))

ReconstructBegins ==
  /\ Mapping
  /\ Map!ReconstructStart
  /\ UNCHANGED <<result, diag>>
  /\ Frees(LayoutBlocks(regions))

\* The tables a region and a gap may be the first of, and the region's bytes.
RegionBlock ==
  [NoBlocks EXCEPT !["regions"] =
    One(builder.bytes # <<>> /\ NewTable("regions", Len(regions)) = 1)]
OverlapBlock == [NoBlocks EXCEPT !["overlaps"] = NewTable("overlaps", Len(overlaps))]
BytesBlock(condition) == [NoBlocks EXCEPT !["bytes"] = One(condition)]
CloseBlocks ==
  [RegionBlock EXCEPT !["gaps"] = NewTable("gaps", Len(gaps)), !["bytes"] = 1]

ReconstructGoesOn ==
  /\ Mapping
  /\ \/ Map!RecordOverlap /\ Allocates(OverlapBlock)
     \/ (Map!NextOverlapRow \/ Map!MergeContained) /\ UNCHANGED heap
     \/ Map!StartBuilder /\ Allocates(BytesBlock(TRUE))
     \/ Map!MergeTail /\ Allocates(BytesBlock(builder.cap = 0))
     \/ Map!CloseRegion /\ Allocates(CloseBlocks)
  /\ UNCHANGED <<result, diag>>

ReconstructEnds ==
  /\ Mapping
  /\ Map!FinishLayout /\ Allocates(RegionBlock)
  /\ result' = "ok" /\ UNCHANGED diag

\* The labels fail_builder, where the builder still owns its buffer, and fail.
ReconstructFails ==
  /\ Mapping
  /\ \/ (Map!OverlapFails \/ Map!StartFails) /\ Frees(LayoutBlocks(regions))
     \/ /\ Map!MergeFails \/ Map!FinishFails \/ Map!CloseTakeFails
        /\ Frees([LayoutBlocks(regions) EXCEPT !["bytes"] = @ + One(builder.cap # 0)])
     \/ (Map!CloseGapFails \/ Map!CloseStartFails) /\ Frees(LayoutBlocks(Map!RegionsTaken))
  /\ result' = "failed" /\ diag' = "resource"

-----------------------------------------------------------------------------
(* What main does with what a call returned.                               *)

\* The error is printed and the image freed, perhaps a second time.
CallFailed ==
  /\ stage \in {"load", "map"}
  /\ result = "failed"
  /\ FreeImage
  /\ Frees(ImageBlocks)
  /\ Exit(1)
  /\ UNCHANGED <<command, report, callVars>>

Loaded ==
  /\ stage = "load"
  /\ result = "ok"
  /\ stage' = "map"
  /\ result' = "none"
  /\ diag' = "none"
  /\ UNCHANGED <<imageVars, command, status, report, heap, pc, base, hexVars, binVars, mapVars>>

\* print_address_span.
PrintedSpan == IF totalLoaded = 0 THEN {} ELSE addrStart .. addrEnd

\* print_overlaps: a pair of lines, or of chunks that have none.
PrintedOrigins ==
  [n \in 1 .. Len(overlaps) |->
    IF overlaps[n].firstLine # 0 \/ overlaps[n].secondLine # 0
      THEN <<overlaps[n].firstLine, overlaps[n].secondLine>>
      ELSE <<"chunks", overlaps[n].first, overlaps[n].second>>]

\* What print_input_summary prints of a HEX file's statistics.
PrintedStats ==
  IF ResolvedFormat = "hex"
    THEN [records |-> stats.records, dataRecords |-> stats.dataRecords,
          hasStart |-> stats.hasStart, start |-> stats.start]
    ELSE <<>>

\* print_summary, and the image is freed.
Report ==
  /\ stage = "map"
  /\ result = "ok"
  /\ report' = [printed |-> TRUE, regions |-> regions, gaps |-> gaps,
                origins |-> PrintedOrigins, total |-> totalLoaded,
                span |-> PrintedSpan, stats |-> PrintedStats]
  /\ FreeImage
  /\ Frees(ImageBlocks)
  /\ Exit(0)
  /\ UNCHANGED <<command, callVars>>

Next ==
  \/ UsageError \/ PrintHelpOrVersion \/ Resolve \/ CannotInfer
  \/ LoadHex \/ LoadBin
  \/ ReconstructNothing \/ ReconstructBegins \/ ReconstructGoesOn
  \/ ReconstructEnds \/ ReconstructFails
  \/ CallFailed \/ Loaded \/ Report

Spec == Init /\ [][Next]_vars

-----------------------------------------------------------------------------
(* What a file says about an address, with no parser and no layout.        *)

\* How the file is to be read: as --format says, else as its extension does.
ReadAsHex ==
  \/ command.format = "hex"
  \/ command.format = "auto" /\ command.extension \in {"hex", "ihex"}

FormatUnknown ==
  command.format = "auto" /\ command.extension \notin {"hex", "ihex", "bin"}

\* Where line k of the HEX file puts its first byte, and its addresses.
LineStart(k) == Hex!BaseAt(seen, k) + seen[k].offset
LineSpan(k) == LineStart(k) .. LineStart(k) + Len(seen[k].data) - 1

\* Of two lines the one whose bytes a region keeps.
LineBefore(k, m) ==
  \/ LineStart(k) < LineStart(m)
  \/ LineStart(k) = LineStart(m) /\ Len(seen[k].data) < Len(seen[m].data)
  \/ LineStart(k) = LineStart(m) /\ Len(seen[k].data) = Len(seen[m].data) /\ k < m

\* The byte at each address the HEX file gives one.
HexMemory ==
  LET lines == Hex!DataLines(seen)
  IN  [a \in UNION {LineSpan(k) : k \in lines} |->
        LET k == CHOOSE m \in lines :
                   /\ a \in LineSpan(m)
                   /\ \A n \in lines : a \in LineSpan(n) => ~LineBefore(n, m)
        IN  seen[k].data[a - LineStart(k) + 1]]

HexBytes == Hex!Total([k \in Hex!DataLines(seen) |-> Len(seen[k].data)])

BinMemory ==
  [a \in command.base .. command.base + Len(disk) - 1 |-> disk[a - command.base + 1]]

FileMemory == IF ReadAsHex THEN HexMemory ELSE BinMemory

\* The pairs of lines of the HEX file that give an address each its byte.
SharingLines ==
  {km \in Hex!DataLines(seen) \X Hex!DataLines(seen) :
     /\ LineBefore(km[1], km[2])
     /\ LineSpan(km[1]) \cap LineSpan(km[2]) # {}}

-----------------------------------------------------------------------------
(* Properties.                                                             *)

\* The program says in its exit status what happened: 0 with a report or with
\* the help or version asked for, 2 when it could not tell what to load, and
\* 1, with a message and no report, when a call failed (main.c:379-460).
StatusTellsTheOutcome ==
  stage = "exit" =>
    /\ report.printed <=> status = 0 /\ ~WantsText
    /\ status = 1 => result = "failed" /\ diag # "none"
    /\ status = 2 <=> ~command.accepted \/ (~WantsText /\ FormatUnknown)
    /\ open = FALSE

Within(x) == x.start .. x.end

\* Every address the file gives a byte is in exactly one region, with its byte,
\* and no other address is.
RegionsAreTheFile ==
  /\ \A n \in DOMAIN report.regions : \A a \in Within(report.regions[n]) :
       /\ a \in DOMAIN FileMemory
       /\ report.regions[n].bytes[a - report.regions[n].start + 1] = FileMemory[a]
  /\ \A a \in DOMAIN FileMemory :
       \E n \in DOMAIN report.regions :
         /\ a \in Within(report.regions[n])
         /\ \A m \in DOMAIN report.regions : a \in Within(report.regions[m]) => m = n

\* The span runs from the lowest such address to the highest, and the others in
\* it are each in exactly one gap.
GapsAreTheRest ==
  /\ DOMAIN FileMemory \subseteq report.span
  /\ \A a \in report.span : \E x, y \in DOMAIN FileMemory : x <= a /\ a <= y
  /\ \A n \in DOMAIN report.gaps :
       /\ Within(report.gaps[n]) # {}
       /\ Within(report.gaps[n]) \subseteq report.span \ DOMAIN FileMemory
  /\ \A a \in report.span \ DOMAIN FileMemory :
       \E n \in DOMAIN report.gaps :
         /\ a \in Within(report.gaps[n])
         /\ \A m \in DOMAIN report.gaps : a \in Within(report.gaps[m]) => m = n

\* The numbers are the file's, and a HEX file that is not valid has none.
NumbersAreTheFiles ==
  IF ReadAsHex
    THEN /\ Hex!ValidPrefix(seen) /\ Hex!HasEof(seen)
         /\ Hex!Describes(seen, report.stats)
         /\ report.total = HexBytes
    ELSE report.stats = <<>> /\ report.total = Len(disk)

\* The report is the file, read as the command asks: its regions and gaps are
\* the addresses the file gives a byte and those between them, each byte that of
\* the line which comes first by address, length and line; span, total and
\* statistics are the file's; and of a HEX file the parser must refuse nothing
\* is printed (main.c:60-95, 172-219, 391-459).
ReportIsOfTheFile ==
  report.printed => RegionsAreTheFile /\ GapsAreTheRest /\ NumbersAreTheFiles

\* The overlaps printed for a HEX file are its pairs of lines that share an
\* address, each named by the lines' numbers in the file
\* (main.c:221-263, hex_parser.c:255, memmap.c:389-428).
OverlapsNameTheLines ==
  report.printed =>
    /\ {report.origins[n] : n \in DOMAIN report.origins}
         = IF ReadAsHex THEN SharingLines ELSE {}
    /\ \A n, m \in DOMAIN report.origins : n # m => report.origins[n] # report.origins[m]

\* No two chunks the program sorts compare equal, so that qsort, which is not
\* stable, can leave them in one order only and the report depends on nothing
\* but the file (memmap.c:18-45, 462; PRD.md:158 asks for the same output for the same input).
SortIsDeterministic ==
  stage = "map" =>
    \A p, q \in 1 .. Len(chunks) :
      p # q => Map!KeyBefore(chunks[p], chunks[q]) \/ Map!KeyBefore(chunks[q], chunks[p])

\* Every block is freed once: after every malloc, realloc and free of the
\* loaders, of the memory map's two error labels and of main's second free of an
\* image a loader has freed, the blocks on the heap are those a field or the
\* running call points to, and at the exit there is none (firmware_image.c:19-64,
\* bin_loader.c:140-147, memmap.c:511-514, main.c:406-459, hex_parser.c:346-349).
EveryBlockFreedOnce ==
  /\ heap = OwnedBlocks
  /\ stage = "exit" => heap = NoBlocks

=============================================================================
