------------------------------- MODULE MemMap -------------------------------
(***************************************************************************)
(* bl_memmap_reconstruct (src/memmap.c): sort the source chunks, record    *)
(* every overlapping pair, and merge the chunks into contiguous regions    *)
(* with a gap between neighbours.  The function runs as the step machine   *)
(* of its two loops; between calls a client loads chunks, clears the       *)
(* layout or frees the image in any order, as the tests and main do.       *)
(*                                                                         *)
(* Every allocation may be refused.  All error paths end in Abandon, which *)
(* is the code's fail_builder/fail labels.  Positions count from 1 here    *)
(* and from 0 in C.                                                        *)
(***************************************************************************)
EXTENDS FirmwareImage, Functions

VARIABLES
  pc,       \* "idle" between calls, else the loop reconstruct is in
  i,        \* outer loop index of detect_overlaps, then of the merge loop
  j,        \* inner loop index of detect_overlaps
  builder,  \* RegionBuilder: the region being assembled
  built     \* history: number of chunks the current layout was built from

loopVars == <<pc, i, j, builder, built>>
vars == <<imageVars, loopVars>>

NoBuilder == [start |-> 0, end |-> 0, bytes |-> <<>>, cap |-> 0]

Init ==
  /\ ImageInit
  /\ pc = "idle"
  /\ i = 1 /\ j = 1
  /\ builder = NoBuilder
  /\ built = 0

-----------------------------------------------------------------------------
(* Sorting.  qsort leaves the order of chunks that compare equal open.     *)

\* Mutant: the origin line is not compared.
KeyBeforeNoLine(a, b) ==
  a.start < b.start \/ (a.start = b.start /\ a.end < b.end)

KeyBefore(a, b) ==
  \/ a.start < b.start
  \/ a.start = b.start /\ a.end < b.end
  \/ a.start = b.start /\ a.end = b.end /\ a.line < b.line

Ordered(s) == \A p, q \in 1 .. Len(s) : p < q => ~KeyBefore(s[q], s[p])

Arrangements(s) ==
  {[k \in 1 .. Len(s) |-> s[p[k]]] : p \in Bijection(1 .. Len(s), 1 .. Len(s))}

Sortings(s) == {t \in Arrangements(s) : Ordered(t)}

-----------------------------------------------------------------------------
(* What the two loops compute from chunks.                                 *)

Span(x) == x.start .. x.end

ByteAt(x, a) == x.bytes[a - x.start + 1]

OverlapStart(p, q) ==
  IF chunks[p].start > chunks[q].start THEN chunks[p].start ELSE chunks[q].start

OverlapEnd(p, q) ==
  IF chunks[p].end < chunks[q].end THEN chunks[p].end ELSE chunks[q].end

Conflicting(p, q) ==
  \E a \in OverlapStart(p, q) .. OverlapEnd(p, q) :
    ByteAt(chunks[p], a) # ByteAt(chunks[q], a)

OverlapOf(p, q) ==
  [start |-> OverlapStart(p, q), end |-> OverlapEnd(p, q),
   first |-> p, second |-> q,
   firstLine |-> chunks[p].line, secondLine |-> chunks[q].line,
   kind |-> IF Conflicting(p, q) THEN "conflicting" ELSE "identical"]

OverlapTooLong(p, q) ==
  WrapAddr(OverlapEnd(p, q) - OverlapStart(p, q)) + 1 > SizeMax

\* Mutant: adjacent chunks are kept apart.
MergeOverlappingOnly(currentEnd, nextStart) == nextStart <= currentEnd

CanMerge(currentEnd, nextStart) ==
  \/ nextStart <= currentEnd
  \/ currentEnd # AddrMax /\ nextStart = currentEnd + 1

BuilderFrom(c) ==
  [start |-> c.start, end |-> c.end, bytes |-> c.bytes, cap |-> Len(c.bytes)]

\* The bytes of chunk c past the builder's end, append_non_overlapping_tail.
TailOf(c) ==
  SubSeq(c.bytes, WrapAddr(builder.end + 1) - c.start + 1, Len(c.bytes))

\* Mutant: a later chunk overwrites the bytes it shares with the region.
MergedBytesLastWins(c) == SubSeq(builder.bytes, 1, c.start - builder.start) \o c.bytes

MergedBytes(c) == builder.bytes \o TailOf(c)

BuilderCapacity(tail) ==
  LET need == Len(builder.bytes) + Len(tail)
  IN  IF need <= builder.cap THEN builder.cap
      ELSE GrownCapacity(IF builder.cap = 0 THEN Len(tail) ELSE builder.cap, need)

BuilderRegion == [start |-> builder.start, end |-> builder.end, bytes |-> builder.bytes]

\* The region table once add_region_take has run.
RegionsTaken ==
  IF builder.bytes = <<>> THEN regions ELSE Append(regions, BuilderRegion)

CanTakeRegion == builder.bytes = <<>> \/ CanPush("regions", Len(regions))

RegionCapacity ==
  IF builder.bytes = <<>> THEN capacity["regions"]
                          ELSE CapacityFor("regions", Len(regions))

-----------------------------------------------------------------------------
(* bl_memmap_reconstruct.                                                  *)

ReconstructEmpty ==
  /\ pc = "idle"
  /\ chunks = <<>>
  /\ ClearLayout
  /\ built' = 0
  /\ UNCHANGED <<chunks, totalVars, pc, i, j, builder>>

ReconstructStart ==
  /\ pc = "idle"
  /\ chunks # <<>>
  /\ ClearLayout
  /\ chunks' \in Sortings(chunks)
  /\ pc' = "overlap"
  /\ i' = 1 /\ j' = 2
  /\ built' = 0
  /\ UNCHANGED <<totalVars, builder>>

\* Mutant: a failed call leaves the tables it had filled.
AbandonKeepsLayout ==
  /\ pc' = "idle"
  /\ i' = 1 /\ j' = 1
  /\ builder' = NoBuilder
  /\ built' = 0
  /\ UNCHANGED imageVars

Abandon ==
  /\ ClearLayout
  /\ pc' = "idle"
  /\ i' = 1 /\ j' = 1
  /\ builder' = NoBuilder
  /\ built' = 0
  /\ UNCHANGED <<chunks, totalVars>>

\* detect_overlaps: the inner loop runs while chunk j starts inside chunk i.
\* Mutant: a chunk that starts on the last byte of the row's chunk ends the row.
InnerLoopStrict == j <= Len(chunks) /\ chunks[j].start < chunks[i].end

InnerLoop == j <= Len(chunks) /\ chunks[j].start <= chunks[i].end

RecordOverlap ==
  /\ pc = "overlap"
  /\ InnerLoop
  /\ ~OverlapTooLong(i, j)
  /\ CanPush("overlaps", Len(overlaps))
  /\ overlaps' = Append(overlaps, OverlapOf(i, j))
  /\ capacity' = [capacity EXCEPT !["overlaps"] = CapacityFor("overlaps", Len(overlaps))]
  /\ j' = j + 1
  /\ UNCHANGED <<chunks, regions, gaps, totalVars, pc, i, builder, built>>

OverlapFails ==
  /\ pc = "overlap"
  /\ InnerLoop
  /\ OverlapTooLong(i, j) \/ Full("overlaps", Len(overlaps))
  /\ Abandon

NextOverlapRow ==
  /\ pc = "overlap"
  /\ ~InnerLoop
  /\ i' = i + 1 /\ j' = i + 2
  /\ pc' = IF i = Len(chunks) THEN "start" ELSE "overlap"
  /\ UNCHANGED <<imageVars, builder, built>>

StartBuilder ==
  /\ pc = "start"
  /\ Grantable(Len(chunks[1].bytes))
  /\ builder' = BuilderFrom(chunks[1])
  /\ pc' = "merge"
  /\ i' = 2 /\ j' = 1
  /\ UNCHANGED <<imageVars, built>>

StartFails == pc = "start" /\ Abandon

\* A chunk that overlaps or adjoins the builder: append what it adds.
Merging ==
  /\ pc = "merge"
  /\ i <= Len(chunks)
  /\ CanMerge(builder.end, chunks[i].start)

\* Mutant: a chunk that starts inside the region is taken to end inside it.
MergeContainedByStart ==
  /\ Merging
  /\ chunks[i].start <= builder.end
  /\ i' = i + 1
  /\ UNCHANGED <<imageVars, pc, j, builder, built>>

MergeContained ==
  /\ Merging
  /\ chunks[i].end <= builder.end
  /\ i' = i + 1
  /\ UNCHANGED <<imageVars, pc, j, builder, built>>

MergeTail ==
  LET c == chunks[i]
      tail == TailOf(c)
      cap == BuilderCapacity(tail)
  IN  /\ Merging
      /\ c.end > builder.end
      /\ Len(tail) <= SizeMax - Len(builder.bytes)
      /\ cap # builder.cap => Grantable(cap)
      /\ builder' = [builder EXCEPT !.end = c.end, !.bytes = MergedBytes(c), !.cap = cap]
      /\ i' = i + 1
      /\ UNCHANGED <<imageVars, pc, j, built>>

MergeFails ==
  LET tail == TailOf(chunks[i])
  IN  /\ Merging
      /\ chunks[i].end > builder.end
      /\ \/ Len(tail) > SizeMax - Len(builder.bytes)
         \/ BuilderCapacity(tail) # builder.cap
      /\ Abandon

\* A chunk past the builder: close the region, record the gap, start again.
Separated ==
  /\ pc = "merge"
  /\ i <= Len(chunks)
  /\ ~CanMerge(builder.end, chunks[i].start)

\* Mutant: the gap takes in the last byte of the region before it.
GapBetweenInclusive(last, c) == [start |-> last.end, end |-> WrapAddr(c.start - 1)]

GapBetween(last, c) == [start |-> WrapAddr(last.end + 1), end |-> WrapAddr(c.start - 1)]

CloseRegion ==
  LET c == chunks[i]
      last == RegionsTaken[Len(RegionsTaken)]
  IN  /\ Separated
      /\ CanTakeRegion
      /\ CanPush("gaps", Len(gaps))
      /\ Grantable(Len(c.bytes))
      /\ regions' = RegionsTaken
      /\ gaps' = Append(gaps, GapBetween(last, c))
      /\ capacity' = [capacity EXCEPT
                        !["regions"] = RegionCapacity,
                        !["gaps"] = CapacityFor("gaps", Len(gaps))]
      /\ builder' = BuilderFrom(c)
      /\ i' = i + 1
      /\ UNCHANGED <<chunks, overlaps, totalVars, pc, j, built>>

\* The region table is full: the builder still owns its buffer (fail_builder).
CloseTakeFails ==
  /\ Separated
  /\ builder.bytes # <<>>
  /\ Full("regions", Len(regions))
  /\ Abandon

\* The region was taken, its buffer with it, and the gap table is full (fail).
CloseGapFails ==
  /\ Separated
  /\ CanTakeRegion
  /\ Full("gaps", Len(gaps))
  /\ Abandon

\* Region and gap are in, the next builder cannot be allocated (fail).
CloseStartFails ==
  /\ Separated
  /\ CanTakeRegion
  /\ CanPush("gaps", Len(gaps))
  /\ Abandon

CloseFails == CloseTakeFails \/ CloseGapFails \/ CloseStartFails

FinishLayout ==
  /\ pc = "merge"
  /\ i > Len(chunks)
  /\ CanTakeRegion
  /\ regions' = RegionsTaken
  /\ capacity' = [capacity EXCEPT !["regions"] = RegionCapacity]
  /\ pc' = "idle"
  /\ i' = 1 /\ j' = 1
  /\ builder' = NoBuilder
  /\ built' = Len(chunks)
  /\ UNCHANGED <<chunks, gaps, overlaps, totalVars>>

FinishFails ==
  /\ pc = "merge"
  /\ i > Len(chunks)
  /\ builder.bytes # <<>>
  /\ Full("regions", Len(regions))
  /\ Abandon

ReconstructStep ==
  \/ RecordOverlap \/ OverlapFails \/ NextOverlapRow
  \/ StartBuilder \/ StartFails
  \/ MergeContained \/ MergeTail \/ MergeFails
  \/ CloseRegion \/ CloseFails
  \/ FinishLayout \/ FinishFails

-----------------------------------------------------------------------------
(* The client between calls.                                               *)

ClientAddsChunk ==
  /\ pc = "idle"
  /\ AddChunk
  /\ UNCHANGED loopVars

ClientClearsLayout ==
  /\ pc = "idle"
  /\ ClearLayout
  /\ built' = 0
  /\ UNCHANGED <<chunks, totalVars, pc, i, j, builder>>

ClientFreesImage ==
  /\ pc = "idle"
  /\ FreeImage
  /\ built' = 0
  /\ UNCHANGED <<pc, i, j, builder>>

Next ==
  \/ ClientAddsChunk \/ ClientClearsLayout \/ ClientFreesImage
  \/ ReconstructEmpty \/ ReconstructStart \/ ReconstructStep

Spec == Init /\ [][Next]_vars

-----------------------------------------------------------------------------
(* Properties.                                                             *)

LayoutRegion == [start : Address, end : Address, bytes : Seq(Byte)]
LayoutGap == [start : Address, end : Address]
LayoutOverlap ==
  [start : Address, end : Address, first : Nat, second : Nat,
   firstLine : Nat, secondLine : Nat, kind : {"identical", "conflicting"}]

\* The type of every variable, inside a call and between calls.
TypeOK ==
  /\ ImageTypeOK
  /\ regions \in Seq(LayoutRegion)
  /\ gaps \in Seq(LayoutGap)
  /\ overlaps \in Seq(LayoutOverlap)
  /\ pc \in {"idle", "overlap", "start", "merge"}
  /\ i \in Nat \ {0} /\ j \in Nat \ {0}
  /\ builder \in [start : Address, end : Address, bytes : Seq(Byte), cap : Nat]
  /\ built \in 0 .. Len(chunks)

\* The number of chunks the regions built so far account for.
Merged == CASE pc = "idle" -> built
            [] pc = "merge" -> i - 1
            [] OTHER -> 0

\* The finished regions and, inside the merge loop, the one being assembled.
Runs == IF pc = "merge" THEN Append(regions, BuilderRegion) ELSE regions

\* The regions hold exactly the loaded addresses: none is lost at a merge and
\* none is invented (memmap.c:476-507).
RegionsCoverChunks ==
  \A a \in Address :
    (\E k \in 1 .. Merged : a \in Span(chunks[k]))
      <=> (\E r \in 1 .. Len(Runs) : a \in Span(Runs[r]))

\* The regions are in address order, never touch (touching ones are merged),
\* and each holds one byte per address (memmap.c:433-440, 476-507).
RegionsSeparated ==
  /\ \A r \in 1 .. Len(Runs) :
       /\ Runs[r].start <= Runs[r].end
       /\ Len(Runs[r].bytes) = Runs[r].end - Runs[r].start + 1
  /\ \A r \in 1 .. Len(Runs) - 1 : Runs[r].end + 1 < Runs[r + 1].start

\* There is one gap between neighbouring regions and it is exactly the
\* addresses between them (memmap.c:492-499).
GapsBetweenRegions ==
  /\ Len(gaps) = IF Runs = <<>> THEN 0 ELSE Len(Runs) - 1
  /\ \A g \in 1 .. Len(gaps) : Span(gaps[g]) = (Runs[g].end + 1) .. (Runs[g + 1].start - 1)
  /\ \A g \in 1 .. Len(gaps) : gaps[g].start <= gaps[g].end

\* Where chunks disagree about an address, the region keeps the byte of the
\* first chunk in sort order that holds it (memmap.c:310-346; test_memmap.c:141).
FirstChunkWins ==
  \A r \in 1 .. Len(Runs) : \A a \in Span(Runs[r]) :
    \E k \in 1 .. Merged :
      /\ a \in Span(chunks[k])
      /\ ByteAt(Runs[r], a) = ByteAt(chunks[k], a)
      /\ \A m \in 1 .. k - 1 : a \notin Span(chunks[m])

\* The pairs of chunks detect_overlaps has looked at.
Scanned(p, q) ==
  /\ p < q
  /\ CASE pc = "idle" -> q <= built
       [] pc = "overlap" -> q <= Len(chunks) /\ (p < i \/ (p = i /\ q < j))
       [] OTHER -> q <= Len(chunks)

Intersecting(p, q) == Span(chunks[p]) \cap Span(chunks[q]) # {}

\* Every pair of chunks that share an address is reported once, with the right
\* range, kind and origins, although the scan of a row stops at the first chunk
\* that starts past its end (memmap.c:389-428).  It stays true while the caller
\* loads more chunks beside an older layout.
OverlapsComplete ==
  /\ \A p, q \in 1 .. Len(chunks) :
       Scanned(p, q) /\ Intersecting(p, q) =>
         \E o \in 1 .. Len(overlaps) : overlaps[o] = OverlapOf(p, q)
  /\ \A o \in 1 .. Len(overlaps) :
       LET p == overlaps[o].first
           q == overlaps[o].second
       IN  /\ p \in 1 .. Len(chunks) /\ q \in 1 .. Len(chunks)
           /\ Scanned(p, q) /\ Intersecting(p, q)
           /\ overlaps[o] = OverlapOf(p, q)
  /\ \A o, u \in 1 .. Len(overlaps) :
       overlaps[o].first = overlaps[u].first /\ overlaps[o].second = overlaps[u].second => o = u

\* No table and no builder buffer is written past its capacity, and the byte
\* count of a table's realloc, computed unchecked, never wrapped
\* (memmap.c:47-140, 276-306).
WithinCapacity ==
  /\ Len(chunks) <= capacity["chunks"]
  /\ Len(regions) <= capacity["regions"]
  /\ Len(gaps) <= capacity["gaps"]
  /\ Len(overlaps) <= capacity["overlaps"]
  /\ Len(builder.bytes) <= builder.cap
  /\ \A t \in Tables : capacity[t] * EntrySize[t] <= AllocMax

\* The loaded span and the byte total, kept by add_chunk, agree with a layout
\* reconstructed from all chunks: the span runs from the first region to the
\* last, and bytes were dropped by the merge exactly when an overlap was
\* reported.  main prints the span and the total beside the layout
\* (firmware_image.c:170-183, main.c:60-95).
LayoutAccountsForBytes ==
  pc = "idle" /\ built > 0 /\ built = Len(chunks) =>
    LET kept == FoldFunction(LAMBDA r, n : Len(r.bytes) + n, 0, regions)
    IN  /\ addrStart = regions[1].start
        /\ addrEnd = regions[Len(regions)].end
        /\ kept <= totalLoaded
        /\ kept = totalLoaded <=> overlaps = <<>>

\* Callers see a layout only between calls.
WhenIdle(table) == IF pc = "idle" THEN table ELSE <<>>

Abstract == INSTANCE MemoryLayout WITH
  KeyBefore <- KeyBefore,
  regions <- WhenIdle(regions),
  gaps <- WhenIdle(gaps),
  overlaps <- WhenIdle(overlaps)

\* Every call, however it fails, does what the abstract layout allows: it leaves
\* no layout or the exact one, and no caller sees half of one (memmap.c:443-516).
ImplementsLayout == Abstract!Spec

\* A call returns, whatever the chunks and whichever allocation fails.
ReconstructReturns == pc # "idle" ~> pc = "idle"

=============================================================================
