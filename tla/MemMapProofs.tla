---------------------------- MODULE MemMapProofs ----------------------------
(***************************************************************************)
(* Reconstruction, for every platform width, every set of chunks and every *)
(* failing allocation, in three parts.                                     *)
(*                                                                         *)
(* Capacities: every table and the working buffer stay within what the     *)
(* allocator returned, and every variable within its type.  TypeOK and     *)
(* WithinCapacity are not inductive by themselves: that a merge appends as *)
(* many bytes as it reserved needs the builder to hold one byte per        *)
(* address and the chunks to be sorted (LoopInv).                          *)
(*                                                                         *)
(* Layout: what the merge loop builds is the layout of the chunks it has   *)
(* passed.  The properties are about Runs, the finished regions and the    *)
(* one under assembly.  A step leaves Runs alone, empties it, appends one  *)
(* run to it or raises the end of its last run; each has a lemma.          *)
(*                                                                         *)
(* Refinement: a table that is complete is the abstract layout of its      *)
(* chunks, and every step is a step of MemoryLayout or shows a caller      *)
(* nothing.                                                                *)
(***************************************************************************)
EXTENDS MemMap, FirmwareImageProofs

-----------------------------------------------------------------------------
(* The inductive invariant.                                                *)

\* The region under assembly holds one byte per address, has swallowed every
\* chunk before the current one, and starts at or below the last of them.
BuilderFollowsChunks ==
  /\ builder.bytes # <<>>
  /\ builder.start <= builder.end
  /\ Len(builder.bytes) = builder.end - builder.start + 1
  /\ \A k \in 1 .. i - 1 : chunks[k].end <= builder.end
  /\ builder.start <= chunks[i - 1].start

LoopInv ==
  /\ pc # "idle" => chunks # <<>> /\ Ordered(chunks) /\ built = 0
  /\ pc = "overlap" => /\ i \in 1 .. Len(chunks)
                       /\ j \in i + 1 .. Len(chunks) + 1
  /\ pc \in {"overlap", "start"} => regions = <<>> /\ gaps = <<>>
  /\ pc = "merge" => i \in 2 .. Len(chunks) + 1 /\ BuilderFollowsChunks
  /\ pc # "merge" => builder = NoBuilder

MemMapInv ==
  /\ ImageInv
  /\ TypeOK
  /\ LoopInv
  /\ WithinCapacity

-----------------------------------------------------------------------------
(* The builder's buffer.                                                   *)

\* The doubling loop ends with a capacity that holds what is needed.
LEMMA GrownCapacityFits ==
  ASSUME NEW cap \in Nat, NEW need \in Nat
  PROVE  GrownCapacity(cap, need) \in Nat /\ need <= GrownCapacity(cap, need)
<1> DEFINE fits == {cap * 2^n : n \in 0 .. need} \cap (need .. SizeMax)
<1>1. CASE fits = {}
  BY <1>1 DEF GrownCapacity
<1>2. CASE fits # {}
  <2>1. SizeMax \in Nat
    BY WidthAssumption, TableAssumption DEF WidthAssumption, TableAssumption
  <2>2. \A x \in fits : x \in Nat /\ need <= x
    BY <2>1
  <2>3. \E x \in fits : \A y \in fits : x <= y
    BY <1>2, <2>2, LeastExists
  <2>4. GrownCapacity(cap, need) = CHOOSE x \in fits : \A y \in fits : x <= y
    BY <1>2 DEF GrownCapacity
  <2> HIDE DEF fits
  <2>5. GrownCapacity(cap, need) \in fits
    BY <2>3, <2>4
  <2> QED
    BY <2>2, <2>5
<1> QED
  BY <1>1, <1>2

-----------------------------------------------------------------------------
(* Facts every step uses.                                                  *)

LEMMA AddressArithmetic ==
  /\ AddrMax \in Nat /\ SizeMax \in Nat /\ AllocMax \in Nat
  /\ 0 \in Address /\ \A a \in Address : a \in Nat /\ a <= AddrMax
  /\ \A x \in -1 .. AddrMax + 1 : WrapAddr(x) \in Address
BY WidthAssumption, TableAssumption DEF WidthAssumption, TableAssumption, Address, WrapAddr

LEMMA ChunkFacts ==
  ASSUME ImageInv, NEW k \in 1 .. Len(chunks)
  PROVE  /\ chunks[k] \in SourceChunk
         /\ chunks[k].start \in Address /\ chunks[k].end \in Address
         /\ chunks[k].bytes \in Seq(Byte) /\ chunks[k].line \in Nat
         /\ chunks[k].start <= chunks[k].end
         /\ Len(chunks[k].bytes) = chunks[k].end - chunks[k].start + 1
         /\ chunks[k].bytes # <<>>
<1>1. chunks \in Seq(SourceChunk) /\ ChunksWellFormed
  BY DEF ImageInv, ImageTypeOK
<1>2. chunks[k] \in SourceChunk
  BY <1>1
<1>3. /\ chunks[k].start \in Address /\ chunks[k].end \in Address
      /\ chunks[k].bytes \in Seq(Byte) /\ chunks[k].line \in Nat
  BY <1>2 DEF SourceChunk
<1>4. /\ chunks[k].start <= chunks[k].end
      /\ Len(chunks[k].bytes) = chunks[k].end - chunks[k].start + 1
  BY <1>1 DEF ChunksWellFormed
<1>5. Len(chunks[k].bytes) # 0
  <2>1. PICK s \in Nat, e \in Nat : s = chunks[k].start /\ e = chunks[k].end
    BY <1>3, AddressArithmetic
  <2>2. s <= e /\ Len(chunks[k].bytes) = e - s + 1
    BY <1>4, <2>1
  <2> QED
    BY ONLY <2>2, s \in Nat, e \in Nat
<1>6. chunks[k].bytes # <<>>
  BY <1>5, EmptySeq
<1> QED
  BY <1>2, <1>3, <1>4, <1>6

LEMMA OrderedStarts ==
  ASSUME ImageInv, Ordered(chunks),
         NEW p \in 1 .. Len(chunks), NEW q \in 1 .. Len(chunks), p <= q
  PROVE  chunks[p].start <= chunks[q].start
<1>1. CASE p = q
  BY <1>1, ChunkFacts, AddressArithmetic
<1>2. CASE p < q
  <2>1. ~KeyBefore(chunks[q], chunks[p])
    BY <1>2 DEF Ordered
  <2>2. ~(chunks[q].start < chunks[p].start)
    BY <2>1 DEF KeyBefore
  <2> QED
    BY <2>2, ChunkFacts, AddressArithmetic
<1> QED
  BY <1>1, <1>2, WidthAssumption, TableAssumption

\* A step that changes only the layout and its tables keeps the image right.
LEMMA LayoutStepKeepsImage ==
  ASSUME ImageInv, UNCHANGED <<chunks, totalVars>>,
         capacity' \in [Tables -> Nat], capacity'["chunks"] = capacity["chunks"]
  PROVE  ImageInv'
BY DEF ImageInv, ImageTypeOK, ChunksWellFormed, SpanIsTight, ChunkTableHolds,
       TotalTellsEmpty, totalVars

\* Sorting permutes the chunks, so what holds of each chunk and of the span
\* still does.
LEMMA SortKeepsImage ==
  ASSUME ImageInv, chunks' \in Sortings(chunks), UNCHANGED totalVars,
         capacity' \in [Tables -> Nat], capacity'["chunks"] = capacity["chunks"]
  PROVE  ImageInv' /\ Ordered(chunks)' /\ Len(chunks') = Len(chunks)
<1>0. /\ ImageTypeOK /\ ChunksWellFormed /\ SpanIsTight /\ ChunkTableHolds
      /\ TotalTellsEmpty /\ chunks \in Seq(SourceChunk) /\ Len(chunks) \in Nat
  BY DEF ImageInv, ImageTypeOK
<1>1. Ordered(chunks') /\ chunks' \in Arrangements(chunks)
  BY DEF Sortings
<1>2. PICK p \in Bijection(1 .. Len(chunks), 1 .. Len(chunks)) :
        chunks' = [k \in 1 .. Len(chunks) |-> chunks[p[k]]]
  BY <1>1 DEF Arrangements
<1>3. /\ p \in [1 .. Len(chunks) -> 1 .. Len(chunks)]
      /\ \A t \in 1 .. Len(chunks) : \E s \in 1 .. Len(chunks) : p[s] = t
  BY <1>2 DEF Bijection, Injection, Surjection
<1>4. /\ \A k \in 1 .. Len(chunks) : /\ p[k] \in 1 .. Len(chunks)
                                     /\ chunks'[k] = chunks[p[k]]
                                     /\ chunks[p[k]] \in SourceChunk
  BY <1>0, <1>2, <1>3
<1>5. chunks' \in Seq(SourceChunk) /\ Len(chunks') = Len(chunks)
  <2>1. chunks' \in [1 .. Len(chunks) -> SourceChunk]
    BY <1>2, <1>4
  <2> QED
    BY <1>0, <2>1, SeqDef, LenProperties
<1>6. ChunksWellFormed'
  BY <1>0, <1>4, <1>5 DEF ChunksWellFormed
<1>7. chunks = <<>> <=> chunks' = <<>>
  BY <1>0, <1>5, EmptySeq
<1>8. SpanIsTight'
  <2> SUFFICES ASSUME chunks # <<>>
               PROVE  /\ \A k \in 1 .. Len(chunks') :
                           addrStart <= chunks'[k].start /\ chunks'[k].end <= addrEnd
                      /\ \E k \in 1 .. Len(chunks') : addrStart = chunks'[k].start
                      /\ \E k \in 1 .. Len(chunks') : addrEnd = chunks'[k].end
    BY <1>7 DEF SpanIsTight, totalVars
  <2>1. \A k \in 1 .. Len(chunks') :
          addrStart <= chunks'[k].start /\ chunks'[k].end <= addrEnd
    BY <1>0, <1>4, <1>5 DEF SpanIsTight
  <2>2. PICK low \in 1 .. Len(chunks) : addrStart = chunks[low].start
    BY <1>0 DEF SpanIsTight
  <2>3. PICK high \in 1 .. Len(chunks) : addrEnd = chunks[high].end
    BY <1>0 DEF SpanIsTight
  <2>4. \E k \in 1 .. Len(chunks') : addrStart = chunks'[k].start
    <3>1. PICK s \in 1 .. Len(chunks) : p[s] = low
      BY <1>3
    <3>2. s \in 1 .. Len(chunks') /\ chunks'[s] = chunks[low]
      BY <1>4, <1>5, <3>1
    <3> QED
      BY <2>2, <3>2
  <2>5. \E k \in 1 .. Len(chunks') : addrEnd = chunks'[k].end
    <3>1. PICK s \in 1 .. Len(chunks) : p[s] = high
      BY <1>3
    <3>2. s \in 1 .. Len(chunks') /\ chunks'[s] = chunks[high]
      BY <1>4, <1>5, <3>1
    <3> QED
      BY <2>3, <3>2
  <2> QED
    BY <2>1, <2>4, <2>5
<1>9. TotalTellsEmpty'
  BY <1>0, <1>7 DEF TotalTellsEmpty, totalVars
<1>10. ChunkTableHolds'
  BY <1>0, <1>5 DEF ChunkTableHolds
<1>11. ImageTypeOK'
  BY <1>0, <1>5 DEF ImageTypeOK, totalVars
<1> QED
  BY <1>1, <1>5, <1>6, <1>8, <1>9, <1>10, <1>11 DEF ImageInv

\* add_chunk leaves the layout, its tables and every earlier chunk alone.
LEMMA AddChunkExtends ==
  ASSUME ImageInv, AddChunk
  PROVE  /\ Len(chunks') \in Nat /\ Len(chunks) <= Len(chunks')
         /\ \A k \in 1 .. Len(chunks) : chunks'[k] = chunks[k]
         /\ UNCHANGED layoutVars
         /\ \A t \in Tables \ {"chunks"} : capacity'[t] = capacity[t]
<1>0. chunks \in Seq(SourceChunk) /\ capacity \in [Tables -> Nat]
  BY DEF ImageInv, ImageTypeOK
<1>1. PICK start \in ChunkStarts, bytes \in ChunkData, line \in ChunkLines :
        \/ AddChunkEmpty(bytes)
        \/ AddChunkFails(start, bytes)
        \/ Len(chunks) < MaxChunks /\ AddChunkStored(start, bytes, line)
  BY DEF AddChunk
<1>2. CASE UNCHANGED imageVars
  BY <1>0, <1>2 DEF imageVars
<1>3. CASE AddChunkNoCopy(start, bytes)
  BY <1>0, <1>3 DEF AddChunkNoCopy
<1>4. CASE AddChunkStored(start, bytes, line)
  <2>1. start \in Address /\ bytes \in Seq(Byte) /\ line \in Nat
    BY CallerAssumption DEF CallerAssumption
  <2> DEFINE new == [start |-> start, end |-> EndOf(start, bytes),
                     bytes |-> bytes, line |-> line]
  <2>2. new \in SourceChunk
    BY <1>4, <2>1, StoredChunkWellFormed DEF AddChunkStored
  <2>3. /\ chunks' = Append(chunks, new)
        /\ UNCHANGED layoutVars
        /\ \A t \in Tables \ {"chunks"} : capacity'[t] = capacity[t]
    BY <1>0, <1>4 DEF AddChunkStored
  <2> HIDE DEF new
  <2> QED
    BY <1>0, <2>2, <2>3, AppendProperties
<1> QED
  BY <1>1, <1>2, <1>3, <1>4 DEF AddChunkFails, AddChunkEmpty, AddChunkRefused

-----------------------------------------------------------------------------
(* The steps of reconstruction, one lemma per action.                      *)

\* Clearing the layout frees its three tables and no other.
LEMMA ClearedTables ==
  ASSUME MemMapInv, ClearLayout
  PROVE  /\ capacity' \in [Tables -> Nat] /\ capacity'["chunks"] = capacity["chunks"]
         /\ regions' = <<>> /\ gaps' = <<>> /\ overlaps' = <<>>
         /\ capacity'["regions"] \in Nat /\ capacity'["gaps"] \in Nat
         /\ capacity'["overlaps"] \in Nat
         /\ \A t \in Tables : capacity'[t] * EntrySize[t] <= AllocMax
<1>1. /\ capacity \in [Tables -> Nat]
      /\ \A t \in Tables : capacity[t] * EntrySize[t] <= AllocMax
  BY DEF MemMapInv, TypeOK, ImageTypeOK, WithinCapacity
<1>2. \A t \in Tables : EntrySize[t] \in Nat
  BY WidthAssumption, TableAssumption DEF WidthAssumption, TableAssumption
<1>3. /\ "chunks" \in Tables /\ "regions" \in Tables /\ "gaps" \in Tables
      /\ "overlaps" \in Tables
  BY DEF Tables
<1>4. capacity' = [t \in Tables |-> IF t = "chunks" THEN capacity[t] ELSE 0]
  BY DEF ClearLayout
<1>5. ASSUME NEW t \in Tables PROVE capacity'[t] * EntrySize[t] <= AllocMax
  <2>1. CASE t = "chunks"
    BY <1>1, <1>4, <2>1
  <2>2. CASE t # "chunks"
    <3>1. capacity'[t] = 0 /\ EntrySize[t] \in Nat
      BY <1>2, <1>4, <2>2
    <3> QED
      BY <3>1, AddressArithmetic
  <2> QED
    BY <2>1, <2>2
<1> QED
  BY <1>1, <1>3, <1>4, <1>5 DEF ClearLayout

LEMMA NoBuilderTyped ==
  /\ NoBuilder \in [start : Address, end : Address, bytes : Seq(Byte), cap : Nat]
  /\ Len(NoBuilder.bytes) <= NoBuilder.cap
BY AddressArithmetic DEF NoBuilder

\* Leaving every table empty between calls is safe, whether the call fails, the
\* caller clears the layout, or there is no chunk to lay out.
LEMMA EmptyLayoutKeepsInv ==
  ASSUME MemMapInv, ClearLayout, UNCHANGED <<chunks, totalVars>>,
         pc' = "idle", i' \in Nat \ {0}, j' \in Nat \ {0},
         builder' = NoBuilder, built' = 0
  PROVE  MemMapInv'
<1>1. ImageInv'
  BY ClearedTables, LayoutStepKeepsImage DEF MemMapInv
<1>2. Len(chunks) \in Nat
  BY DEF MemMapInv, ImageInv, ImageTypeOK
<1>3. TypeOK'
  BY <1>1, <1>2, ClearedTables, NoBuilderTyped DEF TypeOK, ImageInv
<1>4. LoopInv'
  BY DEF LoopInv
<1>5. WithinCapacity'
  <2>1. Len(chunks') <= capacity'["chunks"]
    BY ClearedTables DEF MemMapInv, WithinCapacity
  <2> QED
    BY <2>1, ClearedTables, NoBuilderTyped DEF WithinCapacity
<1> QED
  BY <1>1, <1>3, <1>4, <1>5 DEF MemMapInv

LEMMA AbandonKeepsInv ==
  ASSUME MemMapInv, Abandon
  PROVE  MemMapInv'
BY EmptyLayoutKeepsInv DEF Abandon

LEMMA ReconstructEmptyKeepsInv ==
  ASSUME MemMapInv, ReconstructEmpty
  PROVE  MemMapInv'
BY EmptyLayoutKeepsInv DEF ReconstructEmpty, MemMapInv, LoopInv, TypeOK

LEMMA ClientClearsKeepsInv ==
  ASSUME MemMapInv, ClientClearsLayout
  PROVE  MemMapInv'
BY EmptyLayoutKeepsInv DEF ClientClearsLayout, MemMapInv, LoopInv, TypeOK

LEMMA ReconstructStartKeepsInv ==
  ASSUME MemMapInv, ReconstructStart
  PROVE  MemMapInv'
<1>1. ImageInv' /\ Ordered(chunks)' /\ Len(chunks') = Len(chunks)
  BY ClearedTables, SortKeepsImage DEF ReconstructStart, MemMapInv
<1>2. Len(chunks) \in Nat /\ Len(chunks) > 0 /\ chunks' # <<>>
  BY <1>1, EmptySeq DEF ReconstructStart, MemMapInv, ImageInv, ImageTypeOK
<1>3. /\ pc' = "overlap" /\ i' = 1 /\ j' = 2 /\ built' = 0
      /\ builder' = NoBuilder /\ ClearLayout
  BY DEF ReconstructStart, MemMapInv, LoopInv
<1>4. TypeOK'
  BY <1>1, <1>2, <1>3, ClearedTables, NoBuilderTyped DEF TypeOK, ImageInv
<1>5. LoopInv'
  BY <1>1, <1>2, <1>3, ClearedTables DEF LoopInv
<1>6. WithinCapacity'
  <2>1. Len(chunks') <= capacity'["chunks"]
    BY <1>1, <1>3, ClearedTables DEF MemMapInv, WithinCapacity
  <2> QED
    BY <1>3, <2>1, ClearedTables, NoBuilderTyped DEF WithinCapacity
<1> QED
  BY <1>1, <1>4, <1>5, <1>6 DEF MemMapInv

LEMMA ClientAddsKeepsInv ==
  ASSUME MemMapInv, ClientAddsChunk
  PROVE  MemMapInv'
<1>1. ImageInv' /\ AddChunk /\ pc = "idle" /\ UNCHANGED loopVars
  BY AddChunkKeepsInv DEF ClientAddsChunk, MemMapInv
<1>2. /\ Len(chunks') \in Nat /\ Len(chunks) \in Nat /\ Len(chunks) <= Len(chunks')
      /\ UNCHANGED layoutVars
      /\ \A t \in Tables \ {"chunks"} : capacity'[t] = capacity[t]
  BY <1>1, AddChunkExtends DEF MemMapInv, ImageInv, ImageTypeOK
<1>3. TypeOK'
  BY <1>1, <1>2 DEF MemMapInv, TypeOK, ImageInv, loopVars, layoutVars
<1>4. LoopInv'
  BY <1>1 DEF MemMapInv, LoopInv, loopVars
<1>5. WithinCapacity'
  <2>1. /\ Len(chunks') <= capacity'["chunks"]
        /\ capacity'["chunks"] * EntrySize["chunks"] <= AllocMax
    BY <1>1 DEF ImageInv, ChunkTableHolds
  <2>2. \A t \in Tables : capacity'[t] * EntrySize[t] <= AllocMax
    BY <1>2, <2>1 DEF MemMapInv, WithinCapacity
  <2>3. /\ capacity'["regions"] = capacity["regions"] /\ capacity'["gaps"] = capacity["gaps"]
        /\ capacity'["overlaps"] = capacity["overlaps"]
    BY <1>2 DEF Tables
  <2> QED
    BY <1>1, <1>2, <2>1, <2>2, <2>3 DEF MemMapInv, WithinCapacity, loopVars, layoutVars
<1> QED
  BY <1>1, <1>3, <1>4, <1>5 DEF MemMapInv

LEMMA ClientFreesKeepsInv ==
  ASSUME MemMapInv, ClientFreesImage
  PROVE  MemMapInv'
<1>1. ImageInv' /\ FreeImage /\ pc = "idle" /\ UNCHANGED <<pc, i, j, builder>> /\ built' = 0
  BY FreeKeepsInv DEF ClientFreesImage
<1>2. /\ chunks' = <<>> /\ regions' = <<>> /\ gaps' = <<>> /\ overlaps' = <<>>
      /\ capacity' = [t \in Tables |-> 0]
  BY <1>1 DEF FreeImage
<1>3. TypeOK'
  BY <1>1, <1>2 DEF MemMapInv, TypeOK, ImageInv
<1>4. LoopInv'
  BY <1>1 DEF MemMapInv, LoopInv
<1>5. WithinCapacity'
  <2>1. \A t \in Tables : EntrySize[t] \in Nat /\ capacity'[t] = 0
    BY <1>2, WidthAssumption, TableAssumption DEF WidthAssumption, TableAssumption
  <2>2. \A t \in Tables : capacity'[t] * EntrySize[t] <= AllocMax
    BY <2>1, AddressArithmetic
  <2>3. Len(builder'.bytes) <= builder'.cap
    BY <1>1 DEF MemMapInv, WithinCapacity
  <2> QED
    BY <1>2, <2>1, <2>2, <2>3 DEF WithinCapacity, Tables
<1> QED
  BY <1>1, <1>3, <1>4, <1>5 DEF MemMapInv

\* A step that changes none of the tables, the chunks or the builder.
LEMMA TablesUntouched ==
  ASSUME MemMapInv, UNCHANGED <<imageVars, builder, built>>,
         pc' \in {"idle", "overlap", "start", "merge"},
         i' \in Nat \ {0}, j' \in Nat \ {0}, LoopInv'
  PROVE  MemMapInv'
<1>1. ImageInv'
  BY UnchangedKeepsInv DEF MemMapInv
<1> QED
  BY <1>1 DEF MemMapInv, TypeOK, ImageInv, WithinCapacity, imageVars, layoutVars

LEMMA NextOverlapRowKeepsInv ==
  ASSUME MemMapInv, NextOverlapRow
  PROVE  MemMapInv'
<1>1. /\ pc = "overlap" /\ i' = i + 1 /\ j' = i + 2
      /\ pc' = IF i = Len(chunks) THEN "start" ELSE "overlap"
      /\ UNCHANGED <<imageVars, builder, built>>
      /\ i \in 1 .. Len(chunks) /\ Len(chunks) \in Nat
  BY DEF NextOverlapRow, MemMapInv, LoopInv, ImageInv, ImageTypeOK
<1>2. LoopInv'
  BY <1>1 DEF MemMapInv, LoopInv, imageVars, layoutVars
<1> QED
  BY <1>1, <1>2, TablesUntouched

LEMMA MergeContainedKeepsInv ==
  ASSUME MemMapInv, MergeContained
  PROVE  MemMapInv'
<1>1. /\ pc = "merge" /\ i \in 2 .. Len(chunks) /\ Len(chunks) \in Nat
      /\ chunks[i].end <= builder.end /\ i' = i + 1
      /\ UNCHANGED <<imageVars, pc, j, builder, built>>
      /\ BuilderFollowsChunks /\ Ordered(chunks) /\ ImageInv
  BY DEF MergeContained, Merging, MemMapInv, LoopInv, ImageInv, ImageTypeOK
<1>2. chunks[i - 1].start <= chunks[i].start
  BY <1>1, OrderedStarts
<1>3. builder.start <= chunks[i].start
  <2>1. /\ builder.start \in Nat /\ chunks[i].start \in Nat /\ chunks[i - 1].start \in Nat
    BY <1>1, ChunkFacts, AddressArithmetic DEF MemMapInv, TypeOK
  <2> QED
    BY <1>1, <1>2, <2>1 DEF BuilderFollowsChunks
<1>4. \A k \in 1 .. i : chunks[k].end <= builder.end
  BY <1>1 DEF BuilderFollowsChunks
<1>5. BuilderFollowsChunks'
  BY <1>1, <1>3, <1>4 DEF BuilderFollowsChunks, imageVars
<1>6. LoopInv'
  BY <1>1, <1>5 DEF MemMapInv, LoopInv, imageVars, layoutVars
<1> QED
  BY <1>1, <1>6, TablesUntouched DEF MemMapInv, TypeOK

\* A builder started from a chunk follows the chunks up to it.
LEMMA BuilderFromTyped ==
  ASSUME ImageInv, NEW k \in 1 .. Len(chunks)
  PROVE  LET b == BuilderFrom(chunks[k])
         IN  /\ b \in [start : Address, end : Address, bytes : Seq(Byte), cap : Nat]
             /\ b.start = chunks[k].start /\ b.end = chunks[k].end
             /\ b.bytes = chunks[k].bytes /\ b.cap = Len(chunks[k].bytes)
             /\ Len(b.bytes) <= b.cap
<1>1. Len(chunks[k].bytes) \in Nat
  BY ChunkFacts
<1> QED
  BY <1>1, ChunkFacts DEF BuilderFrom

LEMMA StartBuilderKeepsInv ==
  ASSUME MemMapInv, StartBuilder
  PROVE  MemMapInv'
<1>1. /\ pc = "start" /\ pc' = "merge" /\ i' = 2 /\ j' = 1
      /\ builder' = BuilderFrom(chunks[1])
      /\ UNCHANGED <<imageVars, built>>
      /\ chunks # <<>> /\ Ordered(chunks) /\ built = 0
      /\ ImageInv /\ Len(chunks) \in Nat
  BY DEF StartBuilder, MemMapInv, LoopInv, ImageInv, ImageTypeOK
<1>2. 1 \in 1 .. Len(chunks)
  BY <1>1, EmptySeq DEF ImageInv, ImageTypeOK
<1>3. /\ builder' \in [start : Address, end : Address, bytes : Seq(Byte), cap : Nat]
      /\ builder'.start = chunks[1].start /\ builder'.end = chunks[1].end
      /\ builder'.bytes = chunks[1].bytes /\ Len(builder'.bytes) <= builder'.cap
  BY <1>1, <1>2, BuilderFromTyped
<1>4. chunks' = chunks /\ i' - 1 = 1
  BY <1>1 DEF imageVars
<1>5. /\ chunks[1].bytes # <<>> /\ chunks[1].start <= chunks[1].end
      /\ Len(chunks[1].bytes) = chunks[1].end - chunks[1].start + 1
      /\ chunks[1].start \in Nat /\ chunks[1].end \in Nat
  BY <1>1, <1>2, ChunkFacts, AddressArithmetic
<1>6. BuilderFollowsChunks'
  <2>1. \A k \in 1 .. i' - 1 : chunks'[k].end <= builder'.end
    BY <1>3, <1>4, <1>5
  <2> QED
    BY <1>3, <1>4, <1>5, <2>1 DEF BuilderFollowsChunks
<1>7. LoopInv'
  BY <1>1, <1>2, <1>4, <1>6 DEF LoopInv
<1>8. ImageInv'
  BY <1>1, UnchangedKeepsInv
<1>9. TypeOK'
  BY <1>1, <1>3, <1>8 DEF MemMapInv, TypeOK, ImageInv, imageVars, layoutVars
<1>10. WithinCapacity'
  BY <1>1, <1>3 DEF MemMapInv, WithinCapacity, imageVars, layoutVars
<1> QED
  BY <1>7, <1>8, <1>9, <1>10 DEF MemMapInv

LEMMA OverlapTyped ==
  ASSUME ImageInv, NEW p \in 1 .. Len(chunks), NEW q \in 1 .. Len(chunks)
  PROVE  OverlapOf(p, q) \in LayoutOverlap
<1>1. OverlapStart(p, q) \in Address /\ OverlapEnd(p, q) \in Address
  BY ChunkFacts DEF OverlapStart, OverlapEnd
<1>2. p \in Nat /\ q \in Nat /\ chunks[p].line \in Nat /\ chunks[q].line \in Nat
  BY ChunkFacts
<1> QED
  BY <1>1, <1>2 DEF OverlapOf, LayoutOverlap

LEMMA RecordOverlapKeepsInv ==
  ASSUME MemMapInv, RecordOverlap
  PROVE  MemMapInv'
<1>1. /\ pc = "overlap" /\ i \in 1 .. Len(chunks) /\ j \in i + 1 .. Len(chunks) + 1
      /\ InnerLoop /\ CanPush("overlaps", Len(overlaps))
      /\ overlaps' = Append(overlaps, OverlapOf(i, j))
      /\ capacity' = [capacity EXCEPT !["overlaps"] = CapacityFor("overlaps", Len(overlaps))]
      /\ j' = j + 1
      /\ UNCHANGED <<chunks, regions, gaps, totalVars, pc, i, builder, built>>
      /\ Len(chunks) \in Nat /\ ImageInv
      /\ capacity \in [Tables -> Nat] /\ overlaps \in Seq(LayoutOverlap)
  BY DEF RecordOverlap, MemMapInv, LoopInv, TypeOK, ImageInv, ImageTypeOK
<1>2. j \in 1 .. Len(chunks)
  BY <1>1 DEF InnerLoop
<1>3. OverlapOf(i, j) \in LayoutOverlap
  BY <1>1, <1>2, OverlapTyped
<1>4. /\ overlaps' \in Seq(LayoutOverlap) /\ Len(overlaps') = Len(overlaps) + 1
      /\ Len(overlaps) \in Nat
  BY <1>1, <1>3, AppendProperties
<1>5. "overlaps" \in Tables /\ "chunks" \in Tables
  BY DEF Tables
<1>6. /\ CapacityFor("overlaps", Len(overlaps)) \in Nat
      /\ Len(overlaps) + 1 <= CapacityFor("overlaps", Len(overlaps))
      /\ CapacityFor("overlaps", Len(overlaps)) * EntrySize["overlaps"] <= AllocMax
  BY <1>1, <1>4, <1>5, PushHasRoom DEF MemMapInv, WithinCapacity
<1>7. /\ capacity' \in [Tables -> Nat]
      /\ capacity'["overlaps"] = CapacityFor("overlaps", Len(overlaps))
      /\ \A t \in Tables \ {"overlaps"} : capacity'[t] = capacity[t]
      /\ capacity'["chunks"] = capacity["chunks"]
  BY <1>1, <1>5, <1>6
<1>8. ImageInv'
  BY <1>1, <1>7, LayoutStepKeepsImage
<1>9. TypeOK'
  BY <1>1, <1>4, <1>8 DEF MemMapInv, TypeOK, ImageInv
<1>10. LoopInv'
  BY <1>1, <1>2 DEF MemMapInv, LoopInv
<1>11. WithinCapacity'
  <2>1. \A t \in Tables : capacity'[t] * EntrySize[t] <= AllocMax
    BY <1>6, <1>7 DEF MemMapInv, WithinCapacity
  <2>2. capacity'["regions"] = capacity["regions"] /\ capacity'["gaps"] = capacity["gaps"]
    BY <1>7 DEF Tables
  <2> QED
    BY <1>1, <1>4, <1>6, <1>7, <2>1, <2>2 DEF MemMapInv, WithinCapacity
<1> QED
  BY <1>8, <1>9, <1>10, <1>11 DEF MemMapInv

\* The part of a run of bytes at s .. e that lies past b.
LEMMA SuffixFacts ==
  ASSUME NEW b \in Nat, NEW s \in Nat, NEW e \in Nat, NEW bytes \in Seq(Byte),
         Len(bytes) = e - s + 1, e > b, s <= b + 1
  PROVE  LET suffix == SubSeq(bytes, (b + 1) - s + 1, Len(bytes))
         IN  /\ suffix \in Seq(Byte)
             /\ Len(suffix) = e - b
             /\ \A k \in 1 .. Len(suffix) : suffix[k] = bytes[b + 1 - s + k]
<1> DEFINE m == (b + 1) - s + 1
           suffix == SubSeq(bytes, m, Len(bytes))
<1>1. /\ m \in Int /\ Len(bytes) \in Int /\ 1 <= m /\ m <= Len(bytes)
      /\ Len(bytes) - m + 1 = e - b
  OBVIOUS
<1>2. \A k \in m .. Len(bytes) : bytes[k] \in Byte
  BY <1>1, ElementOfSeq
<1>3. \A k \in Int : m + k - 1 = b + 1 - s + k
  OBVIOUS
<1> HIDE DEF m
<1>4. /\ suffix \in Seq(Byte) /\ Len(suffix) = Len(bytes) - m + 1
      /\ \A k \in 1 .. Len(bytes) - m + 1 : suffix[k] = bytes[m + k - 1]
  BY <1>1, <1>2, SubSeqProperties
<1> HIDE DEF suffix
<1>5. \A k \in 1 .. Len(suffix) : suffix[k] = bytes[b + 1 - s + k]
  BY <1>1, <1>3, <1>4
<1>6. Len(suffix) = e - b /\ suffix \in Seq(Byte)
  BY <1>1, <1>4
<1> USE DEF m, suffix
<1> QED
  BY <1>5, <1>6

\* What a merged chunk adds: its bytes from the address after the region on.
LEMMA TailFacts ==
  ASSUME MemMapInv, Merging, chunks[i].end > builder.end
  PROVE  LET c == chunks[i]
         IN  /\ i \in 2 .. Len(chunks)
             /\ c.start <= builder.end + 1
             /\ TailOf(c) \in Seq(Byte)
             /\ Len(TailOf(c)) = c.end - builder.end
             /\ \A k \in 1 .. Len(TailOf(c)) :
                  TailOf(c)[k] = c.bytes[builder.end + 1 - c.start + k]
<1>0. PICK c : c = chunks[i]
  OBVIOUS
<1>1. /\ i \in 2 .. Len(chunks) /\ ImageInv /\ Len(chunks) \in Nat
      /\ CanMerge(builder.end, c.start) /\ BuilderFollowsChunks
      /\ builder.end \in Address
  BY <1>0 DEF Merging, MemMapInv, LoopInv, TypeOK, ImageInv, ImageTypeOK
<1>2. i \in 1 .. Len(chunks)
  BY <1>1
<1>3. /\ c.start \in Address /\ c.end \in Address /\ c.bytes \in Seq(Byte)
      /\ c.start <= c.end /\ Len(c.bytes) = c.end - c.start + 1
  BY <1>0, <1>1, <1>2, ChunkFacts
<1>4. /\ c.start \in Nat /\ c.end \in Nat /\ c.end <= AddrMax /\ builder.end \in Nat
      /\ AddrMax \in Nat
  BY <1>1, <1>3, AddressArithmetic
<1>5. c.end > builder.end
  BY <1>0
<1>6. WrapAddr(builder.end + 1) = builder.end + 1
  BY <1>4, <1>5 DEF WrapAddr
<1>7. c.start <= builder.end + 1
  BY <1>1, <1>4 DEF CanMerge
<1>8. TailOf(c) = SubSeq(c.bytes, (builder.end + 1) - c.start + 1, Len(c.bytes))
  BY <1>6 DEF TailOf
<1>9. PICK b \in Nat, s \in Nat, e \in Nat, bytes \in Seq(Byte) :
        b = builder.end /\ s = c.start /\ e = c.end /\ bytes = c.bytes
  BY <1>3, <1>4
<1>10. Len(bytes) = e - s + 1 /\ e > b /\ s <= b + 1
  BY <1>3, <1>5, <1>7, <1>9
<1>11. TailOf(c) = SubSeq(bytes, (b + 1) - s + 1, Len(bytes))
  BY <1>8, <1>9
<1>12. /\ TailOf(c) \in Seq(Byte)
       /\ Len(TailOf(c)) = e - b
       /\ \A k \in 1 .. Len(TailOf(c)) : TailOf(c)[k] = bytes[b + 1 - s + k]
  BY <1>10, <1>11, SuffixFacts
<1> QED
  BY <1>0, <1>1, <1>7, <1>9, <1>12

\* The buffer holds the region and the tail, however often it had to double.
LEMMA BuilderCapacityFits ==
  ASSUME NEW tail \in Seq(Byte), builder.bytes \in Seq(Byte), builder.cap \in Nat
  PROVE  /\ BuilderCapacity(tail) \in Nat
         /\ Len(builder.bytes) + Len(tail) <= BuilderCapacity(tail)
<1> DEFINE need == Len(builder.bytes) + Len(tail)
           from == IF builder.cap = 0 THEN Len(tail) ELSE builder.cap
<1>1. need \in Nat /\ from \in Nat
  OBVIOUS
<1>2. GrownCapacity(from, need) \in Nat /\ need <= GrownCapacity(from, need)
  BY <1>1, GrownCapacityFits
<1>3. BuilderCapacity(tail) = IF need <= builder.cap THEN builder.cap
                              ELSE GrownCapacity(from, need)
  BY DEF BuilderCapacity
<1> HIDE DEF from
<1> QED
  BY <1>1, <1>2, <1>3

LEMMA MergeTailKeepsInv ==
  ASSUME MemMapInv, MergeTail
  PROVE  MemMapInv'
<1> DEFINE c == chunks[i]
           tail == TailOf(c)
           cap == BuilderCapacity(tail)
<1>1. /\ Merging /\ c.end > builder.end
      /\ builder' = [builder EXCEPT !.end = c.end, !.bytes = MergedBytes(c), !.cap = cap]
      /\ i' = i + 1
      /\ UNCHANGED <<imageVars, pc, j, built>>
  BY DEF MergeTail
<1>2. /\ pc = "merge" /\ ImageInv /\ BuilderFollowsChunks /\ Ordered(chunks)
      /\ Len(chunks) \in Nat
      /\ builder \in [start : Address, end : Address, bytes : Seq(Byte), cap : Nat]
  BY <1>1 DEF Merging, MemMapInv, LoopInv, TypeOK, ImageInv, ImageTypeOK
<1>3. /\ i \in 2 .. Len(chunks) /\ c.start <= builder.end + 1
      /\ tail \in Seq(Byte) /\ Len(tail) = c.end - builder.end
  BY <1>1, TailFacts
<1>4. i \in 1 .. Len(chunks) /\ i - 1 \in 1 .. Len(chunks)
  BY <1>2, <1>3
<1>5. /\ c.start \in Nat /\ c.end \in Nat /\ c.end \in Address
      /\ chunks[i - 1].start \in Nat
      /\ builder.start \in Nat /\ builder.end \in Nat
  BY <1>2, <1>4, ChunkFacts, AddressArithmetic
<1>6. chunks[i - 1].start <= c.start
  BY <1>2, <1>3, <1>4, OrderedStarts
<1>7. cap \in Nat /\ Len(builder.bytes) + Len(tail) <= cap
  BY <1>2, <1>3, BuilderCapacityFits
<1>8. /\ builder.bytes \o tail \in Seq(Byte)
      /\ Len(builder.bytes \o tail) = Len(builder.bytes) + Len(tail)
      /\ MergedBytes(c) = builder.bytes \o tail
      /\ Len(builder.bytes) \in Nat /\ Len(tail) \in Nat
  BY <1>2, <1>3, ConcatProperties DEF MergedBytes
<1> HIDE DEF c, tail, cap
<1>9. /\ builder' \in [start : Address, end : Address, bytes : Seq(Byte), cap : Nat]
      /\ builder'.start = builder.start /\ builder'.end = c.end
      /\ builder'.bytes = builder.bytes \o tail /\ builder'.cap = cap
  BY <1>1, <1>2, <1>5, <1>7, <1>8
<1>10. chunks' = chunks /\ i' - 1 = i /\ chunks[i] = c
  BY <1>1, <1>3 DEF imageVars, c
<1>11. BuilderFollowsChunks'
  <2>0. /\ builder.start <= builder.end /\ c.end > builder.end
        /\ Len(builder.bytes) = builder.end - builder.start + 1
        /\ Len(tail) = c.end - builder.end
    BY <1>1, <1>2, <1>3 DEF BuilderFollowsChunks
  <2>1. /\ Len(builder'.bytes) = builder'.end - builder'.start + 1
        /\ builder'.start <= builder'.end
    BY <1>5, <1>8, <1>9, <2>0
  <2>2. builder'.bytes # <<>>
    <3>1. Len(builder'.bytes) # 0
      BY <1>5, <1>9, <2>1
    <3> QED
      BY <3>1
  <2>3. \A k \in 1 .. i : chunks[k].end <= c.end
    <3> TAKE k \in 1 .. i
    <3>1. CASE k = i
      BY <1>5, <1>10, <3>1
    <3>2. CASE k # i
      <4>1. k \in 1 .. i - 1 /\ k \in 1 .. Len(chunks)
        BY <1>3, <3>2
      <4>2. chunks[k].end <= builder.end /\ chunks[k].end \in Nat
        BY <1>2, <4>1, ChunkFacts, AddressArithmetic DEF BuilderFollowsChunks
      <4> QED
        BY <1>1, <1>5, <4>2
    <3> QED
      BY <3>1, <3>2
  <2>4. builder.start <= c.start
    BY <1>2, <1>5, <1>6 DEF BuilderFollowsChunks
  <2> QED
    BY <1>9, <1>10, <2>1, <2>2, <2>3, <2>4 DEF BuilderFollowsChunks
<1>12. LoopInv'
  BY <1>1, <1>2, <1>3, <1>10, <1>11 DEF MemMapInv, LoopInv
<1>13. ImageInv'
  BY <1>1, <1>2, UnchangedKeepsInv
<1>14. TypeOK'
  BY <1>1, <1>2, <1>9, <1>13, <1>3 DEF MemMapInv, TypeOK, ImageInv, imageVars, layoutVars
<1>15. WithinCapacity'
  <2>1. Len(builder'.bytes) <= builder'.cap
    BY <1>7, <1>8, <1>9
  <2> QED
    BY <1>1, <2>1 DEF MemMapInv, WithinCapacity, imageVars, layoutVars
<1> QED
  BY <1>12, <1>13, <1>14, <1>15 DEF MemMapInv

\* Closing the builder's region: the table has room for it.
LEMMA RegionTaken ==
  ASSUME MemMapInv, pc = "merge", CanTakeRegion
  PROVE  /\ RegionsTaken = Append(regions, BuilderRegion)
         /\ RegionsTaken \in Seq(LayoutRegion)
         /\ Len(RegionsTaken) = Len(regions) + 1
         /\ RegionsTaken[Len(RegionsTaken)] = BuilderRegion
         /\ RegionCapacity \in Nat
         /\ Len(RegionsTaken) <= RegionCapacity
         /\ RegionCapacity * EntrySize["regions"] <= AllocMax
<1>1. /\ builder.bytes # <<>> /\ regions \in Seq(LayoutRegion) /\ Len(regions) \in Nat
      /\ builder \in [start : Address, end : Address, bytes : Seq(Byte), cap : Nat]
      /\ capacity \in [Tables -> Nat] /\ "regions" \in Tables
      /\ Len(regions) <= capacity["regions"]
      /\ capacity["regions"] * EntrySize["regions"] <= AllocMax
  BY DEF MemMapInv, LoopInv, BuilderFollowsChunks, TypeOK, ImageTypeOK,
         WithinCapacity, Tables
<1>2. BuilderRegion \in LayoutRegion
  BY <1>1 DEF BuilderRegion, LayoutRegion
<1>3. RegionsTaken = Append(regions, BuilderRegion)
  BY <1>1 DEF RegionsTaken
<1>4. CanPush("regions", Len(regions))
  BY <1>1 DEF CanTakeRegion
<1>5. RegionCapacity = CapacityFor("regions", Len(regions))
  BY <1>1 DEF RegionCapacity
<1>6. /\ RegionCapacity \in Nat /\ Len(regions) + 1 <= RegionCapacity
      /\ RegionCapacity * EntrySize["regions"] <= AllocMax
  BY <1>1, <1>4, <1>5, PushHasRoom
<1>7. /\ RegionsTaken \in Seq(LayoutRegion) /\ Len(RegionsTaken) = Len(regions) + 1
      /\ RegionsTaken[Len(RegionsTaken)] = BuilderRegion
  BY <1>1, <1>2, <1>3, AppendProperties
<1> QED
  BY <1>3, <1>6, <1>7

LEMMA CloseRegionKeepsInv ==
  ASSUME MemMapInv, CloseRegion
  PROVE  MemMapInv'
<1>1. PICK c : c = chunks[i]
  OBVIOUS
<1>2. /\ pc = "merge" /\ i <= Len(chunks) /\ ~CanMerge(builder.end, c.start)
      /\ CanTakeRegion /\ CanPush("gaps", Len(gaps))
      /\ regions' = RegionsTaken
      /\ gaps' = Append(gaps, GapBetween(RegionsTaken[Len(RegionsTaken)], c))
      /\ capacity' = [capacity EXCEPT !["regions"] = RegionCapacity,
                                      !["gaps"] = CapacityFor("gaps", Len(gaps))]
      /\ builder' = BuilderFrom(c) /\ i' = i + 1
      /\ UNCHANGED <<chunks, overlaps, totalVars, pc, j, built>>
  BY <1>1 DEF CloseRegion, Separated
<1>3. /\ ImageInv /\ BuilderFollowsChunks /\ Ordered(chunks) /\ built = 0
      /\ Len(chunks) \in Nat /\ i \in 2 .. Len(chunks) /\ i \in 1 .. Len(chunks)
      /\ builder.end \in Address /\ capacity \in [Tables -> Nat]
      /\ gaps \in Seq(LayoutGap) /\ Len(gaps) \in Nat
      /\ \A t \in Tables : capacity[t] * EntrySize[t] <= AllocMax
  BY <1>2 DEF MemMapInv, LoopInv, TypeOK, ImageInv, ImageTypeOK, WithinCapacity
<1>4. /\ RegionsTaken \in Seq(LayoutRegion)
      /\ RegionsTaken[Len(RegionsTaken)] = BuilderRegion
      /\ RegionCapacity \in Nat /\ Len(RegionsTaken) <= RegionCapacity
      /\ RegionCapacity * EntrySize["regions"] <= AllocMax
  BY <1>2, RegionTaken
<1>5. /\ c.start \in Nat /\ c.end \in Nat /\ c.start \in Address
      /\ c.start <= c.end /\ builder.end \in Nat /\ AddrMax \in Nat
      /\ c.start <= AddrMax /\ builder.end <= AddrMax
      /\ c.bytes # <<>> /\ Len(c.bytes) = c.end - c.start + 1
  BY <1>1, <1>3, ChunkFacts, AddressArithmetic
<1>6. builder.end < c.start
  BY <1>2, <1>5 DEF CanMerge
<1>7. /\ builder' \in [start : Address, end : Address, bytes : Seq(Byte), cap : Nat]
      /\ builder'.start = c.start /\ builder'.end = c.end /\ builder'.bytes = c.bytes
      /\ Len(builder'.bytes) <= builder'.cap
  BY <1>1, <1>2, <1>3, BuilderFromTyped
<1>8. GapBetween(BuilderRegion, c) \in LayoutGap
  <2>1. builder.end + 1 \in -1 .. AddrMax + 1 /\ c.start - 1 \in -1 .. AddrMax + 1
    <3>1. /\ builder.end + 1 \in Int /\ -1 <= builder.end + 1 /\ builder.end + 1 <= AddrMax + 1
          /\ c.start - 1 \in Int /\ -1 <= c.start - 1 /\ c.start - 1 <= AddrMax + 1
      BY <1>5
    <3> QED
      BY <1>5, <3>1
  <2>2. WrapAddr(builder.end + 1) \in Address /\ WrapAddr(c.start - 1) \in Address
    BY <2>1, AddressArithmetic
  <2> QED
    BY <2>2 DEF GapBetween, BuilderRegion, LayoutGap
<1>9. gaps' \in Seq(LayoutGap) /\ Len(gaps') = Len(gaps) + 1
  BY <1>2, <1>3, <1>4, <1>8, AppendProperties
<1>10. /\ "chunks" \in Tables /\ "regions" \in Tables /\ "gaps" \in Tables
       /\ "overlaps" \in Tables
  BY DEF Tables
<1>11. /\ CapacityFor("gaps", Len(gaps)) \in Nat
       /\ Len(gaps) + 1 <= CapacityFor("gaps", Len(gaps))
       /\ CapacityFor("gaps", Len(gaps)) * EntrySize["gaps"] <= AllocMax
  BY <1>2, <1>3, <1>10, PushHasRoom DEF MemMapInv, WithinCapacity
<1>12. /\ capacity' \in [Tables -> Nat]
       /\ capacity'["regions"] = RegionCapacity
       /\ capacity'["gaps"] = CapacityFor("gaps", Len(gaps))
       /\ capacity'["chunks"] = capacity["chunks"]
       /\ capacity'["overlaps"] = capacity["overlaps"]
       /\ \A t \in Tables \ {"regions", "gaps"} : capacity'[t] = capacity[t]
  BY <1>2, <1>3, <1>4, <1>10, <1>11
<1>13. ImageInv'
  BY <1>2, <1>3, <1>12, LayoutStepKeepsImage
<1>14. BuilderFollowsChunks'
  <2>1. ASSUME NEW k \in 1 .. i PROVE chunks[k].end <= c.end
    <3>1. CASE k = i
      BY <1>1, <1>5, <3>1
    <3>2. CASE k # i
      <4>1. k \in 1 .. i - 1 /\ k \in 1 .. Len(chunks)
        BY <1>3, <3>2
      <4>2. chunks[k].end <= builder.end /\ chunks[k].end \in Nat
        BY <1>3, <4>1, ChunkFacts, AddressArithmetic DEF BuilderFollowsChunks
      <4> QED
        BY <1>5, <1>6, <4>2
    <3> QED
      BY <3>1, <3>2
  <2>2. chunks' = chunks /\ i' - 1 = i
    BY <1>2, <1>3
  <2> QED
    BY <1>1, <1>5, <1>7, <2>1, <2>2 DEF BuilderFollowsChunks
<1>15. LoopInv'
  BY <1>2, <1>3, <1>14 DEF MemMapInv, LoopInv
<1>16. TypeOK'
  BY <1>2, <1>3, <1>4, <1>7, <1>9, <1>13 DEF MemMapInv, TypeOK, ImageInv
<1>17. WithinCapacity'
  <2>1. \A t \in Tables : capacity'[t] * EntrySize[t] <= AllocMax
    BY <1>3, <1>4, <1>11, <1>12
  <2>2. Len(regions') <= capacity'["regions"] /\ Len(gaps') <= capacity'["gaps"]
    BY <1>2, <1>4, <1>9, <1>11, <1>12
  <2>3. Len(chunks') <= capacity'["chunks"] /\ Len(overlaps') <= capacity'["overlaps"]
    BY <1>2, <1>12 DEF MemMapInv, WithinCapacity
  <2> QED
    BY <1>7, <2>1, <2>2, <2>3 DEF WithinCapacity
<1> QED
  BY <1>13, <1>15, <1>16, <1>17 DEF MemMapInv

LEMMA FinishLayoutKeepsInv ==
  ASSUME MemMapInv, FinishLayout
  PROVE  MemMapInv'
<1>1. /\ pc = "merge" /\ CanTakeRegion /\ regions' = RegionsTaken
      /\ capacity' = [capacity EXCEPT !["regions"] = RegionCapacity]
      /\ pc' = "idle" /\ i' = 1 /\ j' = 1 /\ builder' = NoBuilder
      /\ built' = Len(chunks)
      /\ UNCHANGED <<chunks, gaps, overlaps, totalVars>>
  BY DEF FinishLayout
<1>2. /\ ImageInv /\ Len(chunks) \in Nat /\ capacity \in [Tables -> Nat]
      /\ \A t \in Tables : capacity[t] * EntrySize[t] <= AllocMax
  BY DEF MemMapInv, ImageInv, ImageTypeOK, WithinCapacity
<1>3. /\ RegionsTaken \in Seq(LayoutRegion)
      /\ RegionCapacity \in Nat /\ Len(RegionsTaken) <= RegionCapacity
      /\ RegionCapacity * EntrySize["regions"] <= AllocMax
  BY <1>1, RegionTaken
<1>4. /\ capacity' \in [Tables -> Nat]
      /\ capacity'["regions"] = RegionCapacity
      /\ capacity'["chunks"] = capacity["chunks"]
      /\ capacity'["gaps"] = capacity["gaps"]
      /\ capacity'["overlaps"] = capacity["overlaps"]
      /\ \A t \in Tables \ {"regions"} : capacity'[t] = capacity[t]
  BY <1>1, <1>2, <1>3 DEF Tables
<1>5. ImageInv'
  BY <1>1, <1>2, <1>4, LayoutStepKeepsImage
<1>6. TypeOK'
  BY <1>1, <1>2, <1>3, <1>5, NoBuilderTyped DEF MemMapInv, TypeOK, ImageInv
<1>7. LoopInv'
  BY <1>1 DEF LoopInv
<1>8. WithinCapacity'
  <2>1. \A t \in Tables : capacity'[t] * EntrySize[t] <= AllocMax
    BY <1>2, <1>3, <1>4
  <2> QED
    BY <1>1, <1>3, <1>4, <2>1, NoBuilderTyped DEF MemMapInv, WithinCapacity
<1> QED
  BY <1>5, <1>6, <1>7, <1>8 DEF MemMapInv

\* Nothing happens to the image, the loops or the builder.
LEMMA StutterKeepsInv ==
  ASSUME MemMapInv, UNCHANGED vars
  PROVE  MemMapInv'
<1>1. LoopInv'
  BY DEF MemMapInv, LoopInv, BuilderFollowsChunks, Ordered, KeyBefore,
         vars, imageVars, layoutVars, loopVars
<1> QED
  BY <1>1, TablesUntouched DEF MemMapInv, TypeOK, vars, loopVars

-----------------------------------------------------------------------------
(* The theorems on types and capacities.                                   *)

LEMMA InitialInv == Init => MemMapInv
<1> SUFFICES ASSUME Init PROVE MemMapInv
  OBVIOUS
<1>1. /\ ImageInit /\ pc = "idle" /\ i = 1 /\ j = 1 /\ builder = NoBuilder /\ built = 0
  BY DEF Init
<1>2. ImageInv
  BY <1>1, EmptyImageInv DEF ImageInit
<1>3. /\ chunks = <<>> /\ regions = <<>> /\ gaps = <<>> /\ overlaps = <<>>
      /\ capacity = [t \in Tables |-> 0]
  BY <1>1 DEF ImageInit
<1>4. TypeOK
  BY <1>1, <1>2, <1>3, NoBuilderTyped DEF TypeOK, ImageInv
<1>5. LoopInv
  BY <1>1 DEF LoopInv
<1>6. WithinCapacity
  <2>1. \A t \in Tables : EntrySize[t] \in Nat /\ capacity[t] = 0
    BY <1>3, WidthAssumption, TableAssumption DEF WidthAssumption, TableAssumption
  <2>2. \A t \in Tables : capacity[t] * EntrySize[t] <= AllocMax
    BY <2>1, AddressArithmetic
  <2> QED
    BY <1>1, <1>3, <2>1, <2>2, NoBuilderTyped DEF WithinCapacity, Tables
<1> QED
  BY <1>2, <1>4, <1>5, <1>6 DEF MemMapInv

\* Every step of a call, and everything a client does between calls.
LEMMA NextKeepsInv ==
  ASSUME MemMapInv, [Next]_vars
  PROVE  MemMapInv'
<1>1. CASE ClientAddsChunk \/ ClientClearsLayout \/ ClientFreesImage
  BY <1>1, ClientAddsKeepsInv, ClientClearsKeepsInv, ClientFreesKeepsInv
<1>2. CASE ReconstructEmpty \/ ReconstructStart
  BY <1>2, ReconstructEmptyKeepsInv, ReconstructStartKeepsInv
<1>3. CASE ReconstructStep
  <2>1. CASE OverlapFails \/ StartFails \/ MergeFails \/ CloseFails \/ FinishFails
    <3>1. Abandon
      BY <2>1 DEF OverlapFails, StartFails, MergeFails, CloseFails, CloseTakeFails,
    CloseGapFails, CloseStartFails, FinishFails
    <3> QED
      BY <3>1, AbandonKeepsInv
  <2>2. CASE RecordOverlap \/ NextOverlapRow
    BY <2>2, RecordOverlapKeepsInv, NextOverlapRowKeepsInv
  <2>3. CASE StartBuilder \/ MergeContained \/ MergeTail
    BY <2>3, StartBuilderKeepsInv, MergeContainedKeepsInv, MergeTailKeepsInv
  <2>4. CASE CloseRegion \/ FinishLayout
    BY <2>4, CloseRegionKeepsInv, FinishLayoutKeepsInv
  <2> QED
    BY <1>3, <2>1, <2>2, <2>3, <2>4 DEF ReconstructStep
<1>4. CASE UNCHANGED vars
  BY <1>4, StutterKeepsInv
<1> QED
  BY <1>1, <1>2, <1>3, <1>4 DEF Next

LEMMA MemMapInvariance == Spec => []MemMapInv
<1>1. MemMapInv /\ [Next]_vars => MemMapInv'
  BY NextKeepsInv
<1> QED
  BY InitialInv, <1>1, PTL DEF Spec

\* Inside a call and between calls, every variable keeps its type: no address of
\* a region, gap or overlap leaves its width, and a layout is never said to be
\* built from more chunks than are loaded.
THEOREM MemMapTypeCorrect == Spec => []TypeOK
BY MemMapInvariance, PTL DEF MemMapInv

\* No table is written past the block realloc returned and no tail is copied
\* past the builder's buffer, although the byte count of a table is computed
\* unchecked and growth falls back from doubling to the exact size (memmap.c:47-140,
\* 276-346).
THEOREM WithinCapacityAlways == Spec => []WithinCapacity
BY MemMapInvariance, PTL DEF MemMapInv

-----------------------------------------------------------------------------
(* The layout: runs, gaps, coverage and bytes.                             *)

\* The three properties for a sequence of runs rs, gaps gs and the first n chunks.
Sound(r) == r.start <= r.end /\ Len(r.bytes) = r.end - r.start + 1

Separate(rs) ==
  /\ \A r \in 1 .. Len(rs) : Sound(rs[r])
  /\ \A r \in 1 .. Len(rs) - 1 : rs[r].end + 1 < rs[r + 1].start

Between(g, p, q) == Span(g) = (p.end + 1) .. (q.start - 1) /\ g.start <= g.end

GapsOf(gs, rs) ==
  /\ Len(gs) = IF rs = <<>> THEN 0 ELSE Len(rs) - 1
  /\ \A g \in 1 .. Len(gs) : Between(gs[g], rs[g], rs[g + 1])

Covered(a, rs) == \E r \in 1 .. Len(rs) : a \in Span(rs[r])

Covers(rs, cs, n) ==
  \A a \in Address : (\E k \in 1 .. n : a \in Span(cs[k])) <=> Covered(a, rs)

LayoutInv ==
  /\ MemMapInv
  /\ Separate(Runs)
  /\ GapsOf(gaps, Runs)
  /\ Covers(Runs, chunks, Merged)

-----------------------------------------------------------------------------
(* Appending a run, and raising the end of the last one.                   *)

\* The elements of a sequence with one more at its end.
LEMMA AppendElements ==
  ASSUME NEW S, NEW rs \in Seq(S), NEW x \in S
  PROVE  /\ Append(rs, x) \in Seq(S)
         /\ Len(rs) \in Nat /\ Len(Append(rs, x)) = Len(rs) + 1
         /\ \A k \in 1 .. Len(rs) : Append(rs, x)[k] = rs[k]
         /\ Append(rs, x)[Len(rs) + 1] = x
         /\ Append(rs, x) # <<>>
BY AppendProperties

LEMMA EmptyLayout ==
  ASSUME NEW cs
  PROVE  Separate(<<>>) /\ GapsOf(<<>>, <<>>) /\ Covers(<<>>, cs, 0)
BY DEF Separate, GapsOf, Covers, Covered

LEMMA SeparateAppend ==
  ASSUME NEW rs \in Seq(LayoutRegion), NEW x \in LayoutRegion, Separate(rs), Sound(x),
         rs # <<>> => rs[Len(rs)].end + 1 < x.start
  PROVE  Separate(Append(rs, x))
<1> DEFINE ys == Append(rs, x)
<1>1. /\ Len(rs) \in Nat /\ Len(ys) = Len(rs) + 1
      /\ \A k \in 1 .. Len(rs) : ys[k] = rs[k]
      /\ ys[Len(rs) + 1] = x
  BY AppendElements
<1> HIDE DEF ys
<1>2. ASSUME NEW r \in 1 .. Len(ys) PROVE Sound(ys[r])
  <2>1. CASE r \in 1 .. Len(rs)
    BY <1>1, <2>1 DEF Separate
  <2>2. CASE r = Len(rs) + 1
    BY <1>1, <2>2
  <2> QED
    BY <1>1, <2>1, <2>2
<1>3. ASSUME NEW r \in 1 .. Len(ys) - 1 PROVE ys[r].end + 1 < ys[r + 1].start
  <2>1. r \in 1 .. Len(rs) /\ ys[r] = rs[r]
    BY <1>1
  <2>2. CASE r = Len(rs)
    <3>1. rs # <<>>
      BY <2>1
    <3> QED
      BY <1>1, <2>1, <2>2, <3>1
  <2>3. CASE r # Len(rs)
    <3>1. r \in 1 .. Len(rs) - 1 /\ r + 1 \in 1 .. Len(rs)
      BY <1>1, <2>1, <2>3
    <3>2. ys[r + 1] = rs[r + 1]
      BY <1>1, <3>1
    <3> QED
      BY <2>1, <3>1, <3>2 DEF Separate
  <2> QED
    BY <2>2, <2>3
<1> USE DEF ys
<1> QED
  BY <1>2, <1>3 DEF Separate

\* A separate sequence stays separate without its last run, which starts past
\* the run before it.
LEMMA SeparateInit ==
  ASSUME NEW rs \in Seq(LayoutRegion), NEW x \in LayoutRegion, Separate(Append(rs, x))
  PROVE  /\ Separate(rs) /\ Sound(x)
         /\ rs # <<>> => rs[Len(rs)].end + 1 < x.start
<1> DEFINE ys == Append(rs, x)
<1>1. /\ Len(rs) \in Nat /\ Len(ys) = Len(rs) + 1
      /\ \A k \in 1 .. Len(rs) : ys[k] = rs[k]
      /\ ys[Len(rs) + 1] = x
  BY AppendElements
<1>2. /\ \A r \in 1 .. Len(ys) : Sound(ys[r])
      /\ \A r \in 1 .. Len(ys) - 1 : ys[r].end + 1 < ys[r + 1].start
  BY DEF Separate
<1> HIDE DEF ys
<1>3. Sound(x)
  BY <1>1, <1>2
<1>4. rs # <<>> => rs[Len(rs)].end + 1 < x.start
  <2> SUFFICES ASSUME rs # <<>> PROVE rs[Len(rs)].end + 1 < x.start
    OBVIOUS
  <2>1. Len(rs) \in 1 .. Len(ys) - 1 /\ Len(rs) \in 1 .. Len(rs)
    BY <1>1, EmptySeq
  <2> QED
    BY <1>1, <1>2, <2>1
<1>5. ASSUME NEW r \in 1 .. Len(rs) PROVE Sound(rs[r])
  <2>1. r \in 1 .. Len(ys)
    BY <1>1
  <2> QED
    BY <1>1, <1>2, <2>1
<1>6. ASSUME NEW r \in 1 .. Len(rs) - 1 PROVE rs[r].end + 1 < rs[r + 1].start
  <2>1. r \in 1 .. Len(ys) - 1 /\ r \in 1 .. Len(rs) /\ r + 1 \in 1 .. Len(rs)
    BY <1>1
  <2>2. rs[r] = ys[r] /\ rs[r + 1] = ys[r + 1]
    BY <1>1, <2>1
  <2> QED
    BY <1>2, <2>1, <2>2
<1> QED
  BY <1>3, <1>4, <1>5, <1>6 DEF Separate

LEMMA GapsAppend ==
  ASSUME NEW rs \in Seq(LayoutRegion), rs # <<>>, NEW x \in LayoutRegion,
         NEW gs \in Seq(LayoutGap), NEW g \in LayoutGap,
         GapsOf(gs, rs), Between(g, rs[Len(rs)], x)
  PROVE  GapsOf(Append(gs, g), Append(rs, x))
<1> DEFINE ys == Append(rs, x)
           hs == Append(gs, g)
<1>1. /\ Len(rs) \in Nat /\ Len(ys) = Len(rs) + 1 /\ ys # <<>>
      /\ \A k \in 1 .. Len(rs) : ys[k] = rs[k]
      /\ ys[Len(rs) + 1] = x
  BY AppendElements
<1>2. /\ Len(gs) \in Nat /\ Len(hs) = Len(gs) + 1
      /\ \A k \in 1 .. Len(gs) : hs[k] = gs[k]
      /\ hs[Len(gs) + 1] = g
  BY AppendElements
<1>3. /\ Len(gs) = Len(rs) - 1
      /\ \A k \in 1 .. Len(gs) : Between(gs[k], rs[k], rs[k + 1])
  BY DEF GapsOf
<1> HIDE DEF ys, hs
<1>4. ASSUME NEW k \in 1 .. Len(hs) PROVE Between(hs[k], ys[k], ys[k + 1])
  <2>1. CASE k \in 1 .. Len(gs)
    <3>1. k \in 1 .. Len(rs) /\ k + 1 \in 1 .. Len(rs)
      BY <1>1, <1>3, <2>1
    <3>2. hs[k] = gs[k] /\ ys[k] = rs[k] /\ ys[k + 1] = rs[k + 1]
      BY <1>1, <1>2, <2>1, <3>1
    <3> QED
      BY <1>3, <2>1, <3>2
  <2>2. CASE k = Len(rs)
    <3>1. k \in 1 .. Len(rs) /\ k = Len(gs) + 1
      BY <1>1, <1>2, <1>3, <2>2
    <3>2. hs[k] = g /\ ys[k] = rs[Len(rs)] /\ ys[k + 1] = x
      BY <1>1, <1>2, <2>2, <3>1
    <3> QED
      BY <3>2
  <2> QED
    BY <1>1, <1>2, <1>3, <2>1, <2>2
<1>5. Len(hs) = Len(ys) - 1
  BY <1>1, <1>2, <1>3
<1> USE DEF ys, hs
<1> QED
  BY <1>1, <1>4, <1>5 DEF GapsOf

\* A gap looks only at where the run after it starts.
LEMMA GapsRaise ==
  ASSUME NEW rs \in Seq(LayoutRegion), NEW x \in LayoutRegion, NEW y \in LayoutRegion,
         y.start = x.start, NEW gs \in Seq(LayoutGap), GapsOf(gs, Append(rs, x))
  PROVE  GapsOf(gs, Append(rs, y))
<1> DEFINE xs == Append(rs, x)
           ys == Append(rs, y)
<1>1. /\ Len(rs) \in Nat /\ Len(xs) = Len(rs) + 1 /\ xs # <<>>
      /\ \A k \in 1 .. Len(rs) : xs[k] = rs[k]
      /\ xs[Len(rs) + 1] = x
  BY AppendElements
<1>2. /\ Len(ys) = Len(rs) + 1 /\ ys # <<>>
      /\ \A k \in 1 .. Len(rs) : ys[k] = rs[k]
      /\ ys[Len(rs) + 1] = y
  BY AppendElements
<1>3. /\ Len(gs) = Len(rs)
      /\ \A k \in 1 .. Len(gs) : Between(gs[k], xs[k], xs[k + 1])
  BY <1>1 DEF GapsOf
<1> HIDE DEF xs, ys
<1>4. ASSUME NEW k \in 1 .. Len(gs) PROVE Between(gs[k], ys[k], ys[k + 1])
  <2>1. ys[k] = xs[k] /\ ys[k + 1].start = xs[k + 1].start
    <3>1. CASE k = Len(rs)
      BY <1>1, <1>2, <1>3, <3>1
    <3>2. CASE k # Len(rs)
      <4>1. k \in 1 .. Len(rs) /\ k + 1 \in 1 .. Len(rs)
        BY <1>1, <1>3, <3>2
      <4> QED
        BY <1>1, <1>2, <4>1
    <3> QED
      BY <3>1, <3>2
  <2> QED
    BY <1>3, <2>1 DEF Between
<1> USE DEF xs, ys
<1> QED
  BY <1>1, <1>2, <1>3, <1>4 DEF GapsOf

LEMMA CoveredAppend ==
  ASSUME NEW rs \in Seq(LayoutRegion), NEW x \in LayoutRegion, NEW a
  PROVE  Covered(a, Append(rs, x)) <=> Covered(a, rs) \/ a \in Span(x)
<1> DEFINE ys == Append(rs, x)
<1>1. /\ Len(rs) \in Nat /\ Len(ys) = Len(rs) + 1
      /\ \A k \in 1 .. Len(rs) : ys[k] = rs[k]
      /\ ys[Len(rs) + 1] = x
  BY AppendElements
<1> HIDE DEF ys
<1>2. ASSUME Covered(a, ys) PROVE Covered(a, rs) \/ a \in Span(x)
  <2>1. PICK r \in 1 .. Len(ys) : a \in Span(ys[r])
    BY <1>2 DEF Covered
  <2>2. CASE r \in 1 .. Len(rs)
    BY <1>1, <2>1, <2>2 DEF Covered
  <2>3. CASE r = Len(rs) + 1
    BY <1>1, <2>1, <2>3
  <2> QED
    BY <1>1, <2>2, <2>3
<1>3. ASSUME Covered(a, rs) PROVE Covered(a, ys)
  <2>1. PICK r \in 1 .. Len(rs) : a \in Span(rs[r])
    BY <1>3 DEF Covered
  <2>2. r \in 1 .. Len(ys) /\ ys[r] = rs[r]
    BY <1>1
  <2> QED
    BY <2>1, <2>2 DEF Covered
<1>4. ASSUME a \in Span(x) PROVE Covered(a, ys)
  <2>1. Len(rs) + 1 \in 1 .. Len(ys)
    BY <1>1
  <2> QED
    BY <1>1, <1>4, <2>1 DEF Covered
<1> USE DEF ys
<1> QED
  BY <1>2, <1>3, <1>4

\* One more chunk is covered by one more run, or by raising the last run.
LEMMA CoversAppend ==
  ASSUME NEW rs \in Seq(LayoutRegion), NEW x \in LayoutRegion, NEW cs, NEW n \in Nat,
         Covers(rs, cs, n), Span(x) = Span(cs[n + 1])
  PROVE  Covers(Append(rs, x), cs, n + 1)
<1> SUFFICES ASSUME NEW a \in Address
             PROVE  (\E k \in 1 .. n + 1 : a \in Span(cs[k])) <=> Covered(a, Append(rs, x))
  BY DEF Covers
<1>1. Covered(a, Append(rs, x)) <=> Covered(a, rs) \/ a \in Span(x)
  BY CoveredAppend
<1>2. (\E k \in 1 .. n : a \in Span(cs[k])) <=> Covered(a, rs)
  BY DEF Covers
<1>3. 1 .. n + 1 = (1 .. n) \cup {n + 1}
  OBVIOUS
<1> QED
  BY <1>1, <1>2, <1>3

LEMMA CoversRaise ==
  ASSUME NEW rs \in Seq(LayoutRegion), NEW x \in LayoutRegion, NEW y \in LayoutRegion,
         NEW cs, NEW n \in Nat, Covers(Append(rs, x), cs, n),
         Span(y) = Span(x) \cup Span(cs[n + 1])
  PROVE  Covers(Append(rs, y), cs, n + 1)
<1> SUFFICES ASSUME NEW a \in Address
             PROVE  (\E k \in 1 .. n + 1 : a \in Span(cs[k])) <=> Covered(a, Append(rs, y))
  BY DEF Covers
<1>1. /\ Covered(a, Append(rs, x)) <=> Covered(a, rs) \/ a \in Span(x)
      /\ Covered(a, Append(rs, y)) <=> Covered(a, rs) \/ a \in Span(y)
  BY CoveredAppend
<1>2. (\E k \in 1 .. n : a \in Span(cs[k])) <=> Covered(a, Append(rs, x))
  BY DEF Covers
<1>3. 1 .. n + 1 = (1 .. n) \cup {n + 1}
  OBVIOUS
<1> QED
  BY <1>1, <1>2, <1>3

-----------------------------------------------------------------------------
(* The steps of reconstruction.                                            *)

\* Inside the merge loop.
LEMMA MergeState ==
  ASSUME MemMapInv, pc = "merge"
  PROVE  /\ regions \in Seq(LayoutRegion) /\ gaps \in Seq(LayoutGap)
         /\ BuilderRegion \in LayoutRegion /\ Sound(BuilderRegion)
         /\ Runs = Append(regions, BuilderRegion) /\ Runs \in Seq(LayoutRegion)
         /\ Runs # <<>> /\ Runs[Len(Runs)] = BuilderRegion
         /\ Merged = i - 1 /\ i \in 2 .. Len(chunks) + 1 /\ Len(chunks) \in Nat
         /\ builder.start \in Nat /\ builder.end \in Nat /\ builder.end <= AddrMax
         /\ BuilderFollowsChunks /\ ImageInv /\ Ordered(chunks)
<1>1. /\ regions \in Seq(LayoutRegion) /\ gaps \in Seq(LayoutGap)
      /\ builder \in [start : Address, end : Address, bytes : Seq(Byte), cap : Nat]
      /\ BuilderFollowsChunks /\ ImageInv /\ Ordered(chunks)
      /\ i \in 2 .. Len(chunks) + 1 /\ Len(chunks) \in Nat
  BY DEF MemMapInv, LoopInv, TypeOK, ImageInv, ImageTypeOK
<1>2. BuilderRegion \in LayoutRegion /\ Sound(BuilderRegion)
  BY <1>1 DEF BuilderRegion, LayoutRegion, Sound, BuilderFollowsChunks
<1>3. Runs = Append(regions, BuilderRegion)
  BY DEF Runs
<1>4. Runs \in Seq(LayoutRegion) /\ Runs # <<>> /\ Runs[Len(Runs)] = BuilderRegion
  BY <1>1, <1>2, <1>3, AppendElements
<1>5. Merged = i - 1
  BY DEF Merged
<1>6. builder.start \in Nat /\ builder.end \in Nat /\ builder.end <= AddrMax
  BY <1>1, AddressArithmetic
<1> QED
  BY <1>1, <1>2, <1>3, <1>4, <1>5, <1>6

\* After a step into the merge loop or inside it.
LEMMA MergeStateNext ==
  ASSUME MemMapInv', pc' = "merge"
  PROVE  /\ BuilderRegion' \in LayoutRegion /\ Sound(BuilderRegion')
         /\ Runs' = Append(regions', BuilderRegion') /\ Merged' = i' - 1
<1>1. /\ builder' \in [start : Address, end : Address, bytes : Seq(Byte), cap : Nat]
      /\ BuilderFollowsChunks'
  BY DEF MemMapInv, LoopInv, TypeOK
<1>2. BuilderRegion' \in LayoutRegion /\ Sound(BuilderRegion')
  BY <1>1 DEF BuilderRegion, LayoutRegion, Sound, BuilderFollowsChunks
<1> QED
  BY <1>2 DEF Runs, Merged

\* The chunk the loop looks at starts no earlier than the region: chunks are sorted.
LEMMA ChunkAboveBuilder ==
  ASSUME MemMapInv, pc = "merge", i <= Len(chunks)
  PROVE  /\ i \in 1 .. Len(chunks)
         /\ chunks[i].start \in Nat /\ chunks[i].end \in Nat
         /\ chunks[i].start <= chunks[i].end /\ chunks[i].end <= AddrMax
         /\ builder.start <= chunks[i].start
<1>1. i \in 1 .. Len(chunks) /\ i - 1 \in 1 .. Len(chunks) /\ i - 1 <= i
  BY MergeState
<1>2. chunks[i - 1].start <= chunks[i].start
  BY <1>1, OrderedStarts, MergeState
<1>3. /\ chunks[i].start \in Nat /\ chunks[i].end \in Nat /\ chunks[i].end <= AddrMax
      /\ chunks[i].start <= chunks[i].end /\ chunks[i - 1].start \in Nat
  BY <1>1, ChunkFacts, AddressArithmetic, MergeState
<1>4. builder.start <= chunks[i - 1].start /\ builder.start \in Nat
  BY MergeState DEF BuilderFollowsChunks
<1> QED
  BY <1>1, <1>2, <1>3, <1>4

LEMMA EmptiedLayout ==
  ASSUME MemMapInv', regions' = <<>>, gaps' = <<>>, pc' # "merge", pc' = "idle" => built' = 0
  PROVE  LayoutInv'
<1>1. Runs' = <<>>
  BY DEF Runs
<1>2. Merged' = 0
  BY DEF Merged
<1>3. Separate(Runs') /\ GapsOf(gaps', Runs') /\ Covers(Runs', chunks', Merged')
  BY <1>1, <1>2, EmptyLayout
<1> QED
  BY <1>3 DEF LayoutInv

LEMMA SameLayout ==
  ASSUME LayoutInv, MemMapInv', Runs' = Runs, gaps' = gaps, Merged' = Merged,
         \A k \in 1 .. Merged : chunks'[k] = chunks[k]
  PROVE  LayoutInv'
<1>1. Separate(Runs') /\ GapsOf(gaps', Runs')
  BY DEF LayoutInv
<1>2. Covers(Runs', chunks', Merged')
  BY DEF LayoutInv, Covers
<1> QED
  BY <1>1, <1>2 DEF LayoutInv

LEMMA ClearedLayout ==
  ASSUME MemMapInv', ClearLayout, pc' # "merge", pc' = "idle" => built' = 0
  PROVE  LayoutInv'
BY EmptiedLayout DEF ClearLayout

LEMMA ClientAddsLayout ==
  ASSUME LayoutInv, MemMapInv', ClientAddsChunk
  PROVE  LayoutInv'
<1>1. /\ pc = "idle" /\ AddChunk /\ UNCHANGED <<pc, built>> /\ ImageInv
      /\ built \in 0 .. Len(chunks) /\ Len(chunks) \in Nat
  BY DEF ClientAddsChunk, loopVars, LayoutInv, MemMapInv, TypeOK, ImageInv, ImageTypeOK
<1>2. UNCHANGED layoutVars /\ \A k \in 1 .. Len(chunks) : chunks'[k] = chunks[k]
  BY <1>1, AddChunkExtends
<1>3. Runs' = Runs /\ gaps' = gaps
  BY <1>1, <1>2 DEF Runs, layoutVars
<1>4. Merged = built /\ Merged' = built
  BY <1>1 DEF Merged
<1>5. \A k \in 1 .. Merged : chunks'[k] = chunks[k]
  BY <1>1, <1>2, <1>4
<1> QED
  BY <1>3, <1>4, <1>5, SameLayout

LEMMA StartBuilderLayout ==
  ASSUME LayoutInv, MemMapInv', StartBuilder
  PROVE  LayoutInv'
<1>1. /\ pc = "start" /\ pc' = "merge" /\ i' = 2 /\ builder' = BuilderFrom(chunks[1])
      /\ regions' = <<>> /\ gaps' = <<>> /\ chunks' = chunks
  BY DEF StartBuilder, LayoutInv, MemMapInv, LoopInv, imageVars, layoutVars
<1>2. PICK x : x = BuilderRegion'
  OBVIOUS
<1>3. /\ x \in LayoutRegion /\ Sound(x) /\ Runs' = Append(<<>>, x) /\ Merged' = 1
  BY <1>1, <1>2, MergeStateNext
<1>4. Span(x) = Span(chunks[0 + 1])
  BY <1>1, <1>2 DEF BuilderRegion, BuilderFrom, Span
<1>5. <<>> \in Seq(LayoutRegion) /\ Separate(<<>>) /\ Covers(<<>>, chunks, 0)
  BY EmptyLayout
<1>6. Separate(Append(<<>>, x))
  BY <1>3, <1>5, SeparateAppend
<1>7. Covers(Append(<<>>, x), chunks, 0 + 1)
  BY <1>3, <1>4, <1>5, CoversAppend
<1>8. GapsOf(<<>>, Append(<<>>, x))
  <2>1. Append(<<>>, x) # <<>> /\ Len(Append(<<>>, x)) = 1
    BY <1>3, <1>5, AppendElements
  <2> QED
    BY <2>1 DEF GapsOf
<1>9. Separate(Runs') /\ GapsOf(gaps', Runs') /\ Covers(Runs', chunks', Merged')
  BY <1>1, <1>3, <1>6, <1>7, <1>8
<1> QED
  BY <1>9 DEF LayoutInv

LEMMA MergeContainedLayout ==
  ASSUME LayoutInv, MemMapInv', MergeContained
  PROVE  LayoutInv'
<1>1. /\ pc = "merge" /\ pc' = "merge" /\ i <= Len(chunks) /\ i' = i + 1
      /\ chunks[i].end <= builder.end
      /\ UNCHANGED <<builder, chunks, regions, gaps>> /\ MemMapInv
  BY DEF MergeContained, Merging, LayoutInv, imageVars, layoutVars
<1>2. PICK x : x = BuilderRegion
  OBVIOUS
<1>3. /\ Runs = Append(regions, x) /\ Runs' = Runs /\ x \in LayoutRegion
      /\ regions \in Seq(LayoutRegion)
  BY <1>1, <1>2, MergeState DEF Runs, BuilderRegion
<1>4. Merged = i - 1 /\ Merged' = i /\ i \in Nat /\ i - 1 \in Nat /\ (i - 1) + 1 = i
  BY <1>1, MergeState DEF Merged
<1>5. Span(x) = Span(x) \cup Span(chunks[i])
  <2>1. /\ builder.start \in Nat /\ builder.end \in Nat /\ chunks[i].start \in Nat
        /\ chunks[i].end \in Nat /\ builder.start <= chunks[i].start
    BY <1>1, ChunkAboveBuilder, MergeState
  <2>2. PICK b \in Nat, e \in Nat, s \in Nat, t \in Nat :
          b = builder.start /\ e = builder.end /\ s = chunks[i].start /\ t = chunks[i].end
    BY <2>1
  <2>3. b .. e = (b .. e) \cup (s .. t)
    <3>1. b <= s /\ t <= e
      BY <1>1, <2>1, <2>2
    <3> QED
      BY <3>1
  <2> QED
    BY <1>2, <2>2, <2>3 DEF Span, BuilderRegion
<1>6. Covers(Runs, chunks, i - 1)
  BY <1>4 DEF LayoutInv
<1>7. Covers(Append(regions, x), chunks, (i - 1) + 1)
  BY <1>3, <1>4, <1>5, <1>6, CoversRaise
<1>8. Separate(Runs') /\ GapsOf(gaps', Runs') /\ Covers(Runs', chunks', Merged')
  BY <1>1, <1>3, <1>4, <1>7 DEF LayoutInv
<1> QED
  BY <1>8 DEF LayoutInv

LEMMA MergeTailLayout ==
  ASSUME LayoutInv, MemMapInv', MergeTail
  PROVE  LayoutInv'
<1>1. /\ pc = "merge" /\ pc' = "merge" /\ i <= Len(chunks) /\ i' = i + 1
      /\ chunks[i].end > builder.end /\ Merging
      /\ UNCHANGED <<chunks, regions, gaps>> /\ MemMapInv
      /\ builder \in [start : Address, end : Address, bytes : Seq(Byte), cap : Nat]
  BY DEF MergeTail, Merging, LayoutInv, imageVars, layoutVars, MemMapInv, TypeOK
<1>2. builder'.start = builder.start /\ builder'.end = chunks[i].end
  BY <1>1 DEF MergeTail
<1>3. PICK x, y : x = BuilderRegion /\ y = BuilderRegion'
  OBVIOUS
<1>4. /\ Runs = Append(regions, x) /\ x \in LayoutRegion /\ regions \in Seq(LayoutRegion)
      /\ gaps \in Seq(LayoutGap)
  BY <1>1, <1>3, MergeState
<1>5. Runs' = Append(regions, y) /\ y \in LayoutRegion /\ Sound(y)
  BY <1>1, <1>3, MergeStateNext
<1>6. y.start = x.start
  BY <1>2, <1>3 DEF BuilderRegion
<1>7. Merged = i - 1 /\ Merged' = i /\ i - 1 \in Nat /\ (i - 1) + 1 = i
  BY <1>1, MergeState DEF Merged
<1>8. Span(y) = Span(x) \cup Span(chunks[i])
  <2>1. chunks[i].start <= builder.end + 1
    BY <1>1, TailFacts
  <2>2. /\ builder.start \in Nat /\ builder.end \in Nat /\ chunks[i].start \in Nat
        /\ chunks[i].end \in Nat /\ builder.start <= chunks[i].start
    BY <1>1, ChunkAboveBuilder, MergeState
  <2>3. PICK b \in Nat, e \in Nat, s \in Nat, t \in Nat :
          b = builder.start /\ e = builder.end /\ s = chunks[i].start /\ t = chunks[i].end
    BY <2>2
  <2>4. b .. t = (b .. e) \cup (s .. t)
    <3>1. b <= s /\ s <= e + 1 /\ e < t
      BY <1>1, <2>1, <2>2, <2>3
    <3> QED
      BY <3>1
  <2> QED
    BY <1>2, <1>3, <2>3, <2>4 DEF Span, BuilderRegion
<1>9. Separate(Append(regions, y))
  <2>1. Separate(regions) /\ (regions # <<>> => regions[Len(regions)].end + 1 < x.start)
    BY <1>4, SeparateInit DEF LayoutInv
  <2> QED
    BY <1>4, <1>5, <1>6, <2>1, SeparateAppend
<1>10. GapsOf(gaps, Append(regions, y))
  BY <1>4, <1>5, <1>6, GapsRaise DEF LayoutInv
<1>11. Covers(Append(regions, y), chunks, (i - 1) + 1)
  <2>1. Covers(Append(regions, x), chunks, i - 1)
    BY <1>4, <1>7 DEF LayoutInv
  <2> QED
    BY <1>4, <1>5, <1>7, <1>8, <2>1, CoversRaise
<1>12. Separate(Runs') /\ GapsOf(gaps', Runs') /\ Covers(Runs', chunks', Merged')
  BY <1>1, <1>5, <1>7, <1>9, <1>10, <1>11
<1> QED
  BY <1>12 DEF LayoutInv

LEMMA CloseRegionLayout ==
  ASSUME LayoutInv, MemMapInv', CloseRegion
  PROVE  LayoutInv'
<1>1. PICK c, x, y : c = chunks[i] /\ x = BuilderRegion /\ y = BuilderRegion'
  OBVIOUS
<1>2. /\ pc = "merge" /\ pc' = "merge" /\ i <= Len(chunks) /\ i' = i + 1
      /\ ~CanMerge(builder.end, c.start) /\ CanTakeRegion
      /\ regions' = RegionsTaken
      /\ gaps' = Append(gaps, GapBetween(RegionsTaken[Len(RegionsTaken)], c))
      /\ builder' = BuilderFrom(c) /\ chunks' = chunks /\ MemMapInv
  BY <1>1 DEF CloseRegion, Separated, LayoutInv
<1>3. /\ Runs = Append(regions, x) /\ Runs \in Seq(LayoutRegion) /\ Runs # <<>>
      /\ Runs[Len(Runs)] = x /\ gaps \in Seq(LayoutGap)
      /\ x.end = builder.end
  BY <1>1, <1>2, MergeState DEF BuilderRegion
<1>4. regions' = Runs /\ gaps' = Append(gaps, GapBetween(x, c))
  <2>1. RegionsTaken = Runs
    BY <1>1, <1>2, <1>3, RegionTaken
  <2> QED
    BY <1>2, <1>3, <2>1
<1>5. y \in LayoutRegion /\ Sound(y) /\ Runs' = Append(Runs, y)
  BY <1>1, <1>2, <1>4, MergeStateNext
<1>6. Merged = i - 1 /\ Merged' = i /\ i - 1 \in Nat /\ (i - 1) + 1 = i
  BY <1>2, MergeState DEF Merged
<1>7. /\ c.start \in Nat /\ c.start <= AddrMax /\ builder.end \in Nat
      /\ builder.end <= AddrMax /\ AddrMax \in Nat
  <2>1. i \in 1 .. Len(chunks) /\ ImageInv
    BY <1>2, ChunkAboveBuilder, MergeState
  <2>2. c.start \in Address
    BY <1>1, <2>1, ChunkFacts
  <2> QED
    BY <1>2, <2>2, AddressArithmetic, MergeState
<1>8. builder.end + 1 < c.start
  BY <1>2, <1>7 DEF CanMerge
<1>9. y.start = c.start /\ y.end = c.end
  BY <1>1, <1>2 DEF BuilderRegion, BuilderFrom
<1>10. GapBetween(x, c) \in LayoutGap /\ Between(GapBetween(x, c), x, y)
  <2>1. WrapAddr(builder.end + 1) = builder.end + 1 /\ WrapAddr(c.start - 1) = c.start - 1
    BY <1>7, <1>8 DEF WrapAddr
  <2>2. GapBetween(x, c) = [start |-> builder.end + 1, end |-> c.start - 1]
    BY <1>3, <2>1 DEF GapBetween
  <2>3. builder.end + 1 \in Address /\ c.start - 1 \in Address /\ builder.end + 1 <= c.start - 1
    BY <1>7, <1>8 DEF Address
  <2> QED
    BY <1>3, <1>9, <2>2, <2>3 DEF Between, Span, LayoutGap
<1>11. Separate(Append(Runs, y))
  BY <1>3, <1>5, <1>8, <1>9, SeparateAppend DEF LayoutInv
<1>12. GapsOf(gaps', Append(Runs, y))
  BY <1>3, <1>4, <1>5, <1>10, GapsAppend DEF LayoutInv
<1>13. Covers(Append(Runs, y), chunks, (i - 1) + 1)
  <2>1. Span(y) = Span(chunks[(i - 1) + 1])
    BY <1>1, <1>6, <1>9 DEF Span
  <2>2. Covers(Runs, chunks, i - 1)
    BY <1>6 DEF LayoutInv
  <2> QED
    BY <1>3, <1>5, <1>6, <2>1, <2>2, CoversAppend
<1>14. Separate(Runs') /\ GapsOf(gaps', Runs') /\ Covers(Runs', chunks', Merged')
  BY <1>2, <1>5, <1>6, <1>11, <1>12, <1>13
<1> QED
  BY <1>14 DEF LayoutInv

LEMMA FinishLayoutLayout ==
  ASSUME LayoutInv, MemMapInv', FinishLayout
  PROVE  LayoutInv'
<1>1. /\ pc = "merge" /\ pc' = "idle" /\ i > Len(chunks) /\ CanTakeRegion
      /\ regions' = RegionsTaken /\ gaps' = gaps /\ chunks' = chunks
      /\ built' = Len(chunks) /\ MemMapInv
  BY DEF FinishLayout, LayoutInv
<1>2. Runs' = Runs
  BY <1>1, RegionTaken DEF Runs
<1>3. Merged' = Merged
  <2>1. Merged = i - 1 /\ i \in 2 .. Len(chunks) + 1 /\ Len(chunks) \in Nat
    BY <1>1, MergeState
  <2>2. Merged' = Len(chunks)
    BY <1>1 DEF Merged
  <2> QED
    BY <1>1, <2>1, <2>2
<1> QED
  BY <1>1, <1>2, <1>3, SameLayout

LEMMA StutterLayout ==
  ASSUME LayoutInv, MemMapInv', UNCHANGED vars
  PROVE  LayoutInv'
<1>1. /\ pc' = pc /\ built' = built /\ i' = i /\ builder' = builder
      /\ regions' = regions /\ gaps' = gaps /\ chunks' = chunks
  BY DEF vars, imageVars, layoutVars, loopVars
<1>2. Runs' = Runs /\ Merged' = Merged
  BY <1>1 DEF Runs, Merged, BuilderRegion
<1> QED
  BY <1>1, <1>2, SameLayout

\* Every step keeps the layout under construction right.
LEMMA NextKeepsLayout ==
  ASSUME LayoutInv, [Next]_vars
  PROVE  LayoutInv'
<1>1. MemMapInv /\ MemMapInv'
  BY NextKeepsInv DEF LayoutInv
<1>2. CASE ClientAddsChunk
  BY <1>1, <1>2, ClientAddsLayout
<1>3. CASE ClientClearsLayout \/ ReconstructEmpty
  BY <1>1, <1>3, ClearedLayout DEF ClientClearsLayout, ReconstructEmpty
<1>4. CASE ClientFreesImage
  BY <1>1, <1>4, EmptiedLayout DEF ClientFreesImage, FreeImage
<1>5. CASE ReconstructStart
  BY <1>1, <1>5, ClearedLayout DEF ReconstructStart
<1>6. CASE ReconstructStep
  <2>1. CASE OverlapFails \/ StartFails \/ MergeFails \/ CloseFails \/ FinishFails
    <3>1. Abandon
      BY <2>1 DEF OverlapFails, StartFails, MergeFails, CloseFails, CloseTakeFails,
    CloseGapFails, CloseStartFails, FinishFails
    <3> QED
      BY <1>1, <3>1, ClearedLayout DEF Abandon
  <2>2. CASE RecordOverlap
    BY <1>1, <2>2, EmptiedLayout DEF RecordOverlap, MemMapInv, LoopInv
  <2>3. CASE NextOverlapRow
    BY <1>1, <2>3, EmptiedLayout DEF NextOverlapRow, MemMapInv, LoopInv, imageVars, layoutVars
  <2>4. CASE StartBuilder \/ MergeContained \/ MergeTail
    BY <1>1, <2>4, StartBuilderLayout, MergeContainedLayout, MergeTailLayout
  <2>5. CASE CloseRegion \/ FinishLayout
    BY <1>1, <2>5, CloseRegionLayout, FinishLayoutLayout
  <2> QED
    BY <1>6, <2>1, <2>2, <2>3, <2>4, <2>5 DEF ReconstructStep
<1>7. CASE UNCHANGED vars
  BY <1>1, <1>7, StutterLayout
<1> QED
  BY <1>2, <1>3, <1>4, <1>5, <1>6, <1>7 DEF Next

LEMMA LayoutInvariance == Spec => []LayoutInv
<1>1. Init => LayoutInv
  <2> SUFFICES ASSUME Init PROVE LayoutInv
    OBVIOUS
  <2>1. MemMapInv /\ Runs = <<>> /\ gaps = <<>> /\ Merged = 0
    BY InitialInv DEF Init, ImageInit, Runs, Merged
  <2> QED
    BY <2>1, EmptyLayout DEF LayoutInv
<1>2. LayoutInv /\ [Next]_vars => LayoutInv'
  BY NextKeepsLayout
<1> QED
  BY <1>1, <1>2, PTL DEF Spec

\* What LayoutInv says of Runs is what the three properties say.
LEMMA LayoutInvImplies ==
  ASSUME LayoutInv
  PROVE  RegionsSeparated /\ GapsBetweenRegions /\ RegionsCoverChunks
<1>1. RegionsSeparated
  BY DEF LayoutInv, Separate, Sound, RegionsSeparated
<1>2. GapsBetweenRegions
  BY DEF LayoutInv, GapsOf, Between, GapsBetweenRegions
<1>3. RegionsCoverChunks
  BY DEF LayoutInv, Covers, Covered, RegionsCoverChunks
<1> QED
  BY <1>1, <1>2, <1>3

-----------------------------------------------------------------------------
(* Bytes: each address of a run holds what the first chunk there says.     *)

\* Address a of run r holds the byte of the first of the chunks 1 .. n there.
HoldsFirst(r, a, cs, n) ==
  \E k \in 1 .. n :
    /\ a \in Span(cs[k])
    /\ ByteAt(r, a) = ByteAt(cs[k], a)
    /\ \A m \in 1 .. k - 1 : a \notin Span(cs[m])

RunFirst(r, cs, n) == \A a \in Span(r) : HoldsFirst(r, a, cs, n)

AllFirst(rs, cs, n) == \A r \in 1 .. Len(rs) : RunFirst(rs[r], cs, n)

FirstInv == LayoutInv /\ AllFirst(Runs, chunks, Merged)

\* More chunks after the first n change nothing.
LEMMA FirstGrows ==
  ASSUME NEW rs, NEW cs, NEW ds, NEW n \in Nat, NEW p \in Nat, n <= p,
         \A k \in 1 .. n : ds[k] = cs[k], AllFirst(rs, cs, n)
  PROVE  AllFirst(rs, ds, p)
<1> SUFFICES ASSUME NEW r \in 1 .. Len(rs), NEW a \in Span(rs[r])
             PROVE  HoldsFirst(rs[r], a, ds, p)
  BY DEF AllFirst, RunFirst
<1>1. PICK k \in 1 .. n :
        /\ a \in Span(cs[k])
        /\ ByteAt(rs[r], a) = ByteAt(cs[k], a)
        /\ \A m \in 1 .. k - 1 : a \notin Span(cs[m])
  BY DEF AllFirst, RunFirst, HoldsFirst
<1>2. k \in 1 .. p /\ ds[k] = cs[k]
  OBVIOUS
<1>3. \A m \in 1 .. k - 1 : m \in 1 .. n
  OBVIOUS
<1> QED
  BY <1>1, <1>2, <1>3 DEF HoldsFirst

LEMMA FirstAppend ==
  ASSUME NEW rs \in Seq(LayoutRegion), NEW x \in LayoutRegion, NEW cs, NEW n,
         AllFirst(rs, cs, n), RunFirst(x, cs, n)
  PROVE  AllFirst(Append(rs, x), cs, n)
<1> SUFFICES ASSUME NEW r \in 1 .. Len(Append(rs, x))
             PROVE  RunFirst(Append(rs, x)[r], cs, n)
  BY DEF AllFirst
<1>1. CASE r \in 1 .. Len(rs)
  BY <1>1, AppendElements DEF AllFirst
<1>2. CASE r = Len(rs) + 1
  BY <1>2, AppendElements
<1> QED
  BY <1>1, <1>2, AppendElements

LEMMA FirstInit ==
  ASSUME NEW rs \in Seq(LayoutRegion), NEW x \in LayoutRegion, NEW cs, NEW n,
         AllFirst(Append(rs, x), cs, n)
  PROVE  AllFirst(rs, cs, n) /\ RunFirst(x, cs, n)
<1> DEFINE ys == Append(rs, x)
<1>1. /\ Len(rs) \in Nat /\ Len(ys) = Len(rs) + 1
      /\ \A k \in 1 .. Len(rs) : ys[k] = rs[k]
      /\ ys[Len(rs) + 1] = x
  BY AppendElements
<1>2. \A r \in 1 .. Len(ys) : RunFirst(ys[r], cs, n)
  BY DEF AllFirst
<1> HIDE DEF ys
<1>3. RunFirst(x, cs, n)
  <2>1. Len(rs) + 1 \in 1 .. Len(ys)
    BY <1>1
  <2> QED
    BY <1>1, <1>2, <2>1
<1>4. ASSUME NEW r \in 1 .. Len(rs) PROVE RunFirst(rs[r], cs, n)
  <2>1. r \in 1 .. Len(ys)
    BY <1>1
  <2> QED
    BY <1>1, <1>2, <2>1
<1> QED
  BY <1>3, <1>4 DEF AllFirst

\* A chunk no earlier chunk reaches into starts a run of its own bytes.
LEMMA FreshRunFirst ==
  ASSUME NEW x, NEW cs, NEW n \in Nat, n > 0,
         x.start = cs[n].start, x.end = cs[n].end, x.bytes = cs[n].bytes,
         \A m \in 1 .. n - 1 : \A a \in Span(x) : a \notin Span(cs[m])
  PROVE  RunFirst(x, cs, n)
<1> SUFFICES ASSUME NEW a \in Span(x) PROVE HoldsFirst(x, a, cs, n)
  BY DEF RunFirst
<1>1. n \in 1 .. n /\ a \in Span(cs[n]) /\ ByteAt(x, a) = ByteAt(cs[n], a)
  BY DEF Span, ByteAt
<1> QED
  BY <1>1 DEF HoldsFirst

\* tail is what the bytes cb of addresses s .. t add to the bytes bs of b .. e.
Joins(b, e, s, t, bs, tail, cb) ==
  /\ b \in Nat /\ e \in Nat /\ s \in Nat /\ t \in Nat
  /\ b <= e /\ e < t /\ s <= e + 1
  /\ bs \in Seq(Byte) /\ tail \in Seq(Byte)
  /\ Len(bs) = e - b + 1 /\ Len(tail) = t - e
  /\ \A k \in 1 .. Len(tail) : tail[k] = cb[e + 1 - s + k]

\* What follows: up to e the joined bytes are bs, past it they are cb.
Joined(b, e, s, t, bs, tail, cb) ==
  /\ \A a \in b .. e : (bs \o tail)[a - b + 1] = bs[a - b + 1]
  /\ \A a \in e + 1 .. t : (bs \o tail)[a - b + 1] = cb[a - s + 1]

LEMMA JoinedBytes ==
  ASSUME NEW b, NEW e, NEW s, NEW t, NEW bs, NEW tail, NEW cb,
         Joins(b, e, s, t, bs, tail, cb)
  PROVE  Joined(b, e, s, t, bs, tail, cb)
<1>0. /\ b \in Nat /\ e \in Nat /\ s \in Nat /\ t \in Nat
      /\ b <= e /\ e < t /\ s <= e + 1
      /\ bs \in Seq(Byte) /\ tail \in Seq(Byte)
      /\ Len(bs) = e - b + 1 /\ Len(tail) = t - e
      /\ \A k \in 1 .. Len(tail) : tail[k] = cb[e + 1 - s + k]
  BY DEF Joins
<1>1. /\ Len(bs) \in Nat /\ Len(tail) \in Nat
      /\ \A k \in 1 .. Len(bs) + Len(tail) :
           (bs \o tail)[k] = IF k <= Len(bs) THEN bs[k] ELSE tail[k - Len(bs)]
  BY <1>0, ConcatProperties
<1>2. ASSUME NEW a \in b .. e PROVE (bs \o tail)[a - b + 1] = bs[a - b + 1]
  <2>1. PICK k \in 1 .. Len(bs) : k = a - b + 1
    BY <1>0
  <2>2. (bs \o tail)[k] = bs[k]
    BY <1>1
  <2> QED
    BY <2>1, <2>2
<1>3. ASSUME NEW a \in e + 1 .. t PROVE (bs \o tail)[a - b + 1] = cb[a - s + 1]
  <2>1. PICK k \in 1 .. Len(tail) : k = a - e
    BY <1>0
  <2>2. PICK n \in Nat : n = Len(bs) + k
    BY <1>1
  <2>3. (bs \o tail)[n] = tail[k]
    <3>1. n \in 1 .. Len(bs) + Len(tail) /\ ~(n <= Len(bs)) /\ n - Len(bs) = k
      BY <1>1, <2>2
    <3> QED
      BY <1>1, <3>1
  <2>4. n = a - b + 1 /\ e + 1 - s + k = a - s + 1
    BY <1>0, <2>1, <2>2
  <2>5. tail[k] = cb[e + 1 - s + k]
    BY <1>0
  <2> QED
    BY <2>3, <2>4, <2>5
<1> QED
  BY <1>2, <1>3 DEF Joined

\* The chunks before the current one end at or below the builder.
LEMMA EarlierChunksBelow ==
  ASSUME MemMapInv, pc = "merge", NEW a \in Int, a > builder.end
  PROVE  \A m \in 1 .. i - 1 : a \notin Span(chunks[m])
<1> SUFFICES ASSUME NEW m \in 1 .. i - 1 PROVE a \notin Span(chunks[m])
  OBVIOUS
<1>1. m \in 1 .. Len(chunks) /\ builder.end \in Nat /\ ImageInv
  BY MergeState
<1>2. chunks[m].start \in Nat /\ chunks[m].end \in Nat
  BY <1>1, ChunkFacts, AddressArithmetic
<1>3. chunks[m].end <= builder.end
  BY MergeState DEF BuilderFollowsChunks
<1> QED
  BY <1>1, <1>2, <1>3 DEF Span

LEMMA SameBytes ==
  ASSUME FirstInv, LayoutInv', Runs' = Runs, Merged \in Nat, Merged' \in Nat,
         Merged <= Merged', \A k \in 1 .. Merged : chunks'[k] = chunks[k]
  PROVE  FirstInv'
<1>1. AllFirst(Runs', chunks', Merged')
  BY FirstGrows DEF FirstInv
<1> QED
  BY <1>1 DEF FirstInv

LEMMA EmptiedBytes ==
  ASSUME LayoutInv', regions' = <<>>, pc' # "merge"
  PROVE  FirstInv'
<1>1. Runs' = <<>>
  BY DEF Runs
<1>2. AllFirst(Runs', chunks', Merged')
  BY <1>1 DEF AllFirst
<1> QED
  BY <1>2 DEF FirstInv

LEMMA StartBuilderBytes ==
  ASSUME FirstInv, LayoutInv', StartBuilder
  PROVE  FirstInv'
<1>1. /\ pc' = "merge" /\ i' = 2 /\ builder' = BuilderFrom(chunks[1])
      /\ regions' = <<>> /\ chunks' = chunks /\ MemMapInv'
  BY DEF StartBuilder, FirstInv, LayoutInv, MemMapInv, LoopInv, imageVars, layoutVars
<1>2. PICK x : x = BuilderRegion'
  OBVIOUS
<1>3. x \in LayoutRegion /\ Runs' = Append(<<>>, x) /\ Merged' = 1
  BY <1>1, <1>2, MergeStateNext
<1>4. /\ x.start = chunks[1].start /\ x.end = chunks[1].end /\ x.bytes = chunks[1].bytes
  BY <1>1, <1>2 DEF BuilderRegion, BuilderFrom
<1>5. RunFirst(x, chunks, 1)
  BY <1>4, FreshRunFirst
<1>6. <<>> \in Seq(LayoutRegion) /\ AllFirst(<<>>, chunks, 1)
  BY DEF AllFirst
<1>7. AllFirst(Append(<<>>, x), chunks, 1)
  BY <1>3, <1>5, <1>6, FirstAppend
<1> QED
  BY <1>1, <1>3, <1>7 DEF FirstInv

LEMMA MergeContainedBytes ==
  ASSUME FirstInv, LayoutInv', MergeContained
  PROVE  FirstInv'
<1>1. /\ pc = "merge" /\ pc' = "merge" /\ i' = i + 1
      /\ UNCHANGED <<builder, chunks, regions>> /\ MemMapInv
  BY DEF MergeContained, Merging, FirstInv, LayoutInv, imageVars, layoutVars
<1>2. Runs' = Runs
  BY <1>1 DEF Runs, BuilderRegion
<1>3. Merged = i - 1 /\ Merged' = i /\ i - 1 \in Nat /\ i \in Nat /\ i - 1 <= i
  BY <1>1, MergeState DEF Merged
<1> QED
  BY <1>1, <1>2, <1>3, SameBytes

LEMMA MergeTailBytes ==
  ASSUME FirstInv, LayoutInv', MergeTail
  PROVE  FirstInv'
<1>1. /\ pc = "merge" /\ pc' = "merge" /\ i' = i + 1
      /\ chunks[i].end > builder.end /\ Merging /\ i <= Len(chunks)
      /\ UNCHANGED <<chunks, regions>> /\ MemMapInv /\ MemMapInv'
      /\ builder \in [start : Address, end : Address, bytes : Seq(Byte), cap : Nat]
  BY DEF MergeTail, Merging, FirstInv, LayoutInv, imageVars, layoutVars, MemMapInv, TypeOK
<1>2. PICK c, x, y : c = chunks[i] /\ x = BuilderRegion /\ y = BuilderRegion'
  OBVIOUS
<1>3. /\ y.start = builder.start /\ y.end = c.end
      /\ y.bytes = builder.bytes \o TailOf(c)
  BY <1>1, <1>2 DEF MergeTail, BuilderRegion, MergedBytes
<1>4. x.start = builder.start /\ x.end = builder.end /\ x.bytes = builder.bytes
  BY <1>2 DEF BuilderRegion
<1>5. /\ Runs = Append(regions, x) /\ x \in LayoutRegion /\ regions \in Seq(LayoutRegion)
      /\ Runs' = Append(regions, y) /\ y \in LayoutRegion
      /\ Merged = i - 1 /\ Merged' = i /\ i \in Nat /\ i - 1 \in Nat /\ i > 0
  <2>1. /\ Runs = Append(regions, x) /\ x \in LayoutRegion /\ regions \in Seq(LayoutRegion)
        /\ Merged = i - 1 /\ i \in Nat /\ i - 1 \in Nat /\ i > 0
    BY <1>1, <1>2, MergeState
  <2>2. Runs' = Append(regions', y) /\ y \in LayoutRegion /\ Merged' = i' - 1
    BY <1>1, <1>2, MergeStateNext
  <2> QED
    BY <1>1, <2>1, <2>2
<1>6. AllFirst(regions, chunks, i - 1) /\ RunFirst(x, chunks, i - 1)
  BY <1>5, FirstInit DEF FirstInv
<1>7. PICK b \in Nat, e \in Nat, s \in Nat, t \in Nat :
        b = builder.start /\ e = builder.end /\ s = c.start /\ t = c.end
  BY <1>1, <1>2, ChunkAboveBuilder, MergeState
<1>8. PICK bs, tail, cb : bs = builder.bytes /\ tail = TailOf(c) /\ cb = c.bytes
  OBVIOUS
<1>9. /\ bs \in Seq(Byte) /\ tail \in Seq(Byte)
      /\ b <= e /\ e < t /\ s <= e + 1 /\ Len(bs) = e - b + 1 /\ Len(tail) = t - e
      /\ \A k \in 1 .. Len(tail) : tail[k] = cb[e + 1 - s + k]
  BY <1>1, <1>2, <1>7, <1>8, TailFacts, MergeState DEF BuilderFollowsChunks
<1>10. Joined(b, e, s, t, bs, tail, cb)
  <2>1. Joins(b, e, s, t, bs, tail, cb)
    BY <1>9 DEF Joins
  <2> QED
    BY <2>1, JoinedBytes
<1>11. RunFirst(y, chunks, i)
  <2> SUFFICES ASSUME NEW a \in Span(y) PROVE HoldsFirst(y, a, chunks, i)
    BY DEF RunFirst
  <2>1. a \in b .. t
    BY <1>3, <1>7 DEF Span
  <2>2. CASE a <= e
    <3>1. a \in b .. e /\ a \in Span(x)
      BY <1>4, <1>7, <2>1, <2>2 DEF Span
    <3>2. ByteAt(y, a) = ByteAt(x, a)
      <4>1. ByteAt(y, a) = (bs \o tail)[a - b + 1] /\ ByteAt(x, a) = bs[a - b + 1]
        BY <1>3, <1>4, <1>7, <1>8 DEF ByteAt
      <4> QED
        BY <1>10, <3>1, <4>1 DEF Joined
    <3>3. HoldsFirst(x, a, chunks, i - 1)
      BY <1>6, <3>1 DEF RunFirst
    <3>4. 1 .. i - 1 \subseteq 1 .. i
      BY <1>5
    <3> QED
      BY <3>2, <3>3, <3>4 DEF HoldsFirst
  <2>3. CASE a > e
    <3>1. a \in e + 1 .. t
      BY <2>1, <2>3
    <3>2. ByteAt(y, a) = ByteAt(c, a)
      <4>1. ByteAt(y, a) = (bs \o tail)[a - b + 1] /\ ByteAt(c, a) = cb[a - s + 1]
        BY <1>3, <1>7, <1>8 DEF ByteAt
      <4> QED
        BY <1>10, <3>1, <4>1 DEF Joined
    <3>3. a \in Span(c)
      BY <1>7, <1>9, <3>1 DEF Span
    <3>4. \A m \in 1 .. i - 1 : a \notin Span(chunks[m])
      BY <1>1, <1>7, <2>1, <2>3, EarlierChunksBelow
    <3>5. i \in 1 .. i
      BY <1>5
    <3> QED
      BY <1>2, <3>2, <3>3, <3>4, <3>5 DEF HoldsFirst
  <2> QED
    BY <2>1, <2>2, <2>3
<1>12. AllFirst(regions, chunks, i)
  <2>1. i - 1 <= i
    BY <1>5
  <2> QED
    BY <1>5, <1>6, <2>1, FirstGrows
<1>13. AllFirst(Append(regions, y), chunks, i)
  BY <1>5, <1>11, <1>12, FirstAppend
<1> QED
  BY <1>1, <1>5, <1>13 DEF FirstInv

LEMMA CloseRegionBytes ==
  ASSUME FirstInv, LayoutInv', CloseRegion
  PROVE  FirstInv'
<1>1. PICK c, x, y : c = chunks[i] /\ x = BuilderRegion /\ y = BuilderRegion'
  OBVIOUS
<1>2. /\ pc = "merge" /\ pc' = "merge" /\ i <= Len(chunks) /\ i' = i + 1
      /\ ~CanMerge(builder.end, c.start) /\ CanTakeRegion
      /\ regions' = RegionsTaken
      /\ builder' = BuilderFrom(c) /\ chunks' = chunks /\ MemMapInv /\ MemMapInv'
  BY <1>1 DEF CloseRegion, Separated, FirstInv, LayoutInv
<1>3. Runs \in Seq(LayoutRegion) /\ regions' = Runs
  BY <1>2, MergeState, RegionTaken
<1>4. /\ y \in LayoutRegion /\ Runs' = Append(Runs, y)
      /\ Merged = i - 1 /\ Merged' = i /\ i \in Nat /\ i - 1 \in Nat /\ i > 0
      /\ i - 1 <= i
  BY <1>1, <1>2, <1>3, MergeState, MergeStateNext
<1>5. y.start = c.start /\ y.end = c.end /\ y.bytes = c.bytes
  BY <1>1, <1>2 DEF BuilderRegion, BuilderFrom
<1>6. ASSUME NEW a \in Span(y), NEW m \in 1 .. i - 1 PROVE a \notin Span(chunks[m])
  <2>1. c.start \in Nat /\ c.end \in Nat /\ builder.end \in Nat
    BY <1>1, <1>2, ChunkAboveBuilder, MergeState
  <2>2. builder.end < c.start
    BY <1>2, <2>1 DEF CanMerge
  <2>3. a \in Int /\ a > builder.end
    BY <1>5, <2>1, <2>2 DEF Span
  <2> QED
    BY <1>2, <2>3, EarlierChunksBelow
<1>7. RunFirst(y, chunks, i)
  BY <1>1, <1>4, <1>5, <1>6, FreshRunFirst
<1>8. AllFirst(Runs, chunks, i)
  BY <1>4, FirstGrows DEF FirstInv
<1>9. AllFirst(Append(Runs, y), chunks, i)
  BY <1>3, <1>4, <1>7, <1>8, FirstAppend
<1> QED
  BY <1>2, <1>4, <1>9 DEF FirstInv

\* Every step keeps the bytes right.
LEMMA NextKeepsFirst ==
  ASSUME FirstInv, [Next]_vars
  PROVE  FirstInv'
<1>1. /\ LayoutInv /\ LayoutInv' /\ MemMapInv /\ MemMapInv'
  BY NextKeepsLayout DEF FirstInv, LayoutInv
<1>2. CASE ClientAddsChunk
  <2>1. /\ pc = "idle" /\ AddChunk /\ UNCHANGED <<pc, built>> /\ ImageInv
        /\ built \in 0 .. Len(chunks) /\ Len(chunks) \in Nat
    BY <1>1, <1>2 DEF ClientAddsChunk, loopVars, MemMapInv, TypeOK, ImageInv, ImageTypeOK
  <2>2. UNCHANGED layoutVars /\ \A k \in 1 .. Len(chunks) : chunks'[k] = chunks[k]
    BY <2>1, AddChunkExtends
  <2>3. Runs' = Runs /\ Merged = built /\ Merged' = built /\ built \in Nat
    BY <2>1, <2>2 DEF Runs, Merged, layoutVars
  <2>4. \A k \in 1 .. Merged : chunks'[k] = chunks[k]
    BY <2>1, <2>2, <2>3
  <2> QED
    BY <1>1, <2>3, <2>4, SameBytes
<1>3. CASE ClientClearsLayout \/ ReconstructEmpty
  BY <1>1, <1>3, EmptiedBytes DEF ClientClearsLayout, ReconstructEmpty, ClearLayout
<1>4. CASE ClientFreesImage
  BY <1>1, <1>4, EmptiedBytes DEF ClientFreesImage, FreeImage
<1>5. CASE ReconstructStart
  BY <1>1, <1>5, EmptiedBytes DEF ReconstructStart, ClearLayout
<1>6. CASE ReconstructStep
  <2>1. CASE OverlapFails \/ StartFails \/ MergeFails \/ CloseFails \/ FinishFails
    <3>1. Abandon
      BY <2>1 DEF OverlapFails, StartFails, MergeFails, CloseFails, CloseTakeFails,
    CloseGapFails, CloseStartFails, FinishFails
    <3> QED
      BY <1>1, <3>1, EmptiedBytes DEF Abandon, ClearLayout
  <2>2. CASE RecordOverlap
    BY <1>1, <2>2, EmptiedBytes DEF RecordOverlap, MemMapInv, LoopInv
  <2>3. CASE NextOverlapRow
    BY <1>1, <2>3, EmptiedBytes DEF NextOverlapRow, MemMapInv, LoopInv, imageVars, layoutVars
  <2>4. CASE StartBuilder \/ MergeContained \/ MergeTail
    BY <1>1, <2>4, StartBuilderBytes, MergeContainedBytes, MergeTailBytes
  <2>5. CASE CloseRegion
    BY <1>1, <2>5, CloseRegionBytes
  <2>6. CASE FinishLayout
    <3>1. /\ pc = "merge" /\ pc' = "idle" /\ i > Len(chunks) /\ CanTakeRegion
          /\ regions' = RegionsTaken /\ chunks' = chunks /\ built' = Len(chunks)
      BY <2>6 DEF FinishLayout
    <3>2. Runs' = Runs
      BY <1>1, <3>1, RegionTaken DEF Runs
    <3>3. /\ Merged = i - 1 /\ i \in 2 .. Len(chunks) + 1 /\ Len(chunks) \in Nat
          /\ Merged' = Len(chunks)
      BY <1>1, <3>1, MergeState DEF Merged
    <3>4. Merged' = Merged /\ Merged \in Nat
      BY <3>1, <3>3
    <3> QED
      BY <1>1, <3>1, <3>2, <3>4, SameBytes
  <2> QED
    BY <1>6, <2>1, <2>2, <2>3, <2>4, <2>5, <2>6 DEF ReconstructStep
<1>7. CASE UNCHANGED vars
  <2>1. /\ pc' = pc /\ built' = built /\ i' = i /\ builder' = builder
        /\ regions' = regions /\ chunks' = chunks
    BY <1>7 DEF vars, imageVars, layoutVars, loopVars
  <2>2. Runs' = Runs /\ Merged' = Merged
    BY <2>1 DEF Runs, Merged, BuilderRegion
  <2>3. AllFirst(Runs', chunks', Merged')
    BY <2>1, <2>2 DEF FirstInv
  <2> QED
    BY <1>1, <2>3 DEF FirstInv
<1> QED
  BY <1>2, <1>3, <1>4, <1>5, <1>6, <1>7 DEF Next

-----------------------------------------------------------------------------
(* Buffers: what the allocator hands out bounds every region.  The walks   *)
(* that read the regions rest on it, since their offsets must not wrap.    *)

BuffersGranted ==
  /\ pc = "merge" => builder.cap <= AllocMax
  /\ \A r \in 1 .. Len(regions) : Len(regions[r].bytes) <= AllocMax

BytesInv == LayoutInv /\ AllFirst(Runs, chunks, Merged) /\ BuffersGranted

\* The buffer that becomes a region is one the allocator granted.
LEMMA RegionTakenGranted ==
  ASSUME MemMapInv, BuffersGranted, pc = "merge", CanTakeRegion
  PROVE  \A r \in 1 .. Len(RegionsTaken) : Len(RegionsTaken[r].bytes) <= AllocMax
<1>1. /\ RegionsTaken = Append(regions, BuilderRegion)
      /\ regions \in Seq(LayoutRegion) /\ BuilderRegion.bytes = builder.bytes
  BY RegionTaken DEF BuilderRegion, MemMapInv, TypeOK
<1>2. Len(builder.bytes) <= AllocMax
  <2>1. /\ Len(builder.bytes) <= builder.cap /\ builder.cap <= AllocMax
        /\ Len(builder.bytes) \in Nat /\ builder.cap \in Nat
    BY DEF MemMapInv, WithinCapacity, BuffersGranted, TypeOK
  <2> QED
    BY <2>1, AddressArithmetic
<1>3. BuilderRegion \in LayoutRegion
  BY DEF MemMapInv, TypeOK, BuilderRegion, LayoutRegion
<1>4. /\ Len(RegionsTaken) = Len(regions) + 1 /\ Len(regions) \in Nat
      /\ \A r \in 1 .. Len(regions) : RegionsTaken[r] = regions[r]
      /\ RegionsTaken[Len(regions) + 1] = BuilderRegion
  BY <1>1, <1>3, AppendElements
<1> TAKE r \in 1 .. Len(RegionsTaken)
<1>5. CASE r \in 1 .. Len(regions)
  BY <1>4, <1>5 DEF BuffersGranted
<1>6. CASE r = Len(regions) + 1
  BY <1>1, <1>2, <1>4, <1>6
<1> QED
  BY <1>4, <1>5, <1>6

LEMMA NextKeepsGranted ==
  ASSUME MemMapInv, BuffersGranted, [Next]_vars
  PROVE  BuffersGranted'
<1>1. CASE ClientAddsChunk
  BY <1>1, AddChunkExtends DEF ClientAddsChunk, loopVars, BuffersGranted, layoutVars, MemMapInv
<1>2. CASE ClientClearsLayout \/ ReconstructEmpty \/ ClientFreesImage
  <2>1. pc' = "idle" /\ regions' = <<>>
    BY <1>2 DEF ClientClearsLayout, ReconstructEmpty, ClientFreesImage, FreeImage, ClearLayout
  <2> QED
    BY <2>1 DEF BuffersGranted
<1>3. CASE ReconstructStart \/ Abandon
  <2>1. pc' # "merge" /\ regions' = <<>>
    BY <1>3 DEF ReconstructStart, Abandon, ClearLayout
  <2> QED
    BY <2>1 DEF BuffersGranted
<1>4. CASE RecordOverlap \/ NextOverlapRow
  <2>1. pc' # "merge" /\ regions' = regions
    BY <1>4 DEF RecordOverlap, NextOverlapRow, imageVars, layoutVars
  <2> QED
    BY <2>1 DEF BuffersGranted
<1>5. CASE StartBuilder
  <2>1. /\ builder' = BuilderFrom(chunks[1]) /\ regions' = regions
        /\ Len(chunks[1].bytes) <= AllocMax
    BY <1>5 DEF StartBuilder, Grantable, imageVars, layoutVars
  <2> QED
    BY <2>1 DEF BuffersGranted, BuilderFrom
<1>6. CASE MergeContained
  BY <1>6 DEF MergeContained, Merging, BuffersGranted, imageVars, layoutVars
<1>7. CASE MergeTail
  <2> DEFINE cap == BuilderCapacity(TailOf(chunks[i]))
  <2>1. /\ pc = "merge" /\ regions' = regions
        /\ cap # builder.cap => cap <= AllocMax
        /\ builder' = [builder EXCEPT !.end = chunks[i].end,
                                      !.bytes = MergedBytes(chunks[i]), !.cap = cap]
    BY <1>7 DEF MergeTail, Merging, Grantable, imageVars, layoutVars
  <2> HIDE DEF cap
  <2>2. builder'.cap = cap
    BY <2>1 DEF MemMapInv, TypeOK
  <2> QED
    BY <2>1, <2>2 DEF BuffersGranted
<1>8. CASE CloseRegion
  <2>1. /\ pc = "merge" /\ CanTakeRegion /\ regions' = RegionsTaken
        /\ builder' = BuilderFrom(chunks[i]) /\ Len(chunks[i].bytes) <= AllocMax
    BY <1>8 DEF CloseRegion, Separated, Grantable
  <2> QED
    BY <2>1, RegionTakenGranted DEF BuffersGranted, BuilderFrom
<1>9. CASE FinishLayout
  BY <1>9, RegionTakenGranted DEF FinishLayout, BuffersGranted
<1>10. CASE UNCHANGED vars
  BY <1>10 DEF vars, imageVars, layoutVars, loopVars, BuffersGranted
<1> QED
  BY <1>1, <1>2, <1>3, <1>4, <1>5, <1>6, <1>7, <1>8, <1>9, <1>10
  DEF Next, ReconstructStep, OverlapFails, StartFails, MergeFails, CloseFails, CloseTakeFails,
    CloseGapFails, CloseStartFails, FinishFails

LEMMA NextKeepsBytes ==
  ASSUME BytesInv, [Next]_vars
  PROVE  BytesInv'
BY NextKeepsFirst, NextKeepsGranted DEF BytesInv, FirstInv, LayoutInv

LEMMA BytesInvariance == Spec => []BytesInv
<1>1. Init => BytesInv
  <2> SUFFICES ASSUME Init PROVE BytesInv
    OBVIOUS
  <2>1. MemMapInv /\ Runs = <<>> /\ gaps = <<>> /\ Merged = 0
    BY InitialInv DEF Init, ImageInit, Runs, Merged
  <2>2. AllFirst(<<>>, chunks, 0)
    BY DEF AllFirst
  <2>3. BuffersGranted
    BY DEF Init, ImageInit, BuffersGranted
  <2> QED
    BY <2>1, <2>2, <2>3, EmptyLayout DEF LayoutInv, BytesInv
<1>2. BytesInv /\ [Next]_vars => BytesInv'
  BY NextKeepsBytes
<1> QED
  BY <1>1, <1>2, PTL DEF Spec

-----------------------------------------------------------------------------
(* The theorems on the layout.                                             *)

\* Regions come in address order, at least one unloaded address lies between
\* neighbours, and each holds one byte per address (memmap.c:433-440, 476-507).
THEOREM RegionsAlwaysSeparated == Spec => []RegionsSeparated
<1>1. LayoutInv => RegionsSeparated
  BY LayoutInvImplies
<1> QED
  BY <1>1, LayoutInvariance, PTL

\* The gaps are exactly the unloaded addresses between neighbouring regions,
\* also next to the last address, where an end plus one could wrap
\* (memmap.c:492-499).
THEOREM GapsAlwaysExact == Spec => []GapsBetweenRegions
<1>1. LayoutInv => GapsBetweenRegions
  BY LayoutInvImplies
<1> QED
  BY <1>1, LayoutInvariance, PTL

\* An address is in a region exactly when a chunk the layout was built from
\* holds it: merging loses none and invents none (memmap.c:310-346, 476-507).
THEOREM RegionsAlwaysCover == Spec => []RegionsCoverChunks
<1>1. LayoutInv => RegionsCoverChunks
  BY LayoutInvImplies
<1> QED
  BY <1>1, LayoutInvariance, PTL

\* Where chunks disagree, the region keeps the byte of the first chunk in sort
\* order, however many chunks overlap there and however often the builder's
\* buffer moved (memmap.c:310-346; test_memmap.c:141).
THEOREM FirstChunkAlwaysWins == Spec => []FirstChunkWins
<1>1. BytesInv => FirstChunkWins
  BY DEF BytesInv, AllFirst, RunFirst, HoldsFirst, FirstChunkWins
<1> QED
  BY <1>1, BytesInvariance, PTL

-----------------------------------------------------------------------------
(* The overlap scan.                                                       *)

\* What is said of a pair of chunks depends on nothing but the two chunks.
LEMMA SamePair ==
  ASSUME NEW p, NEW q, chunks'[p] = chunks[p], chunks'[q] = chunks[q]
  PROVE  OverlapOf(p, q)' = OverlapOf(p, q) /\ Intersecting(p, q)' = Intersecting(p, q)
BY DEF OverlapOf, OverlapStart, OverlapEnd, Conflicting, ByteAt, Intersecting, Span

\* A step that records nothing keeps the table right when it passes over no pair
\* of chunks that share an address and forgets no pair it had passed.
LEMMA SameOverlaps ==
  ASSUME OverlapsComplete, Len(chunks) \in Nat, Len(chunks') \in Nat,
         Len(chunks) <= Len(chunks'), overlaps' = overlaps,
         \A p, q \in 1 .. Len(chunks) : Scanned(p, q) =>
           /\ Scanned(p, q)'
           /\ chunks'[p] = chunks[p] /\ chunks'[q] = chunks[q],
         \A p, q \in 1 .. Len(chunks') : Scanned(p, q)' /\ Intersecting(p, q)' =>
           p \in 1 .. Len(chunks) /\ q \in 1 .. Len(chunks) /\ Scanned(p, q)
  PROVE  OverlapsComplete'
<1>1. ASSUME NEW p \in 1 .. Len(chunks'), NEW q \in 1 .. Len(chunks'),
             Scanned(p, q)', Intersecting(p, q)'
      PROVE  \E o \in 1 .. Len(overlaps') : overlaps'[o] = OverlapOf(p, q)'
  <2>1. p \in 1 .. Len(chunks) /\ q \in 1 .. Len(chunks) /\ Scanned(p, q)
    BY <1>1
  <2>2. OverlapOf(p, q)' = OverlapOf(p, q) /\ Intersecting(p, q)
    BY <1>1, <2>1, SamePair
  <2> QED
    BY <2>1, <2>2 DEF OverlapsComplete
<1>2. ASSUME NEW o \in 1 .. Len(overlaps'), NEW p, NEW q,
             p = overlaps[o].first, q = overlaps[o].second
      PROVE  /\ p \in 1 .. Len(chunks') /\ q \in 1 .. Len(chunks')
             /\ Scanned(p, q)' /\ Intersecting(p, q)'
             /\ overlaps[o] = OverlapOf(p, q)'
  <2>1. /\ p \in 1 .. Len(chunks) /\ q \in 1 .. Len(chunks)
        /\ Scanned(p, q) /\ Intersecting(p, q) /\ overlaps[o] = OverlapOf(p, q)
    BY <1>2 DEF OverlapsComplete
  <2>2. Scanned(p, q)' /\ chunks'[p] = chunks[p] /\ chunks'[q] = chunks[q]
    BY <2>1
  <2>3. OverlapOf(p, q)' = OverlapOf(p, q) /\ Intersecting(p, q)'
    BY <2>1, <2>2, SamePair
  <2>4. p \in 1 .. Len(chunks') /\ q \in 1 .. Len(chunks')
    BY <2>1
  <2> QED
    BY <2>1, <2>2, <2>3, <2>4
<1>3. \A o, u \in 1 .. Len(overlaps') :
        overlaps'[o].first = overlaps'[u].first /\ overlaps'[o].second = overlaps'[u].second
          => o = u
  BY DEF OverlapsComplete
<1> QED
  BY <1>1, <1>2, <1>3 DEF OverlapsComplete

\* A table with nothing in it is complete while no pair has been passed.
LEMMA NoOverlapsYet ==
  ASSUME overlaps' = <<>>, \A p, q \in 1 .. Len(chunks') : ~Scanned(p, q)'
  PROVE  OverlapsComplete'
BY DEF OverlapsComplete

\* A row ends at the first chunk past its end: every later chunk starts there too.
LEMMA RowEnds ==
  ASSUME MemMapInv, pc = "overlap", ~InnerLoop,
         NEW q \in j .. Len(chunks)
  PROVE  ~Intersecting(i, q)
<1>1. /\ ImageInv /\ Ordered(chunks) /\ Len(chunks) \in Nat
      /\ i \in 1 .. Len(chunks) /\ j \in i + 1 .. Len(chunks) + 1
  BY DEF MemMapInv, LoopInv, ImageInv, ImageTypeOK
<1>2. j \in 1 .. Len(chunks) /\ q \in 1 .. Len(chunks) /\ j <= q
  BY <1>1
<1>3. chunks[j].start <= chunks[q].start
  BY <1>1, <1>2, OrderedStarts
<1>4. /\ chunks[i].start \in Nat /\ chunks[i].end \in Nat /\ chunks[j].start \in Nat
      /\ chunks[q].start \in Nat /\ chunks[q].end \in Nat
  BY <1>1, <1>2, ChunkFacts, AddressArithmetic
<1>5. chunks[i].end < chunks[j].start
  BY <1>2, <1>4 DEF InnerLoop
<1>6. PICK e, s, t \in Nat : e = chunks[i].end /\ s = chunks[q].start /\ t = chunks[q].end
  BY <1>4
<1>7. e < s
  BY <1>3, <1>4, <1>5, <1>6
<1> QED
  BY <1>4, <1>6, <1>7 DEF Intersecting, Span

\* Recording a pair enters it in the table as the pair it is.
LEMMA RecordOverlapComplete ==
  ASSUME OverlapsComplete, MemMapInv, RecordOverlap
  PROVE  OverlapsComplete'
<1>1. /\ ImageInv /\ Ordered(chunks) /\ Len(chunks) \in Nat /\ pc = "overlap" /\ pc' = "overlap"
      /\ i \in 1 .. Len(chunks) /\ j \in 1 .. Len(chunks) /\ i < j
      /\ chunks[j].start <= chunks[i].end /\ i' = i /\ j' = j + 1
      /\ overlaps' = Append(overlaps, OverlapOf(i, j)) /\ chunks' = chunks
      /\ built' = built
  <2>1. /\ ImageInv /\ Ordered(chunks) /\ Len(chunks) \in Nat /\ pc = "overlap"
        /\ i \in 1 .. Len(chunks) /\ j \in i + 1 .. Len(chunks) + 1
    BY DEF RecordOverlap, MemMapInv, LoopInv, ImageInv, ImageTypeOK
  <2> QED
    BY <2>1 DEF RecordOverlap, InnerLoop
<1>2. PICK new : new = OverlapOf(i, j)
  OBVIOUS
<1>3. new.first = i /\ new.second = j
  BY <1>2 DEF OverlapOf
<1>4. /\ Len(overlaps) \in Nat /\ Len(overlaps') = Len(overlaps) + 1
      /\ \A k \in 1 .. Len(overlaps) : overlaps'[k] = overlaps[k]
      /\ overlaps'[Len(overlaps) + 1] = new
  <2>1. overlaps \in Seq(LayoutOverlap)
    BY DEF MemMapInv, TypeOK
  <2>2. overlaps \in Seq(LayoutOverlap \cup {new}) /\ new \in LayoutOverlap \cup {new}
    BY <2>1
  <2> QED
    BY <1>1, <1>2, <2>2, AppendElements
<1>5. \A p, q \in 1 .. Len(chunks) :
        Scanned(p, q)' <=> Scanned(p, q) \/ (p = i /\ q = j)
  BY <1>1 DEF Scanned
<1>6. \A p, q : OverlapOf(p, q)' = OverlapOf(p, q) /\ Intersecting(p, q)' = Intersecting(p, q)
  BY <1>1, SamePair
<1>7. Intersecting(i, j)
  <2>1. chunks[i].start <= chunks[j].start
    BY <1>1, OrderedStarts
  <2>2. /\ chunks[i].start \in Nat /\ chunks[i].end \in Nat
        /\ chunks[j].start \in Nat /\ chunks[j].end \in Nat
        /\ chunks[j].start <= chunks[j].end
    BY <1>1, ChunkFacts, AddressArithmetic
  <2>3. chunks[j].start \in Span(chunks[i]) /\ chunks[j].start \in Span(chunks[j])
    BY <1>1, <2>1, <2>2 DEF Span
  <2> QED
    BY <2>3 DEF Intersecting
<1>8. ~Scanned(i, j)
  BY <1>1 DEF Scanned
<1>9. \A o \in 1 .. Len(overlaps) : ~(overlaps[o].first = i /\ overlaps[o].second = j)
  BY <1>8 DEF OverlapsComplete
<1>10. ASSUME NEW p \in 1 .. Len(chunks'), NEW q \in 1 .. Len(chunks'),
              Scanned(p, q)', Intersecting(p, q)'
       PROVE  \E o \in 1 .. Len(overlaps') : overlaps'[o] = OverlapOf(p, q)'
  <2>1. CASE p = i /\ q = j
    BY <1>2, <1>4, <1>6, <2>1
  <2>2. CASE ~(p = i /\ q = j)
    <3>1. Scanned(p, q) /\ Intersecting(p, q) /\ p \in 1 .. Len(chunks) /\ q \in 1 .. Len(chunks)
      BY <1>1, <1>5, <1>6, <1>10, <2>2
    <3>2. PICK o \in 1 .. Len(overlaps) : overlaps[o] = OverlapOf(p, q)
      BY <3>1 DEF OverlapsComplete
    <3>3. o \in 1 .. Len(overlaps') /\ overlaps'[o] = OverlapOf(p, q)'
      BY <1>4, <1>6, <3>2
    <3> QED
      BY <3>3
  <2> QED
    BY <2>1, <2>2
<1>11. ASSUME NEW o \in 1 .. Len(overlaps'), NEW p, NEW q,
              p = overlaps'[o].first, q = overlaps'[o].second
       PROVE  /\ p \in 1 .. Len(chunks') /\ q \in 1 .. Len(chunks')
              /\ Scanned(p, q)' /\ Intersecting(p, q)'
              /\ overlaps'[o] = OverlapOf(p, q)'
  <2>1. CASE o \in 1 .. Len(overlaps)
    <3>1. overlaps'[o] = overlaps[o] /\ p = overlaps[o].first /\ q = overlaps[o].second
      BY <1>4, <1>11, <2>1
    <3>2. /\ p \in 1 .. Len(chunks) /\ q \in 1 .. Len(chunks)
          /\ Scanned(p, q) /\ Intersecting(p, q) /\ overlaps[o] = OverlapOf(p, q)
      BY <2>1, <3>1 DEF OverlapsComplete
    <3> QED
      BY <1>1, <1>5, <1>6, <3>1, <3>2
  <2>2. CASE o = Len(overlaps) + 1
    <3>1. overlaps'[o] = new /\ p = i /\ q = j
      BY <1>3, <1>4, <1>11, <2>2
    <3> QED
      BY <1>1, <1>2, <1>5, <1>6, <1>7, <3>1
  <2> QED
    BY <1>4, <2>1, <2>2
<1>12. ASSUME NEW o \in 1 .. Len(overlaps'), NEW u \in 1 .. Len(overlaps'),
              overlaps'[o].first = overlaps'[u].first,
              overlaps'[o].second = overlaps'[u].second
       PROVE  o = u
  <2>1. CASE o \in 1 .. Len(overlaps) /\ u \in 1 .. Len(overlaps)
    <3>1. overlaps'[o] = overlaps[o] /\ overlaps'[u] = overlaps[u]
      BY <1>4, <2>1
    <3> QED
      BY <1>12, <2>1, <3>1 DEF OverlapsComplete
  <2>2. CASE o = Len(overlaps) + 1 /\ u \in 1 .. Len(overlaps)
    BY <1>3, <1>4, <1>9, <1>12, <2>2
  <2>3. CASE o \in 1 .. Len(overlaps) /\ u = Len(overlaps) + 1
    BY <1>3, <1>4, <1>9, <1>12, <2>3
  <2> QED
    BY <1>4, <2>1, <2>2, <2>3
<1> QED
  BY <1>10, <1>11, <1>12 DEF OverlapsComplete

\* The scan leaves a row where the chunks are sorted too far to intersect.
LEMMA NextOverlapRowComplete ==
  ASSUME OverlapsComplete, MemMapInv, NextOverlapRow
  PROVE  OverlapsComplete'
<1>1. /\ Len(chunks) \in Nat /\ pc = "overlap" /\ ~InnerLoop
      /\ i \in 1 .. Len(chunks) /\ j \in i + 1 .. Len(chunks) + 1
      /\ pc' = (IF i = Len(chunks) THEN "start" ELSE "overlap")
      /\ i' = i + 1 /\ j' = i + 2
      /\ overlaps' = overlaps /\ chunks' = chunks /\ built' = built
  BY DEF NextOverlapRow, MemMapInv, LoopInv, ImageInv, ImageTypeOK, imageVars, layoutVars
<1>2. \A p, q \in 1 .. Len(chunks) : Scanned(p, q) => Scanned(p, q)'
  BY <1>1 DEF Scanned
<1>3. \A p, q \in 1 .. Len(chunks) :
        Scanned(p, q)' => Scanned(p, q) \/ (p = i /\ q \in j .. Len(chunks))
  BY <1>1 DEF Scanned
<1>4. PICK row : row = i
  OBVIOUS
<1>5. ASSUME NEW q \in j .. Len(chunks) PROVE ~Intersecting(row, q)'
  <2>1. ~Intersecting(row, q)
    BY <1>1, <1>4, RowEnds
  <2> QED
    BY <1>1, <2>1, SamePair
<1>6. \A p, q \in 1 .. Len(chunks') : Scanned(p, q)' /\ Intersecting(p, q)' => Scanned(p, q)
  BY <1>1, <1>3, <1>4, <1>5
<1> QED
  BY <1>1, <1>2, <1>6, SameOverlaps

\* No step loses, repeats or invents an overlap.
LEMMA NextKeepsOverlaps ==
  ASSUME OverlapsComplete, MemMapInv, [Next]_vars
  PROVE  OverlapsComplete'
<1>0. Len(chunks) \in Nat /\ built \in 0 .. Len(chunks) /\ i \in Nat /\ ImageInv
  BY DEF MemMapInv, TypeOK, ImageInv, ImageTypeOK
<1>1. CASE ClientAddsChunk
  <2>1. /\ pc = "idle" /\ AddChunk /\ pc' = pc /\ built' = built
    BY <1>1 DEF ClientAddsChunk, loopVars
  <2>2. /\ Len(chunks') \in Nat /\ Len(chunks) <= Len(chunks')
        /\ \A k \in 1 .. Len(chunks) : chunks'[k] = chunks[k]
        /\ overlaps' = overlaps
    BY <1>0, <2>1, AddChunkExtends DEF layoutVars
  <2>3. \A p, q \in Nat : Scanned(p, q)' <=> Scanned(p, q)
    BY <1>0, <2>1 DEF Scanned
  <2>4. \A p, q \in Nat \ {0} : Scanned(p, q) => p \in 1 .. Len(chunks) /\ q \in 1 .. Len(chunks)
    BY <1>0, <2>1 DEF Scanned
  <2> QED
    BY <1>0, <2>2, <2>3, <2>4, SameOverlaps
<1>2. CASE ClearLayout /\ pc' = "idle" /\ built' = 0
  <2>1. \A p, q \in 1 .. Len(chunks') : ~Scanned(p, q)'
    BY <1>2 DEF Scanned
  <2> QED
    BY <1>2, <2>1, NoOverlapsYet DEF ClearLayout
<1>3. CASE ClientFreesImage
  <2>1. chunks' = <<>> /\ overlaps' = <<>>
    BY <1>3 DEF ClientFreesImage, FreeImage
  <2> QED
    BY <2>1, NoOverlapsYet
<1>4. CASE ReconstructStart
  <2>1. pc' = "overlap" /\ i' = 1 /\ j' = 2 /\ overlaps' = <<>>
    BY <1>4 DEF ReconstructStart, ClearLayout
  <2>2. \A p, q \in 1 .. Len(chunks') : ~Scanned(p, q)'
    BY <2>1 DEF Scanned
  <2> QED
    BY <2>1, <2>2, NoOverlapsYet
<1>5. CASE StartBuilder \/ MergeContained \/ MergeTail \/ CloseRegion \/ FinishLayout
  <2>1. /\ chunks' = chunks /\ overlaps' = overlaps /\ pc \in {"start", "merge"}
        /\ pc' = "merge" \/ (pc' = "idle" /\ built' = Len(chunks))
    BY <1>5 DEF StartBuilder, MergeContained, MergeTail, CloseRegion, FinishLayout,
                Merging, Separated, imageVars, layoutVars
  <2>2. \A p, q \in 1 .. Len(chunks) : Scanned(p, q)' <=> Scanned(p, q)
    BY <1>0, <2>1 DEF Scanned
  <2> QED
    BY <1>0, <2>1, <2>2, SameOverlaps
<1>6. CASE UNCHANGED vars
  <2>1. /\ pc' = pc /\ built' = built /\ i' = i /\ j' = j
        /\ overlaps' = overlaps /\ chunks' = chunks
    BY <1>6 DEF vars, imageVars, layoutVars, loopVars
  <2>2. \A p, q \in 1 .. Len(chunks) : Scanned(p, q)' <=> Scanned(p, q)
    BY <2>1 DEF Scanned
  <2> QED
    BY <1>0, <2>1, <2>2, SameOverlaps
<1>7. CASE OverlapFails \/ StartFails \/ MergeFails \/ CloseFails \/ FinishFails
  <2>1. Abandon
    BY <1>7 DEF OverlapFails, StartFails, MergeFails, CloseFails, CloseTakeFails,
    CloseGapFails, CloseStartFails, FinishFails
  <2> QED
    BY <1>2, <2>1 DEF Abandon
<1>8. CASE ClientClearsLayout \/ ReconstructEmpty
  BY <1>2, <1>8 DEF ClientClearsLayout, ReconstructEmpty
<1>9. CASE RecordOverlap \/ NextOverlapRow
  BY <1>9, RecordOverlapComplete, NextOverlapRowComplete
<1> QED
  BY <1>1, <1>3, <1>4, <1>5, <1>6, <1>7, <1>8, <1>9 DEF Next, ReconstructStep

\* An image between calls that nothing was laid out of is fit to be laid out.
LEMMA FreshLayout ==
  ASSUME ImageInv, pc = "idle", regions = <<>>, gaps = <<>>, overlaps = <<>>,
         \A t \in Tables \ {"chunks"} : capacity[t] = 0,
         i = 1, j = 1, builder = NoBuilder, built = 0
  PROVE  BytesInv /\ OverlapsComplete
<1>1. /\ ImageTypeOK /\ ChunkTableHolds /\ chunks \in Seq(SourceChunk) /\ Len(chunks) \in Nat
      /\ capacity \in [Tables -> Nat]
  BY DEF ImageInv, ImageTypeOK
<1>2. /\ regions \in Seq(LayoutRegion) /\ gaps \in Seq(LayoutGap)
      /\ overlaps \in Seq(LayoutOverlap) /\ built \in 0 .. Len(chunks)
  BY <1>1
<1>3. TypeOK
  BY <1>1, <1>2, NoBuilderTyped DEF TypeOK
<1>4. LoopInv
  BY DEF LoopInv
<1>5. WithinCapacity
  <2>1. /\ "regions" \in Tables /\ "gaps" \in Tables /\ "overlaps" \in Tables
        /\ \A t \in Tables : EntrySize[t] \in Nat
    BY WidthAssumption, TableAssumption DEF WidthAssumption, TableAssumption, Tables
  <2>2. /\ Len(regions) = 0 /\ Len(gaps) = 0 /\ Len(overlaps) = 0
        /\ capacity["regions"] = 0 /\ capacity["gaps"] = 0 /\ capacity["overlaps"] = 0
    BY <2>1
  <2>3. ASSUME NEW t \in Tables PROVE capacity[t] * EntrySize[t] <= AllocMax
    <3>1. CASE t = "chunks"
      BY <1>1, <3>1 DEF ChunkTableHolds
    <3>2. CASE t # "chunks"
      <4>1. capacity[t] = 0 /\ EntrySize[t] \in Nat
        BY <2>1, <3>2
      <4> QED
        BY <4>1, AddressArithmetic
    <3> QED
      BY <3>1, <3>2
  <2>4. Len(chunks) <= capacity["chunks"]
    BY <1>1 DEF ChunkTableHolds
  <2> QED
    BY <2>2, <2>3, <2>4, NoBuilderTyped DEF WithinCapacity
<1>6. Runs = <<>> /\ Merged = 0
  BY DEF Runs, Merged
<1>7. LayoutInv
  BY <1>3, <1>4, <1>5, <1>6, EmptyLayout DEF LayoutInv, MemMapInv
<1>8. AllFirst(<<>>, chunks, 0)
  BY DEF AllFirst
<1>9. OverlapsComplete
  <2>1. \A p, q \in 1 .. Len(chunks) : ~Scanned(p, q)
    BY <1>1 DEF Scanned
  <2> QED
    BY <2>1 DEF OverlapsComplete
<1>10. BuffersGranted
  BY DEF BuffersGranted
<1> QED
  BY <1>6, <1>7, <1>8, <1>9, <1>10 DEF BytesInv

LEMMA OverlapsInvariance == Spec => [](MemMapInv /\ OverlapsComplete)
<1>1. Init => MemMapInv /\ OverlapsComplete
  BY InitialInv DEF Init, ImageInit, OverlapsComplete
<1>2. MemMapInv /\ OverlapsComplete /\ [Next]_vars => (MemMapInv /\ OverlapsComplete)'
  BY NextKeepsInv, NextKeepsOverlaps
<1> QED
  BY <1>1, <1>2, PTL DEF Spec

\* Whatever the chunks and however the scan of a row is cut short, every pair of
\* chunks that share an address is reported once, with its range, kind and
\* origins, and no other pair is (memmap.c:389-428).
THEOREM OverlapsAlwaysComplete == Spec => []OverlapsComplete
BY OverlapsInvariance, PTL


-----------------------------------------------------------------------------
(* Sequences of ranges that never touch.                                   *)

Apart(ts) ==
  /\ Len(ts) \in Nat
  /\ \A r \in 1 .. Len(ts) : ts[r].start \in Int /\ ts[r].end \in Int /\ ts[r].start <= ts[r].end
  /\ \A p, q \in 1 .. Len(ts) : p < q => ts[p].end + 1 < ts[q].start

\* Neighbours that do not touch keep every pair apart.
LEMMA SeparateApart ==
  ASSUME NEW rs \in Seq(LayoutRegion), Separate(rs)
  PROVE  Apart(rs)
<1>1. /\ Len(rs) \in Nat
      /\ \A r \in 1 .. Len(rs) : rs[r] \in LayoutRegion
  OBVIOUS
<1>2. \A r \in 1 .. Len(rs) :
        rs[r].start \in Int /\ rs[r].end \in Int /\ rs[r].start <= rs[r].end
  <2> SUFFICES ASSUME NEW r \in 1 .. Len(rs)
               PROVE  rs[r].start \in Int /\ rs[r].end \in Int /\ rs[r].start <= rs[r].end
    OBVIOUS
  <2>1. rs[r].start \in Address /\ rs[r].end \in Address
    BY <1>1 DEF LayoutRegion
  <2>2. rs[r].start <= rs[r].end
    BY DEF Separate, Sound
  <2> QED
    BY <2>1, <2>2, AddressArithmetic
<1>3. ASSUME NEW p \in 1 .. Len(rs)
      PROVE  \A q \in 1 .. Len(rs) : p < q => rs[p].end + 1 < rs[q].start
  <2> DEFINE Touching == {q \in 1 .. Len(rs) : p < q /\ ~(rs[p].end + 1 < rs[q].start)}
  <2>1. CASE Touching # {}
    <3>1. Touching \in SUBSET Nat
      BY <1>1
    <3>2. PICK q \in Touching : \A m \in Touching : q <= m
      BY <2>1, <3>1, LeastExists
    <3>3. q \in 1 .. Len(rs) /\ p < q /\ ~(rs[p].end + 1 < rs[q].start)
      OBVIOUS
    <3>4. q - 1 \in 1 .. Len(rs) - 1 /\ q - 1 \in 1 .. Len(rs) /\ (q - 1) + 1 = q
      BY <1>1, <3>3
    <3>5. rs[q - 1].end + 1 < rs[q].start
      BY <3>4 DEF Separate
    <3>6. CASE q - 1 = p
      BY <3>3, <3>5, <3>6
    <3>7. CASE q - 1 # p
      <4>1. p < q - 1 /\ ~(q <= q - 1)
        BY <1>1, <3>3, <3>7
      <4>2. q - 1 \notin Touching
        BY <3>2, <4>1
      <4> HIDE DEF Touching
      <4>3. rs[p].end + 1 < rs[q - 1].start
        BY <3>4, <4>1, <4>2 DEF Touching
      <4>4. PICK a, s, e, t \in Int :
              a = rs[p].end /\ s = rs[q - 1].start /\ e = rs[q - 1].end /\ t = rs[q].start
        BY <1>2, <3>3, <3>4
      <4>5. s <= e /\ a + 1 < s /\ e + 1 < t
        BY <1>2, <3>4, <3>5, <4>3, <4>4
      <4>6. a + 1 < t
        BY <4>5
      <4> QED
        BY <3>3, <4>4, <4>6
    <3> QED
      BY <3>6, <3>7
  <2>2. CASE Touching = {}
    BY <2>2
  <2> QED
    BY <2>1, <2>2
<1> QED
  BY <1>1, <1>2, <1>3 DEF Apart

\* Where an address of range r lies with respect to range q.
LEMMA ApartOrder ==
  ASSUME NEW ts, Apart(ts), NEW r \in 1 .. Len(ts), NEW a \in Int,
         ts[r].start - 1 <= a, a <= ts[r].end + 1, NEW q \in 1 .. Len(ts)
  PROVE  /\ q < r => ts[q].end < a
         /\ r < q => a < ts[q].start
<1>1. PICK s, e, u, v \in Int : s = ts[r].start /\ e = ts[r].end /\ u = ts[q].start /\ v = ts[q].end
  BY DEF Apart
<1>2. /\ q < r => v + 1 < s
      /\ r < q => e + 1 < u
  BY <1>1 DEF Apart
<1>3. s - 1 <= a /\ a <= e + 1
  BY <1>1
<1>4. (q < r => v < a) /\ (r < q => a < u)
  BY <1>2, <1>3
<1> QED
  BY <1>1, <1>4

\* An address beside a range or in it is in no other range.
LEMMA ApartAlone ==
  ASSUME NEW ts, Apart(ts), NEW r \in 1 .. Len(ts), NEW a \in Int,
         ts[r].start - 1 <= a, a <= ts[r].end + 1,
         NEW q \in 1 .. Len(ts), a \in Span(ts[q])
  PROVE  q = r
<1>1. r \in Nat /\ q \in Nat
  BY DEF Apart
<1>2. ts[q].start <= a /\ a <= ts[q].end /\ ts[q].start \in Int /\ ts[q].end \in Int
  BY DEF Span, Apart
<1>3. ~(q < r) /\ ~(r < q)
  BY <1>2, ApartOrder
<1> QED
  BY <1>1, <1>3

\* The two parts of a pair.
LEMMA PairParts ==
  ASSUME NEW S, NEW run \in S \X S
  PROVE  \E x \in S, y \in S : run = <<x, y>>
<1> WITNESS run[1] \in S, run[2] \in S
<1> QED
  OBVIOUS

\* Ranges that never touch are the maximal runs of the addresses they cover.
LEMMA RangesAreRuns ==
  ASSUME NEW ts, Apart(ts), NEW S \in SUBSET Int, \A a \in Int : a \in S <=> Covered(a, ts)
  PROVE  Abstract!Lists(ts, S)
<1>1. ASSUME NEW r \in 1 .. Len(ts)
      PROVE  /\ ts[r].start \in Int /\ ts[r].end \in Int /\ ts[r].start <= ts[r].end
             /\ ts[r].start - 1 \notin S /\ ts[r].end + 1 \notin S
             /\ ts[r].start .. ts[r].end \subseteq S
  <2>1. PICK s, e \in Int : s = ts[r].start /\ e = ts[r].end
    BY DEF Apart
  <2>2. s <= e
    BY <2>1 DEF Apart
  <2>3. s .. e \subseteq S
    BY <2>1 DEF Covered, Span
  <2>4. ASSUME NEW a \in {s - 1, e + 1} PROVE a \notin S
    <3>1. SUFFICES ASSUME a \in S PROVE FALSE
      OBVIOUS
    <3>2. PICK q \in 1 .. Len(ts) : a \in Span(ts[q])
      BY <3>1 DEF Covered
    <3>3. a \in Int /\ s - 1 <= a /\ a <= e + 1
      BY <2>2
    <3>4. q = r
      BY <2>1, <3>2, <3>3, ApartAlone
    <3>5. a \in s .. e
      BY <2>1, <3>2, <3>4 DEF Span
    <3> QED
      BY <3>5
  <2> QED
    BY <2>1, <2>2, <2>3, <2>4
<1>2. Abstract!Ascending(ts)
  <2> SUFFICES ASSUME NEW p \in 1 .. Len(ts), NEW q \in 1 .. Len(ts), p < q
               PROVE  ts[p].end < ts[q].start
    BY DEF Abstract!Ascending
  <2>1. ts[p].end \in Int /\ ts[q].start \in Int /\ ts[p].end + 1 < ts[q].start
    BY DEF Apart
  <2> QED
    BY <2>1
<1>3. ASSUME NEW r \in 1 .. Len(ts)
      PROVE  <<ts[r].start, ts[r].end>> \in Abstract!MaximalRuns(S)
  <2>1. PICK s, e \in Int : s = ts[r].start /\ e = ts[r].end
    BY <1>1
  <2>2. s <= e /\ s - 1 \notin S /\ e + 1 \notin S /\ s .. e \subseteq S
    BY <1>1, <2>1
  <2>3. s \in S /\ e \in S
    BY <2>2
  <2> QED
    BY <2>1, <2>2, <2>3 DEF Abstract!MaximalRuns
<1>4. ASSUME NEW x \in S, NEW y \in S, x - 1 \notin S, y + 1 \notin S, x <= y, x .. y \subseteq S
      PROVE  \E r \in 1 .. Len(ts) : x = ts[r].start /\ y = ts[r].end
  <2>1. PICK r \in 1 .. Len(ts) : x \in Span(ts[r])
    BY DEF Covered
  <2>2. PICK s, e \in Int : s = ts[r].start /\ e = ts[r].end
    BY <1>1
  <2>3. s <= e /\ s - 1 \notin S /\ e + 1 \notin S /\ s .. e \subseteq S
    BY <1>1, <2>2
  <2>4. x \in Int /\ y \in Int /\ s <= x /\ x <= e
    BY <2>1, <2>2 DEF Span
  <2>5. x = s
    <3>1. ~(s < x)
      BY <1>4, <2>3, <2>4
    <3> QED
      BY <2>4, <3>1
  <2>6. ~(e < y)
    <3>1. e < y => e + 1 \in x .. y
      BY <2>4
    <3> QED
      BY <1>4, <2>3, <3>1
  <2>7. ~(y < e)
    <3>1. y < e => y + 1 \in s .. e
      BY <1>4, <2>4, <2>5
    <3> QED
      BY <1>4, <2>3, <3>1
  <2>8. y = e
    BY <2>4, <2>6, <2>7
  <2> QED
    BY <2>2, <2>5, <2>8
<1>5. {<<ts[k].start, ts[k].end>> : k \in 1 .. Len(ts)} = Abstract!MaximalRuns(S)
  <2>1. ASSUME NEW run \in Abstract!MaximalRuns(S)
        PROVE  run \in {<<ts[k].start, ts[k].end>> : k \in 1 .. Len(ts)}
    <3>1. /\ run \in S \X S /\ run[1] - 1 \notin S /\ run[2] + 1 \notin S
          /\ run[1] <= run[2] /\ run[1] .. run[2] \subseteq S
      BY DEF Abstract!MaximalRuns
    <3>2. PICK x \in S, y \in S : run = <<x, y>>
      BY <3>1, PairParts
    <3>3. x - 1 \notin S /\ y + 1 \notin S /\ x <= y /\ x .. y \subseteq S
      <4>1. run[1] = x /\ run[2] = y
        BY <3>2
      <4> QED
        BY <3>1, <4>1
    <3>4. PICK r \in 1 .. Len(ts) : x = ts[r].start /\ y = ts[r].end
      BY <1>4, <3>3
    <3> QED
      BY <3>2, <3>4
  <2> QED
    BY <1>3, <2>1
<1> QED
  BY <1>2, <1>5 DEF Abstract!Lists

-----------------------------------------------------------------------------
(* Gaps are the holes between the regions.                                 *)

\* A gap is the addresses between its neighbours, field by field.
LEMMA BetweenBounds ==
  ASSUME NEW g, NEW p, NEW q, g.start \in Int, g.end \in Int, p.end \in Int, q.start \in Int,
         Between(g, p, q)
  PROVE  g.start = p.end + 1 /\ g.end = q.start - 1 /\ g.start <= g.end
<1>1. PICK s, e, u, v \in Int : s = g.start /\ e = g.end /\ u = p.end /\ v = q.start
  OBVIOUS
<1>2. s .. e = (u + 1) .. (v - 1) /\ s <= e
  BY <1>1 DEF Between, Span
<1>3. s \in (u + 1) .. (v - 1) /\ e \in (u + 1) .. (v - 1)
  BY <1>2
<1>4. u + 1 \in s .. e /\ v - 1 \in s .. e
  BY <1>2, <1>3
<1>5. s = u + 1 /\ e = v - 1
  BY <1>3, <1>4
<1> QED
  BY <1>1, <1>2, <1>5

\* gs holds one range between each two neighbours of rs.
Separates(gs, rs) ==
  /\ Len(gs) = Len(rs) - 1
  /\ \A g \in 1 .. Len(gs) :
       /\ gs[g].start \in Int /\ gs[g].end \in Int /\ gs[g].start <= gs[g].end
       /\ gs[g].start = rs[g].end + 1 /\ gs[g].end = rs[g + 1].start - 1

\* Exact gaps between separated regions are the ranges that separate them.
LEMMA GapsSeparate ==
  ASSUME NEW rs \in Seq(LayoutRegion), NEW gs \in Seq(LayoutGap), rs # <<>>,
         Separate(rs), GapsOf(gs, rs)
  PROVE  Separates(gs, rs)
<1>1. Apart(rs) /\ Len(rs) \in Nat
  BY SeparateApart
<1>2. Len(gs) = Len(rs) - 1
  BY DEF GapsOf
<1>3. ASSUME NEW g \in 1 .. Len(gs)
      PROVE  /\ gs[g].start \in Int /\ gs[g].end \in Int /\ gs[g].start <= gs[g].end
             /\ gs[g].start = rs[g].end + 1 /\ gs[g].end = rs[g + 1].start - 1
  <2>1. gs[g].start \in Address /\ gs[g].end \in Address
    <3>1. gs[g] \in LayoutGap
      BY <1>1, <1>2
    <3> QED
      BY <3>1 DEF LayoutGap
  <2>2. gs[g].start \in Int /\ gs[g].end \in Int
    BY <2>1, AddressArithmetic
  <2>3. g \in 1 .. Len(rs) /\ g + 1 \in 1 .. Len(rs)
    BY <1>1, <1>2
  <2>4. rs[g].end \in Int /\ rs[g + 1].start \in Int
    BY <1>1, <2>3 DEF Apart
  <2>5. Between(gs[g], rs[g], rs[g + 1])
    BY DEF GapsOf
  <2> QED
    BY <2>2, <2>4, <2>5, BetweenBounds
<1> QED
  BY <1>2, <1>3 DEF Separates

\* Gaps never touch either: a region lies between any two.
LEMMA GapsApart ==
  ASSUME NEW rs, NEW gs, Len(rs) > 0, Apart(rs), Separates(gs, rs)
  PROVE  Apart(gs)
<1>1. Len(rs) \in Nat /\ Len(gs) = Len(rs) - 1 /\ Len(gs) \in Nat
  BY DEF Apart, Separates
<1>2. ASSUME NEW p \in 1 .. Len(gs), NEW q \in 1 .. Len(gs), p < q
      PROVE  gs[p].end + 1 < gs[q].start
  <2>1. p + 1 \in 1 .. Len(rs) /\ q \in 1 .. Len(rs) /\ (p + 1 = q \/ p + 1 < q)
    BY <1>1, <1>2
  <2>2. PICK s, e, t, u \in Int :
          s = rs[p + 1].start /\ e = rs[p + 1].end /\ t = rs[q].start /\ u = rs[q].end
    BY <2>1 DEF Apart
  <2>3. gs[p].end = s - 1 /\ gs[q].start = u + 1
    BY <2>2 DEF Separates
  <2>4. s <= e /\ t <= u
    BY <2>1, <2>2 DEF Apart
  <2>5. CASE p + 1 = q
    BY <2>2, <2>3, <2>4, <2>5
  <2>6. CASE p + 1 < q
    <3>1. e + 1 < t
      BY <2>1, <2>2, <2>6 DEF Apart
    <3> QED
      BY <2>3, <2>4, <3>1
  <2> QED
    BY <2>1, <2>5, <2>6
<1> QED
  BY <1>1, <1>2 DEF Apart, Separates

\* The lowest and the highest address of the ranges.
LEMMA EndsOfRanges ==
  ASSUME NEW ts, Apart(ts), Len(ts) > 0,
         NEW S \in SUBSET Int, \A a \in Int : a \in S <=> Covered(a, ts)
  PROVE  Abstract!Min(S) = ts[1].start /\ Abstract!Max(S) = ts[Len(ts)].end
<1>1. /\ Len(ts) \in Nat /\ 1 \in 1 .. Len(ts) /\ Len(ts) \in 1 .. Len(ts)
  BY DEF Apart
<1>2. PICK low, high \in Int : low = ts[1].start /\ high = ts[Len(ts)].end
  BY <1>1 DEF Apart
<1>3. low \in S /\ high \in S
  <2>1. low \in Span(ts[1]) /\ high \in Span(ts[Len(ts)])
    <3>1. /\ ts[1].start \in Int /\ ts[1].end \in Int /\ ts[1].start <= ts[1].end
          /\ ts[Len(ts)].start \in Int /\ ts[Len(ts)].end \in Int
          /\ ts[Len(ts)].start <= ts[Len(ts)].end
      BY <1>1 DEF Apart
    <3> QED
      BY <1>2, <3>1 DEF Span
  <2> QED
    BY <1>1, <2>1 DEF Covered
<1>4. ASSUME NEW a \in S PROVE low <= a /\ a <= high
  <2>1. PICK r \in 1 .. Len(ts) : a \in Span(ts[r])
    BY DEF Covered
  <2>2. PICK s, e \in Int : s = ts[r].start /\ e = ts[r].end
    BY DEF Apart
  <2>3. s <= a /\ a <= e
    BY <2>1, <2>2 DEF Span
  <2>4. low <= a
    <3>1. CASE r = 1
      BY <1>2, <2>2, <2>3, <3>1
    <3>2. CASE r # 1
      <4>1. 1 < r
        BY <1>1, <3>2
      <4>2. ts[1].end + 1 < s /\ low <= ts[1].end /\ ts[1].end \in Int
        BY <1>1, <1>2, <2>2, <4>1 DEF Apart
      <4> QED
        BY <2>3, <4>2
    <3> QED
      BY <3>1, <3>2
  <2>5. a <= high
    <3>1. CASE r = Len(ts)
      BY <1>2, <2>2, <2>3, <3>1
    <3>2. CASE r # Len(ts)
      <4>1. r < Len(ts)
        BY <1>1, <3>2
      <4>2. PICK t \in Int : t = ts[Len(ts)].start
        BY <1>1 DEF Apart
      <4>3. e + 1 < t /\ t <= high
        BY <1>1, <1>2, <2>2, <4>1, <4>2 DEF Apart
      <4> QED
        BY <2>3, <4>3
    <3> QED
      BY <3>1, <3>2
  <2> QED
    BY <2>4, <2>5
<1>5. \A x \in S : (\A y \in S : x <= y) => x = low
  BY <1>3, <1>4
<1>6. \A x \in S : (\A y \in S : x >= y) => x = high
  BY <1>3, <1>4
<1>7. Abstract!Min(S) = low
  BY <1>3, <1>4, <1>5 DEF Abstract!Min
<1>8. Abstract!Max(S) = high
  <2>1. \A y \in S : high >= y
    BY <1>4
  <2> QED
    BY <1>3, <1>6, <2>1 DEF Abstract!Max
<1> QED
  BY <1>2, <1>7, <1>8

\* The ranges that separate runs hold the absent addresses between the first
\* run's start and the last one's end, and no other.
LEMMA GapsHoldAbsent ==
  ASSUME NEW rs, NEW gs, Len(rs) > 0, Apart(rs), Separates(gs, rs),
         NEW S \in SUBSET Int, \A a \in Int : a \in S <=> Covered(a, rs)
  PROVE  LET H == (rs[1].start .. rs[Len(rs)].end) \ S
         IN  H \in SUBSET Int /\ \A a \in Int : a \in H <=> Covered(a, gs)
<1> DEFINE low == rs[1].start
           high == rs[Len(rs)].end
           H == (low .. high) \ S
<1>1. /\ Len(rs) \in Nat /\ Len(gs) = Len(rs) - 1 /\ Apart(gs)
      /\ 1 \in 1 .. Len(rs) /\ Len(rs) \in 1 .. Len(rs)
  <2>1. Apart(gs)
    BY GapsApart
  <2>2. Len(rs) \in Nat /\ Len(gs) = Len(rs) - 1
    BY DEF Apart, Separates
  <2> QED
    BY <2>1, <2>2
<1>3. low \in Int /\ high \in Int
  BY <1>1 DEF Apart
<1>4. ASSUME NEW a \in Int, NEW g \in 1 .. Len(gs), a \in Span(gs[g]) PROVE a \in H
  <2>1. g \in 1 .. Len(rs) /\ g + 1 \in 1 .. Len(rs)
    BY <1>1
  <2>2. PICK e, s \in Int : e = rs[g].end /\ s = rs[g + 1].start
    BY <2>1 DEF Apart
  <2>3. e < a /\ a < s
    <3>1. gs[g].start = e + 1 /\ gs[g].end = s - 1
      BY <2>2 DEF Separates
    <3>2. a \in e + 1 .. s - 1
      BY <1>4, <3>1 DEF Span
    <3> QED
      BY <3>2
  <2>4. \A r \in 1 .. Len(rs) : r <= g => rs[r].end < a /\ rs[r].start <= a
    <3> SUFFICES ASSUME NEW r \in 1 .. Len(rs), r <= g
                 PROVE  rs[r].end < a /\ rs[r].start <= a
      OBVIOUS
    <3>1. PICK u, v, w \in Int : u = rs[r].start /\ v = rs[r].end /\ w = rs[g].start
      BY <2>1 DEF Apart
    <3>2. u <= v /\ w <= e /\ (r = g \/ v + 1 < w)
      <4>1. r = g \/ r < g
        BY <2>1
      <4> QED
        BY <2>1, <2>2, <3>1, <4>1 DEF Apart
    <3>3. r = g => v = e
      BY <2>2, <3>1
    <3>4. v < a /\ u <= a
      BY <2>3, <3>2, <3>3
    <3> QED
      BY <3>1, <3>4
  <2>5. \A r \in 1 .. Len(rs) : g + 1 <= r => a < rs[r].start /\ a <= rs[r].end
    <3> SUFFICES ASSUME NEW r \in 1 .. Len(rs), g + 1 <= r
                 PROVE  a < rs[r].start /\ a <= rs[r].end
      OBVIOUS
    <3>1. PICK u, v, w \in Int : u = rs[r].start /\ v = rs[r].end /\ w = rs[g + 1].end
      BY <2>1 DEF Apart
    <3>2. u <= v /\ s <= w /\ (r = g + 1 \/ w + 1 < u)
      <4>1. r = g + 1 \/ g + 1 < r
        BY <2>1
      <4> QED
        BY <2>1, <2>2, <3>1, <4>1 DEF Apart
    <3>3. r = g + 1 => u = s
      BY <2>2, <3>1
    <3>4. a < u /\ a <= v
      BY <2>3, <3>2, <3>3
    <3> QED
      BY <3>1, <3>4
  <2>6. low <= a /\ a <= high
    <3>1. 1 <= g /\ g + 1 <= Len(rs)
      BY <1>1
    <3> QED
      BY <1>1, <2>4, <2>5, <3>1
  <2>7. a \notin S
    <3> SUFFICES ASSUME NEW r \in 1 .. Len(rs), a \in Span(rs[r]) PROVE FALSE
      BY DEF Covered
    <3>1. r <= g \/ g + 1 <= r
      BY <2>1
    <3>2. rs[r].start \in Int /\ rs[r].end \in Int /\ rs[r].start <= a /\ a <= rs[r].end
      BY DEF Apart, Span
    <3> QED
      BY <2>4, <2>5, <3>1, <3>2
  <2> QED
    BY <1>3, <2>6, <2>7
<1>5. ASSUME NEW a \in H PROVE \E g \in 1 .. Len(gs) : a \in Span(gs[g])
  <2> DEFINE Above == {r \in 1 .. Len(rs) : a < rs[r].start}
  <2>1. a \in Int /\ low <= a /\ a <= high /\ a \notin S
    BY <1>3
  <2>2. \A r \in 1 .. Len(rs) : a \notin Span(rs[r])
    BY <2>1 DEF Covered
  <2>3. \A r \in 1 .. Len(rs) : a < rs[r].start \/ rs[r].end < a
    <3> SUFFICES ASSUME NEW r \in 1 .. Len(rs) PROVE a < rs[r].start \/ rs[r].end < a
      OBVIOUS
    <3>1. rs[r].start \in Int /\ rs[r].end \in Int
      BY DEF Apart
    <3> QED
      BY <2>1, <2>2, <3>1 DEF Span
  <2>4. Len(rs) \in Above
    BY <1>1, <1>3, <2>1, <2>3
  <2>5. Above \in SUBSET Nat
    BY <1>1
  <2>6. PICK q \in Above : \A m \in Above : q <= m
    BY <2>4, <2>5, LeastExists
  <2>7. q \in 1 .. Len(rs) /\ a < rs[q].start
    OBVIOUS
  <2>8. q # 1
    BY <1>3, <2>1, <2>7
  <2>9. /\ q - 1 \in 1 .. Len(rs) /\ q - 1 \in 1 .. Len(gs) /\ (q - 1) + 1 = q
        /\ ~(q <= q - 1)
    BY <1>1, <2>7, <2>8
  <2>10. q - 1 \notin Above
    BY <2>6, <2>9
  <2>11. rs[q - 1].end < a
    BY <2>3, <2>9, <2>10
  <2>12. PICK e, s \in Int : e = rs[q - 1].end /\ s = rs[q].start
    BY <2>7, <2>9 DEF Apart
  <2>13. gs[q - 1].start = e + 1 /\ gs[q - 1].end = s - 1
    BY <2>9, <2>12 DEF Separates
  <2>14. a \in Span(gs[q - 1])
    BY <2>1, <2>7, <2>11, <2>12, <2>13 DEF Span
  <2> QED
    BY <2>9, <2>14
<1>6. H \in SUBSET Int /\ \A a \in Int : a \in H <=> Covered(a, gs)
  BY <1>3, <1>4, <1>5 DEF Covered
<1> QED
  BY <1>6

\* The ranges that separate runs are the maximal runs of the absent addresses.
LEMMA GapsAreHoles ==
  ASSUME NEW rs, NEW gs, Len(rs) > 0, Apart(rs), Separates(gs, rs),
         NEW S \in SUBSET Int, \A a \in Int : a \in S <=> Covered(a, rs)
  PROVE  Abstract!Lists(gs, Abstract!Holes(S))
<1> DEFINE H == (rs[1].start .. rs[Len(rs)].end) \ S
<1>1. Apart(gs)
  BY GapsApart
<1>2. Abstract!Holes(S) = H
  BY EndsOfRanges DEF Abstract!Holes
<1>3. H \in SUBSET Int /\ \A a \in Int : a \in H <=> Covered(a, gs)
  BY GapsHoldAbsent
<1> HIDE DEF H
<1>4. Abstract!Lists(gs, H)
  BY <1>1, <1>3, RangesAreRuns
<1> QED
  BY <1>2, <1>4

-----------------------------------------------------------------------------
(* A complete reconstruction is the layout of its chunks.                  *)

Complete == pc = "idle" /\ chunks # <<>> /\ built = Len(chunks)

\* What the invariants say of a reconstruction that has passed every chunk.
LEMMA CompleteState ==
  ASSUME BytesInv, Complete
  PROVE  /\ Runs = regions /\ Merged = Len(chunks) /\ Len(chunks) \in Nat /\ Len(chunks) > 0
         /\ regions \in Seq(LayoutRegion) /\ gaps \in Seq(LayoutGap)
         /\ overlaps \in Seq(LayoutOverlap)
         /\ Separate(regions) /\ GapsOf(gaps, regions) /\ ImageInv
         /\ Covers(regions, chunks, Len(chunks)) /\ AllFirst(regions, chunks, Len(chunks))
         /\ WhenIdle(regions) = regions /\ WhenIdle(gaps) = gaps
         /\ WhenIdle(overlaps) = overlaps
<1>1. /\ LayoutInv /\ MemMapInv /\ chunks \in Seq(SourceChunk)
  BY DEF BytesInv, LayoutInv, MemMapInv, ImageInv, ImageTypeOK
<1>2. Runs = regions /\ Merged = Len(chunks)
  BY DEF Runs, Merged, Complete
<1>3. Len(chunks) \in Nat /\ Len(chunks) > 0
  BY <1>1, EmptySeq DEF Complete
<1>4. WhenIdle(regions) = regions /\ WhenIdle(gaps) = gaps /\ WhenIdle(overlaps) = overlaps
  BY DEF WhenIdle, Complete
<1>5. /\ Separate(regions) /\ GapsOf(gaps, regions)
      /\ Covers(regions, chunks, Len(chunks)) /\ AllFirst(regions, chunks, Len(chunks))
  BY <1>2 DEF BytesInv, LayoutInv
<1>6. /\ regions \in Seq(LayoutRegion) /\ gaps \in Seq(LayoutGap)
      /\ overlaps \in Seq(LayoutOverlap) /\ ImageInv
  BY <1>1 DEF MemMapInv, TypeOK
<1> QED
  BY <1>2, <1>3, <1>4, <1>5, <1>6

\* The loaded addresses are those of the regions.
LEMMA LoadedIsCovered ==
  ASSUME BytesInv, Complete
  PROVE  /\ Abstract!Loaded(chunks) \in SUBSET Int
         /\ \A a \in Int : a \in Abstract!Loaded(chunks) <=> Covered(a, regions)
<1>1. \A a : a \in Abstract!Loaded(chunks) <=> \E k \in 1 .. Len(chunks) : a \in Span(chunks[k])
  BY DEF Abstract!Loaded, Abstract!Span, Span
<1>2. ASSUME NEW k \in 1 .. Len(chunks), NEW a \in Span(chunks[k]) PROVE a \in Address
  <2>1. PICK s, e \in Nat : s = chunks[k].start /\ e = chunks[k].end /\ e <= AddrMax
    BY CompleteState, ChunkFacts, AddressArithmetic
  <2>2. a \in s .. e /\ AddrMax \in Nat
    BY <2>1, AddressArithmetic DEF Span
  <2>3. a \in 0 .. AddrMax
    BY ONLY <2>1, <2>2, s \in Nat, e \in Nat
  <2> QED
    BY <2>3 DEF Address
<1>3. ASSUME NEW r \in 1 .. Len(regions), NEW a \in Span(regions[r]) PROVE a \in Address
  <2>1. regions[r] \in LayoutRegion
    BY CompleteState
  <2>2. regions[r].start \in Address /\ regions[r].end \in Address
    BY <2>1 DEF LayoutRegion
  <2>3. PICK s, e \in Nat : s = regions[r].start /\ e = regions[r].end /\ e <= AddrMax
    BY <2>2, AddressArithmetic
  <2>4. a \in s .. e /\ AddrMax \in Nat
    BY <2>3, AddressArithmetic DEF Span
  <2>5. a \in 0 .. AddrMax
    BY ONLY <2>3, <2>4, s \in Nat, e \in Nat
  <2> QED
    BY <2>5 DEF Address
<1>4. \A a \in Address : a \in Abstract!Loaded(chunks) <=> Covered(a, regions)
  BY <1>1, CompleteState DEF Covers
<1>5. \A a : a \in Abstract!Loaded(chunks) => a \in Address
  BY <1>1, <1>2
<1>6. \A a : Covered(a, regions) => a \in Address
  BY <1>3 DEF Covered
<1>7. Address \subseteq Int
  BY AddressArithmetic
<1> QED
  BY <1>4, <1>5, <1>6, <1>7

\* Regions and gaps are the runs and the holes of the loaded addresses.
LEMMA TablesListed ==
  ASSUME BytesInv, Complete
  PROVE  /\ Abstract!Lists(regions, Abstract!Loaded(chunks))
         /\ Abstract!Lists(gaps, Abstract!Holes(Abstract!Loaded(chunks)))
<1>1. Apart(regions) /\ Len(regions) \in Nat
  BY CompleteState, SeparateApart
<1>2. Len(regions) > 0
  <2>1. 1 \in 1 .. Len(chunks)
    BY CompleteState
  <2>2. PICK s, e \in Nat : s = chunks[1].start /\ e = chunks[1].end /\ s <= e /\ s \in Address
    BY <2>1, CompleteState, ChunkFacts, AddressArithmetic
  <2>3. s \in Span(chunks[1])
    BY <2>2 DEF Span
  <2>4. Covered(s, regions)
    BY <2>1, <2>2, <2>3, CompleteState DEF Covers
  <2> QED
    BY <1>1, <2>4 DEF Covered
<1>3. regions # <<>>
  BY <1>2
<1>4. Separates(gaps, regions)
  BY <1>3, CompleteState, GapsSeparate
<1>5. PICK S \in SUBSET Int : S = Abstract!Loaded(chunks)
  BY LoadedIsCovered
<1>6. \A a \in Int : a \in S <=> Covered(a, regions)
  BY <1>5, LoadedIsCovered
<1>7. Abstract!Lists(regions, S)
  BY <1>1, <1>6, RangesAreRuns
<1>8. Abstract!Lists(gaps, Abstract!Holes(S))
  BY <1>1, <1>2, <1>4, <1>6, GapsAreHoles
<1> QED
  BY <1>5, <1>7, <1>8

\* There is one first holder, so it is the one the abstract layout chooses.
LEMMA FirstHolderUnique ==
  ASSUME NEW cs, NEW a, NEW k \in 1 .. Len(cs), Len(cs) \in Nat,
         a \in Span(cs[k]), \A m \in 1 .. k - 1 : a \notin Span(cs[m])
  PROVE  Abstract!FirstHolder(cs, a) = k
<1> DEFINE Holds(h) == a \in Abstract!Span(cs[h])
                        /\ \A m \in 1 .. h - 1 : a \notin Abstract!Span(cs[m])
<1>1. \A h : Abstract!Span(h) = Span(h)
  BY DEF Abstract!Span, Span
<1>2. Holds(k)
  BY <1>1
<1>3. ASSUME NEW h \in 1 .. Len(cs), Holds(h) PROVE h = k
  <2>1. ~(h < k)
    <3>1. h < k => h \in 1 .. k - 1
      OBVIOUS
    <3> QED
      BY <1>1, <1>3, <3>1
  <2>2. ~(k < h)
    <3>1. k < h => k \in 1 .. h - 1
      OBVIOUS
    <3> QED
      BY <1>1, <1>3, <3>1
  <2> QED
    BY <2>1, <2>2
<1>4. Abstract!FirstHolder(cs, a) = CHOOSE h \in 1 .. Len(cs) : Holds(h)
  BY DEF Abstract!FirstHolder
<1> HIDE DEF Holds
<1> QED
  BY <1>2, <1>3, <1>4

\* Every region shows the bytes the abstract layout assigns to its addresses.
LEMMA BytesListed ==
  ASSUME BytesInv, Complete
  PROVE  Abstract!RegionBytesRight(chunks)
<1>1. /\ WhenIdle(regions) = regions /\ Separate(regions) /\ Len(chunks) \in Nat
      /\ AllFirst(regions, chunks, Len(chunks))
  BY CompleteState
<1>2. ASSUME NEW r \in 1 .. Len(regions)
      PROVE  Len(regions[r].bytes) = regions[r].end - regions[r].start + 1
  BY <1>1 DEF Separate, Sound
<1>3. ASSUME NEW r \in 1 .. Len(regions), NEW a \in Abstract!Span(regions[r])
      PROVE  Abstract!ByteAt(regions[r], a)
               = Abstract!ByteAt(chunks[Abstract!FirstHolder(chunks, a)], a)
  <2>1. a \in Span(regions[r])
    BY DEF Abstract!Span, Span
  <2>2. HoldsFirst(regions[r], a, chunks, Len(chunks))
    BY <1>1, <2>1 DEF AllFirst, RunFirst
  <2>3. PICK k \in 1 .. Len(chunks) :
          /\ a \in Span(chunks[k])
          /\ ByteAt(regions[r], a) = ByteAt(chunks[k], a)
          /\ \A m \in 1 .. k - 1 : a \notin Span(chunks[m])
    BY <2>2 DEF HoldsFirst
  <2>4. Abstract!FirstHolder(chunks, a) = k
    BY <1>1, <2>3, FirstHolderUnique
  <2> QED
    BY <2>3, <2>4 DEF Abstract!ByteAt, ByteAt
<1> QED
  BY <1>1, <1>2, <1>3 DEF Abstract!RegionBytesRight

-----------------------------------------------------------------------------
(* Overlaps.                                                               *)

\* A table whose entries have different keys has as many entries as keys.
LEMMA DistinctKeys ==
  ASSUME NEW n \in Nat, NEW key, key = [o \in 1 .. n |-> key[o]],
         NEW T, T = {key[o] : o \in 1 .. n},
         \A o, u \in 1 .. n : key[o] = key[u] => o = u
  PROVE  Cardinality(T) = n
<1>1. key \in [1 .. n -> T]
  OBVIOUS
<1>2. \A t \in T : \E o \in 1 .. n : key[o] = t
  OBVIOUS
<1>3. key \in Surjection(1 .. n, T) /\ key \in Injection(1 .. n, T)
  BY <1>1, <1>2 DEF Surjection, Injection, IsInjective
<1>4. IsFiniteSet(1 .. n) /\ Cardinality(1 .. n) = n
  <2>1. /\ IsFiniteSet(1 .. n)
        /\ Cardinality(1 .. n) = IF 1 > n THEN 0 ELSE n - 1 + 1
    BY ONLY FS_Interval, n \in Nat
  <2> QED
    BY ONLY <2>1, n \in Nat
<1> QED
  BY <1>3, <1>4, FS_Surjection

\* What the scan records of two chunks that share an address describes them.
LEMMA OverlapDescribes ==
  ASSUME ImageInv, NEW p \in 1 .. Len(chunks), NEW q \in 1 .. Len(chunks)
  PROVE  Abstract!Describes(OverlapOf(p, q), chunks)
<1> DEFINE o == OverlapOf(p, q)
<1>1. PICK s, e, t, u \in Nat :
        /\ s = chunks[p].start /\ e = chunks[p].end
        /\ t = chunks[q].start /\ u = chunks[q].end
  BY ChunkFacts, AddressArithmetic
<1>2. /\ o.start = OverlapStart(p, q) /\ o.end = OverlapEnd(p, q)
      /\ o.first = p /\ o.second = q
      /\ o.firstLine = chunks[p].line /\ o.secondLine = chunks[q].line
      /\ o.kind = IF Conflicting(p, q) THEN "conflicting" ELSE "identical"
  BY DEF OverlapOf
<1>3. PICK lo, hi \in Nat : lo = (IF s > t THEN s ELSE t) /\ hi = (IF e < u THEN e ELSE u)
  OBVIOUS
<1>4. OverlapStart(p, q) = lo /\ OverlapEnd(p, q) = hi
  BY <1>1, <1>3 DEF OverlapStart, OverlapEnd
<1> HIDE DEF o
<1>5. lo .. hi = (s .. e) \cap (t .. u)
  BY <1>3
<1>6. Abstract!Span(o) = lo .. hi
  BY <1>2, <1>4 DEF Abstract!Span
<1>7. Abstract!Span(chunks[p]) = s .. e /\ Abstract!Span(chunks[q]) = t .. u
  BY <1>1 DEF Abstract!Span
<1>8. Conflicting(p, q) <=>
        ~\A a \in lo .. hi : Abstract!ByteAt(chunks[p], a) = Abstract!ByteAt(chunks[q], a)
  BY <1>4 DEF Conflicting, ByteAt, Abstract!ByteAt
<1>9. o.kind = IF \A a \in lo .. hi : Abstract!ByteAt(chunks[p], a) = Abstract!ByteAt(chunks[q], a)
               THEN "identical" ELSE "conflicting"
  BY <1>2, <1>8
<1>10. Abstract!Describes(o, chunks)
  BY <1>2, <1>5, <1>6, <1>7, <1>9 DEF Abstract!Describes
<1> QED
  BY <1>10 DEF o

\* The overlap table has one entry for each pair that shares an address.
LEMMA OverlapsListed ==
  ASSUME BytesInv, OverlapsComplete, Complete
  PROVE  Abstract!OverlapsRight(chunks)
<1> DEFINE n == Len(overlaps)
           key == [o \in 1 .. n |-> <<overlaps[o].first, overlaps[o].second>>]
           T == {key[o] : o \in 1 .. n}
<1>1. /\ WhenIdle(overlaps) = overlaps /\ n \in Nat /\ ImageInv /\ Len(chunks) \in Nat
  BY CompleteState
<1>2. \A p, q \in 1 .. Len(chunks) : Scanned(p, q) <=> p < q
  BY CompleteState DEF Scanned, Complete
<1>3. \A p, q \in 1 .. Len(chunks) :
        <<p, q>> \in Abstract!SharingPairs(chunks) <=> p < q /\ Intersecting(p, q)
  BY DEF Abstract!SharingPairs, Abstract!Span, Span, Intersecting
<1>4. ASSUME NEW o \in 1 .. n
      PROVE  \E p, q \in 1 .. Len(chunks) :
               /\ key[o] = <<p, q>> /\ p < q /\ Intersecting(p, q)
               /\ overlaps[o] = OverlapOf(p, q)
  <2>1. PICK p, q : p = overlaps[o].first /\ q = overlaps[o].second
    OBVIOUS
  <2>2. /\ p \in 1 .. Len(chunks) /\ q \in 1 .. Len(chunks)
        /\ Scanned(p, q) /\ Intersecting(p, q) /\ overlaps[o] = OverlapOf(p, q)
    BY <2>1 DEF OverlapsComplete
  <2>3. p < q
    BY <1>2, <2>2
  <2> QED
    BY <2>1, <2>2, <2>3
<1>5. ASSUME NEW p \in 1 .. Len(chunks), NEW q \in 1 .. Len(chunks), p < q, Intersecting(p, q)
      PROVE  \E o \in 1 .. n : key[o] = <<p, q>>
  <2>1. PICK o \in 1 .. n : overlaps[o] = OverlapOf(p, q)
    BY <1>2, <1>5 DEF OverlapsComplete
  <2>2. overlaps[o].first = p /\ overlaps[o].second = q
    BY <2>1 DEF OverlapOf
  <2> QED
    BY <2>2
<1>6. \A o, u \in 1 .. n : key[o] = key[u] => o = u
  BY DEF OverlapsComplete
<1>7. T = {<<overlaps[o].first, overlaps[o].second>> : o \in 1 .. n}
  OBVIOUS
<1>8. key = [o \in 1 .. n |-> key[o]]
  OBVIOUS
<1> HIDE DEF key
<1>9. T = Abstract!SharingPairs(chunks)
  <2>1. ASSUME NEW pq \in Abstract!SharingPairs(chunks) PROVE pq \in T
    <3>1. pq \in (1 .. Len(chunks)) \X (1 .. Len(chunks))
      BY DEF Abstract!SharingPairs
    <3>2. PICK p, q \in 1 .. Len(chunks) : pq = <<p, q>>
      BY <3>1, PairParts
    <3>3. p < q /\ Intersecting(p, q)
      BY <1>3, <3>2
    <3> QED
      BY <1>5, <3>2, <3>3
  <2>2. ASSUME NEW pq \in T PROVE pq \in Abstract!SharingPairs(chunks)
    BY <1>3, <1>4
  <2> QED
    BY <2>1, <2>2
<1>10. Cardinality(T) = n
  <2> HIDE DEF n, T
  <2>1. T = {key[o] : o \in 1 .. n}
    BY DEF T
  <2> QED
    BY <1>1, <1>6, <1>8, <2>1, DistinctKeys
<1>11. n = Abstract!Cardinality(Abstract!SharingPairs(chunks))
  <2>1. \A S : Abstract!Cardinality(S) = Cardinality(S)
    BY DEF Abstract!Cardinality, Cardinality
  <2> QED
    BY <1>9, <1>10, <2>1
<1>12. \A o \in 1 .. n : Abstract!Describes(overlaps[o], chunks)
  BY <1>1, <1>4, OverlapDescribes
<1> QED
  BY <1>1, <1>7, <1>9, <1>11, <1>12 DEF Abstract!OverlapsRight

\* A complete reconstruction is the layout of its chunks.
LEMMA CompleteIsExact ==
  BytesInv /\ OverlapsComplete /\ Complete => Abstract!IsLayoutOf(chunks)
<1> SUFFICES ASSUME BytesInv, OverlapsComplete, Complete PROVE Abstract!IsLayoutOf(chunks)
  OBVIOUS
<1>1. WhenIdle(regions) = regions /\ WhenIdle(gaps) = gaps
  BY CompleteState
<1> QED
  BY <1>1, TablesListed, BytesListed, OverlapsListed DEF Abstract!IsLayoutOf

\* The same of the state a step reaches.
LEMMA CompleteIsExactNext ==
  (BytesInv /\ OverlapsComplete /\ Complete => Abstract!IsLayoutOf(chunks))'
BY CompleteIsExact, PTL

-----------------------------------------------------------------------------
(* Every step is a step of the abstract layout or changes nothing it shows. *)

\* Inside a call no layout shows.
LEMMA HiddenInCall ==
  ASSUME pc # "idle", pc' # "idle", chunks' = chunks
  PROVE  UNCHANGED Abstract!vars
BY DEF Abstract!vars, Abstract!layoutVars, WhenIdle

\* Dropping the tables drops the layout.
LEMMA ClearShowsNothing ==
  ASSUME ClearLayout, chunks' = chunks
  PROVE  Abstract!Next
BY DEF ClearLayout, WhenIdle, Abstract!Next, Abstract!Drop, Abstract!NoLayout

\* Sorting the chunks at the start of a call rearranges them and shows no layout.
LEMMA SortArranges ==
  ASSUME ReconstructStart
  PROVE  Abstract!Next
<1>1. chunks' \in Arrangements(chunks) /\ Ordered(chunks')
  BY DEF ReconstructStart, Sortings
<1>2. PICK p \in Bijection(1 .. Len(chunks), 1 .. Len(chunks)) :
        chunks' = [k \in 1 .. Len(chunks) |-> chunks[p[k]]]
  BY <1>1 DEF Arrangements
<1>3. p \in Abstract!Bijection(1 .. Len(chunks), 1 .. Len(chunks))
  BY DEF Bijection, Injection, Surjection, IsInjective,
         Abstract!Bijection, Abstract!Injection, Abstract!Surjection, Abstract!IsInjective
<1>4. Abstract!Ordered(chunks')
  BY <1>1 DEF Abstract!Ordered, Ordered
<1>5. Abstract!NoLayout'
  BY DEF ReconstructStart, ClearLayout, WhenIdle, Abstract!NoLayout
<1> QED
  BY <1>2, <1>3, <1>4, <1>5 DEF Abstract!Next, Abstract!Arrange

\* A chunk added is a chunk loaded, and a refused one changes nothing.
LEMMA AddLoads ==
  ASSUME MemMapInv, ClientAddsChunk
  PROVE  [Abstract!Next]_Abstract!vars
<1>1. /\ pc = "idle" /\ pc' = "idle" /\ AddChunk /\ ImageInv /\ chunks \in Seq(SourceChunk)
  BY DEF ClientAddsChunk, loopVars, MemMapInv, ImageInv, ImageTypeOK
<1>2. regions' = regions /\ gaps' = gaps /\ overlaps' = overlaps
  BY <1>1, AddChunkExtends DEF layoutVars
<1>3. UNCHANGED Abstract!layoutVars
  BY <1>1, <1>2 DEF Abstract!layoutVars, WhenIdle
<1>4. CASE chunks' = chunks
  BY <1>3, <1>4 DEF Abstract!vars
<1>5. CASE Len(chunks') = Len(chunks) + 1
  BY <1>1, <1>3, <1>5, AddChunkExtends DEF Abstract!Next, Abstract!Load
<1>6. chunks' = chunks \/ Len(chunks') = Len(chunks) + 1
  <2>1. PICK start \in ChunkStarts, bytes \in ChunkData, line \in ChunkLines :
          \/ AddChunkEmpty(bytes)
          \/ AddChunkFails(start, bytes)
          \/ Len(chunks) < MaxChunks /\ AddChunkStored(start, bytes, line)
    BY <1>1 DEF AddChunk
  <2>2. CASE AddChunkEmpty(bytes) \/ AddChunkFails(start, bytes)
    BY <2>2 DEF AddChunkEmpty, AddChunkFails, AddChunkRefused, AddChunkNoCopy, imageVars
  <2>3. CASE AddChunkStored(start, bytes, line)
    <3>1. PICK new : chunks' = Append(chunks, new)
      BY <2>3 DEF AddChunkStored
    <3> QED
      BY <1>1, <3>1
  <2> QED
    BY <2>1, <2>2, <2>3
<1> QED
  BY <1>4, <1>5, <1>6

\* The step that closes the last region publishes the layout.
LEMMA FinishPublishes ==
  ASSUME MemMapInv, BytesInv', OverlapsComplete', FinishLayout
  PROVE  Abstract!Next
<1>1. /\ pc = "merge" /\ pc' = "idle" /\ chunks' = chunks /\ built' = Len(chunks)
      /\ chunks # <<>> /\ Ordered(chunks)
  BY DEF FinishLayout, MemMapInv, LoopInv
<1>2. Complete'
  BY <1>1 DEF Complete
<1>3. Abstract!IsLayoutOf(chunks)'
  BY <1>2, CompleteIsExactNext
<1>4. Abstract!NoLayout
  BY <1>1 DEF Abstract!NoLayout, WhenIdle
<1>5. Abstract!Ordered(chunks)
  BY <1>1 DEF Abstract!Ordered, Ordered
<1> QED
  BY <1>1, <1>3, <1>4, <1>5 DEF Abstract!Next, Abstract!Publish

\* Every step is a step of the abstract layout, or leaves what it shows unchanged.
LEMMA StepImplements ==
  ASSUME MemMapInv, BytesInv', OverlapsComplete', [Next]_vars
  PROVE  [Abstract!Next]_Abstract!vars
<1>1. CASE ClientAddsChunk
  BY <1>1, AddLoads
<1>2. CASE ClientClearsLayout \/ ReconstructEmpty
  BY <1>2, ClearShowsNothing DEF ClientClearsLayout, ReconstructEmpty
<1>3. CASE ClientFreesImage
  <2>1. chunks' = <<>> /\ Abstract!NoLayout'
    BY <1>3 DEF ClientFreesImage, FreeImage, Abstract!NoLayout, WhenIdle
  <2> QED
    BY <2>1 DEF Abstract!Next, Abstract!Free
<1>4. CASE ReconstructStart
  BY <1>4, SortArranges
<1>5. CASE OverlapFails \/ StartFails \/ MergeFails \/ CloseFails \/ FinishFails
  <2>1. Abandon
    BY <1>5 DEF OverlapFails, StartFails, MergeFails, CloseFails, CloseTakeFails,
    CloseGapFails, CloseStartFails, FinishFails
  <2> QED
    BY <2>1, ClearShowsNothing DEF Abandon
<1>6. CASE RecordOverlap \/ NextOverlapRow \/ StartBuilder \/ MergeContained \/ MergeTail
           \/ CloseRegion
  <2>1. pc # "idle" /\ pc' # "idle" /\ chunks' = chunks
    BY <1>6 DEF RecordOverlap, NextOverlapRow, StartBuilder, MergeContained, MergeTail,
                CloseRegion, Merging, Separated, imageVars
  <2> QED
    BY <2>1, HiddenInCall
<1>7. CASE FinishLayout
  BY <1>7, FinishPublishes
<1>8. CASE UNCHANGED vars
  BY <1>8 DEF vars, imageVars, layoutVars, loopVars, Abstract!vars, Abstract!layoutVars, WhenIdle
<1> QED
  BY <1>1, <1>2, <1>3, <1>4, <1>5, <1>6, <1>7, <1>8 DEF Next, ReconstructStep

\* Reconstruction implements the abstract layout: a caller sees no layout or the
\* exact layout of the chunks it was built from, for every width, every set of
\* chunks and every failing allocation (memmap.c:443-516).
THEOREM MemMapImplementsLayout == Spec => ImplementsLayout
<1>1. Init => Abstract!Init
  BY DEF Init, ImageInit, WhenIdle, Abstract!Init, Abstract!NoLayout
<1>2. MemMapInv /\ BytesInv' /\ OverlapsComplete' /\ [Next]_vars
        => [Abstract!Next]_Abstract!vars
  BY StepImplements
<1> QED
  BY <1>1, <1>2, BytesInvariance, OverlapsInvariance, PTL
     DEF Spec, ImplementsLayout, Abstract!Spec

-----------------------------------------------------------------------------
(* The layout accounts for the loaded bytes.  Both totals are counts: the  *)
(* image's of the bytes of its chunks (TotalCounts), the layout's of the   *)
(* addresses in its regions.                                               *)

\* The bytes the regions hold, as LayoutAccountsForBytes sums them.
KeptBytes(rs) == FoldFunction(LAMBDA r, n : Len(r.bytes) + n, 0, rs)

AddressesOf(rs) == {a \in Address : Covered(a, rs)}

\* The addresses in a region are finitely many, one for each of its bytes.
LEMMA RegionCount ==
  ASSUME NEW r \in LayoutRegion, Sound(r)
  PROVE  /\ Span(r) \subseteq Address
         /\ Len(r.bytes) \in Nat
         /\ IsFiniteSet(Span(r)) /\ Cardinality(Span(r)) = Len(r.bytes)
<1>1. PICK s, e \in Address : s = r.start /\ e = r.end
  BY DEF LayoutRegion
<1>2. s \in Nat /\ e \in Nat /\ e <= AddrMax /\ AddrMax \in Nat
  BY AddressArithmetic
<1>3. s <= e /\ Len(r.bytes) = e - s + 1
  BY <1>1 DEF Sound
<1>4. s <= e + 1 /\ s .. e \subseteq Address
  BY <1>2, <1>3 DEF Address
<1>5. IsFiniteSet(s .. e) /\ Cardinality(s .. e) = e - s + 1
  BY <1>2, <1>4, RangeCount
<1>6. Span(r) = s .. e
  BY <1>1 DEF Span
<1> QED
  BY <1>2, <1>3, <1>4, <1>5, <1>6

LEMMA AddressesFinite == \A S \in SUBSET Address : IsFiniteSet(S)
<1>1. IsFiniteSet(0 .. AddrMax)
  BY AddressArithmetic, FS_Interval
<1> QED
  BY <1>1, FS_Subset DEF Address

\* Separated regions share no address.
LEMMA SeparateDisjoint ==
  ASSUME NEW rs \in Seq(LayoutRegion), Separate(rs),
         NEW x \in 1 .. Len(rs), NEW y \in 1 .. Len(rs), x # y
  PROVE  Span(rs[x]) \cap Span(rs[y]) = {}
<1>1. Apart(rs)
  BY SeparateApart
<1>2. PICK s, e, t, u \in Int :
        s = rs[x].start /\ e = rs[x].end /\ t = rs[y].start /\ u = rs[y].end
  BY <1>1 DEF Apart
<1>3. x < y \/ y < x
  OBVIOUS
<1>4. e + 1 < t \/ u + 1 < s
  BY <1>1, <1>2, <1>3 DEF Apart
<1>5. (s .. e) \cap (t .. u) = {}
  BY ONLY <1>4, s \in Int, e \in Int, t \in Int, u \in Int
<1> QED
  BY <1>2, <1>5 DEF Span

\* Separated regions keep a byte for each address they cover.
LEMMA KeptCounts ==
  ASSUME NEW rs \in Seq(LayoutRegion), Separate(rs)
  PROVE  KeptBytes(rs) = Cardinality(AddressesOf(rs))
<1> DEFINE D == 1 .. Len(rs)
           First(s) == CHOOSE x \in s : TRUE
           first == [s \in SUBSET D |-> First(s)]
           weight == [x \in D |-> Len(rs[x].bytes)]
           At(s) == {a \in Address : \E r \in s : a \in Span(rs[r])}
           count == [s \in SUBSET D |-> Cardinality(At(s))]
           IsSum(f) == f = [s \in SUBSET D |-> IF s = {} THEN 0
                              ELSE Len(rs[First(s)].bytes) + f[s \ {First(s)}]]
           sum == CHOOSE f : IsSum(f)
<1>1. D = DOMAIN rs /\ IsFiniteSet(D)
  BY FS_Interval
<1>2. \A x \in D : rs[x] \in LayoutRegion /\ Sound(rs[x])
  BY DEF Separate
<1>3. \A s \in SUBSET D : s # {} => First(s) \in s
  OBVIOUS
<1>4. count[{}] = 0
  <2>1. At({}) = {}
    OBVIOUS
  <2> QED
    BY <2>1, FS_EmptySet
<1>5. ASSUME NEW s \in SUBSET D, NEW x \in s
      PROVE  count[s] = Len(rs[x].bytes) + count[s \ {x}]
  <2>1. /\ Span(rs[x]) \subseteq Address
        /\ IsFiniteSet(Span(rs[x])) /\ Cardinality(Span(rs[x])) = Len(rs[x].bytes)
    BY <1>2, RegionCount
  <2>2. At(s) = Span(rs[x]) \cup At(s \ {x})
    BY <2>1
  <2>3. \A y \in D : y # x => Span(rs[x]) \cap Span(rs[y]) = {}
    BY SeparateDisjoint
  <2>4. Span(rs[x]) \cap At(s \ {x}) = {}
    BY <2>3
  <2>5. IsFiniteSet(At(s \ {x}))
    BY AddressesFinite
  <2> HIDE DEF At
  <2>6. Cardinality(At(s)) = Len(rs[x].bytes) + Cardinality(At(s \ {x}))
    BY <2>1, <2>2, <2>4, <2>5, DisjointCount
  <2> QED
    BY <2>6
<1>6. IsSum(sum)
  <2>1. \A s \in SUBSET D :
          s # {} => count[s] = Len(rs[First(s)].bytes) + count[s \ {First(s)}]
    BY <1>3, <1>5
  <2>2. IsSum(count)
    BY <1>4, <2>1
  <2> HIDE DEF IsSum
  <2> QED
    BY <2>2
<1>7. KeptBytes(rs) = sum[D]
  BY <1>1 DEF KeptBytes, FoldFunction, FoldFunctionOnSet, MapThenFoldSet
<1>8. SumsUp(D, first, weight, sum)
  <2> HIDE DEF sum
  <2>1. \A s \in SUBSET D :
          sum[s] = IF s = {} THEN 0 ELSE Len(rs[First(s)].bytes) + sum[s \ {First(s)}]
    BY <1>6
  <2> QED
    BY <1>3, <2>1 DEF SumsUp
<1>9. Counts(D, weight, count)
  BY <1>4, <1>5 DEF Counts
<1>10. AddressesOf(rs) = At(D)
  BY DEF AddressesOf, Covered
<1>11. count[D] = Cardinality(At(D))
  OBVIOUS
<1> HIDE DEF sum, count, first, weight, At
<1>12. sum[D] = count[D]
  BY <1>1, <1>8, <1>9, SumIsCount
<1> QED
  BY <1>7, <1>10, <1>11, <1>12

\* The span kept by add_chunk runs from the first region to the last.
LEMMA SpanIsLayouts ==
  ASSUME BytesInv, Complete
  PROVE  Len(regions) > 0 /\ addrStart = regions[1].start /\ addrEnd = regions[Len(regions)].end
<1>1. /\ ImageInv /\ Separate(regions) /\ regions \in Seq(LayoutRegion)
      /\ Len(chunks) \in Nat /\ Len(chunks) > 0
  BY CompleteState
<1>2. SpanIsTight /\ chunks # <<>>
  BY DEF ImageInv, Complete, BytesInv, LayoutInv, MemMapInv
<1>3. PICK S \in SUBSET Int : S = Abstract!Loaded(chunks)
  BY LoadedIsCovered
<1>4. \A a \in Int : a \in S <=> Covered(a, regions)
  BY <1>3, LoadedIsCovered
<1>5. \A a : a \in S <=> \E k \in 1 .. Len(chunks) : a \in Span(chunks[k])
  BY <1>3 DEF Abstract!Loaded, Abstract!Span, Span
<1>6. PICK low \in 1 .. Len(chunks), high \in 1 .. Len(chunks) :
        addrStart = chunks[low].start /\ addrEnd = chunks[high].end
  BY <1>2 DEF SpanIsTight
<1>7. PICK lo, hi \in Int : lo = addrStart /\ hi = addrEnd
  BY <1>1, AddressArithmetic DEF ImageInv, ImageTypeOK
<1>8. lo \in S /\ hi \in S
  <2>1. \A k \in 1 .. Len(chunks) :
          chunks[k].start \in Span(chunks[k]) /\ chunks[k].end \in Span(chunks[k])
    <3> TAKE k \in 1 .. Len(chunks)
    <3>1. PICK s, e \in Nat : s = chunks[k].start /\ e = chunks[k].end /\ s <= e
      BY <1>1, ChunkFacts, AddressArithmetic
    <3>2. s \in s .. e /\ e \in s .. e
      BY <3>1
    <3> QED
      BY <3>1, <3>2 DEF Span
  <2> QED
    BY <1>5, <1>6, <1>7, <2>1
<1>9. \A a \in S : lo <= a /\ a <= hi
  <2> TAKE a \in S
  <2>1. PICK k \in 1 .. Len(chunks) : a \in Span(chunks[k])
    BY <1>5
  <2>2. PICK s, e \in Nat : s = chunks[k].start /\ e = chunks[k].end
    BY <1>1, ChunkFacts, AddressArithmetic
  <2>3. lo <= s /\ e <= hi
    BY <1>2, <1>7, <2>2 DEF SpanIsTight
  <2>4. a \in s .. e
    BY <2>1, <2>2 DEF Span
  <2> QED
    BY <2>3, <2>4
<1>10. Apart(regions) /\ Len(regions) \in Nat
  BY <1>1, SeparateApart
<1>11. Len(regions) > 0
  <2>1. Covered(lo, regions)
    BY <1>4, <1>8
  <2> QED
    BY <1>10, <2>1 DEF Covered
<1>12. Abstract!Min(S) = regions[1].start /\ Abstract!Max(S) = regions[Len(regions)].end
  BY <1>4, <1>10, <1>11, EndsOfRanges
<1>13. \A x \in S : /\ (\A y \in S : x <= y) => x = lo
                    /\ (\A y \in S : x >= y) => x = hi
  BY <1>8, <1>9
<1>14. Abstract!Min(S) = lo
  BY <1>8, <1>9, <1>13 DEF Abstract!Min
<1>15. Abstract!Max(S) = hi
  <2>1. \A y \in S : hi >= y
    BY <1>9
  <2> QED
    BY <1>8, <1>13, <2>1 DEF Abstract!Max
<1> QED
  BY <1>7, <1>11, <1>12, <1>14, <1>15

\* The gaps of a complete layout are apart and hold the addresses of the span
\* that no region holds.
LEMMA GapsFillSpan ==
  ASSUME BytesInv, Complete
  PROVE  /\ Apart(gaps)
         /\ \A a \in Int :
              Covered(a, gaps) <=> a \in addrStart .. addrEnd /\ ~Covered(a, regions)
<1>1. /\ Separate(regions) /\ regions \in Seq(LayoutRegion)
      /\ gaps \in Seq(LayoutGap) /\ GapsOf(gaps, regions)
  BY CompleteState
<1>2. Len(regions) > 0 /\ addrStart = regions[1].start /\ addrEnd = regions[Len(regions)].end
  BY SpanIsLayouts
<1>3. Apart(regions) /\ Separates(gaps, regions)
  BY <1>1, <1>2, SeparateApart, GapsSeparate
<1>4. PICK S \in SUBSET Int : \A a \in Int : a \in S <=> Covered(a, regions)
  BY LoadedIsCovered
<1>5. \A a \in Int : a \in (addrStart .. addrEnd) \ S <=> Covered(a, gaps)
  BY <1>1, <1>2, <1>3, <1>4, GapsHoldAbsent
<1>6. \A a \in Int : Covered(a, gaps) <=> a \in addrStart .. addrEnd /\ ~Covered(a, regions)
  <2> SUFFICES ASSUME NEW a \in Int
               PROVE  Covered(a, gaps) <=> a \in addrStart .. addrEnd /\ ~Covered(a, regions)
    OBVIOUS
  <2>1. a \in (addrStart .. addrEnd) \ S <=> a \in addrStart .. addrEnd /\ a \notin S
    OBVIOUS
  <2> QED
    BY <1>4, <1>5, <2>1
<1>7. Apart(gaps)
  BY <1>2, <1>3, GapsApart
<1> QED
  BY <1>6, <1>7

\* A bijection between finite sets.
LEMMA SameSize ==
  ASSUME NEW S, NEW T, NEW f \in Bijection(S, T), IsFiniteSet(T)
  PROVE  Cardinality(S) = Cardinality(T)
<1>1. f \in Injection(S, T) /\ f \in Surjection(S, T)
  BY DEF Bijection
<1> QED
  BY <1>1, FS_Injection

\* Sorting moves a chunk's bytes with it: the count stays.
LEMMA SortKeepsCount ==
  ASSUME ImageInv, TotalCounts, chunks' \in Sortings(chunks), UNCHANGED totalVars
  PROVE  TotalCounts'
<1> DEFINE n == Len(chunks)
           old == LoadedBytes(chunks)
           new == LoadedBytes(chunks')
<1>1. n \in Nat /\ chunks \in Seq(SourceChunk)
  BY DEF ImageInv, ImageTypeOK
<1>2. PICK p \in Bijection(1 .. n, 1 .. n) : chunks' = [k \in 1 .. n |-> chunks[p[k]]]
  BY DEF Sortings, Arrangements
<1>3. /\ p \in [1 .. n -> 1 .. n]
      /\ \A x, y \in 1 .. n : p[x] = p[y] => x = y
      /\ \A t \in 1 .. n : \E x \in 1 .. n : p[x] = t
  BY <1>2 DEF Bijection, Injection, Surjection, IsInjective
<1>4. Len(chunks') = n /\ \A k \in 1 .. n : chunks'[k] = chunks[p[k]]
  <2>1. Len(chunks') = n
    BY <1>1, <1>2
  <2> QED
    BY <1>2, <2>1
<1> DEFINE move == [ka \in new |-> <<p[ka[1]], ka[2]>>]
<1>5. \A k \in 1 .. n : \A a \in Address : <<k, a>> \in new <=> <<p[k], a>> \in old
  BY <1>3, <1>4 DEF LoadedBytes
<1>6. /\ \A ka \in new : /\ ka[1] \in 1 .. n /\ ka[2] \in Address
                         /\ ka = <<ka[1], ka[2]>>
      /\ \A ka \in old : /\ ka[1] \in 1 .. n /\ ka[2] \in Address
                         /\ ka = <<ka[1], ka[2]>>
  BY <1>4 DEF LoadedBytes
<1> HIDE DEF old, new
<1>7. move \in [new -> old]
  BY <1>5, <1>6
<1>8. \A x, y \in new : move[x] = move[y] => x = y
  <2> SUFFICES ASSUME NEW x \in new, NEW y \in new, move[x] = move[y] PROVE x = y
    OBVIOUS
  <2>1. p[x[1]] = p[y[1]] /\ x[2] = y[2]
    OBVIOUS
  <2>2. x[1] = y[1]
    BY <1>3, <1>6, <2>1
  <2> QED
    BY <1>6, <2>1, <2>2
<1>9. \A t \in old : \E x \in new : move[x] = t
  <2> TAKE t \in old
  <2>1. PICK k \in 1 .. n : p[k] = t[1]
    BY <1>3, <1>6
  <2>2. <<k, t[2]>> \in new
    BY <1>5, <1>6, <2>1
  <2>3. move[<<k, t[2]>>] = t
    BY <1>6, <2>1, <2>2
  <2> QED
    BY <2>2, <2>3
<1> HIDE DEF move
<1>10. move \in Bijection(new, old)
  BY <1>7, <1>8, <1>9 DEF Bijection, Injection, Surjection, IsInjective
<1>11. IsFiniteSet(old)
  BY <1>1, LoadedBytesFinite DEF old
<1>12. Cardinality(new) = Cardinality(old)
  BY <1>10, <1>11, SameSize
<1>13. LoadedBytes(chunks)' = new
  BY DEF LoadedBytes, new
<1> QED
  BY <1>12, <1>13 DEF TotalCounts, totalVars, old

\* No more addresses are loaded than bytes, and as many exactly when no two
\* chunks share one.
LEMMA BytesAndAddresses ==
  ASSUME ImageInv
  PROVE  LET S == {a \in Address : \E k \in 1 .. Len(chunks) : a \in Span(chunks[k])}
             B == LoadedBytes(chunks)
         IN  /\ Cardinality(S) \in Nat /\ Cardinality(B) \in Nat
             /\ Cardinality(S) <= Cardinality(B)
             /\ Cardinality(S) = Cardinality(B)
                  <=> ~ \E p, q \in 1 .. Len(chunks) : p < q /\ Intersecting(p, q)
<1> DEFINE S == {a \in Address : \E k \in 1 .. Len(chunks) : a \in Span(chunks[k])}
           B == LoadedBytes(chunks)
           f == [ka \in B |-> ka[2]]
           n == Len(chunks)
<1>1. n \in Nat /\ chunks \in Seq(SourceChunk)
  BY DEF ImageInv, ImageTypeOK
<1>2. \A ka \in B : /\ ka[1] \in 1 .. n /\ ka[2] \in Address /\ ka = <<ka[1], ka[2]>>
                    /\ ka[2] \in Span(chunks[ka[1]])
  BY DEF LoadedBytes, Span
<1>3. \A k \in 1 .. n : \A a \in Address : a \in Span(chunks[k]) => <<k, a>> \in B
  BY DEF LoadedBytes, Span
<1>4. IsFiniteSet(B) /\ IsFiniteSet(S)
  <2>1. S \in SUBSET Address
    OBVIOUS
  <2> QED
    BY <1>1, <2>1, LoadedBytesFinite, AddressesFinite
<1>5. ASSUME NEW p \in 1 .. n, NEW q \in 1 .. n, Intersecting(p, q)
      PROVE  \E a \in Address : a \in Span(chunks[p]) /\ a \in Span(chunks[q])
  <2>1. PICK a : a \in Span(chunks[p]) /\ a \in Span(chunks[q])
    BY <1>5 DEF Intersecting
  <2>2. PICK s, e \in Address : s = chunks[p].start /\ e = chunks[p].end
    BY ChunkFacts
  <2>3. a \in s .. e
    BY <2>1, <2>2 DEF Span
  <2>4. s \in Nat /\ e \in Nat /\ e <= AddrMax /\ AddrMax \in Nat
    BY AddressArithmetic
  <2>5. a \in Address
    BY <2>3, <2>4 DEF Address
  <2> QED
    BY <2>1, <2>5
<1> HIDE DEF B
<1>6. f \in Surjection(B, S)
  <2>1. f \in [B -> S]
    BY <1>2
  <2>2. \A a \in S : \E ka \in B : f[ka] = a
    <3> TAKE a \in S
    <3>1. PICK k \in 1 .. n : a \in Span(chunks[k])
      OBVIOUS
    <3>2. <<k, a>> \in B
      BY <1>3, <3>1
    <3>3. f[<<k, a>>] = a
      BY <3>2
    <3> QED
      BY <3>2, <3>3
  <2> HIDE DEF f, S
  <2> QED
    BY <2>1, <2>2 DEF Surjection
<1>7. f \in Injection(B, S) <=> ~ \E p, q \in 1 .. n : p < q /\ Intersecting(p, q)
  <2>0. f \in [B -> S]
    BY <1>2
  <2>1. ASSUME NEW p \in 1 .. n, NEW q \in 1 .. n, p < q, Intersecting(p, q),
               f \in Injection(B, S)
        PROVE  FALSE
    <3>1. PICK a \in Address : a \in Span(chunks[p]) /\ a \in Span(chunks[q])
      BY <1>5, <2>1
    <3>2. <<p, a>> \in B /\ <<q, a>> \in B
      BY <1>3, <3>1
    <3>3. f[<<p, a>>] = f[<<q, a>>]
      BY <3>2
    <3>4. <<p, a>> # <<q, a>>
      BY <1>1, <2>1
    <3> HIDE DEF f, S
    <3> QED
      BY <2>1, <3>2, <3>3, <3>4 DEF Injection, IsInjective
  <2>2. ASSUME \A p, q \in 1 .. n : p < q => ~Intersecting(p, q)
        PROVE  f \in Injection(B, S)
    <3>1. ASSUME NEW x \in B, NEW y \in B, f[x] = f[y]
          PROVE  x = y
      <4>1. x[2] = y[2]
        BY <3>1
      <4>2. PICK p \in 1 .. n, q \in 1 .. n : p = x[1] /\ q = y[1]
        BY <1>2
      <4>3. Intersecting(p, q) /\ Intersecting(q, p)
        BY <1>2, <4>1, <4>2 DEF Intersecting
      <4>4. ~(p < q) /\ ~(q < p)
        BY <2>2, <4>3
      <4>5. p = q
        BY <1>1, <4>4
      <4> QED
        BY <1>2, <4>1, <4>2, <4>5
    <3> HIDE DEF f, S
    <3> QED
      BY <2>0, <3>1 DEF Injection, IsInjective
  <2> QED
    BY <2>1, <2>2
<1> HIDE DEF f, S
<1>8. /\ Cardinality(S) <= Cardinality(B)
      /\ Cardinality(S) = Cardinality(B) <=> f \in Injection(B, S)
  BY <1>4, <1>6, FS_Surjection
<1>9. Cardinality(S) \in Nat /\ Cardinality(B) \in Nat
  BY <1>4, FS_CardinalityType
<1> QED
  BY <1>7, <1>8, <1>9 DEF S, B

\* A complete layout has the span and the bytes of its chunks.
LEMMA LayoutAccounts ==
  ASSUME BytesInv, OverlapsComplete, TotalCounts
  PROVE  LayoutAccountsForBytes
<1> DEFINE S == {a \in Address : \E k \in 1 .. Len(chunks) : a \in Span(chunks[k])}
<1>0. SUFFICES ASSUME pc = "idle", built > 0, built = Len(chunks)
               PROVE  /\ addrStart = regions[1].start
                      /\ addrEnd = regions[Len(regions)].end
                      /\ KeptBytes(regions) <= totalLoaded
                      /\ KeptBytes(regions) = totalLoaded <=> overlaps = <<>>
  BY DEF LayoutAccountsForBytes, KeptBytes
<1>1. Complete
  BY <1>0 DEF Complete
<1>2. /\ Len(chunks) \in Nat /\ Len(chunks) > 0 /\ regions \in Seq(LayoutRegion)
      /\ Separate(regions) /\ ImageInv /\ Covers(regions, chunks, Len(chunks))
      /\ overlaps \in Seq(LayoutOverlap)
  BY <1>1, CompleteState
<1>3. AddressesOf(regions) = S
  BY <1>2 DEF AddressesOf, Covers
<1>4. KeptBytes(regions) = Cardinality(S)
  BY <1>2, <1>3, KeptCounts
<1>5. /\ Cardinality(S) <= totalLoaded
      /\ Cardinality(S) = totalLoaded
           <=> ~ \E p, q \in 1 .. Len(chunks) : p < q /\ Intersecting(p, q)
  BY <1>2, BytesAndAddresses DEF TotalCounts
<1> HIDE DEF S
<1>6. overlaps = <<>> <=> ~ \E p, q \in 1 .. Len(chunks) : p < q /\ Intersecting(p, q)
  <2>1. \A p, q \in 1 .. Len(chunks) : Scanned(p, q) <=> p < q
    BY <1>0, <1>2 DEF Scanned
  <2>2. ASSUME NEW p \in 1 .. Len(chunks), NEW q \in 1 .. Len(chunks),
               p < q, Intersecting(p, q)
        PROVE  overlaps # <<>>
    <3>1. PICK o \in 1 .. Len(overlaps) : overlaps[o] = OverlapOf(p, q)
      BY <2>1, <2>2 DEF OverlapsComplete
    <3> QED
      BY <3>1
  <2>3. ASSUME overlaps # <<>>
        PROVE  \E p, q \in 1 .. Len(chunks) : p < q /\ Intersecting(p, q)
    <3>1. 1 \in 1 .. Len(overlaps)
      BY <1>2, <2>3, EmptySeq
    <3>2. PICK p, q : p = overlaps[1].first /\ q = overlaps[1].second
      OBVIOUS
    <3>3. /\ p \in 1 .. Len(chunks) /\ q \in 1 .. Len(chunks)
          /\ Scanned(p, q) /\ Intersecting(p, q)
      BY <3>1, <3>2 DEF OverlapsComplete
    <3> QED
      BY <2>1, <3>3
  <2> QED
    BY <2>2, <2>3
<1>7. addrStart = regions[1].start /\ addrEnd = regions[Len(regions)].end
  BY <1>1, SpanIsLayouts
<1> QED
  BY <1>4, <1>5, <1>6, <1>7

\* No step of reconstruction or of its client makes the total differ from the
\* number of bytes loaded.
LEMMA NextKeepsCount ==
  ASSUME MemMapInv, TotalCounts, [Next]_vars
  PROVE  TotalCounts'
<1>1. ImageInv
  BY DEF MemMapInv
<1>2. CASE ClientAddsChunk
  BY <1>1, <1>2, AddChunkKeepsCount DEF ClientAddsChunk
<1>3. CASE ClientFreesImage
  BY <1>3, FreeKeepsCount DEF ClientFreesImage
<1>4. CASE ReconstructStart
  BY <1>1, <1>4, SortKeepsCount DEF ReconstructStart
<1>5. CASE ClientClearsLayout \/ ReconstructEmpty \/ ReconstructStep \/ UNCHANGED vars
  <2>1. UNCHANGED <<chunks, totalVars>>
    BY <1>5 DEF ClientClearsLayout, ReconstructEmpty, ReconstructStep, vars, imageVars,
                RecordOverlap, OverlapFails, NextOverlapRow, StartBuilder, StartFails,
                Merging, MergeContained, MergeTail, MergeFails, Separated, CloseRegion,
                CloseFails, CloseTakeFails, CloseGapFails, CloseStartFails,
                FinishLayout, FinishFails, Abandon
  <2> QED
    BY <2>1, UnchangedKeepsCount
<1> QED
  BY <1>2, <1>3, <1>4, <1>5 DEF Next

\* The span and the total printed beside a layout are those of its regions, and
\* the merge dropped bytes exactly when an overlap was reported
\* (firmware_image.c:170-183, main.c:60-95).
THEOREM LayoutAlwaysAccounts == Spec => []LayoutAccountsForBytes
<1>1. Init => MemMapInv /\ TotalCounts
  <2>1. Init => TotalCounts
    BY NothingCounted DEF Init, ImageInit, TotalCounts
  <2> QED
    BY <2>1, InitialInv
<1>2. MemMapInv /\ TotalCounts /\ [Next]_vars => (MemMapInv /\ TotalCounts)'
  BY NextKeepsInv, NextKeepsCount
<1>3. BytesInv /\ OverlapsComplete /\ TotalCounts => LayoutAccountsForBytes
  BY LayoutAccounts
<1> QED
  BY <1>1, <1>2, <1>3, BytesInvariance, OverlapsInvariance, PTL DEF Spec

=============================================================================
