--------------------------- MODULE FirmwareImage ---------------------------
(***************************************************************************)
(* The image object every BINLens stage shares (src/firmware_image.c):     *)
(* the loaded source chunks, the reconstructed layout (regions, gaps,      *)
(* overlaps), the growable tables that hold them, and the totals kept      *)
(* beside them.  The module states each operation of the API as an action  *)
(* on the image variables; the loaders and the memory map compose them.    *)
(*                                                                         *)
(* A byte buffer is the sequence of its bytes.  Left out: source_path,     *)
(* origin_path and input_format (text for the report), a region's entropy  *)
(* (a function of its bytes) and the diagnostic text.                      *)
(***************************************************************************)
EXTENDS Platform, Sequences

CONSTANTS
  Byte,         \* the values of an unsigned char
  EntrySize,    \* sizeof one entry of each table
  FirstCap,     \* capacity of each table after its first growth
  ChunkStarts,  \* start addresses callers pass to add_chunk
  ChunkData,    \* byte buffers callers pass to add_chunk
  ChunkLines,   \* origin lines callers pass to add_chunk
  MaxChunks     \* bound on the chunks a caller loads

Tables == {"chunks", "regions", "gaps", "overlaps"}

ASSUME TableAssumption ==
  /\ EntrySize \in [Tables -> Nat \ {0}]
  /\ FirstCap \in [Tables -> Nat \ {0}]
  /\ \A t \in Tables : FirstCap[t] * EntrySize[t] <= SizeMax

ASSUME CallerAssumption ==
  /\ ChunkStarts \subseteq Address
  /\ ChunkData \subseteq Seq(Byte)
  /\ ChunkLines \subseteq Nat
  /\ MaxChunks \in Nat

VARIABLES
  chunks,       \* BlSourceChunk *chunks, chunk_count
  regions,      \* BlMemRegion *regions, region_count
  gaps,         \* BlMemGap *gaps, gap_count
  overlaps,     \* BlMemOverlap *overlaps, overlap_count
  capacity,     \* chunk_, region_, gap_ and overlap_capacity
  totalLoaded,  \* total_loaded_bytes
  addrStart,    \* address_start
  addrEnd       \* address_end

layoutVars == <<regions, gaps, overlaps>>
totalVars == <<totalLoaded, addrStart, addrEnd>>
imageVars == <<chunks, layoutVars, capacity, totalVars>>

SourceChunk ==
  [start : Address, end : Address, bytes : Seq(Byte), line : Nat]

ImageInit ==
  /\ chunks = <<>>
  /\ regions = <<>> /\ gaps = <<>> /\ overlaps = <<>>
  /\ capacity = [t \in Tables |-> 0]
  /\ totalLoaded = 0 /\ addrStart = 0 /\ addrEnd = 0

-----------------------------------------------------------------------------
(* Table growth.  All four tables grow the same way: to a first capacity,  *)
(* then by doubling, with the byte count of the request computed in size_t *)
(* and not checked for overflow.                                           *)

NextCapacity(t) ==
  IF capacity[t] = 0 THEN FirstCap[t] ELSE WrapSize(2 * capacity[t])

TableRequest(t) == (NextCapacity(t) * EntrySize[t]) % (SizeMax + 1)

\* Mutant: the table is grown one push too late.
FullLate(t, count) == count > capacity[t]

Full(t, count) == count = capacity[t]

CanPush(t, count) ==
  Full(t, count) => /\ NextCapacity(t) >= capacity[t]
                    /\ Grantable(TableRequest(t))

CapacityFor(t, count) == IF Full(t, count) THEN NextCapacity(t) ELSE capacity[t]

-----------------------------------------------------------------------------
(* bl_firmware_image_add_chunk, one action per way it returns.             *)

\* Mutant: the range check allows one address too many.
AddressOverflowsLate(start, length) == length - 1 > AddrMax - start + 1

AddressOverflows(start, length) == length - 1 > AddrMax - start
CountOverflows(length) == length > SizeMax - totalLoaded

\* Mutant: the end address is one past the last byte.
ExclusiveEndOf(start, bytes) == start + Len(bytes)

EndOf(start, bytes) == WrapAddr(start + Len(bytes) - 1)

AddChunkEmpty(bytes) ==
  /\ bytes = <<>>
  /\ UNCHANGED imageVars

\* Refused before anything is stored: a range check or the table's growth.
AddChunkRefused(start, bytes) ==
  /\ bytes # <<>>
  /\ \/ AddressOverflows(start, Len(bytes))
     \/ CountOverflows(Len(bytes))
     \/ Full("chunks", Len(chunks))
  /\ UNCHANGED imageVars

\* The table has room, perhaps just grown, but the copy cannot be allocated.
AddChunkNoCopy(start, bytes) ==
  /\ bytes # <<>>
  /\ ~AddressOverflows(start, Len(bytes))
  /\ ~CountOverflows(Len(bytes))
  /\ CanPush("chunks", Len(chunks))
  /\ capacity' = [capacity EXCEPT !["chunks"] = CapacityFor("chunks", Len(chunks))]
  /\ UNCHANGED <<chunks, layoutVars, totalVars>>

\* Mutant: the end is looked at only when the start did not move.
RaisedEndElseIf(start, end) ==
  IF totalLoaded = 0 \/ (start >= addrStart /\ end > addrEnd) THEN end ELSE addrEnd

LoweredStart(start) ==
  IF totalLoaded = 0 \/ start < addrStart THEN start ELSE addrStart

RaisedEnd(start, end) ==
  IF totalLoaded = 0 \/ end > addrEnd THEN end ELSE addrEnd

AddChunkStored(start, bytes, line) ==
  /\ bytes # <<>>
  /\ ~AddressOverflows(start, Len(bytes))
  /\ ~CountOverflows(Len(bytes))
  /\ CanPush("chunks", Len(chunks))
  /\ Grantable(Len(bytes))
  /\ capacity' = [capacity EXCEPT !["chunks"] = CapacityFor("chunks", Len(chunks))]
  /\ chunks' = Append(chunks, [start |-> start, end |-> EndOf(start, bytes),
                               bytes |-> bytes, line |-> line])
  /\ addrStart' = LoweredStart(start)
  /\ addrEnd' = RaisedEnd(start, EndOf(start, bytes))
  /\ totalLoaded' = WrapSize(totalLoaded + Len(bytes))
  /\ UNCHANGED layoutVars

AddChunkFails(start, bytes) ==
  \/ AddChunkRefused(start, bytes)
  \/ AddChunkNoCopy(start, bytes)

-----------------------------------------------------------------------------
(* bl_firmware_image_clear_layout and bl_firmware_image_free.              *)

ClearLayout ==
  /\ regions' = <<>> /\ gaps' = <<>> /\ overlaps' = <<>>
  /\ capacity' = [t \in Tables |-> IF t = "chunks" THEN capacity[t] ELSE 0]

\* Mutant: the byte total survives a free.
FreeImageKeepsTotal ==
  /\ chunks' = <<>>
  /\ regions' = <<>> /\ gaps' = <<>> /\ overlaps' = <<>>
  /\ capacity' = [t \in Tables |-> 0]
  /\ addrStart' = 0 /\ addrEnd' = 0
  /\ UNCHANGED totalLoaded

\* Mutant: the arrays are freed and the pointers to them stay.
FreeImageKeepsPointers ==
  /\ totalLoaded' = 0 /\ addrStart' = 0 /\ addrEnd' = 0
  /\ UNCHANGED <<chunks, layoutVars, capacity>>

FreeImage ==
  /\ chunks' = <<>>
  /\ regions' = <<>> /\ gaps' = <<>> /\ overlaps' = <<>>
  /\ capacity' = [t \in Tables |-> 0]
  /\ totalLoaded' = 0 /\ addrStart' = 0 /\ addrEnd' = 0

-----------------------------------------------------------------------------
(* A caller that loads chunks and frees the image, in any order.           *)

AddChunk ==
  \E start \in ChunkStarts, bytes \in ChunkData, line \in ChunkLines :
    \/ AddChunkEmpty(bytes)
    \/ AddChunkFails(start, bytes)
    \/ Len(chunks) < MaxChunks /\ AddChunkStored(start, bytes, line)

ImageNext == AddChunk \/ FreeImage

ImageSpec == ImageInit /\ [][ImageNext]_imageVars

-----------------------------------------------------------------------------
(* Properties.                                                             *)

\* The types of the fields a loader can change.
ImageTypeOK ==
  /\ chunks \in Seq(SourceChunk)
  /\ capacity \in [Tables -> Nat]
  /\ totalLoaded \in 0 .. SizeMax
  /\ addrStart \in Address
  /\ addrEnd \in Address

\* A stored chunk is never empty and its inclusive end never wrapped: every
\* later stage computes lengths as end - start + 1 (firmware_image.c:99-155).
ChunksWellFormed ==
  \A k \in 1 .. Len(chunks) :
    /\ chunks[k].start <= chunks[k].end
    /\ Len(chunks[k].bytes) = chunks[k].end - chunks[k].start + 1

\* address_start and address_end are the lowest and highest loaded address,
\* whatever the order the chunks came in; the code recognises the first chunk
\* by total_loaded_bytes = 0 and not by the chunk count (firmware_image.c:170).
SpanIsTight ==
  chunks # <<>> =>
    /\ \A k \in 1 .. Len(chunks) :
         addrStart <= chunks[k].start /\ chunks[k].end <= addrEnd
    /\ \E k \in 1 .. Len(chunks) : addrStart = chunks[k].start
    /\ \E k \in 1 .. Len(chunks) : addrEnd = chunks[k].end

\* The chunk array is never indexed past what realloc returned and the byte
\* count of the request, which add_chunk does not check, never wrapped to a
\* smaller block (firmware_image.c:117-141, 156).
ChunkTableHolds ==
  /\ Len(chunks) <= capacity["chunks"]
  /\ capacity["chunks"] * EntrySize["chunks"] <= AllocMax

=============================================================================
