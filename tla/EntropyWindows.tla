--------------------------- MODULE EntropyWindows ---------------------------
(***************************************************************************)
(* The two walks of src/main.c over the regions of a layout: the table of  *)
(* entropy windows (print_entropy_chunks) and the heat map                 *)
(* (print_entropy_heatmap).  They cut a region the same way but step       *)
(* differently: the table adds the window size to its offset, whatever is  *)
(* left of the region, the heat map the length of the window it drew.  The *)
(* window size comes from the command line and is any size_t but zero.     *)
(*                                                                         *)
(* A printed window is the addresses it measures; its entropy and symbol   *)
(* are functions of their bytes and left out.                              *)
(***************************************************************************)
EXTENDS Platform, SequencesExt

CONSTANTS
  RowSymbols,  \* 32, the symbols of a heat map row
  Layouts,     \* the region tables a report may be asked for
  ChunkSizes   \* the values of --entropy-chunk

Region == [start : Address, end : Address, bytes : Seq(Nat)]

Length(region) == Len(region.bytes)

\* Regions as reconstruction leaves them (MemMap).
LayoutOK(s) ==
  /\ s \in Seq(Region)
  /\ \A k \in 1 .. Len(s) :
       /\ s[k].start <= s[k].end
       /\ Length(s[k]) = s[k].end - s[k].start + 1
       /\ Length(s[k]) <= AllocMax
  /\ \A k, m \in 1 .. Len(s) : k < m => s[k].end < s[m].start

ASSUME WindowAssumption ==
  /\ RowSymbols \in Nat \ {0}
  /\ ChunkSizes \subseteq 1 .. SizeMax
  /\ \A s \in Layouts : LayoutOK(s)

VARIABLES
  regions,    \* image->regions
  chunkSize,  \* options->entropy_chunk
  walk,       \* "table", then "heatmap", then "done"
  r,          \* the region being walked
  offset,     \* the offset of the next window in it
  symbols,    \* the symbols on the heat map row so far
  table,      \* output: the windows of the table
  rows        \* output: the rows of the heat map

inputs == <<regions, chunkSize>>
walkVars == <<walk, r, offset, symbols, table, rows>>
vars == <<inputs, walkVars>>

WalkInit ==
  /\ walk = "table"
  /\ r = 1
  /\ offset = 0
  /\ symbols = 0
  /\ table = <<>>
  /\ rows = <<>>

Init == regions \in Layouts /\ chunkSize \in ChunkSizes /\ WalkInit

-----------------------------------------------------------------------------
\* Mutant: the last window of a region is as long as the others.
WholeWindowLength == chunkSize

\* min_size(chunk_size, region->length - offset).
WindowLength ==
  LET left == Length(regions[r]) - offset
  IN  IF chunkSize < left THEN chunkSize ELSE left

Window ==
  LET first == WrapAddr(regions[r].start + offset)
  IN  [start |-> first, end |-> WrapAddr(first + WindowLength - 1)]

InsideRegion == r <= Len(regions) /\ offset < Length(regions[r])

\* Mutant: only a window that ends with the region ends its walk.
NextRegionWhenExact ==
  /\ r <= Len(regions)
  /\ offset = Length(regions[r])
  /\ r' = r + 1
  /\ offset' = 0

NextRegion ==
  /\ r <= Len(regions)
  /\ ~InsideRegion
  /\ r' = r + 1
  /\ offset' = 0

-----------------------------------------------------------------------------
(* print_entropy_chunks.                                                   *)

OffsetAfterTable == WrapSize(offset + chunkSize)

TableWindow ==
  /\ walk = "table"
  /\ InsideRegion
  /\ table' = Append(table, Window)
  /\ offset' = OffsetAfterTable
  /\ UNCHANGED <<inputs, walk, r, symbols, rows>>

TableRegionDone ==
  /\ walk = "table"
  /\ NextRegion
  /\ UNCHANGED <<inputs, walk, symbols, table, rows>>

TableDone ==
  /\ walk = "table"
  /\ r > Len(regions)
  /\ walk' = "heatmap"
  /\ r' = 1 /\ offset' = 0
  /\ UNCHANGED <<inputs, symbols, table, rows>>

-----------------------------------------------------------------------------
(* print_entropy_heatmap: rows of at most RowSymbols windows.              *)

\* Mutant: the heat map steps by the window size only while it fits a row.
OffsetAfterSymbolOnce == IF symbols + 1 = RowSymbols THEN offset ELSE offset + WindowLength

OffsetAfterSymbol == offset + WindowLength

\* Mutant: a row is one symbol too wide.
RowFullLate == symbols = RowSymbols + 1

RowFull == symbols = RowSymbols

StartsRow == symbols = 0 \/ RowFull

HeatmapSymbol ==
  /\ walk = "heatmap"
  /\ InsideRegion
  /\ IF StartsRow
       THEN rows' = Append(rows, [start |-> Window.start, cells |-> <<Window>>])
       ELSE rows' = [rows EXCEPT ![Len(rows)].cells = Append(@, Window)]
  /\ symbols' = IF StartsRow THEN 1 ELSE symbols + 1
  /\ offset' = OffsetAfterSymbol
  /\ UNCHANGED <<inputs, walk, r, table>>

HeatmapRegionDone ==
  /\ walk = "heatmap"
  /\ NextRegion
  /\ symbols' = 0
  /\ UNCHANGED <<inputs, walk, table, rows>>

HeatmapDone ==
  /\ walk = "heatmap"
  /\ r > Len(regions)
  /\ walk' = "done"
  /\ UNCHANGED <<inputs, r, offset, symbols, table, rows>>

WalkStep ==
  \/ TableWindow \/ TableRegionDone \/ TableDone
  \/ HeatmapSymbol \/ HeatmapRegionDone \/ HeatmapDone

Next == WalkStep

Spec == Init /\ [][Next]_vars

\* A call that was entered keeps running.
FairSpec == Spec /\ WF_vars(WalkStep)

-----------------------------------------------------------------------------
(* Properties.                                                             *)

\* The addresses of region k that the table has walked over.
Walked(k) ==
  IF walk # "table" \/ k < r THEN regions[k].start .. regions[k].end
  ELSE IF k > r THEN {}
  ELSE {a \in regions[k].start .. regions[k].end : a < regions[k].start + offset}

Covering(s, a) == {n \in 1 .. Len(s) : s[n].start <= a /\ a <= s[n].end}

TypeOK ==
  /\ LayoutOK(regions)
  /\ chunkSize \in 1 .. SizeMax
  /\ walk \in {"table", "heatmap", "done"}
  /\ r \in 1 .. Len(regions) + 1
  /\ offset \in 0 .. SizeMax
  /\ symbols \in 0 .. RowSymbols
  /\ table \in Seq([start : Address, end : Address])
  /\ rows \in Seq([start : Address, cells : Seq([start : Address, end : Address])])

\* Every loaded address is in exactly one window of the table once the table
\* is past it, and no window reaches past its region, whatever the window size:
\* neither the last offset nor an end address wraps (main.c:281-284).
WindowsPartitionRegions ==
  /\ \A k \in 1 .. Len(regions) : \A a \in Walked(k) :
       \E n \in 1 .. Len(table) : Covering(table, a) = {n}
  /\ \A n \in 1 .. Len(table) : \E k \in 1 .. Len(regions) :
       /\ regions[k].start <= table[n].start
       /\ table[n].start <= table[n].end
       /\ table[n].end <= regions[k].end

Cells == FlattenSeq([n \in 1 .. Len(rows) |-> rows[n].cells])

\* The symbols of the heat map, row after row, are the windows of the table in
\* the same order, although the two walks step differently (main.c:281, 333).
HeatmapShowsTheTable == walk = "done" => Cells = table

\* A row starts at its first symbol, holds at most RowSymbols of them and
\* each is one window past the one before: the only address printed, the row's,
\* gives that of every symbol by counting (main.c:317-336).
RowsAreAddressable ==
  \A n \in 1 .. Len(rows) :
    LET cells == rows[n].cells
    IN  /\ Len(cells) \in 1 .. RowSymbols
        /\ cells[1].start = rows[n].start
        /\ \A m \in 2 .. Len(cells) : cells[m].start = cells[m - 1].start + chunkSize

\* Both walks end (main.c:281, 317, 327).
WalksEnd == <>(walk = "done")

=============================================================================
