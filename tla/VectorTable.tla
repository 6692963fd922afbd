---------------------------- MODULE VectorTable ----------------------------
(***************************************************************************)
(* bl_vector_table_detect (src/vector_table.c): score the places where a   *)
(* Cortex-M vector table may lie, the two common addresses and the start   *)
(* of every region, and keep the strongest.  One step scores one place.    *)
(*                                                                         *)
(* Scaled are the bytes (ByteBase values each) and with them the 32-bit    *)
(* words of four bytes, the SRAM range and the flash base; the lengths,    *)
(* bit tests, weights and thresholds are the code's.                       *)
(***************************************************************************)
EXTENDS Platform, Sequences

CONSTANTS
  ByteBase,   \* 256
  SramLow,    \* 0x20000000
  SramHigh,   \* 0x3FFFFFFF
  FlashBase,  \* 0x08000000
  Layouts     \* the region tables the detector may be given

Region == [start : Address, end : Address, bytes : Seq(0 .. ByteBase - 1)]

WordMax == ByteBase * ByteBase * ByteBase * ByteBase - 1

\* Regions as reconstruction leaves them (MemMap), with a gap between neighbours.
LayoutOK(s) ==
  /\ s \in Seq(Region)
  /\ \A k \in 1 .. Len(s) :
       /\ s[k].start <= s[k].end
       /\ Len(s[k].bytes) = s[k].end - s[k].start + 1
  /\ \A k, m \in 1 .. Len(s) : k < m => s[k].end + 1 < s[m].start

ASSUME DetectorAssumption ==
  /\ ByteBase \in Nat \ {0, 1}
  /\ WordMax <= AddrMax
  /\ SramLow \in 0 .. WordMax /\ SramHigh \in 0 .. WordMax
  /\ FlashBase \in 1 .. WordMax
  /\ \A s \in Layouts : LayoutOK(s)

VARIABLES
  regions,  \* image->regions
  next,     \* the next place to score, 0 when the call has returned
  best      \* the candidate kept so far, the result once it has returned

vars == <<regions, next, best>>

Confidence == {"none", "low", "medium", "high"}

Candidate ==
  [table : Address, sp : 0 .. WordMax, resetRaw : 0 .. WordMax,
   spValid : BOOLEAN, spAligned : BOOLEAN, resetValid : BOOLEAN,
   resetInRegion : BOOLEAN, common : BOOLEAN,
   score : Nat, confidence : Confidence]

NoCandidate ==
  [table |-> 0, sp |-> 0, resetRaw |-> 0,
   spValid |-> FALSE, spAligned |-> FALSE, resetValid |-> FALSE,
   resetInRegion |-> FALSE, common |-> FALSE,
   score |-> 0, confidence |-> "none"]

Init == regions \in Layouts /\ next = 1 /\ best = NoCandidate

-----------------------------------------------------------------------------
RegionContains(region, address, length) ==
  /\ length - 1 <= AddrMax - address
  /\ region.start <= address
  /\ address + length - 1 <= region.end

Contained(address, length) ==
  \E k \in 1 .. Len(regions) : RegionContains(regions[k], address, length)

\* The first region that holds the range.
FindRegion(address, length) ==
  regions[CHOOSE k \in 1 .. Len(regions) :
            /\ RegionContains(regions[k], address, length)
            /\ \A m \in 1 .. k - 1 : ~RegionContains(regions[m], address, length)]

\* Mutant: a word is read most significant byte first.
ReadWordBigEndian(bytes, offset) ==
  bytes[offset + 4] + ByteBase * (bytes[offset + 3]
    + ByteBase * (bytes[offset + 2] + ByteBase * bytes[offset + 1]))

ReadWord(bytes, offset) ==
  bytes[offset + 1] + ByteBase * (bytes[offset + 2]
    + ByteBase * (bytes[offset + 3] + ByteBase * bytes[offset + 4]))

SpValid(sp) == SramLow <= sp /\ sp <= SramHigh

\* reset_handler_raw & ~1.
ResetAddress(raw) == raw - (raw % 2)

If(condition, points) == IF condition THEN points ELSE 0

Score(spValid, spAligned, resetValid, resetInRegion, common) ==
  If(spValid, 2) + If(spValid /\ spAligned, 1)
    + If(resetValid, 2) + If(resetInRegion, 2) + If(common, 1)

ConfidenceOf(score) ==
  IF score >= 6 THEN "high" ELSE IF score >= 4 THEN "medium"
  ELSE IF score >= 2 THEN "low" ELSE "none"

\* score_candidate for an address with eight loaded bytes.
Loaded(address) ==
  LET region == FindRegion(address, 8)
      offset == address - region.start
      sp == ReadWord(region.bytes, offset)
      raw == ReadWord(region.bytes, offset + 4)
      inRegion == Contained(ResetAddress(raw), 2)
      common == address \in {0, FlashBase}
      score == Score(SpValid(sp), sp % 4 = 0, raw % 2 # 0, inRegion, common)
  IN  [table |-> address, sp |-> sp, resetRaw |-> raw,
       spValid |-> SpValid(sp), spAligned |-> sp % 4 = 0,
       resetValid |-> raw % 2 # 0, resetInRegion |-> inRegion, common |-> common,
       score |-> score, confidence |-> ConfidenceOf(score)]

ScoreCandidate(address) ==
  IF Contained(address, 8) THEN Loaded(address) ELSE NoCandidate

\* Mutant: of two equal candidates the later is kept.
BetterOrEqual(candidate, kept) == candidate.score >= kept.score

Better(candidate, kept) ==
  \/ candidate.score > kept.score
  \/ /\ candidate.score = kept.score
     /\ candidate.confidence # "none"
     /\ candidate.table < kept.table

-----------------------------------------------------------------------------
(* bl_vector_table_detect.                                                 *)

Places == Len(regions) + 2

Place(n) == CASE n = 1 -> 0 [] n = 2 -> FlashBase [] OTHER -> regions[n - 2].start

Scoring == next \in 1 .. Places

ScoreNext ==
  /\ regions # <<>>
  /\ Scoring
  /\ best' = IF Better(ScoreCandidate(Place(next)), best)
               THEN ScoreCandidate(Place(next)) ELSE best
  /\ next' = next + 1
  /\ UNCHANGED regions

Return ==
  /\ next # 0
  /\ regions = <<>> \/ ~Scoring
  /\ next' = 0
  /\ UNCHANGED <<regions, best>>

Next == ScoreNext \/ Return

Spec == Init /\ [][Next]_vars

-----------------------------------------------------------------------------
(* Properties.                                                             *)

TypeOK ==
  /\ LayoutOK(regions)
  /\ next \in 0 .. Places + 1
  /\ best \in Candidate

Memory(address) ==
  LET k == CHOOSE m \in 1 .. Len(regions) :
             address \in regions[m].start .. regions[m].end
  IN  regions[k].bytes[address - regions[k].start + 1]

IsLoaded(address) ==
  \E k \in 1 .. Len(regions) : address \in regions[k].start .. regions[k].end

MemoryWord(address) ==
  Memory(address) + ByteBase * (Memory(address + 1)
    + ByteBase * (Memory(address + 2) + ByteBase * Memory(address + 3)))

\* A reported table lies in loaded memory with all its eight bytes, and its
\* words are what the memory holds at its address, also next to the last
\* address and in the middle of a region (vector_table.c:30, 94-99).
ReportedTableIsLoaded ==
  best.confidence # "none" =>
    /\ \A d \in 0 .. 7 : best.table + d <= AddrMax /\ IsLoaded(best.table + d)
    /\ best.sp = MemoryWord(best.table)
    /\ best.resetRaw = MemoryWord(best.table + 4)
    /\ best.resetInRegion <=>
         IsLoaded(ResetAddress(best.resetRaw)) /\ IsLoaded(ResetAddress(best.resetRaw) + 1)

\* No place scored so far beats the one kept: none has a higher score, and none
\* that is worth reporting has the same score at a lower address.  The result
\* depends on the places and not on the order they are scored in
\* (vector_table.c:131-140, 159-168).
StrongestIsKept ==
  \A n \in 1 .. (IF next = 0 /\ regions # <<>> THEN Places ELSE next - 1) :
    LET candidate == ScoreCandidate(Place(n))
    IN  /\ candidate.score <= best.score
        /\ candidate.score = best.score /\ candidate.confidence # "none" =>
             best.table <= candidate.table

=============================================================================
