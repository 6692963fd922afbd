------------------------- MODULE VectorTableProofs --------------------------
(***************************************************************************)
(* The detector reports the strongest of the places it scored, and what it *)
(* reports is in loaded memory, for every width of a byte, every memory    *)
(* range and every layout that reconstruction can leave.                   *)
(***************************************************************************)
EXTENDS VectorTable, SequenceTheorems, TLAPS

-----------------------------------------------------------------------------
(* Regions.                                                                *)

\* What a layout says of one region, without its record.
LEMMA RegionFacts ==
  ASSUME LayoutOK(regions), NEW k \in 1 .. Len(regions)
  PROVE  /\ regions[k].start \in Nat /\ regions[k].start <= AddrMax
         /\ regions[k].end \in Nat /\ regions[k].end <= AddrMax
         /\ regions[k].bytes \in Seq(0 .. ByteBase - 1)
         /\ regions[k].start <= regions[k].end
         /\ Len(regions[k].bytes) = regions[k].end - regions[k].start + 1
<1>1. regions \in Seq(Region)
  BY DEF LayoutOK
<1>2. regions[k] \in Region
  BY <1>1, ElementOfSeq
<1>3. AddrMax \in Nat
  BY WidthAssumption DEF WidthAssumption
<1> QED
  BY <1>2, <1>3 DEF Region, Address, LayoutOK

\* Between two regions there is an address that is not loaded, so neighbouring
\* loaded addresses are in one region.
LEMMA Neighbours ==
  ASSUME LayoutOK(regions), NEW a \in Nat,
         NEW k \in 1 .. Len(regions), NEW m \in 1 .. Len(regions),
         a \in regions[k].start .. regions[k].end,
         a \in regions[m].start .. regions[m].end
           \/ a + 1 \in regions[m].start .. regions[m].end
  PROVE  k = m
<1>1. /\ regions[k].start \in Nat /\ regions[k].end \in Nat
      /\ regions[m].start \in Nat /\ regions[m].end \in Nat
  BY RegionFacts
<1>2. k < m => regions[k].end + 1 < regions[m].start
  BY DEF LayoutOK
<1>3. m < k => regions[m].end + 1 < regions[k].start
  BY DEF LayoutOK
<1>4. regions[k].start <= a /\ a <= regions[k].end
  BY <1>1
<1>5. \/ regions[m].start <= a /\ a <= regions[m].end
      \/ regions[m].start <= a + 1 /\ a + 1 <= regions[m].end
  BY <1>1
<1>6. ~(k < m)
  BY <1>1, <1>2, <1>4, <1>5
<1>7. ~(m < k)
  BY <1>1, <1>3, <1>4, <1>5
<1> QED
  BY <1>6, <1>7

\* A region contains a range when it holds its first and its last address.
LEMMA ContainsFacts ==
  ASSUME LayoutOK(regions), NEW k \in 1 .. Len(regions),
         NEW a \in Address, NEW n \in Nat \ {0}
  PROVE  RegionContains(regions[k], a, n) <=>
           regions[k].start <= a /\ a + n - 1 <= regions[k].end
<1>1. /\ regions[k].start \in Nat /\ regions[k].end \in Nat
      /\ regions[k].end <= AddrMax /\ a \in Nat /\ a <= AddrMax /\ AddrMax \in Nat
  BY RegionFacts, WidthAssumption DEF WidthAssumption, Address
<1> QED
  BY <1>1 DEF RegionContains

\* The region that is found is the only one that holds the range.
LEMMA FoundRegion ==
  ASSUME LayoutOK(regions), NEW a \in Address, NEW n \in Nat \ {0}, Contained(a, n)
  PROVE  \E k \in 1 .. Len(regions) :
           /\ FindRegion(a, n) = regions[k]
           /\ regions[k].start <= a /\ a + n - 1 <= regions[k].end
<1>1. PICK k \in 1 .. Len(regions) : RegionContains(regions[k], a, n)
  BY DEF Contained
<1>2. /\ a \in Nat
      /\ regions[k].start \in Nat /\ regions[k].end \in Nat
      /\ regions[k].start <= a /\ a + n - 1 <= regions[k].end
  BY <1>1, ContainsFacts, RegionFacts, WidthAssumption DEF WidthAssumption, Address
<1>3. a \in regions[k].start .. regions[k].end
  BY <1>2
<1>4. ASSUME NEW m \in 1 .. Len(regions), RegionContains(regions[m], a, n)
      PROVE  m = k
  <2>1. /\ regions[m].start \in Nat /\ regions[m].end \in Nat
        /\ regions[m].start <= a /\ a + n - 1 <= regions[m].end
    BY <1>4, ContainsFacts, RegionFacts
  <2>2. a \in regions[m].start .. regions[m].end
    BY <1>2, <2>1
  <2> QED
    BY <1>2, <1>3, <2>2, Neighbours
<1> DEFINE First(x) == /\ RegionContains(regions[x], a, n)
                       /\ \A m \in 1 .. x - 1 : ~RegionContains(regions[m], a, n)
<1>5. Len(regions) \in Nat
  BY LenProperties DEF LayoutOK
<1>6. First(k)
  <2> SUFFICES ASSUME NEW m \in 1 .. k - 1, RegionContains(regions[m], a, n)
               PROVE  FALSE
    BY <1>1
  <2>1. m \in 1 .. Len(regions) /\ m # k
    BY <1>5
  <2> QED
    BY <1>4, <2>1
<1>7. \A m \in 1 .. Len(regions) : First(m) => m = k
  BY <1>4
<1> DEFINE found == CHOOSE x \in 1 .. Len(regions) : First(x)
<1>8. found \in 1 .. Len(regions) /\ First(found)
  BY <1>6
<1>9. found = k
  BY <1>7, <1>8
<1>10. FindRegion(a, n) = regions[k]
  BY <1>9 DEF FindRegion
<1> QED
  BY <1>2, <1>10

\* Two neighbouring bytes are in a region exactly when both are loaded.
LEMMA PairContained ==
  ASSUME LayoutOK(regions), NEW a \in Address
  PROVE  Contained(a, 2) <=> IsLoaded(a) /\ IsLoaded(a + 1)
<1>1. a \in Nat /\ \A k \in 1 .. Len(regions) :
        regions[k].start \in Nat /\ regions[k].end \in Nat
  BY RegionFacts, WidthAssumption DEF WidthAssumption, Address
<1>2. ASSUME Contained(a, 2)
      PROVE  IsLoaded(a) /\ IsLoaded(a + 1)
  <2>1. PICK k \in 1 .. Len(regions) : RegionContains(regions[k], a, 2)
    BY <1>2 DEF Contained
  <2>2. regions[k].start <= a /\ a + 2 - 1 <= regions[k].end
    BY <2>1, ContainsFacts
  <2>3. /\ a \in regions[k].start .. regions[k].end
        /\ a + 1 \in regions[k].start .. regions[k].end
    BY <1>1, <2>2
  <2> QED
    BY <2>3 DEF IsLoaded
<1>3. ASSUME IsLoaded(a), IsLoaded(a + 1)
      PROVE  Contained(a, 2)
  <2>1. PICK k \in 1 .. Len(regions) : a \in regions[k].start .. regions[k].end
    BY <1>3 DEF IsLoaded
  <2>2. PICK m \in 1 .. Len(regions) : a + 1 \in regions[m].start .. regions[m].end
    BY <1>3 DEF IsLoaded
  <2>3. k = m
    BY <1>1, <2>1, <2>2, Neighbours
  <2>4. regions[k].start <= a /\ a + 2 - 1 <= regions[k].end
    BY <1>1, <2>1, <2>2, <2>3
  <2>5. RegionContains(regions[k], a, 2)
    BY <2>4, ContainsFacts
  <2> QED
    BY <2>5 DEF Contained
<1> QED
  BY <1>2, <1>3

\* Memory is what the region of an address holds.
LEMMA MemoryInRegion ==
  ASSUME LayoutOK(regions), NEW k \in 1 .. Len(regions),
         NEW a \in regions[k].start .. regions[k].end
  PROVE  Memory(a) = regions[k].bytes[a - regions[k].start + 1]
<1>1. a \in Nat
  BY RegionFacts
<1>2. \A m \in 1 .. Len(regions) : a \in regions[m].start .. regions[m].end => m = k
  BY <1>1, Neighbours
<1> DEFINE found == CHOOSE m \in 1 .. Len(regions) : a \in regions[m].start .. regions[m].end
<1>3. found = k
  BY <1>2
<1> QED
  BY <1>3 DEF Memory

-----------------------------------------------------------------------------
(* Words.                                                                  *)

\* One digit more.
LEMMA DigitBound ==
  ASSUME NEW b \in Nat \ {0}, NEW m \in Nat \ {0}, NEW x \in 0 .. b - 1, NEW y \in 0 .. m - 1
  PROVE  x + b * y \in 0 .. b * m - 1 /\ b * m \in Nat \ {0}
<1>1. b * y \in Nat /\ b * m \in Nat /\ b * (m - 1) \in Int
  OBVIOUS
<1>2. b * (m - 1) = b * m - b
  OBVIOUS
<1>3. b * y <= b * (m - 1)
  OBVIOUS
<1> QED
  BY <1>1, <1>2, <1>3

\* A word of four bytes does not wrap.
LEMMA WordBound ==
  ASSUME NEW bytes \in Seq(0 .. ByteBase - 1), NEW offset \in Nat, offset + 4 <= Len(bytes)
  PROVE  ReadWord(bytes, offset) \in 0 .. WordMax
<1>1. ByteBase \in Nat \ {0}
  BY DetectorAssumption DEF DetectorAssumption
<1>2. /\ bytes[offset + 1] \in 0 .. ByteBase - 1 /\ bytes[offset + 2] \in 0 .. ByteBase - 1
      /\ bytes[offset + 3] \in 0 .. ByteBase - 1 /\ bytes[offset + 4] \in 0 .. ByteBase - 1
  <2>1. Len(bytes) \in Nat
    BY LenProperties
  <2>2. /\ offset + 1 \in 1 .. Len(bytes) /\ offset + 2 \in 1 .. Len(bytes)
        /\ offset + 3 \in 1 .. Len(bytes) /\ offset + 4 \in 1 .. Len(bytes)
    BY <2>1
  <2> QED
    BY <2>2, ElementOfSeq
<1> DEFINE b == ByteBase
           w1 == bytes[offset + 3] + b * bytes[offset + 4]
           w2 == bytes[offset + 2] + b * w1
           w3 == bytes[offset + 1] + b * w2
<1>3. w1 \in 0 .. b * b - 1 /\ b * b \in Nat \ {0}
  BY <1>1, <1>2, DigitBound
<1> HIDE DEF w1
<1>4. w2 \in 0 .. b * (b * b) - 1 /\ b * (b * b) \in Nat \ {0}
  BY <1>1, <1>2, <1>3, DigitBound
<1> HIDE DEF w2
<1>5. w3 \in 0 .. b * (b * (b * b)) - 1
  BY <1>1, <1>2, <1>4, DigitBound
<1>6. b * (b * (b * b)) = b * b * b * b
  BY <1>1
<1>7. ReadWord(bytes, offset) = w3
  BY DEF ReadWord, w1, w2
<1> QED
  BY <1>5, <1>6, <1>7 DEF WordMax

\* A word read in a region is the word in memory.
LEMMA WordInMemory ==
  ASSUME LayoutOK(regions), NEW k \in 1 .. Len(regions), NEW a \in Nat,
         regions[k].start <= a, a + 3 <= regions[k].end
  PROVE  ReadWord(regions[k].bytes, a - regions[k].start) = MemoryWord(a)
<1> DEFINE bytes == regions[k].bytes
           offset == a - regions[k].start
<1>1. regions[k].start \in Nat /\ regions[k].end \in Nat /\ offset \in Nat
  BY RegionFacts
<1>2. ASSUME NEW d \in 0 .. 3
      PROVE  Memory(a + d) = bytes[offset + d + 1]
  <2>1. a + d \in regions[k].start .. regions[k].end
    BY <1>1
  <2>2. Memory(a + d) = bytes[(a + d) - regions[k].start + 1]
    BY <2>1, MemoryInRegion
  <2>3. (a + d) - regions[k].start + 1 = offset + d + 1
    BY <1>1
  <2> QED
    BY <2>2, <2>3
<1> HIDE DEF bytes, offset
<1>3. Memory(a) = bytes[offset + 1]
  <2>1. Memory(a + 0) = bytes[offset + 0 + 1]
    BY <1>2
  <2>2. a + 0 = a /\ offset + 0 + 1 = offset + 1
    BY <1>1
  <2> QED
    BY <2>1, <2>2
<1>4. Memory(a + 1) = bytes[offset + 2]
  <2>1. Memory(a + 1) = bytes[offset + 1 + 1]
    BY <1>2
  <2>2. offset + 1 + 1 = offset + 2
    BY <1>1
  <2> QED
    BY <2>1, <2>2
<1>5. Memory(a + 2) = bytes[offset + 3]
  <2>1. Memory(a + 2) = bytes[offset + 2 + 1]
    BY <1>2
  <2>2. offset + 2 + 1 = offset + 3
    BY <1>1
  <2> QED
    BY <2>1, <2>2
<1>6. Memory(a + 3) = bytes[offset + 4]
  <2>1. Memory(a + 3) = bytes[offset + 3 + 1]
    BY <1>2
  <2>2. offset + 3 + 1 = offset + 4
    BY <1>1
  <2> QED
    BY <2>1, <2>2
<1>7. ReadWord(bytes, offset) = MemoryWord(a)
  BY <1>3, <1>4, <1>5, <1>6, Zenon DEF ReadWord, MemoryWord
<1> QED
  BY <1>7 DEF bytes, offset

-----------------------------------------------------------------------------
(* Candidates.                                                             *)

Reported(c) == c.confidence # "none"

\* What ReportedTableIsLoaded says of a candidate.
TableLoaded(c) ==
  /\ \A d \in 0 .. 7 : c.table + d <= AddrMax /\ IsLoaded(c.table + d)
  /\ c.sp = MemoryWord(c.table)
  /\ c.resetRaw = MemoryWord(c.table + 4)
  /\ c.resetInRegion <=>
       IsLoaded(ResetAddress(c.resetRaw)) /\ IsLoaded(ResetAddress(c.resetRaw) + 1)

LEMMA ScoreTyped ==
  ASSUME NEW p \in BOOLEAN, NEW q \in BOOLEAN, NEW s \in BOOLEAN,
         NEW t \in BOOLEAN, NEW u \in BOOLEAN
  PROVE  Score(p, q, s, t, u) \in Nat
<1>1. /\ If(p, 2) \in Nat /\ If(p /\ q, 1) \in Nat /\ If(s, 2) \in Nat
      /\ If(t, 2) \in Nat /\ If(u, 1) \in Nat
  BY DEF If
<1> QED
  BY <1>1 DEF Score

\* The confidence is graded from the score.
LEMMA ConfidenceFacts ==
  ASSUME NEW score \in Nat
  PROVE  /\ ConfidenceOf(score) \in Confidence
         /\ ConfidenceOf(score) # "none" <=> score >= 2
BY DEF ConfidenceOf, Confidence

LEMMA LoadedCandidate ==
  ASSUME LayoutOK(regions), NEW a \in Address, Contained(a, 8)
  PROVE  /\ Loaded(a) \in Candidate
         /\ Loaded(a).confidence = ConfidenceOf(Loaded(a).score)
         /\ TableLoaded(Loaded(a))
<1>1. PICK k \in 1 .. Len(regions) :
        /\ FindRegion(a, 8) = regions[k]
        /\ regions[k].start <= a /\ a + 8 - 1 <= regions[k].end
  BY FoundRegion
<1> DEFINE bytes == regions[k].bytes
           offset == a - regions[k].start
           sp == ReadWord(bytes, offset)
           raw == ReadWord(bytes, offset + 4)
           inRegion == Contained(ResetAddress(raw), 2)
           common == a \in {0, FlashBase}
           score == Score(SpValid(sp), sp % 4 = 0, raw % 2 # 0, inRegion, common)
           c == [table |-> a, sp |-> sp, resetRaw |-> raw,
                 spValid |-> SpValid(sp), spAligned |-> sp % 4 = 0,
                 resetValid |-> raw % 2 # 0, resetInRegion |-> inRegion, common |-> common,
                 score |-> score, confidence |-> ConfidenceOf(score)]
<1>2. Loaded(a) = c
  BY <1>1 DEF Loaded
<1>3. /\ a \in Nat /\ AddrMax \in Nat /\ regions[k].start \in Nat
      /\ regions[k].end \in Nat /\ regions[k].end <= AddrMax
      /\ bytes \in Seq(0 .. ByteBase - 1)
      /\ Len(bytes) = regions[k].end - regions[k].start + 1
  BY RegionFacts, WidthAssumption DEF WidthAssumption, Address
<1>4. /\ offset \in Nat /\ offset + 4 \in Nat
      /\ offset + 4 <= Len(bytes) /\ offset + 4 + 4 <= Len(bytes)
      /\ a + 4 \in Nat /\ regions[k].start <= a + 4 /\ a + 4 + 3 <= regions[k].end
      /\ a + 3 <= regions[k].end
      /\ (a + 4) - regions[k].start = offset + 4
      /\ \A d \in 0 .. 7 : a + d \in regions[k].start .. regions[k].end
  <2> DEFINE s == regions[k].start
             e == regions[k].end
  <2>1. s \in Nat /\ e \in Nat /\ s <= a /\ a + 8 - 1 <= e /\ Len(bytes) = e - s + 1
    BY <1>1, <1>3
  <2> HIDE DEF s, e, bytes
  <2>2. /\ a + 4 \in Nat /\ s <= a + 4 /\ a + 4 + 3 <= e /\ a + 3 <= e
        /\ (a + 4) - s = (a - s) + 4 /\ a - s \in Nat /\ a - s + 4 \in Nat
    BY <1>3, <2>1
  <2>3. a - s + 4 <= Len(bytes) /\ a - s + 4 + 4 <= Len(bytes)
    BY <1>3, <2>1
  <2>4. \A d \in 0 .. 7 : a + d \in s .. e
    BY <1>3, <2>1
  <2> QED
    BY <2>2, <2>3, <2>4, Zenon DEF s, e, bytes
<1>5. sp \in 0 .. WordMax /\ raw \in 0 .. WordMax
  BY <1>3, <1>4, WordBound
<1>6. sp = MemoryWord(a) /\ raw = MemoryWord(a + 4)
  <2>1. ReadWord(bytes, a - regions[k].start) = MemoryWord(a)
    BY <1>1, <1>3, <1>4, WordInMemory
  <2>2. ReadWord(bytes, (a + 4) - regions[k].start) = MemoryWord(a + 4)
    BY <1>4, WordInMemory
  <2> QED
    BY <1>4, <2>1, <2>2
<1>7. \A d \in 0 .. 7 : a + d <= AddrMax /\ IsLoaded(a + d)
  <2> TAKE d \in 0 .. 7
  <2>1. a + d \in regions[k].start .. regions[k].end
    BY <1>4
  <2>2. a + d <= AddrMax
    BY <1>3, <2>1
  <2> QED
    BY <2>1, <2>2 DEF IsLoaded
<1> HIDE DEF sp, raw, bytes, offset
<1>8. WordMax \in Nat /\ WordMax <= AddrMax
  <2>1. ByteBase \in Nat \ {0, 1} /\ WordMax <= AddrMax
    BY DetectorAssumption DEF DetectorAssumption
  <2>2. ByteBase * ByteBase * ByteBase * ByteBase \in Nat
    BY <2>1
  <2>3. 0 <= WordMax
    BY <1>5, <2>2 DEF WordMax
  <2> QED
    BY <2>1, <2>2, <2>3 DEF WordMax
<1>9. ResetAddress(raw) \in Address
  <2>1. raw \in Nat /\ raw <= AddrMax
    BY <1>3, <1>5, <1>8
  <2>2. raw % 2 \in 0 .. 1 /\ raw % 2 <= raw
    BY <2>1
  <2> QED
    BY <1>3, <2>1, <2>2 DEF ResetAddress, Address
<1>10. inRegion <=> IsLoaded(ResetAddress(raw)) /\ IsLoaded(ResetAddress(raw) + 1)
  BY <1>9, PairContained
<1>11. SpValid(sp) \in BOOLEAN /\ inRegion \in BOOLEAN /\ common \in BOOLEAN
  BY DEF SpValid, Contained
<1>12. score \in Nat
  BY <1>11, ScoreTyped
<1> HIDE DEF inRegion, common, score
<1>13. ConfidenceOf(score) \in Confidence
  BY <1>12, ConfidenceFacts
<1>14. c \in Candidate
  BY <1>5, <1>11, <1>12, <1>13 DEF Candidate
<1>15. /\ c.table = a /\ c.sp = sp /\ c.resetRaw = raw /\ c.resetInRegion = inRegion
       /\ c.confidence = ConfidenceOf(score) /\ c.score = score
  OBVIOUS
<1> HIDE DEF c
<1>16. TableLoaded(c)
  BY <1>6, <1>7, <1>10, <1>15 DEF TableLoaded
<1> QED
  BY <1>2, <1>14, <1>15, <1>16

LEMMA NoCandidateFacts ==
  /\ NoCandidate \in Candidate
  /\ NoCandidate.confidence = ConfidenceOf(NoCandidate.score)
  /\ ~Reported(NoCandidate)
<1>1. /\ NoCandidate.confidence = "none" /\ NoCandidate.score = 0
  BY DEF NoCandidate
<1>2. AddrMax \in Nat /\ ByteBase \in Nat \ {0, 1}
  BY WidthAssumption, DetectorAssumption DEF WidthAssumption, DetectorAssumption
<1>3. 0 \in 0 .. WordMax
  <2>1. ByteBase * ByteBase * ByteBase * ByteBase \in Nat \ {0}
    BY <1>2
  <2> QED
    BY <2>1 DEF WordMax
<1>4. NoCandidate \in Candidate
  BY <1>2, <1>3 DEF NoCandidate, Candidate, Confidence, Address
<1> QED
  BY <1>1, <1>4 DEF Reported, ConfidenceOf

\* Whatever place is scored, the candidate is typed, graded from its score and,
\* if worth reporting, a table in loaded memory.
LEMMA CandidateFacts ==
  ASSUME LayoutOK(regions), NEW a \in Address
  PROVE  /\ ScoreCandidate(a) \in Candidate
         /\ ScoreCandidate(a).confidence = ConfidenceOf(ScoreCandidate(a).score)
         /\ Reported(ScoreCandidate(a)) => TableLoaded(ScoreCandidate(a))
BY LoadedCandidate, NoCandidateFacts DEF ScoreCandidate

-----------------------------------------------------------------------------
(* The specification.                                                      *)

\* What is kept is nothing, or one of the places scored.
BestIsScored == best = NoCandidate \/ \E a \in Address : best = ScoreCandidate(a)

NotBetter(c, kept) ==
  /\ c.score <= kept.score
  /\ c.score = kept.score /\ Reported(c) => kept.table <= c.table

\* No candidate of the first n places beats the one kept.
NoneBetter(n) == \A m \in 1 .. n : NotBetter(ScoreCandidate(Place(m)), best)

DetectorInv ==
  /\ LayoutOK(regions)
  /\ next \in 0 .. Places + 1
  /\ BestIsScored
  /\ NoneBetter(IF next = 0 /\ regions # <<>> THEN Places ELSE next - 1)

\* A candidate's fields that the comparison reads.
LEMMA ComparedFields ==
  ASSUME NEW c \in Candidate
  PROVE  c.score \in Nat /\ c.table \in Nat
<1>1. c.score \in Nat /\ c.table \in Address
  BY DEF Candidate
<1> QED
  BY <1>1, WidthAssumption DEF WidthAssumption, Address

LEMMA PlaceInSpace ==
  ASSUME LayoutOK(regions), NEW n \in 1 .. Places
  PROVE  Place(n) \in Address
<1>1. /\ AddrMax \in Nat /\ WordMax <= AddrMax /\ FlashBase \in 1 .. WordMax
      /\ Len(regions) \in Nat
  BY WidthAssumption, DetectorAssumption, LenProperties
     DEF WidthAssumption, DetectorAssumption, LayoutOK
<1>2. WordMax \in Int
  <2>1. ByteBase \in Nat
    BY DetectorAssumption DEF DetectorAssumption
  <2>2. ByteBase * ByteBase * ByteBase * ByteBase \in Nat
    BY <2>1
  <2> QED
    BY <2>2 DEF WordMax
<1>3. CASE n = 1
  BY <1>1, <1>3 DEF Place, Address
<1>4. CASE n = 2
  <2>1. FlashBase \in Nat /\ FlashBase <= AddrMax
    BY <1>1, <1>2
  <2> QED
    BY <1>1, <1>4, <2>1 DEF Place, Address
<1>5. CASE n \notin {1, 2}
  <2>1. n - 2 \in 1 .. Len(regions)
    BY <1>1, <1>5 DEF Places
  <2>2. Place(n) = regions[n - 2].start
    BY <1>5 DEF Place
  <2>3. regions[n - 2].start \in Nat /\ regions[n - 2].start <= AddrMax
    BY <2>1, RegionFacts
  <2> QED
    BY <1>1, <2>2, <2>3 DEF Address
<1> QED
  BY <1>3, <1>4, <1>5

LEMMA BestTyped ==
  ASSUME LayoutOK(regions), BestIsScored
  PROVE  best \in Candidate
BY CandidateFacts, NoCandidateFacts DEF BestIsScored

\* A candidate is a function of the regions.
LEMMA CandidatesStay ==
  ASSUME regions' = regions, NEW a
  PROVE  ScoreCandidate(a)' = ScoreCandidate(a)
<1>1. \A x, n : Contained(x, n)' = Contained(x, n)
  BY Zenon DEF Contained
<1>2. \A x, n : FindRegion(x, n)' = FindRegion(x, n)
  BY Zenon DEF FindRegion
<1>3. Loaded(a)' = Loaded(a)
  BY <1>1, <1>2, Zenon DEF Loaded
<1> QED
  BY <1>1, <1>3, Zenon DEF ScoreCandidate

LEMMA InitInv == Init => DetectorInv
<1> SUFFICES ASSUME Init PROVE DetectorInv
  OBVIOUS
<1>1. LayoutOK(regions) /\ next = 1 /\ best = NoCandidate
  BY DetectorAssumption DEF Init, DetectorAssumption
<1>2. Len(regions) \in Nat
  BY <1>1, LenProperties DEF LayoutOK
<1>3. next \in 0 .. Places + 1 /\ next - 1 = 0 /\ next # 0
  BY <1>1, <1>2 DEF Places
<1>4. NoneBetter(next - 1)
  BY <1>3 DEF NoneBetter
<1> QED
  BY <1>1, <1>3, <1>4 DEF DetectorInv, BestIsScored

\* Keeping the better of two keeps the best of all: the comparison is by score,
\* then, among those worth reporting, by address.
LEMMA ScoreKeepsInv ==
  ASSUME DetectorInv, ScoreNext
  PROVE  DetectorInv'
<1> DEFINE new == ScoreCandidate(Place(next))
<1>1. /\ LayoutOK(regions) /\ next \in 1 .. Places /\ Len(regions) \in Nat
      /\ regions' = regions /\ next' = next + 1
      /\ best' = IF Better(new, best) THEN new ELSE best
      /\ BestIsScored
  BY LenProperties DEF DetectorInv, ScoreNext, Scoring, LayoutOK
<1>2. Places \in Nat /\ next \in Nat \ {0}
  BY <1>1 DEF Places
<1>3. NoneBetter(next - 1)
  BY <1>2 DEF DetectorInv
<1>4. Place(next) \in Address
  BY <1>1, PlaceInSpace
<1>5. /\ new \in Candidate /\ best \in Candidate
      /\ new.score \in Nat /\ new.table \in Nat
      /\ best.score \in Nat /\ best.table \in Nat
  BY <1>1, <1>4, CandidateFacts, BestTyped, ComparedFields
<1>6. Reported(new) <=> new.score >= 2
  BY <1>1, <1>4, <1>5, CandidateFacts, ConfidenceFacts DEF Reported
<1> DEFINE kept == IF Better(new, best) THEN new ELSE best
<1>7. /\ kept \in Candidate /\ kept.score \in Nat /\ kept.table \in Nat
      /\ kept = new \/ kept = best
  BY <1>5
\* The one kept beats the new one and the one kept before.
<1>8. NotBetter(new, kept)
  <2>1. CASE Better(new, best)
    BY <1>5, <2>1 DEF NotBetter
  <2>2. CASE ~Better(new, best)
    BY <1>5, <2>2 DEF Better, Reported, NotBetter
  <2> QED
    BY <2>1, <2>2
<1>9. /\ best.score <= kept.score
      /\ best.score = kept.score => kept.table <= best.table
  <2>1. CASE Better(new, best)
    BY <1>5, <2>1 DEF Better
  <2>2. CASE ~Better(new, best)
    BY <1>5, <2>2
  <2> QED
    BY <2>1, <2>2
<1>10. ASSUME NEW m \in 1 .. next
       PROVE  NotBetter(ScoreCandidate(Place(m)), kept)
  <2> DEFINE c == ScoreCandidate(Place(m))
  <2>1. CASE m = next
    BY <1>8, <2>1
  <2>2. CASE m # next
    <3>1. m \in 1 .. next - 1 /\ m \in 1 .. Places
      BY <1>1, <1>2, <2>2
    <3>2. NotBetter(c, best)
      BY <1>3, <3>1 DEF NoneBetter
    <3>3. Place(m) \in Address
      BY <1>1, <3>1, PlaceInSpace
    <3>4. c.score \in Nat /\ c.table \in Nat
      BY <1>1, <3>3, CandidateFacts, ComparedFields
    <3> HIDE DEF c, kept
    <3> QED
      BY <1>5, <1>7, <1>9, <3>2, <3>4 DEF c, NotBetter
  <2> QED
    BY <2>1, <2>2
<1>11. \A m : Place(m)' = Place(m)
  BY <1>1 DEF Place
<1>12. \A a : ScoreCandidate(a)' = ScoreCandidate(a)
  BY <1>1, CandidatesStay
<1>13. BestIsScored'
  <2>1. best' = new \/ best' = best
    BY <1>1
  <2>2. best' = NoCandidate \/ \E a \in Address : best' = ScoreCandidate(a)
    BY <1>1, <1>4, <2>1 DEF BestIsScored
  <2> QED
    BY <1>12, <2>2 DEF BestIsScored
<1>14. best' = kept
  BY <1>1
<1> HIDE DEF new, kept
<1>15. \A m : ScoreCandidate(Place(m))' = ScoreCandidate(Place(m))
  BY <1>1, <1>11, CandidatesStay
<1>16. ASSUME NEW m \in 1 .. next
       PROVE  NotBetter(ScoreCandidate(Place(m))', best')
  BY <1>10, <1>14, <1>15
<1>17. NoneBetter(next - 1)'
  <2>1. next' - 1 = next
    BY <1>1, <1>2
  <2>2. \A m \in 1 .. next' - 1 : NotBetter(ScoreCandidate(Place(m))', best')
    BY <1>16, <2>1
  <2> QED
    BY <2>2, Zenon DEF NoneBetter, NotBetter, Reported
<1>18. next' \in 0 .. Places' + 1 /\ next' # 0
  BY <1>1, <1>2 DEF Places
<1>19. LayoutOK(regions)'
  BY <1>1, Zenon DEF LayoutOK
<1> QED
  BY <1>13, <1>17, <1>18, <1>19, Zenon DEF DetectorInv

\* A state with the same regions and best is as good for the same places.
LEMMA NoneBetterStays ==
  ASSUME regions' = regions, best' = best, NEW n, NoneBetter(n), NEW m \in 1 .. n
  PROVE  NotBetter(ScoreCandidate(Place(m))', best')
<1>1. Place(m)' = Place(m)
  BY DEF Place
<1>2. \A a : ScoreCandidate(a)' = ScoreCandidate(a)
  BY CandidatesStay
<1>3. ScoreCandidate(Place(m))' = ScoreCandidate(Place(m))
  BY <1>1, <1>2
<1> QED
  BY <1>3 DEF NoneBetter

LEMMA ReturnKeepsInv ==
  ASSUME DetectorInv, Return
  PROVE  DetectorInv'
<1>1. /\ next # 0 /\ next' = 0 /\ regions' = regions /\ best' = best
      /\ regions = <<>> \/ ~Scoring
      /\ next \in 0 .. Places + 1 /\ NoneBetter(next - 1)
  BY DEF DetectorInv, Return
<1>2. Len(regions) \in Nat
  BY LenProperties DEF DetectorInv, LayoutOK
<1>3. Places \in Nat /\ Places' = Places /\ next \in Nat
  BY <1>1, <1>2 DEF Places
<1>4. CASE regions = <<>>
  <2>1. NoneBetter(next - 1)'
    BY <1>1 DEF NoneBetter
  <2> QED
    BY <1>1, <1>3, <1>4, <2>1, CandidatesStay DEF DetectorInv, BestIsScored, LayoutOK
<1>5. CASE regions # <<>>
  <2>1. next - 1 = Places
    BY <1>1, <1>3, <1>5 DEF Scoring
  <2>2. ASSUME NEW m \in 1 .. next - 1
        PROVE  NotBetter(ScoreCandidate(Place(m))', best')
    BY <1>1, NoneBetterStays
  <2>3. NoneBetter(Places)'
    BY <1>3, <2>1, <2>2 DEF NoneBetter, NotBetter, Reported
  <2> QED
    BY <1>1, <1>3, <1>5, <2>3, CandidatesStay DEF DetectorInv, BestIsScored, LayoutOK
<1> QED
  BY <1>4, <1>5

LEMMA StepKeepsInv == DetectorInv /\ [Next]_vars => DetectorInv'
<1> SUFFICES ASSUME DetectorInv, [Next]_vars PROVE DetectorInv'
  OBVIOUS
<1>1. CASE ScoreNext
  BY <1>1, ScoreKeepsInv
<1>2. CASE Return
  BY <1>2, ReturnKeepsInv
<1>3. CASE UNCHANGED vars
  <2>1. regions' = regions /\ next' = next /\ best' = best
    BY <1>3 DEF vars
  <2>2. Len(regions) \in Nat
    BY LenProperties DEF DetectorInv, LayoutOK
  <2> DEFINE n == IF next = 0 /\ regions # <<>> THEN Places ELSE next - 1
  <2>3. n \in Int /\ n' = n
    BY <2>1, <2>2 DEF DetectorInv, Places
  <2>4. NoneBetter(n)
    BY DEF DetectorInv
  <2> HIDE DEF n
  <2>5. \A m \in 1 .. n : NotBetter(ScoreCandidate(Place(m))', best')
    BY <2>1, <2>3, <2>4, NoneBetterStays
  <2>6. NoneBetter(n)'
    BY <2>3, <2>5, Zenon DEF NoneBetter, NotBetter, Reported
  <2>7. LayoutOK(regions)' /\ next' \in 0 .. Places' + 1 /\ BestIsScored'
    BY <2>1, CandidatesStay DEF DetectorInv, BestIsScored, LayoutOK, Places
  <2> QED
    BY <2>6, <2>7, Zenon DEF DetectorInv, n
<1> QED
  BY <1>1, <1>2, <1>3 DEF Next

LEMMA InvSuffices == DetectorInv => TypeOK /\ ReportedTableIsLoaded /\ StrongestIsKept
<1> SUFFICES ASSUME DetectorInv PROVE TypeOK /\ ReportedTableIsLoaded /\ StrongestIsKept
  OBVIOUS
<1>1. LayoutOK(regions) /\ BestIsScored /\ next \in 0 .. Places + 1
  BY DEF DetectorInv
<1>2. TypeOK
  BY <1>1, BestTyped DEF TypeOK
<1>3. ReportedTableIsLoaded
  <2> SUFFICES ASSUME Reported(best) PROVE TableLoaded(best)
    BY Zenon DEF ReportedTableIsLoaded, Reported, TableLoaded
  <2>1. PICK a \in Address : best = ScoreCandidate(a)
    BY <1>1, NoCandidateFacts DEF BestIsScored
  <2> QED
    BY <1>1, <2>1, CandidateFacts
<1>4. StrongestIsKept
  BY Zenon DEF DetectorInv, StrongestIsKept, NoneBetter, NotBetter, Reported
<1> QED
  BY <1>2, <1>3, <1>4

LEMMA SpecInv == Spec => []DetectorInv
BY InitInv, StepKeepsInv, PTL DEF Spec

\* The words of a candidate fit 32 bits, its score and confidence are what the
\* grading can give, and the walk over the places stays within them.
THEOREM DetectorIsTyped == Spec => []TypeOK
BY SpecInv, InvSuffices, PTL

\* A table the detector keeps lies in loaded memory with all its bytes and holds
\* what memory holds there, for every layout and every address width
\* (vector_table.c:22-60, 94-118).
THEOREM ReportedHolds == Spec => []ReportedTableIsLoaded
BY SpecInv, InvSuffices, PTL

\* After any number of places none of them beats the candidate kept
\* (vector_table.c:122-189).
THEOREM StrongestHolds == Spec => []StrongestIsKept
BY SpecInv, InvSuffices, PTL

=============================================================================
