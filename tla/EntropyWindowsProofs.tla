------------------------ MODULE EntropyWindowsProofs ------------------------
(***************************************************************************)
(* The windows of the entropy table partition the regions, a heat map row  *)
(* can be addressed by counting, and the heat map shows the table, for     *)
(* every platform width, every layout, every window size the command line  *)
(* accepts and every row width.                                            *)
(***************************************************************************)
EXTENDS EntropyWindows, SequenceTheorems, NaturalsInduction, WellFoundedInduction, TLAPS

-----------------------------------------------------------------------------
(* Regions and windows.                                                    *)

\* What a layout says of one region, without its record.
LEMMA RegionFacts ==
  ASSUME LayoutOK(regions), NEW k \in 1 .. Len(regions)
  PROVE  /\ regions[k].start \in Address /\ regions[k].end \in Address
         /\ Length(regions[k]) \in Nat
         /\ regions[k].start <= regions[k].end
         /\ Length(regions[k]) = regions[k].end - regions[k].start + 1
         /\ Length(regions[k]) <= AllocMax
<1>1. regions \in Seq(Region)
  BY DEF LayoutOK
<1>2. regions[k] \in Region
  BY <1>1, ElementOfSeq
<1>3. regions[k].bytes \in Seq(Nat)
  BY <1>2 DEF Region
<1>4. Len(regions[k].bytes) \in Nat
  BY <1>3, LenProperties
<1> QED
  BY <1>2, <1>4 DEF Region, Length, LayoutOK

\* Of two regions the earlier ends before the later begins.
LEMMA RegionsApart ==
  ASSUME LayoutOK(regions),
         NEW k \in 1 .. Len(regions), NEW m \in 1 .. Len(regions), k < m
  PROVE  regions[k].end < regions[m].start
BY DEF LayoutOK

\* The next window of a walk begins at the offset, does not wrap, stays in its
\* region, and is shorter than asked for only at the end of the region.
LEMMA WindowFacts ==
  ASSUME LayoutOK(regions), chunkSize \in 1 .. SizeMax,
         r \in 1 .. Len(regions), offset \in Nat, offset < Length(regions[r])
  PROVE  /\ WindowLength \in Nat \ {0}
         /\ WindowLength <= chunkSize
         /\ offset + WindowLength <= Length(regions[r])
         /\ WindowLength = chunkSize \/ offset + WindowLength = Length(regions[r])
         /\ Window \in [start : Address, end : Address]
         /\ Window.start = regions[r].start + offset
         /\ Window.end = Window.start + WindowLength - 1
         /\ Window.end <= regions[r].end
<1>1. /\ regions[r].start \in Address /\ regions[r].end \in Address
      /\ Length(regions[r]) \in Nat
      /\ Length(regions[r]) = regions[r].end - regions[r].start + 1
  BY RegionFacts
<1>2. /\ AddrMax \in Nat /\ SizeMax \in Nat /\ chunkSize \in Nat \ {0}
      /\ Address = 0 .. AddrMax
  BY WidthAssumption DEF WidthAssumption, Address
<1> DEFINE s == regions[r].start
           e == regions[r].end
           len == Length(regions[r])
           w == WindowLength
<1>3. w = IF chunkSize < len - offset THEN chunkSize ELSE len - offset
  BY DEF WindowLength
<1>4. /\ s \in Nat /\ e \in Nat /\ e <= AddrMax /\ len \in Nat /\ len = e - s + 1
  BY <1>1, <1>2
<1>5. offset < len
  OBVIOUS
<1>6. Window = [start |-> WrapAddr(s + offset),
                end |-> WrapAddr(WrapAddr(s + offset) + w - 1)]
  BY DEF Window
<1> HIDE DEF s, e, len, w
<1>7. /\ w \in Nat \ {0} /\ w <= chunkSize /\ offset + w <= len
      /\ w = chunkSize \/ offset + w = len
  BY <1>2, <1>3, <1>4, <1>5
<1>8. WrapAddr(s + offset) = s + offset /\ s + offset \in Nat /\ s + offset <= AddrMax
  BY <1>2, <1>4, <1>5 DEF WrapAddr
<1>9. /\ s + offset + w - 1 \in Nat
      /\ s + offset + w - 1 <= e
      /\ s + offset + w - 1 <= AddrMax
  BY <1>2, <1>4, <1>7
<1>10. WrapAddr(s + offset + w - 1) = s + offset + w - 1
  BY <1>2, <1>9 DEF WrapAddr
<1>11. Window = [start |-> s + offset, end |-> s + offset + w - 1]
  BY <1>6, <1>8, <1>10
<1>12. s + offset \in Address /\ s + offset + w - 1 \in Address
  BY <1>2, <1>8, <1>9
<1> QED
  BY <1>7, <1>9, <1>11, <1>12 DEF s, e, len, w

-----------------------------------------------------------------------------
(* The table.                                                              *)

Covers(w, a) == w.start <= a /\ a <= w.end

CoveredOnce(s, a) == \E n \in 1 .. Len(s) : \A m \in 1 .. Len(s) : Covers(s[m], a) <=> m = n

Inside(region, w) == region.start <= w.start /\ w.start <= w.end /\ w.end <= region.end

\* The offset is a multiple of the window size, and so larger than it or zero:
\* the next sum stays below twice the largest block.
OffsetsDoNotWrap == walk = "table" => offset = 0 \/ chunkSize <= offset

\* Every window lies in a region the table has reached ...
WindowsInRegions ==
  \A n \in 1 .. Len(table) : \E k \in 1 .. Len(regions) :
    /\ walk = "table" => k <= r
    /\ Inside(regions[k], table[n])

\* ... and before the address it goes on with.
WindowsBehind ==
  walk = "table" /\ r <= Len(regions) =>
    \A n \in 1 .. Len(table) : table[n].end < regions[r].start + offset

WalkedCovered ==
  \A k \in 1 .. Len(regions) : \A a \in Walked(k) : CoveredOnce(table, a)

TableInv == TypeOK /\ OffsetsDoNotWrap /\ WindowsInRegions /\ WindowsBehind /\ WalkedCovered

\* A window past an address leaves the windows that cover it as they were.
LEMMA LaterWindow ==
  ASSUME NEW Windows, NEW s \in Seq(Windows), NEW w \in Windows,
         NEW a, ~Covers(w, a), CoveredOnce(s, a)
  PROVE  CoveredOnce(Append(s, w), a)
<1>1. /\ Len(s) \in Nat /\ Len(Append(s, w)) = Len(s) + 1
      /\ \A n \in 1 .. Len(s) : Append(s, w)[n] = s[n]
      /\ Append(s, w)[Len(s) + 1] = w
  BY AppendProperties, LenProperties
<1>2. PICK n \in 1 .. Len(s) : \A m \in 1 .. Len(s) : Covers(s[m], a) <=> m = n
  BY DEF CoveredOnce
<1>3. n \in 1 .. Len(Append(s, w))
  BY <1>1
<1>4. ASSUME NEW m \in 1 .. Len(Append(s, w))
      PROVE  Covers(Append(s, w)[m], a) <=> m = n
  <2>1. CASE m = Len(s) + 1
    BY <1>1, <2>1
  <2>2. CASE m # Len(s) + 1
    <3>1. m \in 1 .. Len(s)
      BY <1>1, <2>2
    <3> QED
      BY <1>1, <1>2, <3>1
  <2> QED
    BY <2>1, <2>2
<1> QED
  BY <1>3, <1>4 DEF CoveredOnce

\* A window over an address that no window covers is the one that does.
LEMMA FirstWindow ==
  ASSUME NEW Windows, NEW s \in Seq(Windows), NEW w \in Windows,
         NEW a, Covers(w, a), \A n \in 1 .. Len(s) : ~Covers(s[n], a)
  PROVE  CoveredOnce(Append(s, w), a)
<1>1. /\ Len(s) \in Nat /\ Len(Append(s, w)) = Len(s) + 1
      /\ \A n \in 1 .. Len(s) : Append(s, w)[n] = s[n]
      /\ Append(s, w)[Len(s) + 1] = w
  BY AppendProperties, LenProperties
<1>2. Len(s) + 1 \in 1 .. Len(Append(s, w))
  BY <1>1
<1>3. ASSUME NEW m \in 1 .. Len(Append(s, w))
      PROVE  Covers(Append(s, w)[m], a) <=> m = Len(s) + 1
  <2>1. CASE m = Len(s) + 1
    BY <1>1, <2>1
  <2>2. CASE m # Len(s) + 1
    <3>1. m \in 1 .. Len(s)
      BY <1>1, <2>2
    <3> QED
      BY <1>1, <2>2, <3>1
  <2> QED
    BY <2>1, <2>2
<1> QED
  BY <1>2, <1>3 DEF CoveredOnce

\* What the invariant says of a walk that stands inside a region.
LEMMA InsideFacts ==
  ASSUME TypeOK, InsideRegion
  PROVE  /\ LayoutOK(regions) /\ Len(regions) \in Nat
         /\ r \in 1 .. Len(regions) /\ offset \in Nat /\ offset < Length(regions[r])
         /\ chunkSize \in 1 .. SizeMax
<1>1. regions \in Seq(Region)
  BY DEF TypeOK, LayoutOK
<1>2. Len(regions) \in Nat
  BY <1>1, LenProperties
<1>3. SizeMax \in Nat
  BY WidthAssumption DEF WidthAssumption
<1> QED
  BY <1>2, <1>3 DEF TypeOK, InsideRegion

LEMMA TableWindowKeepsInv ==
  ASSUME TableInv, TableWindow
  PROVE  OffsetsDoNotWrap' /\ WindowsInRegions' /\ WindowsBehind' /\ WalkedCovered'
         /\ offset' = offset + chunkSize /\ offset' \in 0 .. SizeMax
<1>1. /\ LayoutOK(regions) /\ Len(regions) \in Nat
      /\ r \in 1 .. Len(regions) /\ offset \in Nat /\ offset < Length(regions[r])
      /\ chunkSize \in 1 .. SizeMax
  BY InsideFacts DEF TableInv, TableWindow
<1>2. /\ walk = "table" /\ walk' = walk /\ regions' = regions /\ r' = r
      /\ chunkSize' = chunkSize /\ table' = Append(table, Window)
      /\ offset' = WrapSize(offset + chunkSize)
  BY DEF TableWindow, inputs, OffsetAfterTable
<1> DEFINE s == regions[r].start
           e == regions[r].end
           len == Length(regions[r])
           first == Window.start
           last == Window.end
<1>3. /\ WindowLength \in Nat \ {0} /\ WindowLength <= chunkSize
      /\ WindowLength = chunkSize \/ offset + WindowLength = len
      /\ Window \in [start : Address, end : Address]
      /\ first = s + offset
      /\ last = first + WindowLength - 1
      /\ last <= e
  BY <1>1, WindowFacts
<1>4. /\ s \in Nat /\ e \in Nat /\ len \in Nat /\ len = e - s + 1 /\ len <= AllocMax
      /\ AllocMax \in Nat /\ SizeMax \in Nat /\ 2 * AllocMax <= SizeMax
      /\ chunkSize \in Nat \ {0} /\ chunkSize <= SizeMax
  BY <1>1, RegionFacts, WidthAssumption DEF WidthAssumption, Address
<1>5. offset = 0 \/ chunkSize <= offset
  BY <1>2 DEF TableInv, OffsetsDoNotWrap
<1>6. table \in Seq([start : Address, end : Address])
  BY DEF TableInv, TypeOK
<1>7. /\ Len(table) \in Nat /\ Len(table') = Len(table) + 1
      /\ \A n \in 1 .. Len(table) : table'[n] = table[n]
      /\ table'[Len(table) + 1] = Window
  BY <1>2, <1>3, <1>6, AppendProperties, LenProperties
<1>8. offset + chunkSize <= SizeMax /\ offset + chunkSize \in Nat
  BY <1>1, <1>4, <1>5
<1>9. offset' = offset + chunkSize
  BY <1>2, <1>4, <1>8 DEF WrapSize
<1>10. \A n \in 1 .. Len(table) : table[n].end < s + offset
  BY <1>1, <1>2 DEF TableInv, WindowsBehind
<1>11. \A n \in 1 .. Len(table) : table[n].start \in Nat /\ table[n].end \in Nat
  <2> TAKE n \in 1 .. Len(table)
  <2>1. table[n] \in [start : Address, end : Address]
    BY <1>6, ElementOfSeq
  <2> QED
    BY <2>1, WidthAssumption DEF WidthAssumption, Address
<1> HIDE DEF s, e, len, first, last
<1>12. OffsetsDoNotWrap'
  BY <1>1, <1>2, <1>4, <1>9 DEF OffsetsDoNotWrap
<1>13. Inside(regions[r], Window)
  <2>1. s <= first /\ first <= last /\ last <= e
    BY <1>1, <1>3, <1>4
  <2> QED
    BY <2>1 DEF Inside, s, e, first, last
<1>14. WindowsInRegions'
  <2> SUFFICES ASSUME NEW n \in 1 .. Len(table')
               PROVE  \E k \in 1 .. Len(regions) : k <= r /\ Inside(regions[k], table'[n])
    BY <1>2 DEF WindowsInRegions
  <2>1. CASE n = Len(table) + 1
    BY <1>1, <1>7, <1>13, <2>1
  <2>2. CASE n # Len(table) + 1
    <3>1. n \in 1 .. Len(table)
      BY <1>7, <2>2
    <3>2. \E k \in 1 .. Len(regions) : k <= r /\ Inside(regions[k], table[n])
      BY <1>2, <3>1 DEF TableInv, WindowsInRegions
    <3> QED
      BY <1>7, <3>1, <3>2
  <2> QED
    BY <2>1, <2>2
<1>15. WindowsBehind'
  <2>1. ASSUME NEW n \in 1 .. Len(table')
        PROVE  table'[n].end < s + offset'
    <3>1. CASE n = Len(table) + 1
      <4>1. last < s + offset'
        BY <1>1, <1>3, <1>4, <1>9
      <4> QED
        BY <1>7, <3>1, <4>1 DEF last
    <3>2. CASE n # Len(table) + 1
      <4>1. n \in 1 .. Len(table)
        BY <1>7, <3>2
      <4>2. table[n].end < s + offset /\ table[n].end \in Nat
        BY <1>10, <1>11, <4>1
      <4>3. s + offset <= s + offset'
        BY <1>1, <1>4, <1>9
      <4>4. table[n].end < s + offset'
        BY <1>1, <1>4, <1>9, <4>2, <4>3
      <4> QED
        BY <1>7, <4>1, <4>4
    <3> QED
      BY <3>1, <3>2
  <2> QED
    BY <1>2, <2>1 DEF WindowsBehind, s
<1>16. WalkedCovered'
  <2> SUFFICES ASSUME NEW k \in 1 .. Len(regions), NEW a \in Walked(k)'
               PROVE  CoveredOnce(table, a)'
    BY <1>2 DEF WalkedCovered
  <2>1. CASE k < r
    <3>1. a \in Walked(k) /\ a \in regions[k].start .. regions[k].end
      BY <1>2, <2>1 DEF Walked
    <3>2. CoveredOnce(table, a)
      BY <3>1 DEF TableInv, WalkedCovered
    <3>3. regions[k].end \in Nat /\ regions[k].start \in Nat
      BY <1>1, RegionFacts, WidthAssumption DEF WidthAssumption, Address
    <3>4. regions[k].end < s
      BY <1>1, <2>1, RegionsApart DEF s
    <3>5. a < first
      <4>1. a \in Int /\ a <= regions[k].end
        BY <3>1, <3>3
      <4>2. s <= first
        BY <1>1, <1>3, <1>4
      <4>3. first \in Nat
        BY <1>1, <1>3, <1>4
      <4> QED
        BY <1>4, <3>3, <3>4, <4>1, <4>2, <4>3
    <3>6. ~Covers(Window, a)
      BY <1>1, <1>3, <1>4, <3>1, <3>3, <3>5 DEF Covers, first
    <3> QED
      BY <1>2, <1>3, <1>6, <3>2, <3>6, LaterWindow
  <2>2. CASE k = r
    <3>1. a \in s .. e /\ a < s + offset'
      BY <1>2, <2>2 DEF Walked, s, e
    <3>2. CASE a < s + offset
      <4>1. a \in Walked(k)
        BY <1>1, <1>2, <2>2, <3>1, <3>2 DEF Walked, s, e
      <4>2. CoveredOnce(table, a)
        BY <4>1 DEF TableInv, WalkedCovered
      <4>3. ~Covers(Window, a)
        BY <1>1, <1>3, <1>4, <3>1, <3>2 DEF Covers, first
      <4> QED
        BY <1>2, <1>3, <1>6, <4>2, <4>3, LaterWindow
    <3>3. CASE ~(a < s + offset)
      <4>1. first <= a /\ a <= last
        BY <1>1, <1>3, <1>4, <1>9, <3>1, <3>3
      <4>2. Covers(Window, a)
        BY <4>1 DEF Covers, first, last
      <4>3. ASSUME NEW n \in 1 .. Len(table)
            PROVE  ~Covers(table[n], a)
        <5>1. table[n].end < s + offset /\ table[n].end \in Nat
          BY <1>10, <1>11
        <5>2. ~(a <= table[n].end)
          BY <1>1, <1>4, <3>1, <3>3, <5>1
        <5> QED
          BY <5>2 DEF Covers
      <4> QED
        BY <1>2, <1>3, <1>6, <4>2, <4>3, FirstWindow
    <3> QED
      BY <3>2, <3>3
  <2>3. CASE r < k
    <3>1. Walked(k)' = {}
      BY <1>1, <1>2, <2>3 DEF Walked
    <3> QED
      BY <3>1
  <2> QED
    BY <1>1, <2>1, <2>2, <2>3
<1> QED
  BY <1>4, <1>8, <1>9, <1>12, <1>14, <1>15, <1>16

\* Leaving a region: its offset is past its last address.
LEMMA TableRegionDoneKeepsInv ==
  ASSUME TableInv, TableRegionDone
  PROVE  OffsetsDoNotWrap' /\ WindowsInRegions' /\ WindowsBehind' /\ WalkedCovered'
<1>1. /\ walk = "table" /\ walk' = walk /\ regions' = regions /\ r' = r + 1
      /\ chunkSize' = chunkSize /\ table' = table /\ offset' = 0
      /\ r <= Len(regions) /\ ~(offset < Length(regions[r]))
  BY DEF TableRegionDone, NextRegion, InsideRegion, inputs
<1>2. /\ LayoutOK(regions) /\ regions \in Seq(Region) /\ Len(regions) \in Nat
      /\ r \in 1 .. Len(regions) /\ offset \in Nat
  <2>1. LayoutOK(regions) /\ regions \in Seq(Region)
    BY DEF TableInv, TypeOK, LayoutOK
  <2>2. Len(regions) \in Nat
    BY <2>1, LenProperties
  <2>3. SizeMax \in Nat
    BY WidthAssumption DEF WidthAssumption
  <2> QED
    BY <1>1, <2>1, <2>2, <2>3 DEF TableInv, TypeOK
<1>3. \A k \in 1 .. Len(regions) :
        /\ regions[k].start \in Nat /\ regions[k].end \in Nat
        /\ Length(regions[k]) \in Nat
        /\ Length(regions[k]) = regions[k].end - regions[k].start + 1
  BY <1>2, RegionFacts, WidthAssumption DEF WidthAssumption, Address
<1>4. table \in Seq([start : Address, end : Address])
  BY DEF TableInv, TypeOK
<1>5. \A n \in 1 .. Len(table) : table[n].start \in Nat /\ table[n].end \in Nat
  <2> TAKE n \in 1 .. Len(table)
  <2>1. table[n] \in [start : Address, end : Address]
    BY <1>4, ElementOfSeq
  <2> QED
    BY <2>1, WidthAssumption DEF WidthAssumption, Address
<1>6. \A n \in 1 .. Len(table) :
        \E k \in 1 .. Len(regions) : k <= r /\ Inside(regions[k], table[n])
  BY <1>1 DEF TableInv, WindowsInRegions
<1>7. OffsetsDoNotWrap'
  BY <1>1 DEF OffsetsDoNotWrap
<1>8. WindowsInRegions'
  <2> SUFFICES ASSUME NEW n \in 1 .. Len(table)
               PROVE  \E k \in 1 .. Len(regions) : k <= r + 1 /\ Inside(regions[k], table[n])
    BY <1>1 DEF WindowsInRegions
  <2>1. PICK k \in 1 .. Len(regions) : k <= r /\ Inside(regions[k], table[n])
    BY <1>6
  <2>2. k <= r + 1
    BY <1>2, <2>1
  <2> QED
    BY <2>1, <2>2
<1>9. WindowsBehind'
  <2> SUFFICES ASSUME r + 1 <= Len(regions), NEW n \in 1 .. Len(table)
               PROVE  table[n].end < regions[r + 1].start + 0
    BY <1>1 DEF WindowsBehind
  <2>1. PICK k \in 1 .. Len(regions) : k <= r /\ Inside(regions[k], table[n])
    BY <1>6
  <2>2. r + 1 \in 1 .. Len(regions) /\ k < r + 1
    BY <1>2, <2>1
  <2>3. regions[k].end < regions[r + 1].start
    BY <1>2, <2>2, RegionsApart
  <2>4. table[n].end <= regions[k].end
    BY <2>1 DEF Inside
  <2> QED
    BY <1>3, <1>5, <2>2, <2>3, <2>4
<1>10. WalkedCovered'
  <2> SUFFICES ASSUME NEW k \in 1 .. Len(regions), NEW a \in Walked(k)'
               PROVE  CoveredOnce(table, a)
    BY <1>1 DEF WalkedCovered
  <2>1. CASE k <= r
    <3>1. a \in regions[k].start .. regions[k].end
      BY <1>1, <1>2, <2>1 DEF Walked
    <3>2. a \in Walked(k)
      <4>1. CASE k < r
        BY <3>1, <4>1 DEF Walked
      <4>2. CASE k = r
        <5>1. a < regions[r].start + offset
          BY <1>1, <1>2, <1>3, <3>1, <4>2
        <5> QED
          BY <1>1, <1>2, <3>1, <4>2, <5>1 DEF Walked
      <4> QED
        BY <1>2, <2>1, <4>1, <4>2
    <3> QED
      BY <3>2 DEF TableInv, WalkedCovered
  <2>2. CASE k = r + 1
    <3>1. Walked(k)' = {x \in regions[k].start .. regions[k].end : x < regions[k].start + 0}
      BY <1>1, <1>2, <2>2 DEF Walked
    <3>2. a \in regions[k].start .. regions[k].end /\ a < regions[k].start + 0
      BY <3>1
    <3> QED
      BY <1>3, <3>2
  <2>3. CASE r + 1 < k
    <3>1. Walked(k)' = {}
      BY <1>1, <1>2, <2>3 DEF Walked
    <3> QED
      BY <3>1
  <2> QED
    BY <1>2, <2>1, <2>2, <2>3
<1> QED
  BY <1>7, <1>8, <1>9, <1>10

\* The table done, every region is walked.
LEMMA TableDoneKeepsInv ==
  ASSUME TableInv, TableDone
  PROVE  OffsetsDoNotWrap' /\ WindowsInRegions' /\ WindowsBehind' /\ WalkedCovered'
<1>1. /\ walk = "table" /\ walk' = "heatmap" /\ regions' = regions
      /\ table' = table /\ r > Len(regions)
  BY DEF TableDone, inputs
<1>2. Len(regions) \in Nat /\ r \in Nat
  <2>1. regions \in Seq(Region)
    BY DEF TableInv, TypeOK, LayoutOK
  <2>2. Len(regions) \in Nat
    BY <2>1, LenProperties
  <2> QED
    BY <2>2 DEF TableInv, TypeOK
<1>3. \A k \in 1 .. Len(regions) : Walked(k)' = Walked(k)
  <2> TAKE k \in 1 .. Len(regions)
  <2>1. k < r
    BY <1>1, <1>2
  <2> QED
    BY <1>1, <2>1 DEF Walked
<1>4. WalkedCovered'
  BY <1>1, <1>3 DEF TableInv, WalkedCovered
<1>5. WindowsInRegions'
  BY <1>1 DEF TableInv, WindowsInRegions
<1> QED
  BY <1>1, <1>4, <1>5 DEF OffsetsDoNotWrap, WindowsBehind

\* The heat map leaves the table alone.
LEMMA AfterTableKeepsInv ==
  ASSUME TableInv, walk # "table", walk' # "table", table' = table, regions' = regions
  PROVE  OffsetsDoNotWrap' /\ WindowsInRegions' /\ WindowsBehind' /\ WalkedCovered'
<1>1. \A k \in 1 .. Len(regions) : Walked(k)' = Walked(k)
  BY DEF Walked
<1> QED
  BY <1>1 DEF TableInv, OffsetsDoNotWrap, WindowsInRegions, WindowsBehind, WalkedCovered

-----------------------------------------------------------------------------
(* The rows of the heat map.                                               *)

WindowType == [start : Address, end : Address]
RowType == [start : Address, cells : Seq(WindowType)]

\* What RowsAreAddressable says of one row.
RowOK(row) ==
  /\ Len(row.cells) \in 1 .. RowSymbols
  /\ row.cells[1].start = row.start
  /\ \A m \in 2 .. Len(row.cells) :
       row.cells[m].start = row.cells[m - 1].start + chunkSize

AllRowsOK == \A n \in 1 .. Len(rows) : RowOK(rows[n])

\* A row that goes on holds as many symbols as were counted, and the window
\* that comes next, if the region has one, is one window size further.
RowGoesOn ==
  symbols # 0 =>
    /\ rows # <<>>
    /\ Len(rows[Len(rows)].cells) = symbols
    /\ InsideRegion =>
         rows[Len(rows)].cells[symbols].start + chunkSize = regions[r].start + offset

RowsInv == TypeOK /\ AllRowsOK /\ RowGoesOn /\ (walk = "table" => symbols = 0)

\* A first symbol makes a row that is in order.
LEMMA FirstSymbol ==
  ASSUME NEW w \in WindowType
  PROVE  /\ [start |-> w.start, cells |-> <<w>>] \in RowType
         /\ RowOK([start |-> w.start, cells |-> <<w>>])
         /\ <<w>>[1] = w /\ Len(<<w>>) = 1
<1>1. /\ <<w>> \in Seq(WindowType) /\ <<w>>[1] = w /\ Len(<<w>>) = 1
  OBVIOUS
<1>2. RowSymbols \in Nat \ {0}
  BY WindowAssumption DEF WindowAssumption
<1>3. [start |-> w.start, cells |-> <<w>>] \in RowType
  BY <1>1 DEF RowType, WindowType
<1> DEFINE row == [start |-> w.start, cells |-> <<w>>]
<1>4. row.cells = <<w>> /\ row.start = w.start
  OBVIOUS
<1>5. Len(row.cells) \in 1 .. RowSymbols
  BY <1>1, <1>2, <1>4
<1>6. row.cells[1].start = row.start
  BY <1>1, <1>4
<1>7. \A m \in 2 .. Len(row.cells) : FALSE
  BY <1>1, <1>4
<1> QED
  BY <1>1, <1>3, <1>5, <1>6, <1>7 DEF RowOK

\* A symbol one window size further keeps a row that is not full in order.
LEMMA NextSymbol ==
  ASSUME NEW row \in RowType, RowOK(row), NEW w \in WindowType,
         Len(row.cells) # RowSymbols,
         row.cells[Len(row.cells)].start + chunkSize = w.start
  PROVE  /\ [row EXCEPT !.cells = Append(@, w)] \in RowType
         /\ RowOK([row EXCEPT !.cells = Append(@, w)])
         /\ Len([row EXCEPT !.cells = Append(@, w)].cells) = Len(row.cells) + 1
         /\ [row EXCEPT !.cells = Append(@, w)].cells[Len(row.cells) + 1] = w
<1> DEFINE cells == row.cells
           more == Append(cells, w)
           new == [row EXCEPT !.cells = more]
<1>1. cells \in Seq(WindowType) /\ row.start \in Address
  BY DEF RowType
<1>2. /\ more \in Seq(WindowType)
      /\ Len(cells) \in Nat /\ Len(more) = Len(cells) + 1
      /\ \A n \in 1 .. Len(cells) : more[n] = cells[n]
      /\ more[Len(cells) + 1] = w
  BY <1>1, AppendProperties, LenProperties
<1>3. new \in RowType /\ new.cells = more /\ new.start = row.start
  BY <1>1, <1>2 DEF RowType
<1>4. RowSymbols \in Nat \ {0}
  BY WindowAssumption DEF WindowAssumption
<1>5. /\ Len(cells) \in 1 .. RowSymbols
      /\ cells[1].start = row.start
      /\ \A m \in 2 .. Len(cells) : cells[m].start = cells[m - 1].start + chunkSize
      /\ Len(cells) # RowSymbols
      /\ cells[Len(cells)].start + chunkSize = w.start
  BY DEF RowOK
<1> HIDE DEF cells, more, new
<1>6. Len(new.cells) \in 1 .. RowSymbols
  BY <1>2, <1>3, <1>4, <1>5
<1>7. new.cells[1].start = new.start
  <2>1. 1 \in 1 .. Len(cells)
    BY <1>5
  <2> QED
    BY <1>2, <1>3, <1>5, <2>1
<1>8. ASSUME NEW m \in 2 .. Len(more)
      PROVE  more[m].start = more[m - 1].start + chunkSize
  <2>1. m - 1 \in 1 .. Len(cells)
    BY <1>2
  <2>2. more[m - 1] = cells[m - 1]
    BY <1>2, <2>1
  <2>3. CASE m = Len(cells) + 1
    <3>1. m - 1 = Len(cells)
      BY <1>2, <2>3
    <3> QED
      BY <1>2, <1>5, <2>2, <2>3, <3>1
  <2>4. CASE m # Len(cells) + 1
    <3>1. m \in 2 .. Len(cells)
      BY <1>2, <2>4
    <3>2. m \in 1 .. Len(cells)
      BY <3>1
    <3> QED
      BY <1>2, <1>5, <2>2, <3>1, <3>2
  <2> QED
    BY <2>3, <2>4
<1>9. RowOK(new)
  BY <1>3, <1>6, <1>7, <1>8 DEF RowOK
<1> QED
  BY <1>2, <1>3, <1>9 DEF new, more, cells

\* A row at the end of the rows.
LEMMA AppendedRow ==
  ASSUME rows \in Seq(RowType), AllRowsOK,
         NEW row \in RowType, RowOK(row), NEW s, s = Append(rows, row)
  PROVE  /\ s \in Seq(RowType) /\ s # <<>> /\ s[Len(s)] = row
         /\ \A n \in 1 .. Len(s) : RowOK(s[n])
<1>1. /\ s \in Seq(RowType)
      /\ Len(rows) \in Nat /\ Len(s) = Len(rows) + 1
      /\ \A n \in 1 .. Len(rows) : s[n] = rows[n]
      /\ s[Len(rows) + 1] = row
  BY AppendProperties, LenProperties
<1>2. s # <<>>
  BY <1>1, EmptySeq
<1>3. ASSUME NEW n \in 1 .. Len(s)
      PROVE  RowOK(s[n])
  <2>1. CASE n = Len(rows) + 1
    BY <1>1, <2>1
  <2>2. CASE n # Len(rows) + 1
    <3>1. n \in 1 .. Len(rows)
      BY <1>1, <2>2
    <3> QED
      BY <1>1, <3>1 DEF AllRowsOK
  <2> QED
    BY <2>1, <2>2
<1> QED
  BY <1>1, <1>2, <1>3

\* Another row in place of the last.
LEMMA ReplacedRow ==
  ASSUME rows \in Seq(RowType), AllRowsOK, rows # <<>>,
         NEW row \in RowType, RowOK(row), NEW s, s = [rows EXCEPT ![Len(rows)] = row]
  PROVE  /\ s \in Seq(RowType) /\ s # <<>> /\ s[Len(s)] = row
         /\ \A n \in 1 .. Len(s) : RowOK(s[n])
<1>1. Len(rows) \in Nat /\ Len(rows) \in 1 .. Len(rows)
  BY EmptySeq, LenProperties
<1>2. /\ s \in Seq(RowType) /\ Len(s) = Len(rows)
      /\ \A n \in 1 .. Len(rows) : s[n] = IF n = Len(rows) THEN row ELSE rows[n]
  BY <1>1, ExceptSeq
<1>3. s # <<>>
  BY <1>1, <1>2, EmptySeq
<1>4. s[Len(s)] = row
  BY <1>1, <1>2
<1>5. \A n \in 1 .. Len(s) : RowOK(s[n])
  BY <1>2 DEF AllRowsOK
<1> QED
  BY <1>2, <1>3, <1>4, <1>5

LEMMA HeatmapSymbolKeepsRows ==
  ASSUME RowsInv, HeatmapSymbol
  PROVE  /\ rows' \in Seq(RowType) /\ symbols' \in 1 .. RowSymbols
         /\ offset' \in 0 .. SizeMax
         /\ AllRowsOK' /\ RowGoesOn'
<1>1. /\ walk = "heatmap" /\ InsideRegion
      /\ regions' = regions /\ chunkSize' = chunkSize /\ r' = r
      /\ offset' = offset + WindowLength
      /\ symbols' = IF StartsRow THEN 1 ELSE symbols + 1
  BY DEF HeatmapSymbol, inputs, OffsetAfterSymbol
<1>2. /\ LayoutOK(regions) /\ Len(regions) \in Nat
      /\ r \in 1 .. Len(regions) /\ offset \in Nat /\ offset < Length(regions[r])
      /\ chunkSize \in 1 .. SizeMax
  BY <1>1, InsideFacts DEF RowsInv
<1>3. /\ WindowLength \in Nat \ {0}
      /\ offset + WindowLength <= Length(regions[r])
      /\ WindowLength = chunkSize \/ offset + WindowLength = Length(regions[r])
      /\ Window \in WindowType
      /\ Window.start = regions[r].start + offset
  BY <1>2, WindowFacts DEF WindowType
<1>4. /\ regions[r].start \in Nat /\ Length(regions[r]) \in Nat /\ Length(regions[r]) <= AllocMax
      /\ AllocMax \in Nat /\ SizeMax \in Nat /\ 2 * AllocMax <= SizeMax
  BY <1>2, RegionFacts, WidthAssumption DEF WidthAssumption, Address
<1>5. offset' \in 0 .. SizeMax
  BY <1>1, <1>2, <1>3, <1>4
<1>6. rows \in Seq(RowType) /\ symbols \in 0 .. RowSymbols /\ AllRowsOK
  BY DEF RowsInv, TypeOK, RowType, WindowType
<1>7. RowSymbols \in Nat \ {0}
  BY WindowAssumption DEF WindowAssumption
<1>8. symbols' \in 1 .. RowSymbols
  BY <1>1, <1>6, <1>7 DEF StartsRow, RowFull
\* The window that follows in the region, if there is one.
<1>9. InsideRegion' => Window.start + chunkSize = regions[r].start + offset'
  <2>1. SUFFICES ASSUME InsideRegion'
                 PROVE  Window.start + chunkSize = regions[r].start + offset'
    OBVIOUS
  <2>2. offset' < Length(regions[r])
    BY <1>1, <2>1 DEF InsideRegion, Length
  <2>3. WindowLength = chunkSize
    BY <1>1, <1>2, <1>3, <1>4, <2>2
  <2>4. chunkSize \in Nat
    BY <1>3, <2>3
  <2> QED
    BY <1>1, <1>2, <1>3, <1>4, <2>3, <2>4
\* The last row after the step ends with the window and has symbols' cells.
<1>10. /\ rows' \in Seq(RowType) /\ rows' # <<>>
       /\ \A n \in 1 .. Len(rows') : RowOK(rows'[n])
       /\ Len(rows'[Len(rows')].cells) = symbols'
       /\ rows'[Len(rows')].cells[symbols'] = Window
  <2>1. CASE StartsRow
    <3> DEFINE row == [start |-> Window.start, cells |-> <<Window>>]
    <3>1. rows' = Append(rows, row) /\ symbols' = 1
      BY <1>1, <2>1 DEF HeatmapSymbol
    <3>2. row \in RowType /\ RowOK(row) /\ Len(row.cells) = 1 /\ row.cells[1] = Window
      BY <1>3, FirstSymbol
    <3> HIDE DEF row
    <3>3. /\ rows' \in Seq(RowType) /\ rows' # <<>> /\ rows'[Len(rows')] = row
          /\ \A n \in 1 .. Len(rows') : RowOK(rows'[n])
      BY <1>6, <3>1, <3>2, AppendedRow
    <3> QED
      BY <3>1, <3>2, <3>3
  <2>2. CASE ~StartsRow
    <3> DEFINE last == rows[Len(rows)]
               row == [last EXCEPT !.cells = Append(@, Window)]
    <3>1. symbols # 0 /\ symbols # RowSymbols /\ symbols' = symbols + 1
      BY <1>1, <2>2 DEF StartsRow, RowFull
    <3>2. /\ rows # <<>> /\ Len(last.cells) = symbols
          /\ last.cells[symbols].start + chunkSize = Window.start
      BY <1>1, <1>3, <3>1 DEF RowsInv, RowGoesOn
    <3>3. Len(rows) \in 1 .. Len(rows)
      BY <1>6, <3>2, EmptySeq
    <3>4. last \in RowType /\ RowOK(last)
      BY <1>6, <3>3, ElementOfSeq DEF AllRowsOK
    <3>5. rows' = [rows EXCEPT ![Len(rows)] = row]
      BY <2>2 DEF HeatmapSymbol
    <3> HIDE DEF last
    <3>6. /\ row \in RowType /\ RowOK(row)
          /\ Len(row.cells) = symbols + 1 /\ row.cells[symbols + 1] = Window
      BY <1>3, <3>1, <3>2, <3>4, NextSymbol
    <3> HIDE DEF row
    <3>7. /\ rows' \in Seq(RowType) /\ rows' # <<>> /\ rows'[Len(rows')] = row
          /\ \A n \in 1 .. Len(rows') : RowOK(rows'[n])
      BY <1>6, <3>2, <3>5, <3>6, ReplacedRow
    <3> QED
      BY <3>1, <3>6, <3>7
  <2> QED
    BY <2>1, <2>2
<1>11. AllRowsOK'
  BY <1>1, <1>10 DEF AllRowsOK, RowOK
<1>12. RowGoesOn'
  BY <1>1, <1>9, <1>10 DEF RowGoesOn
<1> QED
  BY <1>5, <1>8, <1>10, <1>11, <1>12

WalkInv == TableInv /\ AllRowsOK /\ RowGoesOn /\ (walk = "table" => symbols = 0)

-----------------------------------------------------------------------------
(* The heat map shows the table.  Both walks write the same chain of       *)
(* windows: each window is determined by the one before it.  Flattening    *)
(* the rows is a recursion over them; that it has a solution, and which,   *)
(* is part of the invariant (Flattens), so that a step only extends it.    *)

\* The window a walk writes at address a of region k.
WindowAt(rs, c, k, a) ==
  [start |-> a, end |-> IF a + c - 1 < rs[k].end THEN a + c - 1 ELSE rs[k].end]

\* Window v comes after window w: where w ends in its region, or, where w ends its
\* region, at the start of the next.
Follows(rs, c, w, v) ==
  \E k \in 1 .. Len(rs) :
    /\ rs[k].start <= w.end /\ w.end <= rs[k].end
    /\ w.end < rs[k].end => v = WindowAt(rs, c, k, w.end + 1)
    /\ w.end = rs[k].end => /\ k + 1 \in 1 .. Len(rs)
                            /\ v = WindowAt(rs, c, k + 1, rs[k + 1].start)

Chain(rs, c, s) ==
  s # <<>> => /\ s[1] = WindowAt(rs, c, 1, rs[1].start)
              /\ \A n \in 1 .. Len(s) - 1 : Follows(rs, c, s[n], s[n + 1])

\* The walk that has written s stands at offset o of region k.
Place(rs, s, k, o) ==
  IF s = <<>> THEN k = 1 /\ o = 0
  ELSE \/ o = 0 /\ k > 1 /\ s[Len(s)].end = rs[k - 1].end
       \/ /\ o > 0 /\ k \in 1 .. Len(rs)
          /\ s[Len(s)].end = IF rs[k].start + o - 1 < rs[k].end
                             THEN rs[k].start + o - 1 ELSE rs[k].end

Prefix(s, t) == Len(s) <= Len(t) /\ \A n \in 1 .. Len(s) : s[n] = t[n]

\* f[n] is the cells of the first n rows, one after the other.
Flattens(f, rs) ==
  /\ f = [n \in 1 .. Len(rs) |-> IF n = 1 THEN rs[n].cells ELSE f[n - 1] \o rs[n].cells]
  /\ \A n \in 1 .. Len(rs) : f[n] \in Seq(WindowType)

Shown(f, rs) == IF rs = <<>> THEN <<>> ELSE f[Len(rs)]

TableChain ==
  /\ Chain(regions, chunkSize, table)
  /\ IF walk = "table" THEN Place(regions, table, r, offset)
                       ELSE Place(regions, table, Len(regions) + 1, 0)

RowsShowTable ==
  /\ walk = "table" => rows = <<>>
  /\ \E f : /\ Flattens(f, rows)
            /\ Prefix(Shown(f, rows), table)
            /\ walk = "heatmap" => Place(regions, Shown(f, rows), r, offset)
            /\ walk = "done" => Shown(f, rows) = table

ShownInv == TableChain /\ RowsShowTable

LEMMA RegionInts ==
  ASSUME LayoutOK(regions), NEW k \in 1 .. Len(regions)
  PROVE  \E s \in Int, e \in Int : /\ s = regions[k].start /\ e = regions[k].end
                                   /\ s <= e /\ Length(regions[k]) = e - s + 1
<1>1. /\ regions[k].start \in Address /\ regions[k].end \in Address
      /\ regions[k].start <= regions[k].end
      /\ Length(regions[k]) = regions[k].end - regions[k].start + 1
  BY RegionFacts
<1>2. Address \subseteq Int
  BY WidthAssumption DEF WidthAssumption, Address
<1> QED
  BY <1>1, <1>2

\* An address lies in one region.
LEMMA OneRegion ==
  ASSUME LayoutOK(regions), NEW k \in 1 .. Len(regions), NEW m \in 1 .. Len(regions),
         NEW a \in Int,
         regions[k].start <= a, a <= regions[k].end,
         regions[m].start <= a, a <= regions[m].end
  PROVE  k = m
<1>1. PICK s, e \in Int : s = regions[k].start /\ e = regions[k].end
  BY RegionInts
<1>2. PICK t, u \in Int : t = regions[m].start /\ u = regions[m].end
  BY RegionInts
<1>3. k < m => e < t
  BY <1>1, <1>2, RegionsApart
<1>4. m < k => u < s
  BY <1>1, <1>2, RegionsApart
<1>5. ~(k < m) /\ ~(m < k)
  BY <1>1, <1>2, <1>3, <1>4
<1> QED
  BY <1>5

\* A window has one successor.
LEMMA OneFollows ==
  ASSUME LayoutOK(regions), NEW w, w.end \in Int, NEW v, NEW x, NEW c,
         Follows(regions, c, w, v), Follows(regions, c, w, x)
  PROVE  v = x
<1>1. PICK k \in 1 .. Len(regions) :
        /\ regions[k].start <= w.end /\ w.end <= regions[k].end
        /\ w.end < regions[k].end => v = WindowAt(regions, c, k, w.end + 1)
        /\ w.end = regions[k].end => v = WindowAt(regions, c, k + 1, regions[k + 1].start)
  BY DEF Follows
<1>2. PICK m \in 1 .. Len(regions) :
        /\ regions[m].start <= w.end /\ w.end <= regions[m].end
        /\ w.end < regions[m].end => x = WindowAt(regions, c, m, w.end + 1)
        /\ w.end = regions[m].end => x = WindowAt(regions, c, m + 1, regions[m + 1].start)
  BY DEF Follows
<1>3. k = m
  BY <1>1, <1>2, OneRegion
<1>4. PICK e \in Int : e = regions[k].end
  BY RegionInts
<1>5. w.end < e \/ w.end = e
  BY <1>1, <1>4
<1> QED
  BY <1>1, <1>2, <1>3, <1>4, <1>5

\* The window a walk writes is the one for its place.
LEMMA WindowIs ==
  ASSUME TypeOK, InsideRegion
  PROVE  /\ Window = WindowAt(regions, chunkSize, r, regions[r].start + offset)
         /\ Window \in WindowType
         /\ Window.end = regions[r].start + offset + WindowLength - 1
         /\ WindowLength \in Nat \ {0} /\ WindowLength <= chunkSize
<1>1. /\ LayoutOK(regions) /\ Len(regions) \in Nat
      /\ r \in 1 .. Len(regions) /\ offset \in Nat /\ offset < Length(regions[r])
      /\ chunkSize \in 1 .. SizeMax
  BY InsideFacts
<1>2. /\ WindowLength \in Nat \ {0} /\ WindowLength <= chunkSize
      /\ Window \in [start : Address, end : Address]
      /\ Window.start = regions[r].start + offset
      /\ Window.end = Window.start + WindowLength - 1
  BY <1>1, WindowFacts
<1>3. PICK s, e \in Int : /\ s = regions[r].start /\ e = regions[r].end
                          /\ Length(regions[r]) = e - s + 1
  BY <1>1, RegionInts
<1>4. PICK c \in Nat, o \in Nat, w \in Nat : c = chunkSize /\ o = offset /\ w = WindowLength
  BY <1>1, <1>2, WidthAssumption DEF WidthAssumption
<1>5. w = IF c < e - s + 1 - o THEN c ELSE e - s + 1 - o
  BY <1>3, <1>4 DEF WindowLength
<1>6. s + o + w - 1 = IF s + o + c - 1 < e THEN s + o + c - 1 ELSE e
  BY <1>5
<1>7. Window.end = s + o + w - 1 /\ Window.start = s + o
  BY <1>2, <1>3, <1>4
<1>8. Window = [start |-> s + o, end |-> s + o + w - 1]
  BY <1>7 DEF Window
<1>9. WindowAt(regions, chunkSize, r, regions[r].start + offset)
        = [start |-> s + o, end |-> IF s + o + c - 1 < e THEN s + o + c - 1 ELSE e]
  BY <1>3, <1>4 DEF WindowAt
<1> QED
  BY <1>2, <1>3, <1>4, <1>6, <1>7, <1>8, <1>9 DEF WindowType

\* The window of a walk that has written s comes after the last of s.
LEMMA NextFollows ==
  ASSUME TypeOK, InsideRegion, NEW s \in Seq(WindowType), s # <<>>,
         Place(regions, s, r, offset)
  PROVE  Follows(regions, chunkSize, s[Len(s)], Window)
<1>1. /\ LayoutOK(regions) /\ Len(regions) \in Nat
      /\ r \in 1 .. Len(regions) /\ offset \in Nat /\ offset < Length(regions[r])
  BY InsideFacts
<1>2. Window = WindowAt(regions, chunkSize, r, regions[r].start + offset)
  BY WindowIs
<1>3. PICK t, e \in Int : /\ t = regions[r].start /\ e = regions[r].end
                          /\ t <= e /\ Length(regions[r]) = e - t + 1
  BY <1>1, RegionInts
<1>4. PICK o \in Nat : o = offset
  BY <1>1
<1> DEFINE w == s[Len(s)]
<1>5. CASE o = 0 /\ r > 1 /\ w.end = regions[r - 1].end
  <2>1. r - 1 \in 1 .. Len(regions) /\ (r - 1) + 1 = r
    BY <1>1, <1>5
  <2>2. PICK u, v \in Int : u = regions[r - 1].start /\ v = regions[r - 1].end /\ u <= v
    BY <1>1, <2>1, RegionInts
  <2>3. u <= w.end /\ w.end <= v /\ w.end = v /\ ~(w.end < v)
    BY <1>5, <2>2
  <2>4. Window = WindowAt(regions, chunkSize, r, regions[r].start)
    BY <1>2, <1>3, <1>4, <1>5
  <2> QED
    BY <1>1, <2>1, <2>2, <2>3, <2>4 DEF Follows
<1>6. CASE o > 0 /\ w.end = IF t + o - 1 < e THEN t + o - 1 ELSE e
  <2>1. o < e - t + 1
    BY <1>1, <1>3, <1>4
  <2>2. /\ w.end = t + o - 1 /\ w.end + 1 = t + o
        /\ t <= w.end /\ w.end <= e /\ w.end < e /\ w.end # e
    BY <1>6, <2>1
  <2>3. Window = WindowAt(regions, chunkSize, r, w.end + 1)
    BY <1>2, <1>3, <1>4, <2>2
  <2> QED
    BY <1>1, <1>3, <2>2, <2>3 DEF Follows
<1> QED
  BY <1>3, <1>4, <1>5, <1>6 DEF Place

\* The first window is that of the first region.
LEMMA NextFirst ==
  ASSUME TypeOK, InsideRegion, Place(regions, <<>>, r, offset)
  PROVE  Window = WindowAt(regions, chunkSize, 1, regions[1].start)
<1>1. LayoutOK(regions) /\ r \in 1 .. Len(regions)
  BY InsideFacts
<1>2. Window = WindowAt(regions, chunkSize, r, regions[r].start + offset)
  BY WindowIs
<1>3. r = 1 /\ offset = 0
  BY DEF Place
<1>4. PICK t \in Int : t = regions[1].start
  BY <1>1, <1>3, RegionInts
<1> QED
  BY <1>2, <1>3, <1>4

\* The chain grows by the window of its place.
LEMMA ChainGrows ==
  ASSUME TypeOK, InsideRegion, NEW s \in Seq(WindowType),
         Chain(regions, chunkSize, s), Place(regions, s, r, offset)
  PROVE  Chain(regions, chunkSize, Append(s, Window))
<1>1. Window \in WindowType
  BY WindowIs
<1> DEFINE t == Append(s, Window)
<1>2. /\ Len(s) \in Nat /\ Len(t) = Len(s) + 1
      /\ \A n \in 1 .. Len(s) : t[n] = s[n]
      /\ t[Len(s) + 1] = Window
  BY <1>1, AppendProperties, LenProperties
<1> HIDE DEF t
<1>3. CASE s = <<>>
  <2>1. Len(s) = 0 /\ t[1] = Window
    BY <1>2, <1>3
  <2>2. t[1] = WindowAt(regions, chunkSize, 1, regions[1].start)
    BY <1>3, <2>1, NextFirst
  <2>3. \A n \in 1 .. Len(t) - 1 : FALSE
    BY <1>2, <2>1
  <2>4. Chain(regions, chunkSize, t)
    BY <2>2, <2>3 DEF Chain
  <2> QED
    BY <2>4 DEF t
<1>4. CASE s # <<>>
  <2>1. Len(s) \in 1 .. Len(s)
    BY <1>2, <1>4, EmptySeq
  <2>2. Follows(regions, chunkSize, s[Len(s)], Window)
    BY <1>4, NextFollows
  <2>3. /\ s[1] = WindowAt(regions, chunkSize, 1, regions[1].start)
        /\ \A n \in 1 .. Len(s) - 1 : Follows(regions, chunkSize, s[n], s[n + 1])
    BY <1>4 DEF Chain
  <2>4. ASSUME NEW n \in 1 .. Len(t) - 1
        PROVE  Follows(regions, chunkSize, t[n], t[n + 1])
    <3>1. CASE n = Len(s)
      <4>1. t[n] = s[Len(s)] /\ t[n + 1] = Window
        BY <1>2, <2>1, <3>1
      <4> QED
        BY <2>2, <4>1
    <3>2. CASE n # Len(s)
      <4>1. n \in 1 .. Len(s) - 1 /\ n \in 1 .. Len(s) /\ n + 1 \in 1 .. Len(s)
        BY <1>2, <3>2
      <4>2. t[n] = s[n] /\ t[n + 1] = s[n + 1]
        BY <1>2, <4>1
      <4> QED
        BY <2>3, <4>1, <4>2
    <3> QED
      BY <3>1, <3>2
  <2>5. t[1] = s[1]
    BY <1>2, <2>1
  <2>6. Chain(regions, chunkSize, t)
    BY <2>3, <2>4, <2>5 DEF Chain
  <2> QED
    BY <2>6 DEF t
<1> QED
  BY <1>3, <1>4

\* After a window a walk stands where its offset says: the table steps past the
\* end of the region, the heat map to it.
LEMMA PlaceAfterWindow ==
  ASSUME TypeOK, InsideRegion, NEW s \in Seq(WindowType),
         NEW o, o \in {offset + WindowLength, offset + chunkSize}
  PROVE  Place(regions, Append(s, Window), r, o)
<1>1. /\ LayoutOK(regions) /\ Len(regions) \in Nat
      /\ r \in 1 .. Len(regions) /\ offset \in Nat /\ offset < Length(regions[r])
      /\ chunkSize \in 1 .. SizeMax
  BY InsideFacts
<1>2. /\ WindowLength \in Nat \ {0} /\ WindowLength <= chunkSize
      /\ WindowLength = chunkSize \/ offset + WindowLength = Length(regions[r])
      /\ Window \in WindowType
      /\ Window.end = regions[r].start + offset + WindowLength - 1
  BY <1>1, WindowFacts, WindowIs
<1>3. PICK t, e \in Int : /\ t = regions[r].start /\ e = regions[r].end
                          /\ t <= e /\ Length(regions[r]) = e - t + 1
  BY <1>1, RegionInts
<1>4. PICK c \in Nat, p \in Nat, w \in Nat : c = chunkSize /\ p = offset /\ w = WindowLength
  BY <1>1, <1>2, WidthAssumption DEF WidthAssumption
<1>5. /\ w > 0 /\ w <= c /\ p < e - t + 1 /\ (w = c \/ p + w = e - t + 1)
      /\ o \in {p + w, p + c}
  BY <1>1, <1>2, <1>3, <1>4
<1>6. w = c => p + w <= e - t + 1
  <2>1. offset + WindowLength <= Length(regions[r])
    BY <1>1, WindowFacts
  <2> QED
    BY <1>3, <1>4, <2>1
<1>7. t + p + w - 1 = IF t + o - 1 < e THEN t + o - 1 ELSE e
  BY <1>5, <1>6
<1>8. o > 0
  BY <1>5
<1> DEFINE q == Append(s, Window)
<1>9. q # <<>> /\ q[Len(q)] = Window
  <2>1. Len(s) \in Nat /\ Len(q) = Len(s) + 1 /\ q[Len(s) + 1] = Window
    BY <1>2, AppendProperties, LenProperties
  <2> HIDE DEF q
  <2>2. Len(q) # 0
    BY <2>1
  <2> QED
    BY <2>1, <2>2
<1>10. q[Len(q)].end = IF regions[r].start + o - 1 < regions[r].end
                       THEN regions[r].start + o - 1 ELSE regions[r].end
  BY <1>2, <1>3, <1>4, <1>7, <1>9
<1> HIDE DEF q
<1>11. Place(regions, q, r, o)
  BY <1>1, <1>8, <1>9, <1>10 DEF Place
<1> QED
  BY <1>11 DEF q

\* A walk that leaves a region has written its last window.
LEMMA PlaceAfterRegion ==
  ASSUME TypeOK, r <= Len(regions), ~InsideRegion, NEW s, Place(regions, s, r, offset)
  PROVE  Place(regions, s, r + 1, 0)
<1>1. LayoutOK(regions) /\ regions \in Seq(Region)
  BY DEF TypeOK, LayoutOK
<1>2. Len(regions) \in Nat /\ r \in 1 .. Len(regions)
  BY <1>1, LenProperties DEF TypeOK
<1>3. PICK t, e \in Int : /\ t = regions[r].start /\ e = regions[r].end
                          /\ t <= e /\ Length(regions[r]) = e - t + 1
  BY <1>1, <1>2, RegionInts
<1>4. PICK o \in Nat : o = offset
  BY WidthAssumption DEF TypeOK, WidthAssumption
<1>5. o >= e - t + 1 /\ o > 0
  BY <1>2, <1>3, <1>4 DEF InsideRegion
<1>6. s # <<>> /\ s[Len(s)].end = IF t + o - 1 < e THEN t + o - 1 ELSE e
  BY <1>3, <1>4, <1>5 DEF Place
<1>7. s[Len(s)].end = e
  BY <1>3, <1>5, <1>6
<1>8. r + 1 > 1 /\ (r + 1) - 1 = r
  BY <1>2
<1> QED
  BY <1>3, <1>6, <1>7, <1>8 DEF Place

\* A table that is complete and a place inside a region leave windows to come,
\* and the next of them is the window of that place.
LEMMA PrefixGrows ==
  ASSUME TypeOK, InsideRegion, NEW s \in Seq(WindowType), NEW t \in Seq(WindowType),
         Chain(regions, chunkSize, t), Place(regions, t, Len(regions) + 1, 0),
         Prefix(s, t), Place(regions, s, r, offset)
  PROVE  Prefix(Append(s, Window), t)
<1>1. /\ LayoutOK(regions) /\ Len(regions) \in Nat
      /\ r \in 1 .. Len(regions) /\ offset \in Nat /\ offset < Length(regions[r])
  BY InsideFacts
<1>2. Window \in WindowType
  BY WindowIs
<1>3. Len(s) \in Nat /\ Len(t) \in Nat
  BY LenProperties
<1>4. t # <<>> /\ t[Len(t)].end = regions[Len(regions)].end
  BY <1>1 DEF Place
<1>5. Len(t) \in 1 .. Len(t)
  BY <1>3, <1>4, EmptySeq
<1>6. Len(s) < Len(t) /\ t[Len(s) + 1] = Window
  <2>1. CASE s = <<>>
    <3>1. Len(s) = 0
      BY <2>1
    <3>2. t[1] = WindowAt(regions, chunkSize, 1, regions[1].start)
      BY <1>4 DEF Chain
    <3>3. Window = WindowAt(regions, chunkSize, 1, regions[1].start)
      BY <2>1, NextFirst
    <3> QED
      BY <1>5, <3>1, <3>2, <3>3
  <2>2. CASE s # <<>>
    <3>1. Len(s) \in 1 .. Len(s)
      BY <1>3, <2>2, EmptySeq
    <3>2. Len(s) <= Len(t) /\ t[Len(s)] = s[Len(s)]
      BY <3>1 DEF Prefix
    <3>3. Follows(regions, chunkSize, s[Len(s)], Window)
      BY <2>2, NextFollows
    <3>4. s[Len(s)] \in WindowType
      BY <3>1, ElementOfSeq
    <3>5. PICK a \in Int : a = s[Len(s)].end
      BY <3>4, WidthAssumption DEF WindowType, Address, WidthAssumption
    <3>6. Len(s) # Len(t)
      <4> SUFFICES ASSUME Len(s) = Len(t) PROVE FALSE
        OBVIOUS
      <4>1. a = regions[Len(regions)].end
        BY <1>4, <3>2, <3>5
      <4>2. Len(regions) \in 1 .. Len(regions)
        BY <1>1
      <4>3. PICK u, v \in Int : /\ u = regions[Len(regions)].start
                                /\ v = regions[Len(regions)].end /\ u <= v
        BY <1>1, <4>2, RegionInts
      <4>4. a = v /\ u <= a /\ a <= v /\ ~(a < v)
        BY <4>1, <4>3
      <4>5. PICK k \in 1 .. Len(regions) :
              /\ regions[k].start <= a /\ a <= regions[k].end
              /\ a = regions[k].end => k + 1 \in 1 .. Len(regions)
        BY <3>3, <3>5 DEF Follows
      <4>6. k = Len(regions)
        BY <1>1, <4>2, <4>3, <4>4, <4>5, OneRegion
      <4> QED
        BY <1>1, <4>1, <4>5, <4>6
    <3>7. Len(s) < Len(t)
      BY <1>3, <3>2, <3>6
    <3>8. Follows(regions, chunkSize, t[Len(s)], t[Len(s) + 1])
      <4>1. Len(s) \in 1 .. Len(t) - 1
        BY <1>3, <3>1, <3>7
      <4> QED
        BY <1>4, <4>1 DEF Chain
    <3>9. t[Len(s) + 1] = Window
      BY <1>1, <3>2, <3>3, <3>5, <3>8, OneFollows
    <3> QED
      BY <3>7, <3>9
  <2> QED
    BY <2>1, <2>2
<1> DEFINE q == Append(s, Window)
<1>7. /\ Len(q) = Len(s) + 1
      /\ \A n \in 1 .. Len(s) : q[n] = s[n]
      /\ q[Len(s) + 1] = Window
  BY <1>2, AppendProperties
<1> HIDE DEF q
<1>8. Len(q) <= Len(t)
  BY <1>3, <1>6, <1>7
<1>9. ASSUME NEW n \in 1 .. Len(q)
      PROVE  q[n] = t[n]
  <2>1. CASE n = Len(s) + 1
    BY <1>6, <1>7, <2>1
  <2>2. CASE n # Len(s) + 1
    <3>1. n \in 1 .. Len(s)
      BY <1>3, <1>7, <2>2
    <3> QED
      BY <1>7, <3>1 DEF Prefix
  <2> QED
    BY <2>1, <2>2
<1>10. Prefix(q, t)
  BY <1>8, <1>9 DEF Prefix
<1> QED
  BY <1>10 DEF q

\* A walk past the last region has written all of the table.
LEMMA PrefixEnds ==
  ASSUME LayoutOK(regions), NEW s \in Seq(WindowType), NEW t \in Seq(WindowType), NEW o,
         Chain(regions, chunkSize, t), Place(regions, t, Len(regions) + 1, 0),
         Prefix(s, t), Place(regions, s, Len(regions) + 1, o)
  PROVE  s = t
<1>1. regions \in Seq(Region)
  BY DEF LayoutOK
<1>2. Len(regions) \in Nat /\ Len(s) \in Nat /\ Len(t) \in Nat
  BY <1>1, LenProperties
<1>3. Len(s) = Len(t)
  <2>1. CASE s = <<>>
    <3>1. Len(regions) = 0
      BY <1>2, <2>1 DEF Place
    <3>2. t = <<>>
      BY <3>1 DEF Place
    <3> QED
      BY <2>1, <3>2
  <2>2. CASE s # <<>>
    <3> SUFFICES ASSUME Len(s) < Len(t) PROVE FALSE
      BY <1>2 DEF Prefix
    <3>1. Len(s) \in 1 .. Len(s)
      BY <1>2, <2>2, EmptySeq
    <3>2. t[Len(s)] = s[Len(s)]
      BY <3>1 DEF Prefix
    <3>3. Len(regions) > 0 /\ s[Len(s)].end = regions[Len(regions)].end
      BY <1>2, <2>2 DEF Place
    <3>4. Len(regions) \in 1 .. Len(regions)
      BY <1>2, <3>3
    <3>5. PICK u, v \in Int : /\ u = regions[Len(regions)].start
                              /\ v = regions[Len(regions)].end /\ u <= v
      BY <3>4, RegionInts
    <3>6. t # <<>>
      BY <1>2
    <3>7. Follows(regions, chunkSize, t[Len(s)], t[Len(s) + 1])
      <4>1. Len(s) \in 1 .. Len(t) - 1
        BY <1>2, <3>1
      <4> QED
        BY <3>6, <4>1 DEF Chain
    <3>8. PICK k \in 1 .. Len(regions) :
            /\ regions[k].start <= v /\ v <= regions[k].end
            /\ v = regions[k].end => k + 1 \in 1 .. Len(regions)
      BY <3>2, <3>3, <3>5, <3>7 DEF Follows
    <3>9. k = Len(regions)
      <4>1. regions[Len(regions)].start <= v /\ v <= regions[Len(regions)].end
        BY <3>5
      <4> QED
        BY <3>4, <3>5, <3>8, <4>1, OneRegion
    <3> QED
      BY <1>2, <3>5, <3>8, <3>9
  <2> QED
    BY <2>1, <2>2
<1> QED
  BY <1>3, SeqEqual DEF Prefix

\* What a flattening of the rows says of each.
LEMMA FlattensFacts ==
  ASSUME NEW s \in Seq(RowType), NEW f, Flattens(f, s)
  PROVE  /\ f \in [1 .. Len(s) -> Seq(WindowType)]
         /\ s # <<>> => Shown(f, s) = f[Len(s)]
         /\ Shown(f, s) \in Seq(WindowType)
         /\ \A n \in 1 .. Len(s) :
              f[n] = IF n = 1 THEN s[n].cells ELSE f[n - 1] \o s[n].cells
<1>1. /\ f = [n \in 1 .. Len(s) |-> IF n = 1 THEN s[n].cells ELSE f[n - 1] \o s[n].cells]
      /\ \A n \in 1 .. Len(s) : f[n] \in Seq(WindowType)
  BY DEF Flattens
<1>2. f \in [1 .. Len(s) -> Seq(WindowType)]
  <2>1. f = [n \in 1 .. Len(s) |-> f[n]]
    BY <1>1, Zenon
  <2> QED
    BY <1>1, <2>1
<1>3. \A n \in 1 .. Len(s) : f[n] = IF n = 1 THEN s[n].cells ELSE f[n - 1] \o s[n].cells
  BY <1>1, Zenon
<1>4. Shown(f, s) \in Seq(WindowType)
  <2>1. CASE s = <<>>
    BY <2>1 DEF Shown
  <2>2. CASE s # <<>>
    <3>1. Len(s) \in 1 .. Len(s)
      BY <2>2, EmptySeq, LenProperties
    <3> QED
      BY <1>1, <2>2, <3>1 DEF Shown
  <2> QED
    BY <2>1, <2>2
<1> QED
  BY <1>2, <1>3, <1>4 DEF Shown

\* The converse: a function that says this of each row flattens them.
LEMMA FlattensIf ==
  ASSUME NEW s, NEW g \in [1 .. Len(s) -> Seq(WindowType)],
         \A n \in 1 .. Len(s) :
           g[n] = IF n = 1 THEN s[n].cells ELSE g[n - 1] \o s[n].cells
  PROVE  Flattens(g, s)
<1>1. g = [n \in 1 .. Len(s) |-> g[n]]
  OBVIOUS
<1>2. g = [n \in 1 .. Len(s) |-> IF n = 1 THEN s[n].cells ELSE g[n - 1] \o s[n].cells]
  BY <1>1, Zenon
<1> QED
  BY <1>2 DEF Flattens

\* A row of one symbol after the others.
LEMMA FlattensNewRow ==
  ASSUME NEW s \in Seq(RowType), NEW f, Flattens(f, s),
         NEW row \in RowType, NEW w \in WindowType, row.cells = <<w>>
  PROVE  \E g : /\ Flattens(g, Append(s, row))
                /\ Shown(g, Append(s, row)) = Append(Shown(f, s), w)
<1> DEFINE t == Append(s, row)
           N == Len(s)
           more == Append(Shown(f, s), w)
           g == [n \in 1 .. N + 1 |-> IF n = N + 1 THEN more ELSE f[n]]
<1>1. /\ N \in Nat /\ Len(t) = N + 1 /\ t[N + 1] = row
      /\ \A n \in 1 .. N : t[n] = s[n]
      /\ t \in Seq(RowType)
  BY AppendProperties, LenProperties
<1>2. /\ f \in [1 .. N -> Seq(WindowType)] /\ Shown(f, s) \in Seq(WindowType)
      /\ s # <<>> => Shown(f, s) = f[N]
      /\ \A n \in 1 .. N : f[n] = IF n = 1 THEN s[n].cells ELSE f[n - 1] \o s[n].cells
  BY FlattensFacts
<1>3. more \in Seq(WindowType) /\ more = Shown(f, s) \o <<w>>
  BY <1>2, AppendProperties, AppendIsConcat
<1>4. s = <<>> <=> N = 0
  BY EmptySeq
<1>5. s = <<>> => more = row.cells
  BY <1>3 DEF Shown
<1> HIDE DEF t, N, more
<1>6. g \in [1 .. N + 1 -> Seq(WindowType)]
  BY <1>1, <1>2, <1>3
<1>7. ASSUME NEW n \in 1 .. N + 1
      PROVE  g[n] = IF n = 1 THEN t[n].cells ELSE g[n - 1] \o t[n].cells
  <2>1. CASE n = N + 1 /\ n = 1
    <3>1. s = <<>>
      BY <1>1, <1>4, <2>1
    <3> QED
      BY <1>1, <1>5, <2>1, <3>1
  <2>2. CASE n = N + 1 /\ n # 1
    <3>1. n - 1 \in 1 .. N /\ n - 1 = N /\ s # <<>> /\ N # N + 1 /\ N \in 1 .. N + 1
      BY <1>1, <1>4, <2>2
    <3>2. g[n - 1] = f[N]
      BY <3>1
    <3>3. g[n] = f[N] \o row.cells
      BY <1>2, <1>3, <2>2, <3>1
    <3> QED
      BY <1>1, <2>2, <3>2, <3>3
  <2>3. CASE n # N + 1
    <3>1. n \in 1 .. N
      BY <1>1, <2>3
    <3>2. g[n] = f[n] /\ t[n] = s[n]
      BY <1>1, <2>3, <3>1
    <3>3. n # 1 => g[n - 1] = f[n - 1]
      <4> SUFFICES ASSUME n # 1 PROVE g[n - 1] = f[n - 1]
        OBVIOUS
      <4>1. n - 1 \in 1 .. N /\ n - 1 # N + 1 /\ n - 1 \in 1 .. N + 1
        BY <1>1, <3>1
      <4> QED
        BY <4>1
    <3> QED
      BY <1>2, <3>1, <3>2, <3>3
  <2> QED
    BY <2>1, <2>2, <2>3
<1>8. g[N + 1] = more
  BY <1>1
<1> HIDE DEF g
<1>9. Flattens(g, t)
  BY <1>1, <1>6, <1>7, FlattensIf
<1>10. t # <<>>
  BY <1>1, EmptySeq
<1>11. Shown(g, t) = more
  BY <1>1, <1>8, <1>10 DEF Shown
<1> QED
  BY <1>9, <1>11 DEF t, more

\* Appending to a concatenation appends to its second part.
LEMMA AppendToConcat ==
  ASSUME NEW a \in Seq(WindowType), NEW b \in Seq(WindowType), NEW w \in WindowType
  PROVE  Append(a \o b, w) = a \o Append(b, w)
<1>1. a \o b \in Seq(WindowType) /\ <<w>> \in Seq(WindowType)
  BY ConcatProperties
<1>2. Append(a \o b, w) = (a \o b) \o <<w>>
  BY <1>1, AppendIsConcat
<1>3. Append(b, w) = b \o <<w>>
  BY AppendIsConcat
<1>4. (a \o b) \o <<w>> = a \o (b \o <<w>>)
  BY <1>1, ConcatAssociative
<1> QED
  BY <1>2, <1>3, <1>4

\* One symbol more on the last row.
LEMMA FlattensLongerRow ==
  ASSUME NEW s \in Seq(RowType), s # <<>>, NEW f, Flattens(f, s), NEW w \in WindowType,
         NEW row \in RowType, row.cells = Append(s[Len(s)].cells, w),
         NEW t, t = [s EXCEPT ![Len(s)] = row]
  PROVE  \E g : Flattens(g, t) /\ Shown(g, t) = Append(Shown(f, s), w)
<1> DEFINE N == Len(s)
           more == Append(f[N], w)
           g == [f EXCEPT ![N] = more]
<1>1. N \in Nat /\ N \in 1 .. N
  BY EmptySeq, LenProperties
<1>2. /\ t \in Seq(RowType) /\ Len(t) = N
      /\ \A n \in 1 .. N : t[n] = IF n = N THEN row ELSE s[n]
  BY <1>1, ExceptSeq
<1>3. /\ f \in [1 .. N -> Seq(WindowType)] /\ Shown(f, s) = f[N]
      /\ \A n \in 1 .. N : f[n] = IF n = 1 THEN s[n].cells ELSE f[n - 1] \o s[n].cells
  BY FlattensFacts
<1>4. f[N] \in Seq(WindowType)
  BY <1>1, <1>3
<1>5. more \in Seq(WindowType)
  BY <1>4, AppendProperties
<1>6. s[N].cells \in Seq(WindowType)
  <2>1. s[N] \in RowType
    BY <1>1, ElementOfSeq
  <2> QED
    BY <2>1 DEF RowType
<1> HIDE DEF N, more
<1>7. g \in [1 .. N -> Seq(WindowType)] /\ g[N] = more /\ \A n \in 1 .. N : n # N => g[n] = f[n]
  BY <1>1, <1>3, <1>5
<1> HIDE DEF g
<1>8. ASSUME NEW n \in 1 .. N
      PROVE  g[n] = IF n = 1 THEN t[n].cells ELSE g[n - 1] \o t[n].cells
  <2>1. CASE n = N /\ n = 1
    BY <1>1, <1>2, <1>3, <1>7, <2>1 DEF more, N
  <2>2. CASE n = N /\ n # 1
    <3>1. n - 1 \in 1 .. N /\ n - 1 # N
      BY <1>1, <2>2
    <3>2. g[n - 1] = f[n - 1] /\ f[n - 1] \in Seq(WindowType)
      BY <1>3, <1>7, <3>1
    <3>3. f[N] = f[n - 1] \o s[N].cells
      BY <1>1, <1>3, <2>2
    <3>4. Append(f[n - 1] \o s[N].cells, w) = f[n - 1] \o Append(s[N].cells, w)
      <4>1. PICK a \in Seq(WindowType) : a = f[n - 1]
        BY <3>2
      <4>2. PICK b \in Seq(WindowType) : b = s[N].cells
        BY <1>6
      <4>3. Append(a \o b, w) = a \o Append(b, w)
        BY AppendToConcat
      <4> QED
        BY <4>1, <4>2, <4>3
    <3>5. t[N].cells = Append(s[N].cells, w)
      BY <1>1, <1>2 DEF N
    <3> QED
      BY <1>7, <2>2, <3>2, <3>3, <3>4, <3>5 DEF more
  <2>3. CASE n # N
    <3>1. g[n] = f[n] /\ t[n] = s[n]
      BY <1>2, <1>7, <2>3
    <3>2. n # 1 => n - 1 \in 1 .. N /\ n - 1 # N
      BY <1>1
    <3>3. n # 1 => g[n - 1] = f[n - 1]
      BY <1>7, <3>2
    <3> QED
      BY <1>3, <3>1, <3>3
  <2> QED
    BY <2>1, <2>2, <2>3
<1>9. Flattens(g, t)
  <2>1. g \in [1 .. Len(t) -> Seq(WindowType)]
    BY <1>2, <1>7
  <2>2. \A n \in 1 .. Len(t) : g[n] = IF n = 1 THEN t[n].cells ELSE g[n - 1] \o t[n].cells
    BY <1>2, <1>8
  <2> QED
    BY <2>1, <2>2, FlattensIf
<1>10. t # <<>>
  BY <1>1, <1>2, EmptySeq
<1>11. Shown(g, t) = more
  BY <1>2, <1>7, <1>10 DEF Shown
<1> QED
  BY <1>3, <1>9, <1>11 DEF more, N

\* A nonempty set of naturals has a least element.
LEMMA LeastExists ==
  ASSUME NEW S \in SUBSET Nat, S # {}
  PROVE  \E x \in S : \A y \in S : x <= y
<1>1. \E x \in S : \A y \in S : ~(<<y, x>> \in OpToRel(<, Nat))
  BY NatLessThanWellFounded, WFMin
<1>2. PICK x \in S : \A y \in S : ~(<<y, x>> \in OpToRel(<, Nat))
  BY <1>1
<1>3. ASSUME NEW y \in S PROVE x <= y
  <2>1. ~(y < x)
    BY <1>2 DEF OpToRel
  <2> QED
    BY <2>1
<1> QED
  BY <1>3

\* The recursion of FlattenSeq, and that it has one solution at most.
Recursion(f, cs) ==
  f = [i \in 1 .. Len(cs) |-> IF i = 1 THEN cs[i] ELSE f[i - 1] \o cs[i]]

LEMMA OneRecursion ==
  ASSUME NEW cs, Len(cs) \in Nat, NEW f, Recursion(f, cs), NEW g, Recursion(g, cs)
  PROVE  f = g
<1> DEFINE N == Len(cs)
           S == {k \in 1 .. N : f[k] # g[k]}
<1>1. /\ f = [i \in 1 .. N |-> IF i = 1 THEN cs[i] ELSE f[i - 1] \o cs[i]]
      /\ g = [i \in 1 .. N |-> IF i = 1 THEN cs[i] ELSE g[i - 1] \o cs[i]]
  BY DEF Recursion
<1>2. S = {}
  <2> SUFFICES ASSUME S # {} PROVE FALSE
    OBVIOUS
  <2>1. PICK k \in S : \A y \in S : k <= y
    <3>1. S \in SUBSET Nat
      OBVIOUS
    <3> HIDE DEF S
    <3> QED
      BY <3>1, LeastExists
  <2>2. k \in 1 .. N /\ f[k] # g[k] /\ k \in Nat
    BY <2>1
  <2>3. f[k] = IF k = 1 THEN cs[k] ELSE f[k - 1] \o cs[k]
    BY <1>1, <2>2, Zenon
  <2>4. g[k] = IF k = 1 THEN cs[k] ELSE g[k - 1] \o cs[k]
    BY <1>1, <2>2, Zenon
  <2>5. k # 1
    BY <2>2, <2>3, <2>4
  <2>6. k - 1 \in 1 .. N /\ ~(k <= k - 1)
    BY <2>2, <2>5
  <2>7. k - 1 \notin S
    BY <2>1, <2>6
  <2>8. f[k - 1] = g[k - 1]
    BY <2>6, <2>7
  <2> QED
    BY <2>2, <2>3, <2>4, <2>8
<1>3. f = [i \in 1 .. N |-> f[i]] /\ g = [i \in 1 .. N |-> g[i]]
  BY <1>1, Zenon
<1>4. \A i \in 1 .. N : f[i] = g[i]
  BY <1>2
<1> HIDE DEF N
<1>5. [i \in 1 .. N |-> f[i]] = [i \in 1 .. N |-> g[i]]
  BY <1>4
<1> QED
  BY <1>3, <1>5

\* Flattening the rows is what the invariant's function says.
LEMMA CellsAreShown ==
  ASSUME rows \in Seq(RowType), NEW f, Flattens(f, rows)
  PROVE  Cells = Shown(f, rows)
<1> DEFINE cs == [n \in 1 .. Len(rows) |-> rows[n].cells]
<1>1. Len(rows) \in Nat /\ (rows = <<>> <=> Len(rows) = 0)
  BY EmptySeq, LenProperties
<1>2. \A n \in 1 .. Len(rows) : rows[n].cells \in Seq(WindowType)
  <2> TAKE n \in 1 .. Len(rows)
  <2>1. rows[n] \in RowType
    BY ElementOfSeq
  <2> QED
    BY <2>1 DEF RowType
<1>3. cs \in Seq(Seq(WindowType)) /\ Len(cs) = Len(rows)
  <2>1. cs \in [1 .. Len(rows) -> Seq(WindowType)]
    BY <1>2
  <2> HIDE DEF cs
  <2>2. cs \in Seq(Seq(WindowType))
    BY <1>1, <2>1, IsASeq
  <2> QED
    BY <1>1, <2>1, <2>2, LenProperties
<1>4. \A n \in 1 .. Len(rows) : cs[n] = rows[n].cells
  OBVIOUS
<1>5. Cells = FlattenSeq(cs)
  BY DEF Cells
<1> HIDE DEF cs
<1>6. CASE rows = <<>>
  <2>1. Len(cs) = 0 /\ cs = <<>>
    BY <1>1, <1>3, <1>6, EmptySeq
  <2>2. FlattenSeq(cs) = cs
    BY <2>1 DEF FlattenSeq
  <2> QED
    BY <1>5, <1>6, <2>1, <2>2 DEF Shown
<1>7. CASE rows # <<>>
  <2> DEFINE g == CHOOSE g : Recursion(g, cs)
  <2>1. Len(cs) # 0
    BY <1>1, <1>3, <1>7
  <2>2. FlattenSeq(cs) = g[Len(cs)]
    BY <2>1 DEF FlattenSeq, Recursion
  <2>3. Recursion(f, cs)
    <3>1. f = [n \in 1 .. Len(rows) |-> IF n = 1 THEN rows[n].cells ELSE f[n - 1] \o rows[n].cells]
      BY DEF Flattens
    <3>2. [n \in 1 .. Len(rows) |-> IF n = 1 THEN rows[n].cells ELSE f[n - 1] \o rows[n].cells]
            = [n \in 1 .. Len(rows) |-> IF n = 1 THEN cs[n] ELSE f[n - 1] \o cs[n]]
      BY <1>4
    <3>3. f = [n \in 1 .. Len(cs) |-> IF n = 1 THEN cs[n] ELSE f[n - 1] \o cs[n]]
      BY <1>3, <3>1, <3>2
    <3> QED
      BY <3>3 DEF Recursion
  <2>4. Recursion(g, cs)
    BY <2>3
  <2> HIDE DEF g
  <2>5. g = f
    BY <1>1, <1>3, <2>3, <2>4, OneRecursion
  <2> QED
    BY <1>3, <1>5, <1>7, <2>2, <2>5 DEF Shown
<1> QED
  BY <1>6, <1>7

\* A walk past the last region that has written s stands at offset 0.
LEMMA PlacePastEnd ==
  ASSUME TypeOK, ~(r <= Len(regions)), NEW s, Place(regions, s, r, offset)
  PROVE  r = Len(regions) + 1 /\ Place(regions, s, Len(regions) + 1, 0)
<1>1. regions \in Seq(Region)
  BY DEF TypeOK, LayoutOK
<1>2. Len(regions) \in Nat
  BY <1>1, LenProperties
<1>3. r = Len(regions) + 1 /\ r \notin 1 .. Len(regions)
  BY <1>2 DEF TypeOK
<1>4. offset = 0
  BY <1>3 DEF Place
<1> QED
  BY <1>3, <1>4

LEMMA ShownFromInit ==
  ASSUME Init
  PROVE  ShownInv
<1>1. walk = "table" /\ r = 1 /\ offset = 0 /\ table = <<>> /\ rows = <<>>
  BY DEF Init, WalkInit
<1>2. TableChain
  BY <1>1 DEF TableChain, Chain, Place
<1>3. Flattens(<<>>, <<>>)
  <2>1. <<>> \in [1 .. Len(<<>>) -> Seq(WindowType)]
    OBVIOUS
  <2>2. \A n \in 1 .. Len(<<>>) : FALSE
    OBVIOUS
  <2> QED
    BY <2>1, <2>2, FlattensIf
<1>4. Shown(<<>>, rows) = <<>> /\ Prefix(<<>>, table)
  BY <1>1 DEF Shown, Prefix
<1> QED
  BY <1>1, <1>2, <1>3, <1>4 DEF ShownInv, RowsShowTable

\* While the table is printed there are no rows.
LEMMA ShownInTable ==
  ASSUME TableChain', RowsShowTable, walk = "table", walk' \in {"table", "heatmap"},
         rows' = rows, table' \in Seq(WindowType), regions' = regions,
         walk' = "heatmap" => r' = 1 /\ offset' = 0
  PROVE  ShownInv'
<1>1. PICK f : Flattens(f, rows)
  BY DEF RowsShowTable
<1>2. rows = <<>> /\ Shown(f, rows) = <<>>
  BY DEF RowsShowTable, Shown
<1>3. Len(table') \in Nat
  BY LenProperties
<1>4. Prefix(<<>>, table')
  BY <1>3 DEF Prefix
<1>5. Place(regions, <<>>, 1, 0)
  BY DEF Place
<1> QED
  BY <1>1, <1>2, <1>4, <1>5 DEF ShownInv, RowsShowTable

\* A symbol on the heat map is the next window of the table.
LEMMA SymbolIsShown ==
  ASSUME RowsInv, ShownInv, HeatmapSymbol
  PROVE  ShownInv'
<1>1. /\ walk = "heatmap" /\ walk' = walk /\ InsideRegion
      /\ regions' = regions /\ chunkSize' = chunkSize /\ r' = r /\ table' = table
      /\ offset' = offset + WindowLength
  BY DEF HeatmapSymbol, inputs, OffsetAfterSymbol
<1>2. /\ TypeOK /\ rows \in Seq(RowType) /\ table \in Seq(WindowType)
  BY DEF RowsInv, TypeOK, RowType, WindowType
<1>3. Window \in WindowType
  BY <1>1, <1>2, WindowIs
<1>4. /\ Chain(regions, chunkSize, table)
      /\ Place(regions, table, Len(regions) + 1, 0)
  BY <1>1 DEF ShownInv, TableChain
<1>5. PICK f : /\ Flattens(f, rows) /\ Prefix(Shown(f, rows), table)
               /\ Place(regions, Shown(f, rows), r, offset)
  BY <1>1 DEF ShownInv, RowsShowTable
<1>6. Shown(f, rows) \in Seq(WindowType)
  BY <1>2, <1>5, FlattensFacts
<1>7. \E g : Flattens(g, rows') /\ Shown(g, rows') = Append(Shown(f, rows), Window)
  <2>1. CASE StartsRow
    <3> DEFINE row == [start |-> Window.start, cells |-> <<Window>>]
    <3>1. rows' = Append(rows, row)
      BY <2>1 DEF HeatmapSymbol
    <3>2. row \in RowType /\ row.cells = <<Window>>
      BY <1>3, FirstSymbol
    <3> HIDE DEF row
    <3> QED
      BY <1>2, <1>3, <1>5, <3>1, <3>2, FlattensNewRow
  <2>2. CASE ~StartsRow
    <3> DEFINE last == rows[Len(rows)]
               row == [last EXCEPT !.cells = Append(@, Window)]
    <3>1. rows # <<>>
      BY <2>2 DEF StartsRow, RowsInv, RowGoesOn
    <3>2. Len(rows) \in 1 .. Len(rows)
      BY <1>2, <3>1, EmptySeq, LenProperties
    <3>3. last \in RowType
      BY <1>2, <3>2, ElementOfSeq
    <3>4. rows' = [rows EXCEPT ![Len(rows)] = row]
      BY <2>2 DEF HeatmapSymbol
    <3> HIDE DEF last
    <3>5. last.cells \in Seq(WindowType) /\ last.start \in Address
      BY <3>3 DEF RowType
    <3>6. Append(last.cells, Window) \in Seq(WindowType)
      BY <1>3, <3>5, AppendProperties
    <3>7. row \in RowType /\ row.cells = Append(last.cells, Window)
      BY <3>3, <3>5, <3>6 DEF RowType
    <3> HIDE DEF row
    <3>8. row.cells = Append(rows[Len(rows)].cells, Window)
      BY <3>7 DEF last
    <3> QED
      BY <1>2, <1>3, <1>5, <3>1, <3>4, <3>7, <3>8, FlattensLongerRow
  <2> QED
    BY <2>1, <2>2
<1>8. PICK g : Flattens(g, rows') /\ Shown(g, rows') = Append(Shown(f, rows), Window)
  BY <1>7
<1>9. Prefix(Shown(g, rows'), table)
  BY <1>1, <1>2, <1>4, <1>5, <1>6, <1>8, PrefixGrows
<1>10. Place(regions, Shown(g, rows'), r, offset')
  BY <1>1, <1>2, <1>6, <1>8, PlaceAfterWindow
<1> QED
  BY <1>1, <1>4, <1>8, <1>9, <1>10 DEF ShownInv, TableChain, RowsShowTable

LEMMA StepKeepsShown == WalkInv /\ ShownInv /\ [Next]_vars => ShownInv'
<1> SUFFICES ASSUME WalkInv, ShownInv, [Next]_vars PROVE ShownInv'
  OBVIOUS
<1>1. /\ TableInv /\ RowsInv /\ TypeOK /\ TableChain /\ RowsShowTable
      /\ rows \in Seq(RowType) /\ table \in Seq(WindowType) /\ LayoutOK(regions)
  BY DEF WalkInv, TableInv, RowsInv, ShownInv, TypeOK, RowType, WindowType
<1>2. Chain(regions, chunkSize, table)
  BY <1>1 DEF TableChain
<1>3. CASE TableWindow
  <2>1. /\ regions' = regions /\ chunkSize' = chunkSize /\ walk = "table" /\ walk' = walk
        /\ r' = r /\ rows' = rows /\ table' = Append(table, Window) /\ InsideRegion
    BY <1>3 DEF TableWindow, inputs
  <2>2. Window \in WindowType
    BY <1>1, <2>1, WindowIs
  <2>3. offset' = offset + chunkSize
    BY <1>1, <1>3, TableWindowKeepsInv
  <2>4. Place(regions, table, r, offset)
    BY <1>1, <2>1 DEF TableChain
  <2>5. Chain(regions, chunkSize, table') /\ Place(regions, table', r, offset')
    BY <1>1, <1>2, <2>1, <2>3, <2>4, ChainGrows, PlaceAfterWindow
  <2>6. table' \in Seq(WindowType)
    BY <1>1, <2>1, <2>2, AppendProperties
  <2>7. TableChain'
    BY <2>1, <2>5 DEF TableChain
  <2>8. walk' \in {"table", "heatmap"} /\ walk' # "heatmap"
    BY <2>1
  <2> QED
    BY <1>1, <2>1, <2>6, <2>7, <2>8, ShownInTable
<1>4. CASE TableRegionDone
  <2>1. /\ regions' = regions /\ chunkSize' = chunkSize /\ walk = "table" /\ walk' = walk
        /\ r' = r + 1 /\ offset' = 0 /\ rows' = rows /\ table' = table
        /\ r <= Len(regions) /\ ~InsideRegion
    BY <1>4 DEF TableRegionDone, NextRegion, inputs
  <2>2. Place(regions, table, r + 1, 0)
    BY <1>1, <2>1, PlaceAfterRegion DEF TableChain
  <2>3. TableChain'
    BY <1>2, <2>1, <2>2 DEF TableChain
  <2>4. walk' \in {"table", "heatmap"} /\ walk' # "heatmap"
    BY <2>1
  <2> QED
    BY <1>1, <2>1, <2>3, <2>4, ShownInTable
<1>5. CASE TableDone
  <2>1. /\ regions' = regions /\ chunkSize' = chunkSize
        /\ walk = "table" /\ walk' = "heatmap" /\ r' = 1 /\ offset' = 0
        /\ rows' = rows /\ table' = table /\ r > Len(regions)
    BY <1>5 DEF TableDone, inputs
  <2>2. ~(r <= Len(regions))
    <3>1. regions \in Seq(Region)
      BY <1>1 DEF LayoutOK
    <3>2. Len(regions) \in Nat /\ r \in Nat
      BY <1>1, <3>1, LenProperties DEF TypeOK
    <3> QED
      BY <2>1, <3>2
  <2>3. Place(regions, table, Len(regions) + 1, 0)
    BY <1>1, <2>1, <2>2, PlacePastEnd DEF TableChain
  <2>4. TableChain'
    BY <1>2, <2>1, <2>3 DEF TableChain
  <2> QED
    BY <1>1, <2>1, <2>4, ShownInTable
<1>6. CASE HeatmapSymbol
  BY <1>1, <1>6, SymbolIsShown
<1>7. CASE HeatmapRegionDone
  <2>1. /\ regions' = regions /\ chunkSize' = chunkSize /\ walk = "heatmap" /\ walk' = walk
        /\ r' = r + 1 /\ offset' = 0 /\ rows' = rows /\ table' = table
        /\ r <= Len(regions) /\ ~InsideRegion
    BY <1>7 DEF HeatmapRegionDone, NextRegion, inputs
  <2>2. PICK f : /\ Flattens(f, rows) /\ Prefix(Shown(f, rows), table)
                 /\ Place(regions, Shown(f, rows), r, offset)
    BY <1>1, <2>1 DEF RowsShowTable
  <2>3. Place(regions, Shown(f, rows), r + 1, 0)
    BY <1>1, <2>1, <2>2, PlaceAfterRegion
  <2> QED
    BY <1>1, <2>1, <2>2, <2>3 DEF ShownInv, TableChain, RowsShowTable
<1>8. CASE HeatmapDone
  <2>1. /\ regions' = regions /\ chunkSize' = chunkSize
        /\ walk = "heatmap" /\ walk' = "done" /\ rows' = rows /\ table' = table
        /\ r' = r /\ offset' = offset /\ r > Len(regions)
    BY <1>8 DEF HeatmapDone, inputs
  <2>2. ~(r <= Len(regions))
    <3>1. regions \in Seq(Region)
      BY <1>1 DEF LayoutOK
    <3>2. Len(regions) \in Nat /\ r \in Nat
      BY <1>1, <3>1, LenProperties DEF TypeOK
    <3> QED
      BY <2>1, <3>2
  <2>3. PICK f : /\ Flattens(f, rows) /\ Prefix(Shown(f, rows), table)
                 /\ Place(regions, Shown(f, rows), r, offset)
    BY <1>1, <2>1 DEF RowsShowTable
  <2>4. Place(regions, Shown(f, rows), Len(regions) + 1, 0)
    BY <1>1, <2>2, <2>3, PlacePastEnd
  <2>5. Shown(f, rows) \in Seq(WindowType)
    BY <1>1, <2>3, FlattensFacts
  <2>6. Place(regions, table, Len(regions) + 1, 0)
    BY <1>1, <2>1 DEF TableChain
  <2>7. Shown(f, rows) = table
    BY <1>1, <1>2, <2>3, <2>4, <2>5, <2>6, PrefixEnds
  <2> QED
    BY <1>2, <2>1, <2>3, <2>6, <2>7 DEF ShownInv, TableChain, RowsShowTable
<1>9. CASE UNCHANGED vars
  <2>1. /\ regions' = regions /\ chunkSize' = chunkSize /\ walk' = walk
        /\ table' = table /\ rows' = rows /\ r' = r /\ offset' = offset
    BY <1>9 DEF vars, inputs, walkVars
  <2> QED
    BY <1>1, <2>1 DEF ShownInv, TableChain, RowsShowTable
<1> QED
  BY <1>3, <1>4, <1>5, <1>6, <1>7, <1>8, <1>9 DEF Next, WalkStep

LEMMA ShownSuffices == RowsInv /\ ShownInv => HeatmapShowsTheTable
<1> SUFFICES ASSUME RowsInv, ShownInv, walk = "done" PROVE Cells = table
  BY DEF HeatmapShowsTheTable
<1>1. rows \in Seq(RowType)
  BY DEF RowsInv, TypeOK, RowType, WindowType
<1>2. PICK f : Flattens(f, rows) /\ Shown(f, rows) = table
  BY DEF ShownInv, RowsShowTable
<1> QED
  BY <1>1, <1>2, CellsAreShown

-----------------------------------------------------------------------------
(* The specification.                                                      *)

LEMMA InitInv == Init => WalkInv
<1> SUFFICES ASSUME Init PROVE WalkInv
  OBVIOUS
<1>1. /\ LayoutOK(regions) /\ chunkSize \in 1 .. SizeMax
      /\ walk = "table" /\ r = 1 /\ offset = 0 /\ symbols = 0
      /\ table = <<>> /\ rows = <<>>
  BY WindowAssumption DEF Init, WalkInit, WindowAssumption
<1>2. regions \in Seq(Region)
  BY <1>1 DEF LayoutOK
<1>3. Len(regions) \in Nat /\ SizeMax \in Nat /\ RowSymbols \in Nat
  BY <1>2, LenProperties, WidthAssumption, WindowAssumption
     DEF WidthAssumption, WindowAssumption
<1>4. TypeOK
  BY <1>1, <1>3 DEF TypeOK
<1>5. /\ Len(table) = 0 /\ Len(rows) = 0
      /\ \A n \in 1 .. Len(table) : FALSE
      /\ \A n \in 1 .. Len(rows) : FALSE
  BY <1>1
<1>6. WalkedCovered
  <2> SUFFICES ASSUME NEW k \in 1 .. Len(regions), NEW a \in Walked(k)
               PROVE  FALSE
    BY DEF WalkedCovered
  <2>1. regions[k].start \in Nat /\ regions[k].end \in Nat
    BY <1>1, RegionFacts, WidthAssumption DEF WidthAssumption, Address
  <2>2. CASE k = 1
    <3>1. a \in regions[k].start .. regions[k].end /\ a < regions[k].start + 0
      BY <1>1, <2>2 DEF Walked
    <3> QED
      BY <2>1, <3>1
  <2>3. CASE k # 1
    BY <1>1, <1>3, <2>3 DEF Walked
  <2> QED
    BY <2>2, <2>3
<1>7. OffsetsDoNotWrap /\ WindowsInRegions /\ WindowsBehind
  BY <1>1, <1>5 DEF OffsetsDoNotWrap, WindowsInRegions, WindowsBehind
<1> QED
  BY <1>1, <1>4, <1>5, <1>6, <1>7 DEF WalkInv, TableInv, AllRowsOK, RowGoesOn

\* The count of a region walk stays typed.
LEMMA NextRegionType ==
  ASSUME TypeOK, NextRegion
  PROVE  r' \in 1 .. Len(regions) + 1 /\ offset' \in 0 .. SizeMax
<1>1. regions \in Seq(Region)
  BY DEF TypeOK, LayoutOK
<1>2. Len(regions) \in Nat /\ SizeMax \in Nat
  BY <1>1, LenProperties, WidthAssumption DEF WidthAssumption
<1> QED
  BY <1>2 DEF TypeOK, NextRegion

LEMMA StepKeepsInv == WalkInv /\ [Next]_vars => WalkInv'
<1> SUFFICES ASSUME WalkInv, [Next]_vars PROVE WalkInv'
  OBVIOUS
<1>1. /\ TableInv /\ RowsInv /\ TypeOK
      /\ (walk = "table" => symbols = 0) /\ AllRowsOK /\ RowGoesOn
  BY DEF WalkInv, TableInv, RowsInv
<1>2. Len(regions) \in Nat /\ SizeMax \in Nat /\ RowSymbols \in Nat \ {0}
  <2>1. regions \in Seq(Region)
    BY <1>1 DEF TypeOK, LayoutOK
  <2> QED
    BY <2>1, LenProperties, WidthAssumption, WindowAssumption
       DEF WidthAssumption, WindowAssumption
<1>3. CASE TableWindow
  <2>1. OffsetsDoNotWrap' /\ WindowsInRegions' /\ WindowsBehind' /\ WalkedCovered'
    BY <1>1, <1>3, TableWindowKeepsInv
  <2>2. offset' \in 0 .. SizeMax
    BY <1>1, <1>3, TableWindowKeepsInv
  <2>3. /\ regions' = regions /\ chunkSize' = chunkSize /\ walk' = walk /\ walk = "table"
        /\ r' = r /\ symbols' = symbols /\ rows' = rows /\ table' = Append(table, Window)
    BY <1>3 DEF TableWindow, inputs
  <2>4. Window \in [start : Address, end : Address]
    BY <1>1, <1>3, InsideFacts, WindowFacts DEF TableWindow
  <2>5. table' \in Seq([start : Address, end : Address])
    BY <1>1, <2>3, <2>4, AppendProperties DEF TypeOK
  <2>6. TypeOK'
    BY <1>1, <2>2, <2>3, <2>5 DEF TypeOK
  <2>7. AllRowsOK' /\ RowGoesOn' /\ symbols' = 0
    BY <1>1, <2>3 DEF AllRowsOK, RowOK, RowGoesOn
  <2> QED
    BY <2>1, <2>6, <2>7 DEF WalkInv, TableInv
<1>4. CASE TableRegionDone
  <2>1. OffsetsDoNotWrap' /\ WindowsInRegions' /\ WindowsBehind' /\ WalkedCovered'
    BY <1>1, <1>4, TableRegionDoneKeepsInv
  <2>2. /\ regions' = regions /\ chunkSize' = chunkSize /\ walk' = walk /\ walk = "table"
        /\ symbols' = symbols /\ rows' = rows /\ table' = table /\ NextRegion
    BY <1>4 DEF TableRegionDone, inputs
  <2>3. TypeOK'
    BY <1>1, <2>2, NextRegionType DEF TypeOK
  <2>4. AllRowsOK' /\ RowGoesOn' /\ symbols' = 0
    BY <1>1, <2>2 DEF AllRowsOK, RowOK, RowGoesOn
  <2> QED
    BY <2>1, <2>3, <2>4 DEF WalkInv, TableInv
<1>5. CASE TableDone
  <2>1. OffsetsDoNotWrap' /\ WindowsInRegions' /\ WindowsBehind' /\ WalkedCovered'
    BY <1>1, <1>5, TableDoneKeepsInv
  <2>2. /\ regions' = regions /\ chunkSize' = chunkSize
        /\ walk = "table" /\ walk' = "heatmap" /\ r' = 1 /\ offset' = 0
        /\ symbols' = symbols /\ rows' = rows /\ table' = table
    BY <1>5 DEF TableDone, inputs
  <2>3. TypeOK'
    BY <1>1, <1>2, <2>2 DEF TypeOK
  <2>4. AllRowsOK' /\ RowGoesOn'
    BY <1>1, <2>2 DEF AllRowsOK, RowOK, RowGoesOn
  <2> QED
    BY <2>1, <2>2, <2>3, <2>4 DEF WalkInv, TableInv
<1>6. CASE HeatmapSymbol
  <2>1. /\ regions' = regions /\ chunkSize' = chunkSize
        /\ walk = "heatmap" /\ walk' = walk /\ r' = r /\ table' = table
    BY <1>6 DEF HeatmapSymbol, inputs
  <2>2. OffsetsDoNotWrap' /\ WindowsInRegions' /\ WindowsBehind' /\ WalkedCovered'
    BY <1>1, <2>1, AfterTableKeepsInv
  <2>3. /\ rows' \in Seq(RowType) /\ symbols' \in 1 .. RowSymbols
        /\ offset' \in 0 .. SizeMax /\ AllRowsOK' /\ RowGoesOn'
    BY <1>1, <1>6, HeatmapSymbolKeepsRows
  <2>4. symbols' \in 0 .. RowSymbols
    BY <1>2, <2>3
  <2>5. TypeOK'
    BY <1>1, <2>1, <2>3, <2>4 DEF TypeOK, RowType, WindowType
  <2> QED
    BY <2>1, <2>2, <2>3, <2>5 DEF WalkInv, TableInv
<1>7. CASE HeatmapRegionDone
  <2>1. /\ regions' = regions /\ chunkSize' = chunkSize
        /\ walk = "heatmap" /\ walk' = walk /\ table' = table /\ rows' = rows
        /\ symbols' = 0 /\ NextRegion
    BY <1>7 DEF HeatmapRegionDone, inputs
  <2>2. OffsetsDoNotWrap' /\ WindowsInRegions' /\ WindowsBehind' /\ WalkedCovered'
    BY <1>1, <2>1, AfterTableKeepsInv
  <2>3. 0 \in 0 .. RowSymbols
    BY <1>2
  <2>4. TypeOK'
    BY <1>1, <2>1, <2>3, NextRegionType DEF TypeOK
  <2>5. AllRowsOK' /\ RowGoesOn'
    BY <1>1, <2>1 DEF AllRowsOK, RowOK, RowGoesOn
  <2> QED
    BY <2>1, <2>2, <2>4, <2>5 DEF WalkInv, TableInv
<1>8. CASE HeatmapDone
  <2>1. /\ regions' = regions /\ chunkSize' = chunkSize
        /\ walk = "heatmap" /\ walk' = "done" /\ table' = table /\ rows' = rows
        /\ symbols' = symbols /\ r' = r /\ offset' = offset
    BY <1>8 DEF HeatmapDone, inputs
  <2>2. OffsetsDoNotWrap' /\ WindowsInRegions' /\ WindowsBehind' /\ WalkedCovered'
    BY <1>1, <2>1, AfterTableKeepsInv
  <2>3. TypeOK'
    BY <1>1, <2>1 DEF TypeOK
  <2>4. AllRowsOK' /\ RowGoesOn'
    BY <1>1, <2>1 DEF AllRowsOK, RowOK, RowGoesOn, InsideRegion, Length
  <2> QED
    BY <2>1, <2>2, <2>3, <2>4 DEF WalkInv, TableInv
<1>9. CASE UNCHANGED vars
  <2>1. /\ regions' = regions /\ chunkSize' = chunkSize /\ walk' = walk
        /\ table' = table /\ rows' = rows
        /\ symbols' = symbols /\ r' = r /\ offset' = offset
    BY <1>9 DEF vars, inputs, walkVars
  <2>2. TypeOK'
    BY <1>1, <2>1 DEF TypeOK
  <2>3. \A k \in 1 .. Len(regions) : Walked(k)' = Walked(k)
    BY <2>1 DEF Walked
  <2>4. OffsetsDoNotWrap' /\ WindowsInRegions' /\ WindowsBehind' /\ WalkedCovered'
    BY <1>1, <2>1, <2>3
       DEF TableInv, OffsetsDoNotWrap, WindowsInRegions, WindowsBehind, WalkedCovered
  <2>5. AllRowsOK' /\ RowGoesOn'
    BY <1>1, <2>1 DEF AllRowsOK, RowOK, RowGoesOn, InsideRegion, Length
  <2> QED
    BY <1>1, <2>1, <2>2, <2>4, <2>5 DEF WalkInv, TableInv
<1> QED
  BY <1>3, <1>4, <1>5, <1>6, <1>7, <1>8, <1>9 DEF Next, WalkStep

LEMMA InvSuffices == WalkInv => TypeOK /\ WindowsPartitionRegions /\ RowsAreAddressable
<1> SUFFICES ASSUME WalkInv PROVE WindowsPartitionRegions /\ RowsAreAddressable /\ TypeOK
  OBVIOUS
<1>1. TypeOK /\ WindowsInRegions /\ WalkedCovered /\ AllRowsOK
  BY DEF WalkInv, TableInv
<1>2. ASSUME NEW k \in 1 .. Len(regions), NEW a \in Walked(k)
      PROVE  \E n \in 1 .. Len(table) : Covering(table, a) = {n}
  <2>1. PICK n \in 1 .. Len(table) :
          \A m \in 1 .. Len(table) : Covers(table[m], a) <=> m = n
    BY <1>1 DEF WalkedCovered, CoveredOnce
  <2>2. Covering(table, a) = {n}
    BY <2>1 DEF Covering, Covers
  <2> QED
    BY <2>2
<1>3. WindowsPartitionRegions
  BY <1>1, <1>2 DEF WindowsPartitionRegions, WindowsInRegions, Inside
<1>4. RowsAreAddressable
  BY <1>1 DEF RowsAreAddressable, AllRowsOK, RowOK
<1> QED
  BY <1>1, <1>3, <1>4

LEMMA SpecInv == Spec => []WalkInv
BY InitInv, StepKeepsInv, PTL DEF Spec

\* The walks stay within the regions and their counters within their types:
\* the offset never wraps, for every window size (main.c:281).
THEOREM WalkIsTyped == Spec => []TypeOK
BY SpecInv, InvSuffices, PTL

\* For every layout and every window size the command line accepts, the windows
\* of the table that were printed so far cover each address walked over exactly
\* once and none reaches past its region (main.c:281-284).
THEOREM PartitionHolds == Spec => []WindowsPartitionRegions
BY SpecInv, InvSuffices, PTL

\* For every row width, the address printed before a row gives the address of
\* every symbol on it by counting window sizes (main.c:317-336).
THEOREM AddressableHolds == Spec => []RowsAreAddressable
BY SpecInv, InvSuffices, PTL

\* Whatever the window size, the row width and the lengths of the regions, the
\* symbols of a finished heat map are the windows of the table, one for one and
\* in order, although one walk adds the window size to its offset and the other
\* the length of the window (main.c:281, 333).
THEOREM HeatmapAlwaysShowsTable == Spec => []HeatmapShowsTheTable
<1>1. Init => WalkInv /\ ShownInv
  BY InitInv, ShownFromInit
<1>2. WalkInv /\ ShownInv /\ [Next]_vars => (WalkInv /\ ShownInv)'
  BY StepKeepsInv, StepKeepsShown
<1>3. WalkInv /\ ShownInv => HeatmapShowsTheTable
  BY ShownSuffices DEF WalkInv, RowsInv, TableInv
<1> QED
  BY <1>1, <1>2, <1>3, PTL DEF Spec

=============================================================================
