------------------------ MODULE FirmwareImageProofs ------------------------
(***************************************************************************)
(* The image object keeps its chunk table, span and total right, for every *)
(* platform width and every sequence of calls.  The lemmas about table     *)
(* growth and about one stored chunk are stated for any caller, so that    *)
(* the proofs about the memory map and the parser cite them.               *)
(***************************************************************************)
EXTENDS FirmwareImage, SequenceTheorems, FiniteSetTheorems, WellFoundedInduction, TLAPS

-----------------------------------------------------------------------------
(* Arithmetic.                                                             *)

\* A size below the modulus is its own remainder.
LEMMA SmallRemainder ==
  ASSUME NEW x \in Nat, NEW m \in Nat, x < m
  PROVE  x % m = x
BY SMT

\* Doubling a table that fits the heap, or giving it its first capacity,
\* overflows neither the capacity nor the byte count of the request.
LEMMA NextCapacityFits ==
  ASSUME NEW t \in Tables, capacity \in [Tables -> Nat],
         capacity[t] * EntrySize[t] <= AllocMax
  PROVE  /\ NextCapacity(t) \in Nat
         /\ NextCapacity(t) > capacity[t]
         /\ TableRequest(t) = NextCapacity(t) * EntrySize[t]
<1> DEFINE cap == capacity[t]
           entry == EntrySize[t]
<1>1. /\ cap \in Nat /\ entry \in Nat \ {0} /\ FirstCap[t] \in Nat \ {0}
      /\ SizeMax \in Nat /\ AllocMax \in Nat /\ 2 * AllocMax <= SizeMax
      /\ AddrMax \in Nat
      /\ FirstCap[t] * entry <= SizeMax
  BY WidthAssumption, TableAssumption DEF WidthAssumption, TableAssumption
<1>2. CASE cap = 0
  <2>1. NextCapacity(t) = FirstCap[t]
    BY <1>2 DEF NextCapacity
  <2>2. FirstCap[t] * entry \in Nat
    BY <1>1
  <2>3. (FirstCap[t] * entry) % (SizeMax + 1) = FirstCap[t] * entry
    BY <1>1, <2>2, SmallRemainder
  <2> QED
    BY <1>1, <1>2, <2>1, <2>3 DEF TableRequest
<1>3. CASE cap # 0
  <2>1. cap <= cap * entry /\ cap * entry \in Nat
    BY <1>1
  <2>2. 2 * cap <= SizeMax /\ 2 * cap \in Nat
    BY <1>1, <2>1
  <2>3. NextCapacity(t) = 2 * cap
    BY <1>1, <1>3, <2>2 DEF NextCapacity, WrapSize
  <2>4. (2 * cap) * entry = 2 * (cap * entry)
    BY <1>1
  <2>5. (2 * cap) * entry \in Nat /\ (2 * cap) * entry <= SizeMax
    BY <1>1, <2>1, <2>4
  <2>6. ((2 * cap) * entry) % (SizeMax + 1) = (2 * cap) * entry
    BY <1>1, <2>5, SmallRemainder
  <2> QED
    BY <1>1, <1>3, <2>2, <2>3, <2>6 DEF TableRequest
<1> QED
  BY <1>2, <1>3

\* A push that is granted leaves room for the entry within a block that the
\* allocator really returned.
LEMMA PushHasRoom ==
  ASSUME NEW t \in Tables, capacity \in [Tables -> Nat],
         capacity[t] * EntrySize[t] <= AllocMax,
         NEW count \in Nat, count <= capacity[t],
         CanPush(t, count)
  PROVE  /\ CapacityFor(t, count) \in Nat
         /\ count + 1 <= CapacityFor(t, count)
         /\ CapacityFor(t, count) * EntrySize[t] <= AllocMax
<1>1. CASE Full(t, count)
  <2>1. Grantable(TableRequest(t))
    BY <1>1 DEF CanPush
  <2> QED
    BY <1>1, <2>1, NextCapacityFits DEF CapacityFor, Full, Grantable
<1>2. CASE ~Full(t, count)
  BY <1>2 DEF CapacityFor, Full
<1> QED
  BY <1>1, <1>2

-----------------------------------------------------------------------------
(* Counting.                                                               *)

\* A nonempty set of naturals has a least element.
LEMMA LeastExists ==
  ASSUME NEW S \in SUBSET Nat, S # {}
  PROVE  \E x \in S : \A y \in S : x <= y
<1>1. \E x \in S : \A y \in S : ~(<<y, x>> \in OpToRel(<, Nat))
  BY NatLessThanWellFounded, WFMin
<1>2. PICK x \in S : \A y \in S : ~(<<y, x>> \in OpToRel(<, Nat))
  BY <1>1
<1>3. ASSUME NEW y \in S PROVE x <= y
  <2>1. ~(y < x)
    BY <1>2 DEF OpToRel
  <2> QED
    BY <2>1
<1> QED
  BY <1>3

\* sum adds up the weights of a subset of D, each time taking first of the rest.
SumsUp(D, first, weight, sum) ==
  \A s \in SUBSET D :
    /\ s # {} => first[s] \in s
    /\ sum[s] = IF s = {} THEN 0 ELSE weight[first[s]] + sum[s \ {first[s]}]

\* count grows by an element's weight, whichever element is added.
Counts(D, weight, count) ==
  /\ count[{}] = 0
  /\ \A s \in SUBSET D : \A x \in s : count[s] = weight[x] + count[s \ {x}]

\* The sum over a finite set is such a count: a smallest set where they differed
\* would differ already without its first element.
LEMMA SumIsCount ==
  ASSUME NEW D, IsFiniteSet(D), NEW first, NEW weight, NEW count, NEW sum,
         SumsUp(D, first, weight, sum), Counts(D, weight, count)
  PROVE  sum[D] = count[D]
<1> DEFINE differ == {n \in Nat : \E s \in SUBSET D : Cardinality(s) = n /\ sum[s] # count[s]}
<1>1. SUFFICES ASSUME sum[D] # count[D] PROVE FALSE
  OBVIOUS
<1>2. Cardinality(D) \in differ
  BY <1>1, FS_CardinalityType
<1>3. PICK n \in differ : \A m \in differ : n <= m
  BY <1>2, LeastExists
<1>4. n \in Nat
  OBVIOUS
<1>5. PICK s \in SUBSET D : Cardinality(s) = n /\ sum[s] # count[s]
  OBVIOUS
<1>6. IsFiniteSet(s)
  BY FS_Subset
<1>7. s # {}
  BY <1>5 DEF Counts, SumsUp
<1>8. PICK x \in s : x = first[s]
  BY <1>7 DEF SumsUp
<1>9. IsFiniteSet(s \ {x}) /\ Cardinality(s \ {x}) = n - 1
  BY <1>5, <1>6, FS_RemoveElement
<1>10. n - 1 \in Nat
  BY <1>9, FS_CardinalityType
<1>11. sum[s \ {x}] # count[s \ {x}]
  <2>1. sum[s] = weight[x] + sum[s \ {x}]
    BY <1>7, <1>8 DEF SumsUp
  <2>2. count[s] = weight[x] + count[s \ {x}]
    BY DEF Counts
  <2> QED
    BY <1>5, <2>1, <2>2
<1>12. s \ {x} \in SUBSET D
  OBVIOUS
<1>13. n - 1 \in differ
  BY <1>9, <1>10, <1>11, <1>12
<1> HIDE DEF differ
<1> QED
  BY <1>3, <1>4, <1>13

LEMMA RangeCount ==
  ASSUME NEW a \in Int, NEW b \in Int, a <= b + 1
  PROVE  IsFiniteSet(a .. b) /\ Cardinality(a .. b) = b - a + 1
<1>1. IsFiniteSet(a .. b) /\ Cardinality(a .. b) = IF a > b THEN 0 ELSE b - a + 1
  BY FS_Interval
<1> QED
  BY <1>1

\* As many elements tagged with k as without.
LEMMA TagCount ==
  ASSUME NEW k, NEW S, IsFiniteSet(S)
  PROVE  IsFiniteSet({k} \X S) /\ Cardinality({k} \X S) = Cardinality(S)
<1>1. IsFiniteSet({k}) /\ Cardinality({k}) = 1
  BY FS_Singleton
<1>2. /\ IsFiniteSet({k} \X S)
      /\ Cardinality({k} \X S) = Cardinality({k}) * Cardinality(S)
  BY <1>1, FS_Product
<1>3. Cardinality(S) \in Nat
  BY FS_CardinalityType
<1> QED
  BY <1>1, <1>2, <1>3

\* Disjoint sets add up.
LEMMA DisjointCount ==
  ASSUME NEW S, IsFiniteSet(S), NEW T, IsFiniteSet(T), S \cap T = {}
  PROVE  IsFiniteSet(S \cup T) /\ Cardinality(S \cup T) = Cardinality(S) + Cardinality(T)
<1>1. Cardinality(S \cap T) = 0
  BY FS_EmptySet
<1>2. Cardinality(S) \in Nat /\ Cardinality(T) \in Nat
  BY FS_CardinalityType
<1>3. /\ IsFiniteSet(S \cup T)
      /\ Cardinality(S \cup T) = Cardinality(S) + Cardinality(T) - Cardinality(S \cap T)
  BY FS_Union
<1> QED
  BY <1>1, <1>2, <1>3

LEMMA UnitsOfOne ==
  ASSUME NEW x, NEW n \in Nat
  PROVE  IsFiniteSet({x} \X (1 .. n)) /\ Cardinality({x} \X (1 .. n)) = n
<1>1. IsFiniteSet(1 .. n) /\ Cardinality(1 .. n) = n
  BY RangeCount
<1> QED
  BY <1>1, TagCount

-----------------------------------------------------------------------------
(* The inductive invariant.                                                *)

\* The code recognises an image without chunks by its byte total.
TotalTellsEmpty == totalLoaded = 0 <=> chunks = <<>>

ImageInv ==
  /\ ImageTypeOK
  /\ ChunksWellFormed
  /\ SpanIsTight
  /\ ChunkTableHolds
  /\ TotalTellsEmpty

\* The chunk a successful add_chunk stores: typed, not wrapped, as long as its
\* address range, for every start and every buffer the checks let through.
LEMMA StoredChunkWellFormed ==
  ASSUME NEW start \in Address, NEW bytes \in Seq(Byte), NEW line \in Nat,
         bytes # <<>>, ~AddressOverflows(start, Len(bytes))
  PROVE  /\ [start |-> start, end |-> EndOf(start, bytes),
             bytes |-> bytes, line |-> line] \in SourceChunk
         /\ start <= EndOf(start, bytes)
         /\ Len(bytes) = EndOf(start, bytes) - start + 1
<1>1. Len(bytes) \in Nat /\ Len(bytes) # 0
  BY EmptySeq
<1>2. AddrMax \in Nat
  BY WidthAssumption, TableAssumption DEF WidthAssumption, TableAssumption
<1>3. start + Len(bytes) - 1 <= AddrMax
  BY <1>1, <1>2 DEF AddressOverflows, Address
<1>4. EndOf(start, bytes) = start + Len(bytes) - 1
  BY <1>1, <1>2, <1>3 DEF EndOf, WrapAddr, Address
<1> QED
  BY <1>1, <1>2, <1>3, <1>4 DEF SourceChunk, Address

\* Storing a chunk keeps the invariant, whoever calls add_chunk.
LEMMA StoredKeepsInv ==
  ASSUME NEW start \in Address, NEW bytes \in Seq(Byte), NEW line \in Nat,
         ImageInv, AddChunkStored(start, bytes, line)
  PROVE  ImageInv'
<1> DEFINE end == EndOf(start, bytes)
           new == [start |-> start, end |-> end, bytes |-> bytes, line |-> line]
<1>0. ImageTypeOK /\ ChunksWellFormed /\ SpanIsTight /\ ChunkTableHolds /\ TotalTellsEmpty
  BY DEF ImageInv
<1>1. /\ new \in SourceChunk
      /\ start <= end
      /\ Len(bytes) = end - start + 1
  BY StoredChunkWellFormed DEF AddChunkStored
<1>2. /\ new.start = start /\ new.end = end /\ new.bytes = bytes
      /\ end \in Address
  BY <1>1 DEF SourceChunk
<1>3. chunks \in Seq(SourceChunk) /\ chunks' = Append(chunks, new)
  BY <1>0 DEF AddChunkStored, ImageTypeOK
<1>4. /\ addrStart \in Address /\ addrStart' \in Address
      /\ addrEnd \in Address /\ addrEnd' \in Address
      /\ addrStart' = IF totalLoaded = 0 \/ start < addrStart THEN start ELSE addrStart
      /\ addrEnd' = IF totalLoaded = 0 \/ end > addrEnd THEN end ELSE addrEnd
  BY <1>0, <1>2 DEF AddChunkStored, LoweredStart, RaisedEnd, ImageTypeOK
<1> HIDE DEF end, new
<1>5. /\ chunks' \in Seq(SourceChunk)
      /\ Len(chunks) \in Nat /\ Len(chunks') = Len(chunks) + 1
      /\ \A k \in 1 .. Len(chunks) : chunks'[k] = chunks[k]
      /\ chunks'[Len(chunks) + 1] = new
  BY <1>1, <1>3, AppendProperties
<1>6. totalLoaded' \in 0 .. SizeMax /\ totalLoaded' # 0
  <2>1. Len(bytes) \in Nat /\ Len(bytes) > 0
    BY EmptySeq DEF AddChunkStored
  <2>2. ~CountOverflows(Len(bytes)) /\ totalLoaded' = WrapSize(totalLoaded + Len(bytes))
    BY DEF AddChunkStored
  <2>3. totalLoaded \in 0 .. SizeMax /\ SizeMax \in Nat
    BY <1>0, WidthAssumption, TableAssumption DEF WidthAssumption, TableAssumption, ImageTypeOK
  <2>4. totalLoaded + Len(bytes) <= SizeMax
    BY <2>1, <2>2, <2>3 DEF CountOverflows
  <2> QED
    BY <2>1, <2>2, <2>3, <2>4 DEF WrapSize
<1>7. /\ capacity' \in [Tables -> Nat]
      /\ Len(chunks') <= capacity'["chunks"]
      /\ capacity'["chunks"] * EntrySize["chunks"] <= AllocMax
  <2>1. "chunks" \in Tables
    BY DEF Tables
  <2>2. /\ capacity \in [Tables -> Nat] /\ Len(chunks) <= capacity["chunks"]
        /\ capacity["chunks"] * EntrySize["chunks"] <= AllocMax
    BY <1>0 DEF ImageTypeOK, ChunkTableHolds
  <2>3. /\ CanPush("chunks", Len(chunks))
        /\ capacity' = [capacity EXCEPT !["chunks"] = CapacityFor("chunks", Len(chunks))]
    BY DEF AddChunkStored
  <2>4. /\ CapacityFor("chunks", Len(chunks)) \in Nat
        /\ Len(chunks) + 1 <= CapacityFor("chunks", Len(chunks))
        /\ CapacityFor("chunks", Len(chunks)) * EntrySize["chunks"] <= AllocMax
    BY <1>5, <2>1, <2>2, <2>3, PushHasRoom
  <2> QED
    BY <1>5, <2>1, <2>2, <2>3, <2>4
<1>8. ChunksWellFormed'
  <2> SUFFICES ASSUME NEW k \in 1 .. Len(chunks')
               PROVE  /\ chunks'[k].start <= chunks'[k].end
                      /\ Len(chunks'[k].bytes) = chunks'[k].end - chunks'[k].start + 1
    BY DEF ChunksWellFormed
  <2>1. CASE k \in 1 .. Len(chunks)
    BY <1>0, <1>5, <2>1 DEF ChunksWellFormed
  <2>2. CASE k = Len(chunks) + 1
    BY <1>1, <1>2, <1>5, <2>2
  <2> QED
    BY <1>5, <2>1, <2>2
<1>9. SpanIsTight'
  <2>0. AddrMax \in Nat
    BY WidthAssumption, TableAssumption DEF WidthAssumption, TableAssumption
  <2>1. CASE totalLoaded = 0
    <3>1. Len(chunks) = 0
      BY <1>0, <2>1, EmptySeq DEF TotalTellsEmpty
    <3>2. Len(chunks') = 1 /\ chunks'[1] = new
      BY <1>5, <3>1
    <3>3. /\ addrStart' = new.start /\ addrEnd' = new.end
          /\ addrStart' <= new.start /\ new.end <= addrEnd'
      BY <1>2, <1>4, <2>0, <2>1 DEF Address
    <3> QED
      BY <3>2, <3>3 DEF SpanIsTight
  <2>2. CASE totalLoaded # 0
    <3>1. chunks # <<>>
      BY <1>0, <2>2 DEF TotalTellsEmpty
    <3>2. PICK low \in 1 .. Len(chunks) : addrStart = chunks[low].start
      BY <1>0, <3>1 DEF SpanIsTight
    <3>3. PICK high \in 1 .. Len(chunks) : addrEnd = chunks[high].end
      BY <1>0, <3>1 DEF SpanIsTight
    <3>4. \A k \in 1 .. Len(chunks) :
            addrStart' <= chunks[k].start /\ chunks[k].end <= addrEnd'
      <4> TAKE k \in 1 .. Len(chunks)
      <4>1. chunks[k] \in SourceChunk
        BY <1>0 DEF ImageTypeOK
      <4>2. chunks[k].start \in Address /\ chunks[k].end \in Address
        BY <4>1 DEF SourceChunk
      <4>3. addrStart <= chunks[k].start /\ chunks[k].end <= addrEnd
        BY <1>0, <3>1 DEF SpanIsTight
      <4>4. addrStart' <= addrStart /\ addrEnd <= addrEnd'
        BY <1>2, <1>4, <2>0, <2>2 DEF Address
      <4>5. /\ addrStart' \in Int /\ addrStart \in Int /\ chunks[k].start \in Int
            /\ addrEnd' \in Int /\ addrEnd \in Int /\ chunks[k].end \in Int
        BY <1>4, <2>0, <4>2 DEF Address
      <4> QED
        BY <4>3, <4>4, <4>5
    <3>5. addrStart' <= new.start /\ new.end <= addrEnd'
      BY <1>2, <1>4, <2>0 DEF Address
    <3>6. \A k \in 1 .. Len(chunks') :
            addrStart' <= chunks'[k].start /\ chunks'[k].end <= addrEnd'
      BY <1>5, <3>4, <3>5
    <3>7. \E k \in 1 .. Len(chunks') : addrStart' = chunks'[k].start
      BY <1>2, <1>4, <1>5, <2>2, <3>2
    <3>8. \E k \in 1 .. Len(chunks') : addrEnd' = chunks'[k].end
      BY <1>2, <1>4, <1>5, <2>2, <3>3
    <3> QED
      BY <3>6, <3>7, <3>8 DEF SpanIsTight
  <2> QED
    BY <2>1, <2>2
<1>10. TotalTellsEmpty'
  BY <1>5, <1>6, EmptySeq DEF TotalTellsEmpty
<1> QED
  BY <1>4, <1>5, <1>6, <1>7, <1>8, <1>9, <1>10
  DEF ImageInv, ImageTypeOK, ChunkTableHolds

\* Growing the chunk table without storing keeps it.
LEMMA NoCopyKeepsInv ==
  ASSUME NEW start \in Address, NEW bytes \in Seq(Byte),
         ImageInv, AddChunkNoCopy(start, bytes)
  PROVE  ImageInv'
<1>1. "chunks" \in Tables
  BY DEF Tables
<1>2. /\ capacity \in [Tables -> Nat] /\ Len(chunks) \in Nat
      /\ Len(chunks) <= capacity["chunks"]
      /\ capacity["chunks"] * EntrySize["chunks"] <= AllocMax
  BY DEF ImageInv, ImageTypeOK, ChunkTableHolds
<1>3. /\ CapacityFor("chunks", Len(chunks)) \in Nat
      /\ Len(chunks) <= CapacityFor("chunks", Len(chunks))
      /\ CapacityFor("chunks", Len(chunks)) * EntrySize["chunks"] <= AllocMax
  BY <1>1, <1>2, PushHasRoom DEF AddChunkNoCopy
<1>4. /\ capacity' \in [Tables -> Nat]
      /\ capacity'["chunks"] = CapacityFor("chunks", Len(chunks))
  BY <1>1, <1>2, <1>3 DEF AddChunkNoCopy
<1> QED
  BY <1>3, <1>4
  DEF ImageInv, ImageTypeOK, ChunksWellFormed, SpanIsTight, ChunkTableHolds,
      TotalTellsEmpty, AddChunkNoCopy, totalVars

\* A step that leaves the image alone keeps it.
LEMMA UnchangedKeepsInv ==
  ASSUME ImageInv, UNCHANGED imageVars
  PROVE  ImageInv'
BY DEF ImageInv, ImageTypeOK, ChunksWellFormed, SpanIsTight, ChunkTableHolds,
       TotalTellsEmpty, imageVars, totalVars

\* An image that was just initialised or freed satisfies it.
LEMMA EmptyImageInv ==
  ASSUME chunks = <<>>, capacity = [t \in Tables |-> 0],
         totalLoaded = 0, addrStart = 0, addrEnd = 0
  PROVE  ImageInv
<1>1. /\ EntrySize["chunks"] \in Nat /\ AllocMax \in Nat /\ AddrMax \in Nat /\ SizeMax \in Nat
  BY WidthAssumption, TableAssumption DEF WidthAssumption, TableAssumption, Tables
<1>2. capacity["chunks"] = 0 /\ capacity["chunks"] * EntrySize["chunks"] = 0
  BY <1>1 DEF Tables
<1> QED
  BY <1>1, <1>2
  DEF ImageInv, ImageTypeOK, ChunksWellFormed, SpanIsTight, ChunkTableHolds,
      TotalTellsEmpty, Address, Tables

LEMMA FreeKeepsInv ==
  ASSUME FreeImage
  PROVE  ImageInv'
<1>1. /\ EntrySize["chunks"] \in Nat /\ AllocMax \in Nat /\ AddrMax \in Nat /\ SizeMax \in Nat
  BY WidthAssumption, TableAssumption DEF WidthAssumption, TableAssumption, Tables
<1>2. capacity'["chunks"] = 0 /\ capacity'["chunks"] * EntrySize["chunks"] = 0
  BY <1>1 DEF Tables, FreeImage
<1> QED
  BY <1>1, <1>2
  DEF ImageInv, ImageTypeOK, ChunksWellFormed, SpanIsTight, ChunkTableHolds,
      TotalTellsEmpty, Address, Tables, FreeImage

\* Any call of add_chunk with arguments of the caller's keeps it.
LEMMA AddChunkKeepsInv ==
  ASSUME ImageInv, AddChunk
  PROVE  ImageInv'
<1>1. PICK start \in ChunkStarts, bytes \in ChunkData, line \in ChunkLines :
        \/ AddChunkEmpty(bytes)
        \/ AddChunkFails(start, bytes)
        \/ Len(chunks) < MaxChunks /\ AddChunkStored(start, bytes, line)
  BY DEF AddChunk
<1>2. start \in Address /\ bytes \in Seq(Byte) /\ line \in Nat
  BY CallerAssumption DEF CallerAssumption
<1>3. CASE AddChunkEmpty(bytes)
  BY <1>3, UnchangedKeepsInv DEF AddChunkEmpty
<1>4. CASE AddChunkRefused(start, bytes)
  BY <1>4, UnchangedKeepsInv DEF AddChunkRefused
<1>5. CASE AddChunkNoCopy(start, bytes)
  BY <1>2, <1>5, NoCopyKeepsInv
<1>6. CASE AddChunkStored(start, bytes, line)
  BY <1>2, <1>6, StoredKeepsInv
<1> QED
  BY <1>1, <1>3, <1>4, <1>5, <1>6 DEF AddChunkFails

-----------------------------------------------------------------------------
(* The byte total.                                                         *)

\* Every byte loaded, named by its chunk and its address.
LoadedBytes(cs) ==
  {ka \in (1 .. Len(cs)) \X Address : ka[2] \in cs[ka[1]].start .. cs[ka[1]].end}

\* The total is the number of bytes loaded, chunk by chunk: it never wrapped.
TotalCounts == totalLoaded = Cardinality(LoadedBytes(chunks))

LEMMA LoadedBytesFinite ==
  ASSUME NEW cs \in Seq(SourceChunk)
  PROVE  IsFiniteSet(LoadedBytes(cs))
<1>1. PICK n \in Nat : n = Len(cs)
  OBVIOUS
<1>2. AddrMax \in Nat /\ Address = 0 .. AddrMax
  BY WidthAssumption, TableAssumption DEF WidthAssumption, TableAssumption, Address
<1>3. IsFiniteSet(1 .. n) /\ IsFiniteSet(Address)
  BY <1>2, FS_Interval
<1>4. IsFiniteSet((1 .. n) \X Address)
  BY <1>3, FS_Product
<1>5. LoadedBytes(cs) \in SUBSET ((1 .. n) \X Address)
  BY <1>1 DEF LoadedBytes
<1> QED
  BY <1>4, <1>5, FS_Subset

\* One more chunk adds as many bytes as its buffer holds.
LEMMA AppendCounts ==
  ASSUME NEW cs \in Seq(SourceChunk), NEW c \in SourceChunk,
         c.start <= c.end, Len(c.bytes) = c.end - c.start + 1
  PROVE  Cardinality(LoadedBytes(Append(cs, c)))
           = Cardinality(LoadedBytes(cs)) + Len(c.bytes)
<1> DEFINE n == Len(cs)
           more == Append(cs, c)
           new == {n + 1} \X (c.start .. c.end)
<1>1. /\ n \in Nat /\ Len(more) = n + 1 /\ more[n + 1] = c
      /\ \A k \in 1 .. n : more[k] = cs[k]
  BY AppendProperties
<1>2. PICK s, e \in Address : s = c.start /\ e = c.end
  BY DEF SourceChunk
<1>3. AddrMax \in Nat /\ Address = 0 .. AddrMax
  BY WidthAssumption, TableAssumption DEF WidthAssumption, TableAssumption, Address
<1>4. s \in Int /\ e \in Int /\ s <= e /\ s .. e \subseteq Address
  BY <1>2, <1>3
<1>5. IsFiniteSet(s .. e) /\ Cardinality(s .. e) = e - s + 1
  <2>1. s <= e + 1
    BY <1>4
  <2> QED
    BY <1>4, <2>1, RangeCount
<1>6. IsFiniteSet(new) /\ Cardinality(new) = Len(c.bytes)
  BY <1>2, <1>5, TagCount
<1>7. LoadedBytes(more) = LoadedBytes(cs) \cup new
  <2> HIDE DEF more, n
  <2>1. ASSUME NEW k \in 1 .. n + 1, NEW a \in Address
        PROVE  <<k, a>> \in LoadedBytes(more) <=> <<k, a>> \in LoadedBytes(cs) \cup new
    <3>1. CASE k = n + 1
      <4>1. k \notin 1 .. n
        BY <1>1, <3>1
      <4>2. <<k, a>> \notin LoadedBytes(cs)
        BY <4>1 DEF LoadedBytes, n
      <4>3. <<k, a>> \in LoadedBytes(more) <=> a \in c.start .. c.end
        BY <1>1, <3>1 DEF LoadedBytes
      <4> QED
        BY <3>1, <4>2, <4>3
    <3>2. CASE k \in 1 .. n
      <4>1. k # n + 1
        BY <1>1, <3>2
      <4>2. <<k, a>> \in LoadedBytes(more) <=> a \in cs[k].start .. cs[k].end
        BY <1>1, <3>2 DEF LoadedBytes
      <4>3. <<k, a>> \in LoadedBytes(cs) <=> a \in cs[k].start .. cs[k].end
        BY <3>2 DEF LoadedBytes, n
      <4> QED
        BY <4>1, <4>2, <4>3
    <3> QED
      BY <1>1, <3>1, <3>2
  <2>2. LoadedBytes(more) \subseteq (1 .. n + 1) \X Address
    BY <1>1 DEF LoadedBytes
  <2>3. LoadedBytes(cs) \subseteq (1 .. n + 1) \X Address
    BY <1>1 DEF LoadedBytes, n
  <2>4. new \subseteq (1 .. n + 1) \X Address
    BY <1>1, <1>2, <1>4
  <2> HIDE DEF new
  <2> QED
    BY <2>1, <2>2, <2>3, <2>4
<1>8. LoadedBytes(cs) \cap new = {}
  BY <1>1 DEF LoadedBytes
<1>9. IsFiniteSet(LoadedBytes(cs))
  BY LoadedBytesFinite
<1> HIDE DEF new, more
<1>10. Cardinality(LoadedBytes(more)) = Cardinality(LoadedBytes(cs)) + Cardinality(new)
  BY <1>6, <1>7, <1>8, <1>9, DisjointCount
<1> QED
  BY <1>6, <1>10 DEF more

LEMMA NothingCounted == Cardinality(LoadedBytes(<<>>)) = 0
<1>1. LoadedBytes(<<>>) = {}
  BY DEF LoadedBytes
<1> QED
  BY <1>1, FS_EmptySet

\* Storing a chunk keeps the count, whoever calls add_chunk.
LEMMA StoredKeepsCount ==
  ASSUME NEW start \in Address, NEW bytes \in Seq(Byte), NEW line \in Nat,
         ImageInv, TotalCounts, AddChunkStored(start, bytes, line)
  PROVE  TotalCounts'
<1> DEFINE end == EndOf(start, bytes)
           new == [start |-> start, end |-> end, bytes |-> bytes, line |-> line]
<1>1. /\ new \in SourceChunk /\ start <= end /\ Len(bytes) = end - start + 1
  BY StoredChunkWellFormed DEF AddChunkStored
<1>2. new.start = start /\ new.end = end /\ new.bytes = bytes
  OBVIOUS
<1>3. chunks \in Seq(SourceChunk) /\ chunks' = Append(chunks, new)
  BY DEF AddChunkStored, ImageInv, ImageTypeOK
<1> HIDE DEF new, end
<1>4. Cardinality(LoadedBytes(chunks'))
        = Cardinality(LoadedBytes(chunks)) + Len(bytes)
  BY <1>1, <1>2, <1>3, AppendCounts
<1>5. totalLoaded' = totalLoaded + Len(bytes)
  <2>1. ~CountOverflows(Len(bytes)) /\ totalLoaded' = WrapSize(totalLoaded + Len(bytes))
    BY DEF AddChunkStored
  <2>2. totalLoaded \in 0 .. SizeMax /\ SizeMax \in Nat /\ Len(bytes) \in Nat
    BY WidthAssumption, TableAssumption
    DEF WidthAssumption, TableAssumption, ImageInv, ImageTypeOK
  <2> QED
    BY <2>1, <2>2 DEF CountOverflows, WrapSize
<1>6. Cardinality(LoadedBytes(chunks))' = Cardinality(LoadedBytes(chunks'))
  BY DEF LoadedBytes
<1> QED
  BY <1>4, <1>5, <1>6 DEF TotalCounts

\* A step that leaves the chunks and the total alone keeps the count.
LEMMA UnchangedKeepsCount ==
  ASSUME TotalCounts, UNCHANGED <<chunks, totalVars>>
  PROVE  TotalCounts'
BY DEF TotalCounts, LoadedBytes, totalVars

LEMMA FreeKeepsCount ==
  ASSUME FreeImage
  PROVE  TotalCounts'
<1>1. LoadedBytes(chunks)' = LoadedBytes(<<>>) /\ totalLoaded' = 0
  BY DEF LoadedBytes, FreeImage
<1> QED
  BY <1>1, NothingCounted DEF TotalCounts

\* Any call of add_chunk with arguments of the caller's keeps it.
LEMMA AddChunkKeepsCount ==
  ASSUME ImageInv, TotalCounts, AddChunk
  PROVE  TotalCounts'
<1>1. PICK start \in ChunkStarts, bytes \in ChunkData, line \in ChunkLines :
        \/ AddChunkEmpty(bytes)
        \/ AddChunkFails(start, bytes)
        \/ Len(chunks) < MaxChunks /\ AddChunkStored(start, bytes, line)
  BY DEF AddChunk
<1>2. start \in Address /\ bytes \in Seq(Byte) /\ line \in Nat
  BY CallerAssumption DEF CallerAssumption
<1>3. CASE AddChunkEmpty(bytes)
  BY <1>3, UnchangedKeepsCount DEF AddChunkEmpty, imageVars
<1>4. CASE AddChunkRefused(start, bytes)
  BY <1>4, UnchangedKeepsCount DEF AddChunkRefused, imageVars
<1>5. CASE AddChunkNoCopy(start, bytes)
  BY <1>5, UnchangedKeepsCount DEF AddChunkNoCopy
<1>6. CASE AddChunkStored(start, bytes, line)
  BY <1>2, <1>6, StoredKeepsCount
<1> QED
  BY <1>1, <1>3, <1>4, <1>5, <1>6 DEF AddChunkFails

-----------------------------------------------------------------------------
(* The theorems.                                                           *)

LEMMA ImageInvariance == ImageSpec => []ImageInv
<1>1. ImageInit => ImageInv
  BY EmptyImageInv DEF ImageInit
<1>2. ImageInv /\ [ImageNext]_imageVars => ImageInv'
  BY AddChunkKeepsInv, FreeKeepsInv, UnchangedKeepsInv DEF ImageNext
<1> QED
  BY <1>1, <1>2, PTL DEF ImageSpec

\* The image fields keep their types: no total and no address leaves its width.
THEOREM ImageTypeCorrect == ImageSpec => []ImageTypeOK
BY ImageInvariance, PTL DEF ImageInv

\* Every stored chunk is as long as its address range and no end wrapped.
THEOREM ChunksStayWellFormed == ImageSpec => []ChunksWellFormed
BY ImageInvariance, PTL DEF ImageInv

\* The loaded span is exactly the lowest start and the highest end.
THEOREM SpanStaysTight == ImageSpec => []SpanIsTight
BY ImageInvariance, PTL DEF ImageInv

\* The unchecked byte count of the table's realloc never wraps, because a table
\* the allocator granted is at most half of what size_t can count.
THEOREM ChunkTableAlwaysHolds == ImageSpec => []ChunkTableHolds
BY ImageInvariance, PTL DEF ImageInv

\* The total is the number of bytes in the chunks, counted chunk by chunk: the
\* sums of add_chunk never wrap (firmware_image.c:183).
THEOREM TotalAlwaysCounts == ImageSpec => []TotalCounts
<1>1. ImageInit => ImageInv /\ TotalCounts
  <2>1. ImageInit => TotalCounts
    BY NothingCounted DEF ImageInit, TotalCounts
  <2> QED
    BY <2>1, EmptyImageInv DEF ImageInit
<1>2. ImageInv /\ TotalCounts /\ [ImageNext]_imageVars => (ImageInv /\ TotalCounts)'
  <2>1. ASSUME ImageInv, TotalCounts, [ImageNext]_imageVars PROVE TotalCounts'
    BY <2>1, AddChunkKeepsCount, FreeKeepsCount, UnchangedKeepsCount DEF ImageNext, imageVars
  <2>2. ASSUME ImageInv, [ImageNext]_imageVars PROVE ImageInv'
    BY <2>2, AddChunkKeepsInv, FreeKeepsInv, UnchangedKeepsInv DEF ImageNext
  <2> QED
    BY <2>1, <2>2
<1> QED
  BY <1>1, <1>2, PTL DEF ImageSpec

=============================================================================
