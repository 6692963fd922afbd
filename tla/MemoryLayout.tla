---------------------------- MODULE MemoryLayout ----------------------------
(***************************************************************************)
(* What bl_memmap_reconstruct promises its callers (include/binlens/       *)
(* memmap.h, ARCHITECTURE.md): between calls an image holds either no *)
(* layout or the exact layout of the chunks loaded when it was built, and  *)
(* a call that fails leaves none.  The layout is stated as a predicate,    *)
(* with no loop: regions are the maximal runs of loaded addresses, gaps    *)
(* the maximal runs between them, overlaps the pairs that share addresses. *)
(***************************************************************************)
EXTENDS Integers, Sequences, FiniteSets, FiniteSetsExt, Functions

CONSTANT KeyBefore(_, _)  \* the order the chunks are put in

VARIABLES chunks, regions, gaps, overlaps

layoutVars == <<regions, gaps, overlaps>>
vars == <<chunks, layoutVars>>

Span(x) == x.start .. x.end
ByteAt(x, a) == x.bytes[a - x.start + 1]
Ordered(s) == \A p, q \in 1 .. Len(s) : p < q => ~KeyBefore(s[q], s[p])

Loaded(cs) == UNION {Span(cs[k]) : k \in 1 .. Len(cs)}

\* The maximal runs of consecutive addresses in the set S.
MaximalRuns(S) ==
  {run \in S \X S :
     /\ run[1] - 1 \notin S
     /\ run[2] + 1 \notin S
     /\ run[1] <= run[2]
     /\ run[1] .. run[2] \subseteq S}

\* The addresses between the lowest and the highest of S that S lacks.
Holes(S) == (Min(S) .. Max(S)) \ S

Ascending(ranges) ==
  \A p, q \in 1 .. Len(ranges) : p < q => ranges[p].end < ranges[q].start

\* ranges lists the runs of S, each once, by rising address.
Lists(ranges, S) ==
  /\ Ascending(ranges)
  /\ {<<ranges[k].start, ranges[k].end>> : k \in 1 .. Len(ranges)} = MaximalRuns(S)

FirstHolder(cs, a) ==
  CHOOSE k \in 1 .. Len(cs) :
    a \in Span(cs[k]) /\ \A m \in 1 .. k - 1 : a \notin Span(cs[m])

RegionBytesRight(cs) ==
  \A r \in 1 .. Len(regions) :
    /\ Len(regions[r].bytes) = regions[r].end - regions[r].start + 1
    /\ \A a \in Span(regions[r]) :
         ByteAt(regions[r], a) = ByteAt(cs[FirstHolder(cs, a)], a)

SharingPairs(cs) ==
  {pq \in (1 .. Len(cs)) \X (1 .. Len(cs)) :
     pq[1] < pq[2] /\ Span(cs[pq[1]]) \cap Span(cs[pq[2]]) # {}}

Describes(o, cs) ==
  LET c == cs[o.first]
      d == cs[o.second]
  IN  /\ Span(o) = Span(c) \cap Span(d)
      /\ o.firstLine = c.line
      /\ o.secondLine = d.line
      /\ o.kind = IF \A a \in Span(o) : ByteAt(c, a) = ByteAt(d, a)
                  THEN "identical" ELSE "conflicting"

OverlapsRight(cs) ==
  /\ Len(overlaps) = Cardinality(SharingPairs(cs))
  /\ {<<overlaps[k].first, overlaps[k].second>> : k \in 1 .. Len(overlaps)}
       = SharingPairs(cs)
  /\ \A k \in 1 .. Len(overlaps) : Describes(overlaps[k], cs)

IsLayoutOf(cs) ==
  /\ Lists(regions, Loaded(cs))
  /\ RegionBytesRight(cs)
  /\ Lists(gaps, Holes(Loaded(cs)))
  /\ OverlapsRight(cs)

NoLayout == regions = <<>> /\ gaps = <<>> /\ overlaps = <<>>

-----------------------------------------------------------------------------
Init == chunks = <<>> /\ NoLayout

\* A loader adds one chunk; an older layout stays as it was.
Load ==
  /\ Len(chunks') = Len(chunks) + 1
  /\ \A k \in 1 .. Len(chunks) : chunks'[k] = chunks[k]
  /\ UNCHANGED layoutVars

\* Reconstruction begins: the chunks are put in order, the old layout is gone.
Arrange ==
  /\ \E p \in Bijection(1 .. Len(chunks), 1 .. Len(chunks)) :
       chunks' = [k \in 1 .. Len(chunks) |-> chunks[p[k]]]
  /\ Ordered(chunks')
  /\ NoLayout'

\* It succeeds: the whole layout appears at once.
Publish ==
  /\ NoLayout
  /\ Ordered(chunks)
  /\ UNCHANGED chunks
  /\ IsLayoutOf(chunks)'

\* The layout is cleared and the chunks are kept.
Drop == NoLayout' /\ UNCHANGED chunks

Free == chunks' = <<>> /\ NoLayout'

Next == Load \/ Arrange \/ Publish \/ Drop \/ Free

Spec == Init /\ [][Next]_vars

=============================================================================
