---------------------------- MODULE BufferGrowth ----------------------------
(***************************************************************************)
(* MemMap with the loop of builder_append (src/memmap.c) in steps of its   *)
(* own.  MemMap appends a tail in one step and takes the capacity the loop *)
(* ends with, GrownCapacity, for granted; here next_capacity is doubled    *)
(* until the tail fits, is the exact length once doubling wraps, and is    *)
(* then asked of realloc.  Every other step is MemMap's.                   *)
(***************************************************************************)
EXTENDS MemMap

VARIABLES
  at,   \* "rest" outside builder_append, else "loop" or "realloc"
  next  \* next_capacity

growthVars == <<vars, at, next>>

GrowthInit == Init /\ at = "rest" /\ next = 0

-----------------------------------------------------------------------------
(* builder_append, when the current chunk adds a tail to the region.       *)

AppendsTail == Merging /\ chunks[i].end > builder.end
NewBytes == Len(TailOf(chunks[i]))
TooLong == NewBytes > SizeMax - Len(builder.bytes)
Need == Len(builder.bytes) + NewBytes

\* The tail fits the buffer as it is.
AppendInPlace ==
  /\ at = "rest"
  /\ AppendsTail
  /\ ~TooLong
  /\ Need <= builder.cap
  /\ MergeTail
  /\ UNCHANGED <<at, next>>

GrowBegins ==
  /\ at = "rest"
  /\ AppendsTail
  /\ ~TooLong
  /\ Need > builder.cap
  /\ at' = "loop"
  /\ next' = IF builder.cap = 0 THEN NewBytes ELSE builder.cap
  /\ UNCHANGED vars

\* Mutant: the capacity is doubled once.
FitsOnceDoubled == next # builder.cap

Fits == next >= Need

Doubled == WrapSize(2 * next)

\* Mutant: the doubled capacity is not looked at.
NeverWrapped == FALSE

Wrapped == Doubled <= next

Double ==
  /\ at = "loop"
  /\ ~Fits
  /\ ~Wrapped
  /\ next' = Doubled
  /\ UNCHANGED <<vars, at>>

\* Mutant: the exact capacity is that of the tail alone.
TakeExactTail ==
  /\ at = "loop"
  /\ ~Fits
  /\ Wrapped
  /\ next' = NewBytes
  /\ at' = "realloc"
  /\ UNCHANGED vars

TakeExact ==
  /\ at = "loop"
  /\ ~Fits
  /\ Wrapped
  /\ next' = Need
  /\ at' = "realloc"
  /\ UNCHANGED vars

LoopEnds ==
  /\ at = "loop"
  /\ Fits
  /\ at' = "realloc"
  /\ UNCHANGED <<vars, next>>

Returns == at' = "rest" /\ next' = 0

\* realloc grants the capacity and the tail is copied.
AppendGrown ==
  LET c == chunks[i]
  IN  /\ at = "realloc"
      /\ Grantable(next)
      /\ builder' = [builder EXCEPT !.end = c.end, !.bytes = MergedBytes(c), !.cap = next]
      /\ i' = i + 1
      /\ Returns
      /\ UNCHANGED <<imageVars, pc, j, built>>

\* The lengths do not add up in size_t, or realloc refuses.
AppendFails ==
  /\ (at = "rest" /\ AppendsTail /\ TooLong) \/ at = "realloc"
  /\ Abandon
  /\ Returns

GrowthStep ==
  \/ AppendInPlace \/ GrowBegins \/ Double \/ TakeExact \/ LoopEnds
  \/ AppendGrown \/ AppendFails
  \/ /\ at = "rest"
     /\ \/ RecordOverlap \/ OverlapFails \/ NextOverlapRow
        \/ StartBuilder \/ StartFails \/ MergeContained
        \/ CloseRegion \/ CloseFails \/ FinishLayout \/ FinishFails
     /\ UNCHANGED <<at, next>>

GrowthNext ==
  \/ GrowthStep
  \/ /\ \/ ClientAddsChunk \/ ClientClearsLayout \/ ClientFreesImage
        \/ ReconstructEmpty \/ ReconstructStart
     /\ UNCHANGED <<at, next>>

\* Nothing runs beside a call: once entered, reconstruct keeps executing.
GrowthSpec == GrowthInit /\ [][GrowthNext]_growthVars /\ WF_growthVars(GrowthStep)

-----------------------------------------------------------------------------
(* Properties.                                                             *)

\* Where realloc grants what the loop ended with, the tail is appended as MemMap
\* does in one step, with the same capacity; the length the loop falls back to
\* when doubling wraps is never granted as a block too small (memmap.c:276-307).
GrowthIsMergeTail == [][AppendGrown => MergeTail]_growthVars

=============================================================================
