--------------------------- MODULE BinLoaderProofs --------------------------
(***************************************************************************)
(* The raw loader loads all of the measured file or nothing, from bytes    *)
(* the file really held, and leaks neither the file nor its buffer, for    *)
(* every content, every base address, every platform width and however     *)
(* other programs write the file while it is read.                         *)
(***************************************************************************)
EXTENDS BinLoader, FirmwareImageProofs

\* What the temporary buffer holds: bytes that the file has held since it was
\* measured, and a prefix of the file if nobody wrote to it.
BufferIsOfTheFile ==
  /\ Len(got) <= size
  /\ \A k \in 1 .. Len(got) : \E c \in held : k <= Len(c) /\ c[k] = got[k]
  /\ \A c \in held : held = {c} =>
       Len(c) = size /\ \A k \in 1 .. Len(got) : got[k] = c[k]

\* Where in the call the variables stand.
CallInOrder ==
  /\ pc # "idle" => result = "none"
  /\ pc \in {"opened", "measured", "rewound"} => got = <<>>
  /\ pc = "opened" => held = {}
  /\ pc \in {"measured", "rewound", "reading", "read"} => disk \in held
  /\ pc \in {"reading", "read"} => size # 0
  /\ pc = "read" => Len(got) = size
  /\ result = "ok" => Len(got) = size

LoaderInv ==
  /\ ImageInv
  /\ TypeOK
  /\ BufferIsOfTheFile
  /\ CallInOrder
  /\ LoadIsAllOrNothing
  /\ NothingLeaks

-----------------------------------------------------------------------------
(* Sequences.                                                              *)

\* A file's next bytes behind those already read.
LEMMA ReadOn ==
  ASSUME NEW S, NEW s \in Seq(S), NEW f \in Seq(S), NEW n \in Nat,
         Len(s) + 1 <= n, n <= Len(f)
  PROVE  /\ s \o SubSeq(f, Len(s) + 1, n) \in Seq(S)
         /\ Len(s \o SubSeq(f, Len(s) + 1, n)) = n
         /\ \A k \in 1 .. n :
              (s \o SubSeq(f, Len(s) + 1, n))[k] = IF k <= Len(s) THEN s[k] ELSE f[k]
<1> DEFINE tail == SubSeq(f, Len(s) + 1, n)
           both == s \o tail
<1>1. Len(s) \in Nat /\ Len(f) \in Nat
  BY LenProperties
<1>2. Len(s) + 1 \in 1 .. Len(f) /\ n \in 1 .. Len(f)
  BY <1>1
<1>3. /\ tail \in Seq(S) /\ Len(tail) = n - Len(s)
      /\ \A k \in 1 .. n - Len(s) : tail[k] = f[Len(s) + k]
  BY <1>1, <1>2, SubSeqProperties
<1> HIDE DEF tail
<1>4. /\ both \in Seq(S) /\ Len(both) = n
      /\ \A k \in 1 .. Len(s) + Len(tail) :
           both[k] = IF k <= Len(s) THEN s[k] ELSE tail[k - Len(s)]
  BY <1>1, <1>3, ConcatProperties
<1>5. ASSUME NEW k \in 1 .. n
      PROVE  both[k] = IF k <= Len(s) THEN s[k] ELSE f[k]
  <2>1. CASE k <= Len(s)
    BY <1>1, <1>3, <1>4, <2>1
  <2>2. CASE ~(k <= Len(s))
    <3>1. k - Len(s) \in 1 .. n - Len(s) /\ Len(s) + (k - Len(s)) = k
      BY <1>1, <2>2
    <3>2. tail[k - Len(s)] = f[k]
      BY <1>3, <3>1
    <3> QED
      BY <1>1, <1>3, <1>4, <2>2, <3>2
  <2> QED
    BY <2>1, <2>2
<1> QED
  BY <1>4, <1>5 DEF tail

-----------------------------------------------------------------------------
(* The ways out.                                                           *)

LEMMA Widths ==
  /\ SizeMax \in Nat /\ AddrMax \in Nat /\ 0 \in 0 .. SizeMax /\ 0 \in Address
  /\ Contents \subseteq Seq(Byte) /\ Bases \subseteq Address
BY WidthAssumption, LoaderAssumption DEF WidthAssumption, LoaderAssumption, Address

LEMMA EmptyBytes == <<>> \in Seq(Byte) /\ Len(<<>>) = 0 /\ <<>> \in Seq(SourceChunk)
BY EmptySeq

\* An empty buffer holds nothing that is not the file's.
LEMMA NothingRead ==
  ASSUME got' = <<>>, held' = {}, size' = 0
  PROVE  BufferIsOfTheFile'
BY EmptyBytes DEF BufferIsOfTheFile

LEMMA EarlyReturnKeepsInv ==
  ASSUME LoaderInv, NEW about \in {"argument", "io"}, ReturnEarly(about)
  PROVE  LoaderInv'
<1>1. /\ pc = "idle" /\ pc' = "idle" /\ result' = "failed" /\ diag' = about
      /\ base' = 0 /\ prior' = chunks /\ chunks' = chunks /\ disk' = disk
      /\ open' = open /\ buffer' = buffer /\ size' = size /\ got' = got /\ held' = held
      /\ UNCHANGED imageVars
  BY DEF ReturnEarly, imageVars
<1>2. ImageInv'
  BY <1>1, UnchangedKeepsInv DEF LoaderInv
<1>3. TypeOK'
  BY <1>1, <1>2, Widths DEF LoaderInv, TypeOK, ImageInv, ImageTypeOK
<1>4. BufferIsOfTheFile'
  BY <1>1 DEF LoaderInv, BufferIsOfTheFile
<1> QED
  BY <1>1, <1>2, <1>3, <1>4 DEF LoaderInv, CallInOrder, LoadIsAllOrNothing, NothingLeaks

LEMMA FailKeepsInv ==
  ASSUME LoaderInv, NEW about \in {"io", "memory", "resource"}, Fail(about)
  PROVE  LoaderInv'
<1>1. /\ pc' = "idle" /\ result' = "failed" /\ diag' = about
      /\ base' = base /\ prior' = prior /\ chunks' = <<>> /\ disk' = disk
      /\ open' = FALSE /\ buffer' = FALSE /\ size' = 0 /\ got' = <<>> /\ held' = {}
  BY DEF Fail, FreeImage
<1>2. ImageInv'
  BY FreeKeepsInv DEF Fail
<1>3. TypeOK'
  BY <1>1, <1>2, Widths, EmptyBytes DEF LoaderInv, TypeOK, ImageInv, ImageTypeOK
<1>4. BufferIsOfTheFile'
  BY <1>1, NothingRead
<1> QED
  BY <1>1, <1>2, <1>3, <1>4 DEF LoaderInv, CallInOrder, LoadIsAllOrNothing, NothingLeaks

-----------------------------------------------------------------------------
(* The steps of the call.                                                  *)

\* A step that moves on and leaves image, file, buffer and size alone.
LEMMA MoveKeepsInv ==
  ASSUME LoaderInv, UNCHANGED imageVars,
         disk' = disk, open' = open, base' = base, size' = size, got' = got,
         result' = result, diag' = diag, held' = held, prior' = prior,
         buffer' \in BOOLEAN, pc # "idle",
         \/ pc = "measured" /\ pc' = "rewound"
         \/ pc = "rewound" /\ pc' = "reading" /\ size # 0
         \/ pc = "reading" /\ pc' = "read" /\ Len(got) = size
  PROVE  LoaderInv'
<1>1. chunks' = chunks
  BY DEF imageVars
<1>2. ImageInv'
  BY UnchangedKeepsInv DEF LoaderInv
<1>3. TypeOK'
  BY <1>2 DEF LoaderInv, TypeOK, ImageInv
<1>4. BufferIsOfTheFile'
  BY DEF LoaderInv, BufferIsOfTheFile
<1> QED
  BY <1>1, <1>2, <1>3, <1>4 DEF LoaderInv, CallInOrder, LoadIsAllOrNothing, NothingLeaks

LEMMA OpenKeepsInv ==
  ASSUME LoaderInv, OpenFile
  PROVE  LoaderInv'
<1>1. /\ pc = "idle" /\ pc' = "opened" /\ result' = "none" /\ diag' = "none"
      /\ base' \in Bases /\ prior' = chunks /\ chunks' = chunks /\ disk' = disk
      /\ open' = TRUE /\ buffer' = buffer /\ size' = 0 /\ got' = <<>> /\ held' = {}
      /\ UNCHANGED imageVars
  BY DEF OpenFile, imageVars
<1>2. ImageInv'
  BY <1>1, UnchangedKeepsInv DEF LoaderInv
<1>3. TypeOK'
  BY <1>1, <1>2, Widths, EmptyBytes DEF LoaderInv, TypeOK, ImageInv, ImageTypeOK
<1>4. BufferIsOfTheFile'
  BY <1>1, NothingRead
<1> QED
  BY <1>1, <1>2, <1>3, <1>4 DEF LoaderInv, CallInOrder, LoadIsAllOrNothing, NothingLeaks

LEMMA MeasureKeepsInv ==
  ASSUME LoaderInv, Measure
  PROVE  LoaderInv'
<1>1. /\ pc = "opened" /\ pc' = "measured" /\ Len(disk) <= SizeMax
      /\ size' = Len(disk) /\ held' = {disk} /\ chunks' = chunks
      /\ disk' = disk /\ open' = open /\ buffer' = buffer /\ base' = base /\ got' = got
      /\ result' = result /\ diag' = diag /\ prior' = prior
      /\ UNCHANGED imageVars
  BY DEF Measure, imageVars
<1>2. ImageInv'
  BY <1>1, UnchangedKeepsInv DEF LoaderInv
<1>3. disk \in Contents /\ disk \in Seq(Byte) /\ Len(disk) \in Nat
  BY Widths, LenProperties DEF LoaderInv, TypeOK
<1>4. TypeOK'
  BY <1>1, <1>2, <1>3, Widths DEF LoaderInv, TypeOK, ImageInv
<1>5. got = <<>> /\ result = "none"
  BY <1>1 DEF LoaderInv, CallInOrder
<1>6. BufferIsOfTheFile'
  BY <1>1, <1>3, <1>5, EmptyBytes DEF BufferIsOfTheFile
<1> QED
  BY <1>1, <1>2, <1>4, <1>5, <1>6 DEF LoaderInv, CallInOrder, LoadIsAllOrNothing, NothingLeaks

LEMMA EmptyFileKeepsInv ==
  ASSUME LoaderInv, EmptyFile
  PROVE  LoaderInv'
<1>1. /\ pc = "rewound" /\ pc' = "idle" /\ size = 0 /\ size' = 0
      /\ open' = FALSE /\ buffer' = FALSE /\ result' = "ok" /\ chunks' = chunks
      /\ disk' = disk /\ base' = base /\ got' = got /\ diag' = diag
      /\ held' = held /\ prior' = prior
      /\ UNCHANGED imageVars
  BY DEF EmptyFile, Succeed, imageVars
<1>2. ImageInv'
  BY <1>1, UnchangedKeepsInv DEF LoaderInv
<1>3. TypeOK'
  BY <1>1, <1>2, Widths DEF LoaderInv, TypeOK, ImageInv
<1>4. got = <<>> /\ chunks = prior
  BY <1>1 DEF LoaderInv, CallInOrder, LoadIsAllOrNothing
<1>5. BufferIsOfTheFile'
  BY <1>1 DEF LoaderInv, BufferIsOfTheFile
<1> QED
  BY <1>1, <1>2, <1>3, <1>4, <1>5, EmptyBytes
  DEF LoaderInv, CallInOrder, LoadIsAllOrNothing, NothingLeaks

LEMMA ReadSomeKeepsInv ==
  ASSUME LoaderInv, ReadSome
  PROVE  LoaderInv'
<1>1. /\ pc = "reading" /\ pc' = pc /\ UNCHANGED imageVars /\ chunks' = chunks
      /\ disk' = disk /\ open' = open /\ buffer' = buffer /\ base' = base /\ size' = size
      /\ result' = result /\ diag' = diag /\ held' = held /\ prior' = prior
  BY DEF ReadSome, imageVars
<1>2. PICK n \in Len(got) + 1 .. size :
        n <= Len(disk) /\ got' = got \o SubSeq(disk, Len(got) + 1, n)
  BY DEF ReadSome
<1>3. /\ got \in Seq(Byte) /\ disk \in Seq(Byte) /\ disk \in held
      /\ Len(got) \in Nat /\ size \in Nat
  BY <1>1, Widths, LenProperties DEF LoaderInv, TypeOK, CallInOrder
<1>4. n \in Nat /\ Len(got) + 1 <= n /\ n <= size
  BY <1>3
<1>5. /\ got' \in Seq(Byte) /\ Len(got') = n
      /\ \A k \in 1 .. n : got'[k] = IF k <= Len(got) THEN got[k] ELSE disk[k]
  BY <1>2, <1>3, <1>4, ReadOn
<1>6. ImageInv'
  BY <1>1, UnchangedKeepsInv DEF LoaderInv
<1>7. TypeOK'
  BY <1>1, <1>5, <1>6 DEF LoaderInv, TypeOK, ImageInv
<1>8. ASSUME NEW k \in 1 .. n
      PROVE  \E c \in held : k <= Len(c) /\ c[k] = got'[k]
  <2>1. CASE k <= Len(got)
    <3>1. k \in 1 .. Len(got)
      BY <1>3, <1>4, <2>1
    <3> QED
      BY <1>5, <2>1, <3>1 DEF LoaderInv, BufferIsOfTheFile
  <2>2. CASE ~(k <= Len(got))
    <3>1. k <= Len(disk)
      BY <1>2, <1>3, <1>4, LenProperties
    <3> QED
      BY <1>3, <1>5, <2>2, <3>1
  <2> QED
    BY <2>1, <2>2
<1>9. ASSUME NEW c \in held, held = {c}
      PROVE  Len(c) = size /\ \A k \in 1 .. n : got'[k] = c[k]
  <2>1. disk = c
    BY <1>3, <1>9
  <2>2. Len(c) = size /\ \A k \in 1 .. Len(got) : got[k] = c[k]
    BY <1>9 DEF LoaderInv, BufferIsOfTheFile
  <2> QED
    BY <1>3, <1>4, <1>5, <2>1, <2>2
<1>10. BufferIsOfTheFile'
  BY <1>1, <1>4, <1>5, <1>8, <1>9 DEF BufferIsOfTheFile
<1>11. result = "none"
  BY <1>1 DEF LoaderInv, CallInOrder
<1> QED
  BY <1>1, <1>6, <1>7, <1>10, <1>11 DEF LoaderInv, CallInOrder, LoadIsAllOrNothing, NothingLeaks

LEMMA StoreKeepsInv ==
  ASSUME LoaderInv, Store
  PROVE  LoaderInv'
<1>1. /\ pc = "read" /\ pc' = "idle" /\ AddChunkStored(base, got, 0)
      /\ open' = FALSE /\ buffer' = FALSE /\ result' = "ok"
      /\ disk' = disk /\ base' = base /\ size' = size /\ got' = got /\ diag' = diag
      /\ held' = held /\ prior' = prior
  BY DEF Store, Succeed
<1>2. /\ got \in Seq(Byte) /\ base \in Address /\ Len(got) = size /\ size \in Nat \ {0}
      /\ chunks = prior
  BY <1>1, Widths DEF LoaderInv, TypeOK, CallInOrder, LoadIsAllOrNothing
<1>3. ImageInv'
  BY <1>1, <1>2, StoredKeepsInv DEF LoaderInv
<1>4. TypeOK'
  BY <1>1, <1>3 DEF LoaderInv, TypeOK, ImageInv
<1>5. BufferIsOfTheFile'
  BY <1>1 DEF LoaderInv, BufferIsOfTheFile
<1>6. EndOf(base, got) = base + size - 1
  <2>1. size - 1 <= AddrMax - base /\ base \in Nat /\ base <= AddrMax /\ AddrMax \in Nat
    BY <1>1, <1>2, Widths DEF AddChunkStored, AddressOverflows, Address
  <2>2. base + size - 1 <= AddrMax /\ base + size - 1 \in Nat
    BY <1>2, <2>1
  <2> QED
    BY <1>2, <2>1, <2>2 DEF EndOf, WrapAddr
<1>7. chunks' = Append(prior, [start |-> base, end |-> base + size - 1,
                               bytes |-> got, line |-> 0])
  BY <1>1, <1>2, <1>6 DEF AddChunkStored
<1>8. LoadIsAllOrNothing'
  BY <1>1, <1>2, <1>7 DEF LoadIsAllOrNothing
<1> QED
  BY <1>1, <1>2, <1>3, <1>4, <1>5, <1>8 DEF LoaderInv, CallInOrder, NothingLeaks

-----------------------------------------------------------------------------
(* The world.                                                              *)

LEMMA FileChangesKeepsInv ==
  ASSUME LoaderInv, FileChanges
  PROVE  LoaderInv'
<1>1. /\ disk' \in Contents /\ UNCHANGED imageVars /\ chunks' = chunks
      /\ pc' = pc /\ open' = open /\ buffer' = buffer /\ base' = base /\ size' = size
      /\ got' = got /\ result' = result /\ diag' = diag /\ prior' = prior
      /\ held' = IF held = {} THEN {} ELSE IF pc = "idle" THEN held ELSE held \cup {disk'}
  BY DEF FileChanges, imageVars
<1>2. ImageInv'
  BY <1>1, UnchangedKeepsInv DEF LoaderInv
<1>3. held \subseteq held' /\ (held = {} => held' = {}) /\ held' \subseteq Contents
  BY <1>1 DEF LoaderInv, TypeOK
<1>4. TypeOK'
  BY <1>1, <1>2, <1>3 DEF LoaderInv, TypeOK, ImageInv
<1>5. BufferIsOfTheFile'
  <2>1. \A k \in 1 .. Len(got) : \E c \in held' : k <= Len(c) /\ c[k] = got[k]
    BY <1>3 DEF LoaderInv, BufferIsOfTheFile
  <2>2. \A c \in held' : held' = {c} => held = {c}
    BY <1>3
  <2>3. \A c \in held' : held' = {c} =>
          Len(c) = size /\ \A k \in 1 .. Len(got) : got[k] = c[k]
    BY <2>2 DEF LoaderInv, BufferIsOfTheFile
  <2> QED
    BY <1>1, <2>1, <2>3 DEF LoaderInv, BufferIsOfTheFile
<1>6. /\ pc = "opened" => held' = {}
      /\ pc \in {"measured", "rewound", "reading", "read"} => disk' \in held'
  BY <1>1, <1>3 DEF LoaderInv, CallInOrder
<1>7. CallInOrder'
  BY <1>1, <1>6 DEF LoaderInv, CallInOrder
<1> QED
  BY <1>1, <1>2, <1>4, <1>5, <1>7 DEF LoaderInv, LoadIsAllOrNothing, NothingLeaks

LEMMA CallerFreesKeepsInv ==
  ASSUME LoaderInv, CallerFrees
  PROVE  LoaderInv'
<1>1. /\ pc = "idle" /\ pc' = pc /\ chunks' = <<>> /\ prior' = <<>>
      /\ held' = {} /\ size' = 0 /\ got' = <<>> /\ result' = "none" /\ diag' = "none"
      /\ disk' = disk /\ open' = open /\ buffer' = buffer /\ base' = base
  BY DEF CallerFrees, FreeImage
<1>2. ImageInv'
  BY FreeKeepsInv DEF CallerFrees
<1>3. TypeOK'
  BY <1>1, <1>2, Widths, EmptyBytes DEF LoaderInv, TypeOK, ImageInv
<1>4. BufferIsOfTheFile'
  BY <1>1, NothingRead
<1> QED
  BY <1>1, <1>2, <1>3, <1>4 DEF LoaderInv, CallInOrder, LoadIsAllOrNothing, NothingLeaks

-----------------------------------------------------------------------------
(* The specification.                                                      *)

LEMMA LoadStepKeepsInv ==
  ASSUME LoaderInv, LoadStep
  PROVE  LoaderInv'
<1>1. CASE Measure
  BY <1>1, MeasureKeepsInv
<1>2. CASE MeasureFails \/ RewindFails \/ AllocateFails \/ ReadShort \/ StoreFails
  BY <1>2, FailKeepsInv DEF MeasureFails, RewindFails, AllocateFails, ReadShort, StoreFails
<1>3. CASE Rewind
  BY <1>3, MoveKeepsInv DEF Rewind, callVars, LoaderInv, TypeOK
<1>4. CASE EmptyFile
  BY <1>4, EmptyFileKeepsInv
<1>5. CASE Allocate
  BY <1>5, MoveKeepsInv DEF Allocate
<1>6. CASE ReadSome
  BY <1>6, ReadSomeKeepsInv
<1>7. CASE ReadDone
  BY <1>7, MoveKeepsInv DEF ReadDone, callVars, LoaderInv, TypeOK
<1>8. CASE Store
  BY <1>8, StoreKeepsInv
<1> QED
  BY <1>1, <1>2, <1>3, <1>4, <1>5, <1>6, <1>7, <1>8 DEF LoadStep

LEMMA InitLoader == Init => LoaderInv
<1> SUFFICES ASSUME Init PROVE LoaderInv
  OBVIOUS
<1>1. ImageInv /\ chunks = <<>>
  BY EmptyImageInv DEF Init, ImageInit
<1>2. TypeOK
  BY <1>1, Widths, EmptyBytes DEF Init, TypeOK, ImageInv
<1>3. BufferIsOfTheFile
  BY EmptyBytes DEF Init, BufferIsOfTheFile
<1> QED
  BY <1>1, <1>2, <1>3 DEF Init, LoaderInv, CallInOrder, LoadIsAllOrNothing, NothingLeaks

LEMMA StepLoader == LoaderInv /\ [Next]_vars => LoaderInv'
<1> SUFFICES ASSUME LoaderInv, [Next]_vars PROVE LoaderInv'
  OBVIOUS
<1>1. CASE InvalidArgument \/ OpenFails
  BY <1>1, EarlyReturnKeepsInv DEF InvalidArgument, OpenFails
<1>2. CASE OpenFile
  BY <1>2, OpenKeepsInv
<1>3. CASE LoadStep
  BY <1>3, LoadStepKeepsInv
<1>4. CASE FileChanges
  BY <1>4, FileChangesKeepsInv
<1>5. CASE CallerFrees
  BY <1>5, CallerFreesKeepsInv
<1>6. CASE UNCHANGED vars
  <2>1. /\ UNCHANGED imageVars /\ chunks' = chunks /\ pc' = pc /\ disk' = disk
        /\ open' = open /\ buffer' = buffer /\ base' = base /\ size' = size
        /\ got' = got /\ result' = result /\ diag' = diag /\ held' = held /\ prior' = prior
    BY <1>6 DEF vars, callVars, imageVars
  <2>2. ImageInv'
    BY <2>1, UnchangedKeepsInv DEF LoaderInv
  <2>3. TypeOK' /\ BufferIsOfTheFile'
    BY <2>1, <2>2 DEF LoaderInv, TypeOK, BufferIsOfTheFile, ImageInv
  <2> QED
    BY <2>1, <2>2, <2>3 DEF LoaderInv, CallInOrder, LoadIsAllOrNothing, NothingLeaks
<1> QED
  BY <1>1, <1>2, <1>3, <1>4, <1>5, <1>6 DEF Next

LEMMA LoadedIsTheFiles == LoaderInv => LoadedBytesAreTheFiles
<1> SUFFICES ASSUME LoaderInv, result = "ok" PROVE LoadedBytesAreTheFiles
  BY DEF LoadedBytesAreTheFiles
<1>1. Len(got) = size /\ got \in Seq(Byte) /\ held \subseteq Seq(Byte)
  BY Widths DEF LoaderInv, CallInOrder, TypeOK
<1>2. \A k \in 1 .. size : \E c \in held : k <= Len(c) /\ c[k] = got[k]
  BY <1>1 DEF LoaderInv, BufferIsOfTheFile
<1>3. ASSUME NEW c \in held, held = {c}
      PROVE  got = c
  <2>1. Len(c) = size /\ \A k \in 1 .. Len(got) : got[k] = c[k]
    BY <1>3 DEF LoaderInv, BufferIsOfTheFile
  <2> QED
    BY <1>1, <2>1, SeqEqual
<1> QED
  BY <1>1, <1>2, <1>3 DEF LoadedBytesAreTheFiles

LEMMA LoaderInvariance == Spec => []LoaderInv
BY InitLoader, StepLoader, PTL DEF Spec

\* The loader's variables keep their types in every interleaving of its calls
\* with writes to the file.
THEOREM LoaderIsTyped == Spec => []TypeOK
BY LoaderInvariance, PTL DEF LoaderInv

\* Whatever fails, and however the file changes meanwhile, the whole measured
\* size is loaded as one chunk or nothing is (bin_loader.c:106-148).
THEOREM AllOrNothingHolds == Spec => []LoadIsAllOrNothing
BY LoaderInvariance, PTL DEF LoaderInv

\* Every byte loaded is one the file held at that place after it was measured,
\* and an undisturbed file is loaded exactly (bin_loader.c:81, 114, 122).
THEOREM LoadedBytesHold == Spec => []LoadedBytesAreTheFiles
BY LoaderInvariance, LoadedIsTheFiles, PTL

\* On every way out of the call the file is closed and the buffer is freed
\* (bin_loader.c:110, 140-147).
THEOREM NothingLeaksHolds == Spec => []NothingLeaks
BY LoaderInvariance, PTL DEF LoaderInv

=============================================================================
