----------------------------- MODULE BinLoader -----------------------------
(***************************************************************************)
(* bl_bin_load_file (src/bin_loader.c): measure a file, rewind, read it    *)
(* into a temporary buffer and add it to the image as one chunk.  Each C   *)
(* library call is a step of its own, since another program may write the  *)
(* file in between; fread itself reads in pieces.  A caller may load       *)
(* several files into one image and free it.                               *)
(***************************************************************************)
EXTENDS FirmwareImage

CONSTANTS
  Contents,  \* what the file may hold
  Bases,     \* the base addresses a caller may ask for
  MaxPrior   \* bound on the chunks of an image a file is loaded into

ASSUME LoaderAssumption ==
  /\ Contents \subseteq Seq(Byte)
  /\ Bases \subseteq Address
  /\ MaxPrior \in Nat

VARIABLES
  pc,      \* "idle" between calls, else what the call did last
  disk,    \* the file's bytes, which other programs may change
  open,    \* the FILE is open
  buffer,  \* the temporary buffer is allocated
  base,    \* base_address
  size,    \* file_size
  got,     \* the bytes fread has put in the buffer
  result,  \* what the last call returned
  diag,    \* what the diagnostic of the last call is about
  held,    \* history: what the file has held since it was measured
  prior    \* history: the chunks the image held at the call

callVars == <<open, buffer, base, size, got, result, diag, held, prior>>
vars == <<imageVars, pc, disk, callVars>>

Init ==
  /\ ImageInit
  /\ pc = "idle"
  /\ disk \in Contents
  /\ open = FALSE /\ buffer = FALSE
  /\ base = 0 /\ size = 0 /\ got = <<>>
  /\ result = "none" /\ diag = "none"
  /\ held = {} /\ prior = <<>>

-----------------------------------------------------------------------------
(* The ways out of the call.                                               *)

\* Before the file is open there is nothing to undo.
ReturnEarly(about) ==
  /\ pc = "idle"
  /\ Len(chunks) <= MaxPrior
  /\ result' = "failed" /\ diag' = about
  /\ base' = 0 /\ prior' = chunks
  /\ UNCHANGED <<imageVars, pc, disk, open, buffer, size, got, held>>

\* Mutant: the image keeps what was loaded into it before.
FailKeepsImage(about) ==
  /\ UNCHANGED imageVars
  /\ open' = FALSE /\ buffer' = FALSE
  /\ pc' = "idle"
  /\ result' = "failed" /\ diag' = about
  /\ size' = 0 /\ got' = <<>> /\ held' = {}
  /\ UNCHANGED <<disk, base, prior>>

\* The label fail.
Fail(about) ==
  /\ FreeImage
  /\ open' = FALSE /\ buffer' = FALSE
  /\ pc' = "idle"
  /\ result' = "failed" /\ diag' = about
  /\ size' = 0 /\ got' = <<>> /\ held' = {}
  /\ UNCHANGED <<disk, base, prior>>

Succeed ==
  /\ open' = FALSE /\ buffer' = FALSE
  /\ pc' = "idle"
  /\ result' = "ok"
  /\ UNCHANGED <<disk, base, size, got, diag, held, prior>>

-----------------------------------------------------------------------------
(* The call.                                                               *)

InvalidArgument == ReturnEarly("argument")

OpenFails == ReturnEarly("io")

OpenFile ==
  /\ pc = "idle"
  /\ Len(chunks) <= MaxPrior
  /\ open' = TRUE
  /\ base' \in Bases
  /\ prior' = chunks
  /\ size' = 0 /\ got' = <<>> /\ held' = {}
  /\ result' = "none" /\ diag' = "none"
  /\ pc' = "opened"
  /\ UNCHANGED <<imageVars, disk, buffer>>

\* fseek to the end, ftell.
Measure ==
  /\ pc = "opened"
  /\ Len(disk) <= SizeMax
  /\ size' = Len(disk)
  /\ held' = {disk}
  /\ pc' = "measured"
  /\ UNCHANGED <<imageVars, disk, open, buffer, base, got, result, diag, prior>>

MeasureFails == pc = "opened" /\ Fail("io")

Rewind ==
  /\ pc = "measured"
  /\ pc' = "rewound"
  /\ UNCHANGED <<imageVars, disk, callVars>>

RewindFails == pc = "measured" /\ Fail("io")

\* Mutant: an empty file returns without closing it.
EmptyFileStaysOpen ==
  /\ pc = "rewound"
  /\ size = 0
  /\ pc' = "idle"
  /\ result' = "ok"
  /\ UNCHANGED <<imageVars, disk, open, buffer, base, size, got, diag, held, prior>>

EmptyFile ==
  /\ pc = "rewound"
  /\ size = 0
  /\ Succeed
  /\ UNCHANGED imageVars

Allocate ==
  /\ pc = "rewound"
  /\ size # 0
  /\ Grantable(size)
  /\ buffer' = TRUE
  /\ pc' = "reading"
  /\ UNCHANGED <<imageVars, disk, open, base, size, got, result, diag, held, prior>>

AllocateFails ==
  /\ pc = "rewound"
  /\ size # 0
  /\ Fail("memory")

\* One read of the file inside fread: some of the bytes still missing.
ReadSome ==
  /\ pc = "reading"
  /\ \E n \in Len(got) + 1 .. size :
       /\ n <= Len(disk)
       /\ got' = got \o SubSeq(disk, Len(got) + 1, n)
  /\ UNCHANGED <<imageVars, pc, disk, open, buffer, base, size, result, diag, held, prior>>

\* Mutant: what a short read leaves in the buffer is taken as the file.
ReadDoneShort ==
  /\ pc = "reading"
  /\ Len(got) = size \/ Len(got) >= Len(disk)
  /\ pc' = "read"
  /\ UNCHANGED <<imageVars, disk, callVars>>

ReadDone ==
  /\ pc = "reading"
  /\ Len(got) = size
  /\ pc' = "read"
  /\ UNCHANGED <<imageVars, disk, callVars>>

\* Mutant: a file that has become shorter is waited for.
ReadShortWaits ==
  /\ pc = "reading"
  /\ Len(got) < size
  /\ Len(disk) >= size
  /\ Fail("io")

\* fread returns fewer bytes than asked for: the file is shorter, or an error.
ReadShort ==
  /\ pc = "reading"
  /\ Len(got) < size
  /\ Fail("io")

Store ==
  /\ pc = "read"
  /\ AddChunkStored(base, got, 0)
  /\ Succeed

StoreFails == pc = "read" /\ Fail("resource")

LoadStep ==
  \/ Measure \/ MeasureFails \/ Rewind \/ RewindFails \/ EmptyFile
  \/ Allocate \/ AllocateFails \/ ReadSome \/ ReadDone \/ ReadShort
  \/ Store \/ StoreFails

-----------------------------------------------------------------------------
(* The world around the call.                                              *)

FileChanges ==
  /\ disk' \in Contents
  /\ held' = IF held = {} THEN {} ELSE IF pc = "idle" THEN held ELSE held \cup {disk'}
  /\ UNCHANGED <<imageVars, pc, open, buffer, base, size, got, result, diag, prior>>

CallerFrees ==
  /\ pc = "idle"
  /\ FreeImage
  /\ prior' = <<>> /\ held' = {} /\ size' = 0 /\ got' = <<>>
  /\ result' = "none" /\ diag' = "none"
  /\ UNCHANGED <<pc, disk, open, buffer, base>>

Next ==
  \/ InvalidArgument \/ OpenFails \/ OpenFile \/ LoadStep
  \/ FileChanges \/ CallerFrees

Spec == Init /\ [][Next]_vars

\* A call keeps executing whatever other programs do to the file.
FairSpec == Spec /\ WF_vars(LoadStep)

-----------------------------------------------------------------------------
(* Properties.                                                             *)

TypeOK ==
  /\ ImageTypeOK
  /\ pc \in {"idle", "opened", "measured", "rewound", "reading", "read"}
  /\ disk \in Contents
  /\ open \in BOOLEAN /\ buffer \in BOOLEAN
  /\ base \in Address
  /\ size \in 0 .. SizeMax
  /\ got \in Seq(Byte)
  /\ result \in {"none", "ok", "failed"}
  /\ diag \in {"none", "argument", "io", "memory", "resource"}
  /\ held \subseteq Contents
  /\ prior \in Seq(SourceChunk)

\* A load that succeeds adds the whole of the size it measured as one chunk at
\* the base, or nothing for an empty file; one that fails leaves an image
\* without chunks, or, before the file was open, the image it was given; and
\* until it returns the caller's image is as it was (bin_loader.c:106-148).
LoadIsAllOrNothing ==
  /\ pc # "idle" => chunks = prior
  /\ result = "ok" =>
       chunks = IF size = 0 THEN prior
                ELSE Append(prior, [start |-> base, end |-> base + size - 1,
                                    bytes |-> got, line |-> 0])
  /\ result = "failed" => chunks \in {<<>>, prior}
  /\ result = "failed" /\ diag \notin {"argument", "io"} => chunks = <<>>

\* Every byte loaded is one the file held at its place since it was measured:
\* none is left of an uninitialised buffer; and a file nobody wrote to is
\* loaded exactly (bin_loader.c:81, 114, 122).
LoadedBytesAreTheFiles ==
  result = "ok" =>
    /\ Len(got) = size
    /\ \A k \in 1 .. size : \E c \in held : k <= Len(c) /\ c[k] = got[k]
    /\ \A c \in held : held = {c} => got = c

\* Between calls no file is open and no temporary buffer is allocated
\* (bin_loader.c:110, 140-147).
NothingLeaks == pc = "idle" => ~open /\ ~buffer

\* Every call returns, however the file changes under it.
LoadReturns == pc # "idle" ~> pc = "idle"

=============================================================================
