# BINLens in TLA+

BINLens is a command-line tool written in C11 that loads a firmware file (Intel HEX or
raw binary), reconstructs its memory layout and reports regions, gaps, overlaps, entropy
and a likely Cortex-M vector table.  This directory holds TLA+ modules for the part of it
that has state, the TLC configurations that check them on small instances, and proofs
that TLAPS checks for every platform width.

All paths below are relative to the repository (`src/memmap.c`, `include/binlens/...`).

## 1. Inventory

The program is one thread.  What makes it hard is

* **failure**: every `malloc`, `realloc`, `fopen`, `fgets` and `fread` may fail at any
  point, and half-done work must not be visible;
* **fixed widths**: addresses are 64-bit with *inclusive* ends, sizes are `size_t`, and
  many products and sums are not checked where they are used;
* **order**: the tool takes chunks in any order, sorts them with an unstable `qsort`, and
  the answer must depend on the chunks only as far as the documentation says;
* **files that change**: a raw file is measured, rewound and read in separate calls, and other
  programs may write it in between;
* **call sequences**: the same image is loaded, laid out, added to, cleared and freed
  through a public API whose calls come in any order.

| Component | State | Operations | Talks to |
|---|---|---|---|
| Firmware image `firmware_image.c` | chunk table, layout tables, four capacities, byte total, lowest and highest address | `init`, `add_chunk`, `clear_layout`, `free` | every stage; it is the only shared object |
| Memory map `memmap.c` | sorted chunks, loop indices, a `RegionBuilder` | `reconstruct` (`detect_overlaps`, merge loop) | reads chunks, writes regions, gaps, overlaps |
| Intel HEX parser `hex_parser.c` | `address_base`, line number, statistics, the file | `bl_hex_parse_file` | `add_chunk` per data record, `free` on any error |
| Raw loader `bin_loader.c` | the file, its size, a temporary buffer | `bl_bin_load_file` | one `add_chunk`, `free` on any error |
| Vector table detector `vector_table.c` | best candidate so far | `bl_vector_table_detect` | reads regions |
| Entropy `entropy.c` | none | histogram, Shannon entropy, heat-map symbol | called per region and per window |
| Command line `cli.c` | the options | `bl_cli_parse` | `main` |
| Program `main.c` | the image, the exit status | parse options, load, reconstruct, report, free | all of the above |
| Diagnostics `diagnostic.c`, formatting `format.c` | a message buffer; none | set, clear; pure functions | all |

What makes each component correct:

* **Firmware image** - a chunk's inclusive end never wraps; the span is the lowest start
  and highest end however chunks arrive; a table is never written past what `realloc`
  returned although the byte count of the request is an unchecked product.
* **Memory map** - the regions hold exactly the loaded addresses, never touch, and are
  separated by gaps that are exact; a byte two chunks disagree about is the first chunk's;
  every overlapping pair is reported once; a failing call leaves no layout; it returns.
* **Intel HEX parser** - the image holds what the records say, wherever address records
  put them; a file is accepted only when valid and is blamed only when invalid;
  statistics and image tell the same story; an address never leaves 64 bits.
* **Raw loader** - the measured size as one chunk, or nothing; nothing leaks; every byte loaded
  is one that the file held, whoever writes it meanwhile.
* **Detector** - reads stay in a region's buffer; the chosen candidate has the highest
  score and, among those, the lowest address.
* **Command line** - an argument list means the same read as a whole as option by option;
  an error is never hidden by what stands before or behind it.
* **Program** - the report is what the file says; the exit status says what happened; each
  block is freed once on every exit; windows cover a region without overlap, inside it, and
  the walk ends.

The hazards behind these are listed, line by line, in `PROJECT.json`.

## 2. Modules

| Module | Code it models | Role |
|---|---|---|
| `Platform` | `<stdint.h>`, `size_t`, `malloc` as the code uses them | widths, wrapping sums, what the allocator grants |
| `FirmwareImage` | `firmware_image.c`, `firmware_image.h` | the image object: its state and one action per way an API call returns |
| `MemoryLayout` | what `memmap.h` and `ARCHITECTURE.md` promise | abstract specification: layouts as a predicate on the chunks, no loops |
| `MemMap` | `memmap.c` | extends `FirmwareImage`; reconstruction as a step machine, with a client between calls; implements `MemoryLayout` |
| `BufferGrowth` | `memmap.c`, `builder_append` | extends `MemMap`; the loop that doubles a region's buffer in steps of its own, which `MemMap` takes in one |
| `LineReader` | `hex_parser.c`, the `fgets` loop | how bytes become lines, with a bounded buffer and NUL |
| `HexParser` | `hex_parser.c`, the records | extends `FirmwareImage`; the record state machine over a nondeterministic file |
| `BinLoader` | `bin_loader.c` | extends `FirmwareImage`; one step per C library call, on a file that others write |
| `Cli` | `cli.c` | the walk over the arguments |
| `EntropyWindows` | `main.c`, `print_entropy_chunks` and `print_entropy_heatmap` | the two walks over the regions |
| `VectorTable` | `vector_table.c` | the search for the best candidate |
| `BinLens` | `main.c`, `main` | composes `HexParser`, `BinLoader` and `MemMap` on one image, from the options to the exit status |
| `FirmwareImageProofs`, `MemMapProofs`, `InputProofs`, `HexParserProofs`, `BinLoaderProofs`, `EntropyWindowsProofs`, `VectorTableProofs`, `BinLensProofs` | - | theorems |
| `MC...` | - | small instances for TLC |

`MemoryLayout` is not translated from code: it states the promise in terms a caller would
use, and is refined by the translation.

### FirmwareImage

`chunks`, `regions`, `gaps`, `overlaps` are the four tables of `BlFirmwareImage` as
sequences (the count is the length) and `capacity` is their capacities.  Byte buffers are
sequences, so "a byte per address" is a statement about lengths.

The platform is four constants: `AddrMax` (`UINT64_MAX`), `SizeMax` (`SIZE_MAX`),
`AllocMax` (the largest block the allocator grants) and `EntrySize` (the `sizeof`s).
Arithmetic wraps where C wraps (`WrapAddr`, `WrapSize`, `TableRequest`), so a missing check
shows as a wrong value and not as a value too large.

`add_chunk` is four actions, one per way out: nothing to add (`AddChunkEmpty`), refused
before anything is stored (`AddChunkRefused`), table grown but copy refused
(`AddChunkNoCopy`), stored (`AddChunkStored`).  Allocation failure is always possible and
certain above `AllocMax`.

### MemMap

`pc` says which loop of `bl_memmap_reconstruct` runs: `overlap` (the double loop of
`detect_overlaps`, indices `i`, `j`), `start` (the builder's first chunk) or `merge` (the loop
over chunks 2..n, index `i`).  One action is one loop iteration or one failure.  A round of the
merge loop that closes a region has three, and they differ in what the builder still owns:
`CloseTakeFails` (the region table, label `fail_builder`), `CloseGapFails` and `CloseStartFails`
(the gap and the next buffer, label `fail`).  What both labels do to the image is `Abandon`,
which clears the layout; the buffer that only `fail_builder` frees is followed in `BinLens`.  `qsort` is `Sortings`: any arrangement
in which no later element compares less.  `built` is a history variable: how many
chunks the present layout was built from; the code has no such field, and a caller that
adds a chunk after reconstruction has a layout of the chunks before.

`MemoryLayout` speaks only about what a caller sees between calls: the tables are mapped
to themselves when `pc = "idle"` and to empty ones inside a call (`WhenIdle`).  Then entering
a call is `Arrange`, the last step is `Publish`, a failure is `Drop`, and every other step
stutters.

### BufferGrowth

`MemMap` appends a tail in one step (`MergeTail`) and takes the capacity the `while` loop of
`builder_append` ends with in closed form (`GrownCapacity` in `Platform`).  `BufferGrowth` runs the same
reconstruction with the loop in steps of its own: double (`Double`), take the exact length where doubling wraps
(`TakeExact`), leave (`LoopEnds`), and then `realloc`.  `at` says where `builder_append` is and `next` is
`next_capacity`; every other action is `MemMap`'s.  The run `memmap` checks all properties of `MemMap` on this machine.
`GrowthIsMergeTail` says that the step that appends is `MergeTail`, the rounds of the loop leave all of `MemMap`'s variables alone, and
`ReconstructReturns` includes that the loop ends.

### HexParser

The file is chosen as it is read: every `fgets` may return any line of `Lines`, the end of
the file, or an error.  A line is already classified (blank, longer than the buffer,
garbled, record with fields); the record's checksum, shape and address arithmetic are
computed as the code does.  `prior` and `seen` are history variables for the properties, and
`missing` remembers which argument was NULL.  A caller may parse several files into one image
and free it in between, so state that leaks from one call to the next shows.

### LineReader

The layer below `HexParser`.  A file is a sequence of characters of which only newline,
carriage return and NUL mean something; one step is one `fgets` into a buffer of
`BufferSize` (1024 in the code) and what `bl_hex_parse_file` does with the buffer: `strlen`
(`CString`), the check for a line that does not fit (`TooLong`), `strip_line_ending`, and the
way the line leaves the loop.  Which texts pass the lexical checks of a record is the parameter
`Records`.  `handed` is what `HexParser` gets: records with their line numbers.

### BinLoader

`pc` names the C library call that ran last: `fopen`, `fseek`/`ftell`, `rewind`, `malloc`, `fread`, and
`add_chunk`.  Each may fail, and between any two of them `FileChanges` lets another
program write the file; `fread` copies it in pieces (`ReadSome`), so that the buffer may mix two
contents.  All ways to the label `fail` are `Fail`, which frees the image, closes the file and
frees the buffer.  `held` remembers what the file has held since it was measured, and `prior`
the chunks of the image at the call.

### Cli

The user's arguments are chosen as they are read, so that every list up to the bound is tried.
An argument is classified as the `strcmp` chain does.  A text is a model of `strtoull` and
the format names: the integer it denotes, the format it names, its length.  The properties
read the finished list as a whole (`Heads`: the arguments that are not another's value).
`CliInit`, `CliNext` and `CliSpec` are named after the module because `InputProofs` extends it together
with `LineReader`.

### EntropyWindows

Two loops over the same regions: the table of windows adds the window size to its offset, and the
heat map adds the length of the window it drew.  One step prints one window.  A region's bytes
matter only by their number, since the entropy of a window is a function of them.

### VectorTable

One step scores one place: address 0, the flash base, then the start of every region.
`ScoreCandidate` is the function `score_candidate` and `Better` is `keep_better_candidate`.  Bytes are
scaled (`ByteBase` values each) and with them the SRAM range and flash base; the lengths, bit
tests, weights and thresholds are the code's.

### BinLens

`stage` is where `main` is (`start`, `load`, `map`, `exit`) and `pc`, shared by the callees, is where
the callee that runs is.  The loaders and the memory map are INSTANCEs on one set of image
variables, and their actions are taken as they are: `main` only chooses which may run, looks at
what a call returned and frees the image.  A command is what `Cli` leaves in `BlCliOptions`.
`heap` counts the blocks of each kind (the four tables, the chunks' copies, the regions' bytes, the raw
loader's buffer) and moves by the calls of a step and by nothing else.  Each action of a callee is taken
together with the `malloc`, `realloc` and `free` calls the code makes there: `ChunkBlocks` for `add_chunk`,
`LayoutBlocks` for the three tables and the bytes `clear_layout` frees one by one, `ImageBlocks` for
`bl_firmware_image_free`, `NewBuffer` and `BufferBlock` for the loader, `BytesBlock`, `RegionBlock` and
`CloseBlocks` for the merge loop, and `ReconstructFails` for the two labels.  `OwnedBlocks` is computed from the
fields alone, so a field reset without its `free`, a `free` without the reset and a second `free` all break
`EveryBlockFreedOnce`.

`report` is the content of the report: regions, gaps, origins of the overlaps, span, byte total and, for a
HEX file, the numbers of records and the start address.  The properties compare it with what the file says about
each address, computed with no parser and no layout (`FileMemory`, `SharingLines`), and with the loader the
command asks for (`ReadAsHex`), which is read off the command and not off `ResolvedFormat`.  The regions in it are
the ones the walks of `EntropyWindows` and `VectorTable` are given; section 4 proves that they are as
those modules assume.

## 3. Runs

| Run | Question | Instance |
|---|---|---|
| `image` | Is the image right whatever check or allocation fails, and after free and reuse? | 16 addresses, `SizeMax` 15, `AllocMax` 7, starts 0, 3, 9, 14, 15, data of 0, 1, 2, 7 and 8 bytes, up to 5 chunks |
| `memmap` | Is the layout exactly what the chunks define, at every loop iteration, does the machine implement `MemoryLayout`, and does every call return, also where doubling a buffer wraps? | up to 3 chunks of 0, 1, 2 or 15 bytes of {0, 1} at 0, 1, 3 or 30 of 32 addresses, 2 origin lines, `SizeMax` 31, `AllocMax` 15 |
| `hex` | Does the parser keep image and statistics right and judge files fairly? | bytes of 3 bits, 13 lines, files of up to 4 lines, images that held up to 1 chunk |
| `hex_stats_optional` | Is the statistics object optional, as the header says? (violated) | as `hex`, 1 line |
| `line_reader` | Does the reader find the lines of a file and number them right? | a buffer of 4 bytes, every file of up to 6 characters of newline, return, NUL and one other |
| `line_reader_nul` | Does the length check catch extra data, as the comment says? (violated) | as `line_reader` |
| `bin_loader` | Is a raw load all or nothing, of bytes the file held, without leaks, and does it return? | every content of a few lengths, of two byte values, changing at any time; bases 0 and 13 of 16 addresses; images that held up to 1 chunk |
| `entropy_windows` | Do the walks cover every region once, agree and end? | layouts of 0..3 regions in 32 addresses, every window size that fits `size_t` (1..15), rows of 2 symbols |
| `vector_table` | Is the table reported the strongest candidate and whole in memory? | bytes of one bit, words of four, every content of the 8 bytes at the edges of regions and of the address space |
| `cli` | Does every argument list mean what a reading as a whole says? | 20 arguments in both forms of every option, lists of up to 4 |
| `cli_chunk` | Is the chunk size positive, as the comment and message say? (violated) | as `cli`, `size_t` as wide as an address |
| `binlens` | Does the program report what is in the file, and free each block once, whatever fails? | 8 commands; HEX files of up to 5 of 9 lines; raw files of 0, 1 and 3 bytes |

**Why these bounds.**  The invariants of reconstruction relate at most three chunks: the
builder's last contributor, the current chunk, and an earlier long chunk that reaches
past both.  Starts 0, 1, 3 with lengths 1, 2 and 15 give nested, adjoining, overlapping, equal
and separated pairs, a gap of a single byte, a tail that needs several doublings of the
builder, one that needs 17 bytes of a buffer of 2, whose doubling goes to 16 and wraps, and a long first
chunk that overlaps one two rows down; start 30 gives chunks that
end on the last address and one that is refused for passing it.  Two origin lines
make equal-comparing chunks possible, so both results of an unstable sort are checked.
Tables start with one entry: the second push and the third grow them.  In `image` the
address space, `size_t` and the heap are so small that each check of `add_chunk` fails on some
input: a range past the end, a total past `SizeMax` and a request past `AllocMax`.  A table request
whose product wraps does not occur in any instance: a granted table is at most half of `SizeMax`, so it cannot,
and that is what the theorem `ChunkTableAlwaysHolds` shows.
four lines are enough for an address record, data, EOF and one more line in any order, and
a second file afterwards.

In `line_reader`, six characters are a line that just fits the buffer of four, one that is too
long by one with a rest that looks like a record, and another line behind it.  In
`entropy_windows`, the window sizes include 1, divisors and non-divisors of the lengths, the length
itself, and sizes for which the second offset is next to `SizeMax`; the number of windows
exceeds a row.  In `vector_table` the widths are small enough that every content of a table is
tried at an address that ends the region, ends the address space, lies inside a region (the
flash base) and is scored twice.  In `cli`, four arguments are two options with values, or an
option that eats an option, followed by a path.  In `binlens`, five lines are an address record,
a start address or a garbled line, three data records that overlap, adjoin or leave a gap, and EOF, so that a
region is closed, merged into and its buffer grown in one run; every allocation, read and seek may fail.
The commands are both formats, each given and inferred, also against the extension.

**Deadlock** is checked in `image`, `memmap`, `hex` and `bin_loader`, whose client can always act.  The
other modules are one call, or a program, that ends, and there TLC's deadlock is the end
(`CHECK_DEADLOCK FALSE`); `WalksEnd` says that the walks reach theirs.

**Fairness.**  `ReconstructReturns`, `LoadReturns` and `WalksEnd` assume weak fairness of the
call's own steps: a C function that has been entered keeps executing, and no other actor can
disable its next step.  `LoadReturns` holds although other programs may write the file for ever,
since they are given no fairness and take no step of the call away.  Nothing is assumed about which branch is taken: allocations
may all fail.  Files are finite: `MaxLines` bounds the lines a HEX file has, and reading may
stop earlier at an error or at the end.  `HexParser` alone is not given fairness.

### What the runs show

* A layout is exact at every iteration of the merge loop, not only at the end
  (`RegionsCoverChunks`, `RegionsSeparated`, `GapsBetweenRegions`, `FirstChunkWins`).
* The early exit of the overlap scan loses no pair (`OverlapsComplete`), because it runs on
  sorted chunks; and the records stay right when a caller loads more chunks beside them.
* The byte total counts each byte of each chunk, the regions count each address once, and
  the two agree exactly when no overlap is listed (`LayoutAccountsForBytes`).
* A failing call shows no half layout to its caller (`ImplementsLayout`).
* The address arithmetic of the parser can neither wrap nor be refused by `add_chunk`
  (`RecordsStayInAddressSpace`).
* An invalid file is never accepted (`AcceptsOnlyValid`), and no line of a valid one is called
  malformed: the line a message names is the first at which the file stops being valid, and the EOF
  record is missed only in a file that has none (`SyntaxErrorsAreReal`).
* A load that fails leaves an empty image and the number of the last line read (`StatsMatchImage`).
* A reconstruction returns, also from the loop that grows a buffer when its doubling wraps (`ReconstructReturns`),
  and a length that wrapped never becomes a block too small (`GrowthIsMergeTail`).
* No line of a file without NUL is read as two, even next to the buffer's size
  (`RecordsAreWholeLines`, `LongLinesAreLong`).
* A raw file that is written while it is read may be loaded as a mixture of its contents, but
  never with a byte it did not hold, nor partly (`LoadedBytesAreTheFiles`, `LoadIsAllOrNothing`).
* The table of windows and the heat map show the same windows although they step
  differently, and no offset wraps (`HeatmapShowsTheTable`, `WindowsPartitionRegions`).
* The vector table reported does not depend on the order of the search (`StrongestIsKept`).
* A request for help hides no error, wherever it stands (`RefusedExactlyWhenWrong`).
* Each address the file gives a byte is in exactly one printed region, with its byte, and each other address of
  the span in exactly one printed gap; total and statistics are the file's; nothing is printed of a HEX file
  that is not valid (`ReportIsOfTheFile`).  Each overlap names the two lines of the file that share an
  address (`OverlapsNameTheLines`).
* No two chunks of one file compare equal, so the output does not depend on the C library's
  `qsort` (`SortIsDeterministic`): the line number is what tells them apart.
* The image may be freed twice, by a loader and by `main`, and the buffer of a region changes its owner in the
  middle of a round that may fail, and each block is freed once (`EveryBlockFreedOnce`).

### Disagreements between documentation and code

* `hex_parser.h:25` says the parser parses "into a firmware image and optional stats object".
  `bl_hex_parse_file` refuses a call whose `stats` is NULL as an invalid argument
  (`hex_parser.c:105-108`).  Run `hex_stats_optional`.  No caller in the repository passes NULL.
* `hex_parser.c:83` says the length check catches extra data on a line.  The length is
  `strlen`'s, which stops at a NUL byte: a record followed by NUL and more on its line is
  accepted as if the line ended there.  Run `line_reader_nul`.
* `cli.c:55` says `parse_size` parses a positive size and `cli.c:163` reports "expected positive
  entropy chunk size".  `strtoull` accepts a minus sign and negates in 64 bits, so
  `--entropy-chunk -3` is taken as 2^64 - 3 where `size_t` has 64 bits.  Run `cli_chunk`.

### Observations that are not faults

* `compare_chunks` ignores the origin path, so chunks of two files parsed into one image can
  compare equal and come out of `qsort` in either order; when their bytes differ, which
  byte the region keeps is up to the C library.  The overlap is reported as conflicting
  either way.  From one file this cannot happen: line numbers differ.
* After `add_chunk` on an image with a layout, the layout is that of the earlier chunks.  The
  code nowhere says it is current; `ImplementsLayout` states exactly this.
* `main` frees the image after a loader has freed it on its error path.  `free` resets every
  field, so a second call finds an empty image.
* A raw file that grows between the measuring and the end of the read is loaded as far as it was
  measured; one that shrinks is refused.
* A raw loader that fails after `fopen` frees also the chunks that were in the image before the
  call; one that cannot open the file leaves them.  `main` loads into an empty image.
* A last line without a newline that is exactly as long as the buffer holds is refused as too
  long, though nothing was cut off.  A line that begins with NUL is taken as blank, and a line
  longer than the buffer with a NUL in it is read on as further lines.
* A candidate may have HIGH confidence without the Thumb bit in its reset vector.
* An empty path argument is ignored when no path was given before and refused after one.

## 4. Proofs

TLAPS checks every theorem for all values of the constants under named assumptions:

* `WidthAssumption` - the widths are naturals, `size_t` is not wider than an address,
  and the allocator never grants more than half of what `size_t` counts (C libraries refuse
  requests above `PTRDIFF_MAX`).
* `TableAssumption` - the first capacity of each table times its entry size fits `size_t`.
* `CallerAssumption` - callers pass addresses, byte buffers and line numbers.
* `HexAssumption` - bytes and 16-bit words are as wide as the format says, a line is a `Line` with
  a one-byte count, and the largest linear base plus the largest record lies inside the address
  space.  It makes the format's widths fit the platform's, whatever the lines are.
* `LoaderAssumption` - a file holds bytes, and a base is an address.
* `CliAssumption` - an argument is of one of the kinds the `strcmp` chain tells apart, a text has a
  length and may denote a number and a format, and the default chunk size is a positive `size_t`.
* `WindowAssumption` - the window size is a positive `size_t`, which `OptionsAlwaysWhatWasGiven` proves
  of `Cli`, and the regions are fit to be walked, which `WalksGetWhatTheyAssume` proves of the program.
* `DetectorAssumption` - words fit addresses, and the regions as before.
* `PartsAssumption` - in the program, `HexAssumption` and `LoaderAssumption` of the two loaders.

**Sums.**  Two things are sums over a sequence: the bytes of a record (`Total`) and the lengths of the
regions.  The models take them with folds, and what a fold computes seems to need
induction over the sequence.  The proofs go round it: a fold is `CHOOSE` of a function that
satisfies a recursion (`SumsUp`); the function that maps each `k` to the number of units
up to `k`, a cardinality, satisfies it (`Counts`), so the choice does too; and two functions that
satisfy it are equal, since a least place where they differ would have equal predecessors
(`SumIsCount`).  With the sum a cardinality, facts about it come from bijections and injections.

`FirmwareImageProofs` proves `ImageTypeOK`, `ChunksWellFormed`, `SpanIsTight` and
`ChunkTableHolds`.  Their conjunction is not inductive.  `add_chunk` recognises the first
chunk by `total_loaded_bytes = 0`, so the proof of `SpanIsTight` needs
`TotalTellsEmpty`: the total is zero exactly when no chunk is loaded.  `ImageInv` adds it.
The table argument is `NextCapacityFits`: a granted table is at most half of `SizeMax`, so
doubling cannot wrap and the wrapped product is the product.  `TotalAlwaysCounts` says what
`total_loaded_bytes` is: the number of bytes in the chunks (`LoadedBytes`), whatever calls failed on the way;
the check before the sum (`firmware_image.c:108`) is what keeps it from wrapping.

`MemMapProofs` proves `TypeOK` and `WithinCapacity` of reconstruction.  `MemMapInv` adds to
them `ImageInv` and `LoopInv`: inside a call the chunks are sorted, and in the merge loop
the builder holds one byte per address (`BuilderFollowsChunks`), covers every earlier
chunk and starts at or below them.  Without the byte count, the length of a tail
(`TailFacts`) could not be related to the buffer; without sorting, a chunk could begin below
the builder and the tail's offset would be outside the chunk.  That sorting keeps the image's
invariant (`SortKeepsImage`) is proved from the bijection that defines an arrangement.  That
the doubling loop ends at a capacity that fits (`GrownCapacityFits`) uses that a nonempty set of
naturals has a least element.

It also proves `RegionsSeparated`, `GapsBetweenRegions`, `RegionsCoverChunks` and
`FirstChunkWins`.  They are stated for `Runs` (the finished regions and the one under assembly),
which makes them inductive together with `MemMapInv`: a step leaves `Runs` alone, empties it,
appends one run, or raises the end of the last run, and each of these has a lemma about
sequences (`SeparateAppend`, `GapsAppend`, `GapsRaise`, `CoversAppend`, `CoversRaise`, `FirstAppend`).
The gap next to the last address is exact because `~CanMerge` leaves at least one address
between the region and the chunk, so neither `+ 1` nor `- 1` wraps.  That a fresh region's bytes
are the first chunk's (`FreshRunFirst`, `EarlierChunksBelow`) and that a tail's are
(`JoinedBytes`) both need that every earlier chunk ends at or below the builder.

`OverlapsComplete` is stated for the pairs already scanned (`Scanned`), which makes it inductive with
`MemMapInv`: recording an overlap adds one pair and its record, and no two records are of one pair.  A row is left before
its end only because the chunks are sorted: when chunk `j` starts past the end of chunk `i`, every later
chunk does too (`RowEnds`).  That is the one place where leaving the inner loop could lose an overlap.

`LayoutAccountsForBytes` compares two counts.  The lengths of separated regions sum to the number of addresses
they hold (`KeptCounts`), and the total is the number of bytes of the chunks (`TotalCounts`), which a sort
keeps because an arrangement is a bijection (`SortKeepsCount`).  Sending each byte to its address is onto
(`RegionsCoverChunks`), so the regions hold no more than was loaded; it is one-to-one, and the two numbers are equal,
exactly when no two chunks share an address, which by `OverlapsComplete` is when no overlap is
listed (`BytesAndAddresses`).

`MemMapImplementsLayout` maps each action of `MemMap` to one of `MemoryLayout`: `ClientAddsChunk` to
`Load`, `ReconstructStart` to `Arrange`, `FinishLayout` to `Publish`, `ClientClearsLayout` and
`ReconstructEmpty` to `Drop`, `ClientFreesImage` to `Free`, and every step inside a call, a failure
included, to a stutter, because the tables show empty there (`WhenIdle`).  `Publish` demands the exact layout (`CompleteIsExact`): the
regions are the maximal runs of the loaded addresses (`RangesAreRuns`, from separation and coverage), the gaps the runs of the
holes (`GapsAreHoles`), the bytes those of the first holder (`FirstHolderUnique`), and the overlaps are
the sharing pairs, each listed once (`OverlapsListed`).  The refinement is of safety;
`MemoryLayout` promises no progress.

`HexParserProofs` proves every property that the run `hex` checks.  `HexInv` adds two facts to them.
`BaseInRange` bounds `address_base` by the largest linear base, which `NewBaseInRange` derives from
the two operand bytes and from which `RecordAddress` concludes that neither `base + offset` nor the
record's end wraps.  `SoundSoFar` says that within a call the lines read are a valid prefix and that
`saw_eof` is whether the EOF record is among them; `ChecksumIsSum` relates the parser's
comparison with the sum to zero, and `ValidAppend` and `InvalidAppend` say what one more line does to
validity.  `ChunksMatchRecords` has an invariant on top (`LoadInv`): the base is the one the lines
read so far have set (`BaseFollows`), and the image's table is what it held and one chunk per
line with bytes.  The counting is `CountData`, and a later line changes neither the place nor
the chunk of an earlier one (`OldLines`).  That the sum of a record is a number at all, so that its low
byte can be compared, is `TotalIsNatural`.

`BinLoaderProofs` proves `TypeOK`, `LoadIsAllOrNothing`, `LoadedBytesAreTheFiles` and `NothingLeaks`.
`LoadedBytesAreTheFiles` speaks of a call that has returned; `BufferIsOfTheFile` says the same of the
buffer during the call, and `CallInOrder` that what has been read is the measured size once the
read is done, and that the file's present content is among those it has held.  `FileChanges` can
only add a content, so a byte once justified stays so.  `ReadOn` is the lemma about the pieces
`fread` copies.  `Store` uses `StoredKeepsInv` of `FirmwareImageProofs`: what `add_chunk` keeps, it
keeps for this caller.

`EntropyWindowsProofs` proves `TypeOK`, `WindowsPartitionRegions`, `RowsAreAddressable` and
`HeatmapShowsTheTable`.  The
walk over the table needs `OffsetsDoNotWrap` (an offset is below twice the largest block, hence
below `SizeMax`: this is where `AllocMax` being half of it matters), `WindowsBehind` (all windows end
before the next begins, so that a new one covers no address twice) and `WalkedCovered`, which is
the property address by address.  The rows need `RowGoesOn`: the last symbol ends just before
the present offset, and while a region goes on it was a whole window.  That the heat map shows the table
rests on a window being determined by the one before it (`Follows`, `OneFollows`): the table is such a chain, and what
is shown so far is a prefix of it that ends where the heat map stands (`Place`), although the two walks
leave a region with different offsets.  Flattening the rows is a recursion; the invariant
carries its solution (`Flattens`), which a symbol extends (`FlattensNewRow`, `FlattensLongerRow`), and
it has no other (`OneRecursion`).

`VectorTableProofs` proves `TypeOK`, `ReportedTableIsLoaded` and `StrongestIsKept`.  The invariant says
that the candidate kept is the score of its own address or no candidate, and that none scored so
far beats it.  That eight bytes inside one region are what the memory as a whole holds
needs that regions do not share an address; that a handler's two bytes loaded are two bytes in
*one* region needs that regions never adjoin.  Both are what `MemMapProofs` proves of a layout.

`InputProofs` is about the two places that read what a user wrote.  Of `LineReader` it proves
`RecordsAreWholeLines` and `LongLinesAreLong`.  `ReaderInv` adds to them where the
reader stands: every `fgets` begins at the start of the file or after a newline
(`AtLineStart`), unless a NUL has hidden the cut of an overlong line, and a buffer that was refused was full and
has no newline (`RefusedBuffer`).  Without the first, a record could be the tail of a line;
`CString` is where NUL enters.

Of `Cli` it proves `RefusedExactlyWhenWrong` and `OptionsAreWhatWasGiven`, for lists of every length.  The code walks
forwards and never looks back; the properties ask of each place, through the recursion `IsValue`, whether
it is an option's value.  That the recursion has a solution at all is shown without
induction: a place is a value exactly when it stands an odd distance after the start of the run of separate options
before it (`EndsOddRun`, `RunStarts`, `RunGoesOn`), and two lists that agree up to a place have the
same values there (`SameValues`).  `WalkInv` then says that the walk always stands at a head
(`Standing`), that the options are what the list read so far gives, and that nothing in it is wrong yet.  A step adds exactly one
head (`HeadsGrow`, `NewHead`) and leaves the kind, the value and the badness of the old ones as they were (`OldHeads`),
so an option is given a last value by the step that reads it and by no other (`GivenGrows`,
`GivenValueIsRead`, `OtherValuesStay`).  An old head keeps its value although the list
grows because the walk takes an option together with its value; only the option that ends the list has none, and
it ends the walk too.

`BinLensProofs` proves `EveryBlockFreedOnce`, `StatusTellsTheOutcome` and `SortIsDeterministic` of the whole
program.  `ProgramInv` says for each stage what the parts are doing: at the start the image
is empty, a loader runs only on the format the options chose, the map runs only after a load succeeded, and at the
exit the status is the one of the path taken.  `LinesDiffer` says that the
chunks of one file have different line numbers, hence that `compare_chunks` never calls two of them equal.

It also proves the two properties that relate what is printed to the file through every part,
`ReportIsOfTheFile` and `OverlapsNameTheLines`.  A theorem about `HexParser` as a specification of its own
says nothing of a program that interleaves it with others, so the proof first shows that every step
main takes in a callee is a step of that callee (`HexIsParser`, `BinIsLoader`, `MapIsReconstruction`).  Then
the invariants of the three proof modules, instanced on the state of main as `HP`, `BP` and `MP`, hold stage
by stage: `FileInv` carries the parser's or the loader's while it runs (`HexLoading`, `BinLoading`) and the
map's from there on (`BeingMapped`).  Their constants satisfy the assumptions of the parts by
`PartsAssumption` (`HexPart`, `BinPart`, `WidthsHold`).  What connects the stages:

* A loader that succeeded leaves the chunks of the file and nothing else, one per data
  line (`HexLoaded`, from `LoadedTable` and `LinesTotal` of `HexParserProofs`) or one for the whole raw
  file (`BinLoaded`).  This is said up to order, because the next step is the sort (`SortKeepsTable`).
* A fresh image with such a table is fit to be laid out (`FreshLayout` of `MemMapProofs`).
* A layout of it is the file's memory: the first chunk to hold an address is the
  line that comes first by address, length and number (`LineOrder`), so the byte shown is that line's
  (`HexMemoryOf`, `BinMemoryOf`, `RegionsShowMemory`), and the span's ends are addresses of
  the file (`SpanShowsMemory`), and what the regions leave of the span the gaps fill (`GapsShowMemory`, from
  `GapsFillSpan` of `MemMapProofs`).
* The lines of a file that was loaded are valid and end with EOF, and the statistics describe them, because
  `FileInv` carries `AcceptsOnlyValid` and `StatsMatchImage` of the parser to the report.
* The overlaps of the layout are pairs of chunks (`OverlapPairs`), and with `LinesDiffer` pairs of
  chunks are pairs of lines, each named once (`HexOrigins`).

`WalksGetWhatTheyAssume` closes the last gap between the parts: the theorems on
`EntropyWindows` and `VectorTable` assume something of the regions (`LayoutOK`), and every report of the program
satisfies it.  That neighbours do not adjoin, and hence no two regions do (`SeparateApart`), is `MemMapProofs`' separation.  That no region is longer than `AllocMax`, on which
`OffsetsDoNotWrap` rests, is `BuffersGranted`: the builder's buffer was granted at the size it has, from its first
copy through every doubling, and a region takes the buffer over.  `PartsAssumption` makes the bytes
those of both modules.

`EveryBlockFreedOnce` is proved last, because it needs what the parts keep.  `HeapInv` says that the heap is
`OwnedBlocks`, and that the loader's buffer exists only between its `malloc` and the end of the call.  Each step then
weighs its calls against the fields it changes, kind by kind (`HeapFollows`): a table has a block exactly when its
capacity is not zero, so a push makes one where the capacity was zero and none elsewhere (`TablePushed`);
`clear_layout` and `bl_firmware_image_free` free what the fields point to before they reset them (`LayoutFreed`,
`ImageFreed`); and the builder has a buffer exactly while the merge loop runs (`BuilderBlock`, from
`WithinCapacity` and `BuilderFollowsChunks` of `MemMapProofs`), which a region takes over (`RegionTaken`).

In each proof module there is one lemma per action, named after it.

**Only model-checked.**  `ReconstructReturns`, `LoadReturns` and `WalksEnd` are liveness under fairness, and TLAPS has neither that nor
ENABLED.  `GrowthIsMergeTail` relates the machine of `BufferGrowth` to `MemMap`, and the theorems are about `MemMap`; that
its closed form fits is `GrownCapacityFits`.  Every other property of a passing run is a theorem.

## 5. Abstractions and what is left out

* Text: source and origin paths, input format, diagnostic wording.  `HexParser` keeps what a
  diagnostic is about.
* A region's entropy: a floating-point function of its bytes.
* The hex digits of a line (`parse_hex_digit` and the fields): `HexParser` gets a line as blank, too
  long, garbled or a record with its fields, and `LineReader` decides which text a line is.
* A refusal in `memmap.c:330` for tails wider than `size_t` cannot happen, since a chunk's
  buffer was allocated; it is kept where it can matter, in the length check of the builder.
* In `BinLens` the arguments are already parsed (`Cli` models the parsing), and the walks that print
  the windows and the vector table are left to `EntropyWindows` and `VectorTable`: they read the
  layout and change nothing.

**Not modelled.**  The entropy formula and the thresholds of the heat map's symbols
(`entropy.c`) are floating-point functions of a histogram, without state, and TLC has integers
only.  `format.c` and the printing half of `main.c` turn numbers into text.  `diagnostic.c` keeps one
message; the modules keep what it is about, and its truncation is `vsnprintf`'s.  The Makefile,
Docker and Terraform files are not part of the program.

## 6. Plan

Done: the image, the memory map and its refinement, the parser in two layers, the raw loader,
the command line, the walks of the report, the detector, the program that composes them, and the
proofs of section 4.

Every safety property the runs check is proved for all values of the constants, `GrowthIsMergeTail` excepted.  What could be added:
the digits of a HEX line as characters, so that `LineReader` and `HexParser` become one refinement, and the printed text.
