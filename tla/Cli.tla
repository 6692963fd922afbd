-------------------------------- MODULE Cli --------------------------------
(***************************************************************************)
(* bl_cli_parse (src/cli.c): walk the arguments into BlCliOptions.  The    *)
(* arguments are chosen as they are read, so that every argument list up   *)
(* to MaxArgs is tried; one step reads an option with its value.           *)
(*                                                                         *)
(* An argument is classified as the strcmp chain does, with the text it    *)
(* carries: what follows "=", or the argument itself.  What a text is, as  *)
(* a number, a format name and a length, are parameters.                   *)
(*                                                                         *)
(* CliInit and its like carry the module's name because InputProofs        *)
(* extends this module together with LineReader.                           *)
(***************************************************************************)
EXTENDS Platform, Sequences

CONSTANTS
  Args,          \* the arguments a user may give
  NumberIn,      \* the integer a text denotes, or NoNumber
  NoNumber,      \* a text strtoull does not take to its end
  FormatNamed,   \* the format a text names, or "unknown"
  TextLength,    \* strlen
  PathSize,      \* BL_PATH_BUFFER_SIZE, 512
  DefaultChunk,  \* BL_DEFAULT_ENTROPY_CHUNK, 1024
  MaxArgs        \* bound on argc - 1

Texts == DOMAIN NumberIn
Formats == {"auto", "hex", "bin"}
Flags == {"help", "version", "heatmap", "noColor", "verbose"}
Separate == {"format", "base", "chunk"}
Joined == {"format=", "base=", "chunk="}

ASSUME CliAssumption ==
  /\ Args \subseteq [kind : Flags \cup Separate \cup Joined \cup {"path", "unknown"},
                     text : Texts]
  /\ NoNumber \notin Int
  /\ NumberIn \in [Texts -> Int \cup {NoNumber}]
  /\ FormatNamed \in [Texts -> Formats \cup {"unknown"}]
  /\ TextLength \in [Texts -> Nat]
  /\ "=" \in Texts
  /\ PathSize \in Nat \ {0}
  /\ DefaultChunk \in 1 .. SizeMax
  /\ MaxArgs \in Nat

VARIABLES
  argv,     \* the arguments read so far
  options,  \* *options
  result    \* "none" while parsing, then "ok" or what the diagnostic is about

cliVars == <<argv, options, result>>

OptionsInit ==
  [path |-> "", format |-> "auto", base |-> 0, chunk |-> DefaultChunk,
   flags |-> {}]

CliInit == argv = <<>> /\ options = OptionsInit /\ result = "none"

-----------------------------------------------------------------------------
(* Values.                                                                 *)

\* parse_u64: strtoull takes a minus sign, and refuses only a magnitude that
\* does not fit.
IsU64(text) ==
  /\ NumberIn[text] # NoNumber
  /\ -AddrMax <= NumberIn[text] /\ NumberIn[text] <= AddrMax

U64(text) == WrapAddr(NumberIn[text])

IsSize(text) == IsU64(text) /\ U64(text) # 0 /\ U64(text) <= SizeMax

Option(kind) ==
  CASE kind \in {"format", "format="} -> "format"
    [] kind \in {"base", "base="} -> "base"
    [] kind \in {"chunk", "chunk="} -> "chunk"

ValueOK(kind, text) ==
  CASE Option(kind) = "format" -> FormatNamed[text] # "unknown"
    [] Option(kind) = "base" -> IsU64(text)
    [] Option(kind) = "chunk" -> IsSize(text)

\* Mutant: a format given twice keeps the first.
WithValueFirstFormat(kind, text) ==
  CASE Option(kind) = "format" ->
         IF options.format = "auto" THEN [options EXCEPT !.format = FormatNamed[text]]
                                    ELSE options
    [] Option(kind) = "base" -> [options EXCEPT !.base = U64(text)]
    [] Option(kind) = "chunk" -> [options EXCEPT !.chunk = U64(text)]

WithValue(kind, text) ==
  CASE Option(kind) = "format" -> [options EXCEPT !.format = FormatNamed[text]]
    [] Option(kind) = "base" -> [options EXCEPT !.base = U64(text)]
    [] Option(kind) = "chunk" -> [options EXCEPT !.chunk = U64(text)]

\* An argument as a text.  One with "=" in it is no number and no format.
WholeText(arg) == IF arg.kind \in Joined THEN "=" ELSE arg.text

-----------------------------------------------------------------------------
(* The loop over argv.                                                     *)

Reads(args) ==
  /\ result = "none"
  /\ Len(argv) + Len(args) <= MaxArgs
  /\ argv' = argv \o args

ReadFlag(arg) ==
  /\ arg.kind \in Flags
  /\ Reads(<<arg>>)
  /\ options' = [options EXCEPT !.flags = @ \cup {arg.kind}]
  /\ UNCHANGED result

ReadValue(kind, text, args) ==
  /\ Reads(args)
  /\ IF ValueOK(kind, text)
       THEN options' = WithValue(kind, text) /\ UNCHANGED result
       ELSE result' = "value" /\ UNCHANGED options

ReadJoined(arg) == arg.kind \in Joined /\ ReadValue(arg.kind, arg.text, <<arg>>)

\* The value of a separate option is the next argument, whatever it looks like.
ReadSeparate(arg) ==
  /\ arg.kind \in Separate
  /\ \E value \in Args : ReadValue(arg.kind, WholeText(value), <<arg, value>>)

\* ... and there may be none.
ReadLastSeparate(arg) ==
  /\ arg.kind \in Separate
  /\ Reads(<<arg>>)
  /\ result' = "value"
  /\ UNCHANGED options

RefuseUnknown(arg) ==
  /\ arg.kind = "unknown"
  /\ Reads(<<arg>>)
  /\ result' = "unknown"
  /\ UNCHANGED options

PathTaken == options.path # ""

RefusePath(arg) ==
  /\ arg.kind = "path"
  /\ Reads(<<arg>>)
  /\ PathTaken \/ TextLength[arg.text] >= PathSize
  /\ result' = "path"
  /\ UNCHANGED options

ReadPath(arg) ==
  /\ arg.kind = "path"
  /\ Reads(<<arg>>)
  /\ ~PathTaken /\ TextLength[arg.text] < PathSize
  /\ options' = [options EXCEPT !.path = arg.text]
  /\ UNCHANGED result

\* Mutant: the path is asked for before --help and --version are looked at.
FinishNeedsPath ==
  /\ result = "none"
  /\ result' = IF options.path = "" THEN "missing" ELSE "ok"
  /\ UNCHANGED <<argv, options>>

Finish ==
  /\ result = "none"
  /\ result' = IF options.flags \cap {"help", "version"} = {} /\ options.path = ""
                 THEN "missing" ELSE "ok"
  /\ UNCHANGED <<argv, options>>

CliNext ==
  \/ \E arg \in Args :
       \/ ReadFlag(arg) \/ ReadJoined(arg) \/ ReadSeparate(arg) \/ ReadLastSeparate(arg)
       \/ RefuseUnknown(arg) \/ RefusePath(arg) \/ ReadPath(arg)
  \/ Finish

CliSpec == CliInit /\ [][CliNext]_cliVars

-----------------------------------------------------------------------------
(* What an argument list means, said without the walk.                     *)

\* An argument is a value exactly when a separate option that is not itself a
\* value precedes it.
IsValue[p \in Nat] ==
  p > 1 /\ ~IsValue[p - 1] /\ argv[p - 1].kind \in Separate

Heads == {p \in 1 .. Len(argv) : ~IsValue[p]}

HeadsOf(kinds) == {p \in Heads : argv[p].kind \in kinds}

HasValue(p) == argv[p].kind \in Joined \/ p < Len(argv)

ValueText(p) ==
  IF argv[p].kind \in Joined THEN argv[p].text ELSE WholeText(argv[p + 1])

\* The paths that count: an empty one is as good as none.
Paths == {p \in HeadsOf({"path"}) : argv[p].text # ""}

LastValue(option, parsed(_), default) ==
  LET given == {p \in HeadsOf(Separate \cup Joined) : Option(argv[p].kind) = option}
      last == CHOOSE p \in given : \A q \in given : q <= p
  IN  IF given = {} THEN default ELSE parsed(ValueText(last))

BadArgument(p) ==
  \/ argv[p].kind = "unknown"
  \/ argv[p].kind \in Separate \cup Joined
       /\ (HasValue(p) => ~ValueOK(argv[p].kind, ValueText(p)))
  \/ argv[p].kind = "path" /\ TextLength[argv[p].text] >= PathSize

SomeBadArgument == \E p \in Heads : BadArgument(p)

SecondPath == \E p \in Paths, q \in HeadsOf({"path"}) : p < q

NothingToDo == Paths = {} /\ HeadsOf({"help", "version"}) = {}

OptionsAreLastValues ==
  /\ options.flags = {argv[p].kind : p \in HeadsOf(Flags)}
  /\ options.format = LastValue("format", LAMBDA t : FormatNamed[t], "auto")
  /\ options.base = LastValue("base", U64, 0)
  /\ options.chunk \in 1 .. SizeMax
  /\ options.chunk = LastValue("chunk", U64, DefaultChunk)
  /\ options.path = IF Paths = {} THEN "" ELSE argv[CHOOSE p \in Paths : TRUE].text

-----------------------------------------------------------------------------
(* Properties.                                                             *)

\* A finished parse is refused exactly when some argument is bad, a path (even
\* an empty one) follows a path, or there is neither a path nor a request for
\* help or version: in whatever order they come, a request for help hides no
\* error (cli.c:116-195).
RefusedExactlyWhenWrong ==
  result # "none" =>
    (result # "ok" <=> SomeBadArgument \/ SecondPath \/ NothingToDo)

\* An accepted parse keeps the last value of each option and the flags that
\* stand as options, not those that stand as another option's value; the window
\* size is one that a walk over a region ends with (cli.c:119-172).
OptionsAreWhatWasGiven == result = "ok" => OptionsAreLastValues

\* parse_size is there to parse a positive size (cli.c:55), and the message for
\* what it refuses is that a positive chunk size is expected (cli.c:163).
ChunkSizeIsPositive ==
  result = "ok" =>
    \A p \in HeadsOf({"chunk", "chunk="}) : NumberIn[ValueText(p)] > 0

=============================================================================
