----------------------------- MODULE InputProofs ----------------------------
(***************************************************************************)
(* The two places where the program reads what a user wrote: the lines of  *)
(* a HEX file (LineReader) and the command line (Cli).                     *)
(*                                                                         *)
(* The line reader hands on whole lines with their numbers and refuses     *)
(* only lines that leave no room for their newline, for every buffer size, *)
(* every set of records and every file.  Neither property is inductive.    *)
(* What the loop maintains, as long as the file it has read holds no NUL,  *)
(* is that it stands at the start of a line and that count is the number   *)
(* of newlines behind it (ReaderInv).                                      *)
(*                                                                         *)
(* The command line is refused exactly when something in it is wrong, and  *)
(* the options are what it gives, for argument lists of every length.  The *)
(* invariant (WalkInv) is that the walk stands at an argument that is not  *)
(* a value and that the options are what the list read so far gives.       *)
(***************************************************************************)
EXTENDS LineReader, Cli, FiniteSetTheorems, SequenceTheorems, WellFoundedInduction, TLAPS

\* The newlines among the first p characters.
Newlines(p) == {q \in 1 .. p : file[q] = "nl"}

\* Position p ends a line, or nothing comes before it.
LineStartsAfter(p) == p = 0 \/ file[p] = "nl"

ReaderTypeOK ==
  /\ file \in Seq(Char)
  /\ pos \in 0 .. Len(file)
  /\ count \in Nat
  /\ \E S : handed \in Seq(S)

\* What fgets leaves when the buffer holds the end of a line of its own.
AtLineStart ==
  state = "reading" /\ pos < Len(file) /\ NoNulBefore(pos) =>
    /\ LineStartsAfter(pos)
    /\ count = Cardinality(Newlines(pos))

\* The buffer refused as too long holds only characters of one line.
RefusedBuffer ==
  state = "long" =>
    /\ pos >= BufferSize - 1
    /\ \A q \in pos - BufferSize + 2 .. pos : file[q] # "nl"

ReaderInv ==
  /\ ReaderTypeOK
  /\ AtLineStart
  /\ RefusedBuffer
  /\ RecordsAreWholeLines

-----------------------------------------------------------------------------
(* Positions and lines.                                                    *)

LEMMA LeastPosition ==
  ASSUME NEW S \in SUBSET Nat, S # {}
  PROVE  \E x \in S : \A y \in S : x <= y
<1>1. \E x \in S : \A y \in S : ~(<<y, x>> \in OpToRel(<, Nat))
  BY NatLessThanWellFounded, WFMin
<1>2. PICK x \in S : \A y \in S : ~(<<y, x>> \in OpToRel(<, Nat))
  BY <1>1
<1>3. ASSUME NEW y \in S PROVE x <= y
  <2>1. ~(y < x)
    BY <1>2 DEF OpToRel
  <2> QED
    BY <2>1
<1> QED
  BY <1>3

\* fgets stops at the first newline, a full buffer or the end of the file.
LEMMA LastReadFacts ==
  ASSUME ReaderTypeOK, pos < Len(file)
  PROVE  /\ LastRead \in pos + 1 .. Len(file)
         /\ LastRead - pos <= BufferSize - 1
         /\ \A m \in pos + 1 .. LastRead - 1 : file[m] # "nl"
         /\ LastRead = Len(file) \/ LastRead - pos = BufferSize - 1 \/ file[LastRead] = "nl"
<1> DEFINE Stops == {n \in pos + 1 .. Len(file) :
                      n = Len(file) \/ n - pos = BufferSize - 1 \/ file[n] = "nl"}
<1>1. pos \in Nat /\ Len(file) \in Nat /\ BufferSize \in Nat /\ BufferSize > 2
  BY ReaderAssumption DEF ReaderTypeOK
<1>2. Stops \in SUBSET Nat /\ Len(file) \in Stops
  BY <1>1
<1>3. PICK n \in Stops : \A m \in Stops : n <= m
  BY <1>2, LeastPosition
<1>4. n \in pos + 1 .. Len(file)
  OBVIOUS
<1>5. \A m \in pos + 1 .. n - 1 : m \notin Stops /\ m \in pos + 1 .. Len(file)
  BY <1>1, <1>3, <1>4
<1>6. \A m \in pos + 1 .. n - 1 : file[m] # "nl" /\ m - pos # BufferSize - 1
  BY <1>5
<1>7. n - pos <= BufferSize - 1
  <2>1. CASE n - pos > BufferSize - 1
    <3>1. PICK m \in Nat : m = pos + (BufferSize - 1)
      BY <1>1
    <3>2. m \in pos + 1 .. n - 1 /\ m - pos = BufferSize - 1
      BY <1>1, <1>4, <2>1, <3>1
    <3> QED
      BY <1>6, <3>2
  <2> QED
    BY <1>1, <1>4, <2>1
<1>8. /\ n - pos <= BufferSize - 1
      /\ \A m \in pos + 1 .. n - 1 : file[m] # "nl"
      /\ n = Len(file) \/ n - pos = BufferSize - 1 \/ file[n] = "nl"
  BY <1>3, <1>6, <1>7
<1> HIDE DEF Stops
<1> QED
  BY <1>4, <1>8 DEF LastRead

\* The buffer is the characters fgets read.
LEMMA BufferIs ==
  ASSUME ReaderTypeOK, pos < Len(file)
  PROVE  /\ Buffer \in Seq(Char)
         /\ Len(Buffer) = LastRead - pos
         /\ \A k \in 1 .. LastRead - pos : Buffer[k] = file[pos + k]
<1>1. /\ pos \in Int /\ LastRead \in Int /\ pos + 1 <= LastRead /\ LastRead <= Len(file)
      /\ Len(file) \in Nat /\ pos \in Nat
  BY LastReadFacts DEF ReaderTypeOK
<1>2. \A k \in pos + 1 .. LastRead : file[k] \in Char
  BY <1>1 DEF ReaderTypeOK
<1> HIDE DEF LastRead
<1>3. PICK n \in Int : n = LastRead
  BY <1>1
<1>4. pos + 1 <= n /\ pos + 1 \in Int /\ \A k \in pos + 1 .. n : file[k] \in Char
  BY <1>1, <1>2, <1>3
<1>5. /\ SubSeq(file, pos + 1, n) \in Seq(Char)
      /\ Len(SubSeq(file, pos + 1, n)) = IF pos + 1 <= n THEN n - (pos + 1) + 1 ELSE 0
      /\ \A k \in 1 .. n - (pos + 1) + 1 : SubSeq(file, pos + 1, n)[k] = file[(pos + 1) + k - 1]
  BY <1>4, SubSeqProperties
<1>6. n - (pos + 1) + 1 = n - pos /\ \A k \in 1 .. n - pos : (pos + 1) + k - 1 = pos + k
  BY <1>1
<1> QED
  BY <1>3, <1>4, <1>5, <1>6 DEF Buffer

\* A string that fills the buffer for strlen holds no NUL.
LEMMA CStringFacts ==
  ASSUME NEW s \in Seq(Char)
  PROVE  /\ (\A k \in 1 .. Len(s) : s[k] # "nul") => CString(s) = s
         /\ (\E k \in 1 .. Len(s) : s[k] = "nul") => Len(CString(s)) < Len(s)
<1> DEFINE ends == {n \in 1 .. Len(s) : s[n] = "nul"}
           first == CHOOSE n \in ends : \A m \in ends : n <= m
<1>1. (\A k \in 1 .. Len(s) : s[k] # "nul") => CString(s) = s
  BY DEF CString
<1>2. ASSUME ends # {}
      PROVE  Len(CString(s)) < Len(s)
  <2>1. ends \in SUBSET Nat
    OBVIOUS
  <2>2. \E n \in ends : \A m \in ends : n <= m
    BY <1>2, <2>1, LeastPosition
  <2>3. first \in ends
    BY <2>2
  <2> HIDE DEF first
  <2>4. first \in 1 .. Len(s) /\ Len(s) \in Nat
    BY <2>3
  <2>5. CString(s) = SubSeq(s, 1, first - 1)
    BY <1>2 DEF CString, first
  <2>6. first - 1 \in Int /\ \A k \in 1 .. first - 1 : s[k] \in Char
    BY <2>4
  <2>7. Len(SubSeq(s, 1, first - 1)) = IF 1 <= first - 1 THEN (first - 1) - 1 + 1 ELSE 0
    BY <2>6, SubSeqProperties
  <2> QED
    BY <2>4, <2>5, <2>7
<1> QED
  BY <1>1, <1>2

\* Newlines are counted: one more at a newline, none elsewhere.
LEMMA NewlinesFinite ==
  ASSUME NEW p \in Nat
  PROVE  IsFiniteSet(Newlines(p)) /\ Cardinality(Newlines(p)) \in Nat
<1>1. IsFiniteSet(1 .. p)
  BY FS_Interval
<1>2. Newlines(p) \in SUBSET (1 .. p)
  BY DEF Newlines
<1> QED
  BY <1>1, <1>2, FS_Subset, FS_CardinalityType

\* A newline between two positions puts the second on a later line.
LEMMA LaterLine ==
  ASSUME NEW p \in Nat, NEW q \in Nat, NEW n \in p + 1 .. q, file[n] = "nl"
  PROVE  Cardinality(Newlines(p)) < Cardinality(Newlines(q))
<1>1. Newlines(p) \in SUBSET Newlines(q)
  BY DEF Newlines
<1>2. n \in Newlines(q) /\ n \notin Newlines(p)
  BY DEF Newlines
<1>3. /\ Cardinality(Newlines(p)) <= Cardinality(Newlines(q))
      /\ Cardinality(Newlines(p)) # Cardinality(Newlines(q))
  BY <1>1, <1>2, NewlinesFinite, FS_Subset
<1> QED
  BY <1>3, NewlinesFinite

\* Without a newline between them they are on the same line.
LEMMA SameLine ==
  ASSUME NEW p \in Nat, NEW q \in Nat, p <= q, \A n \in p + 1 .. q : file[n] # "nl"
  PROVE  Newlines(q) = Newlines(p)
BY DEF Newlines

\* The line that follows a newline and ends at the next one, or with the file.
LEMMA LineIs ==
  ASSUME NEW lo \in Nat, NEW hi \in Nat, lo < hi, hi <= Len(file), file \in Seq(Char),
         LineStartsAfter(lo), hi = Len(file) \/ file[hi] = "nl",
         \A m \in lo + 1 .. hi - 1 : file[m] # "nl"
  PROVE  LineAt(lo + 1) = lo + 1 .. hi
<1>0. Len(file) \in Nat
  OBVIOUS
<1> DEFINE N(p) == Cardinality(Newlines(p))
<1>1. \A q \in 1 .. Len(file) : LineOf(q) = 1 + N(q - 1)
  BY DEF LineOf, Newlines
<1>2. LineOf(lo + 1) = 1 + N(lo)
  BY <1>0, <1>1
<1>3. ASSUME NEW q \in 1 .. Len(file)
      PROVE  LineOf(q) = LineOf(lo + 1) <=> q \in lo + 1 .. hi
  <2>. q - 1 \in Nat
    OBVIOUS
  <2>0. q - 1 \in Nat /\ N(q - 1) \in Nat /\ N(lo) \in Nat
    BY NewlinesFinite
  <2>1. CASE q <= lo
    <3>1. lo \in (q - 1) + 1 .. lo /\ file[lo] = "nl"
      BY <2>0, <2>1 DEF LineStartsAfter
    <3>2. N(q - 1) < N(lo)
      BY <2>0, <3>1, LaterLine
    <3> QED
      BY <1>1, <1>2, <2>0, <2>1, <3>2
  <2>2. CASE q \in lo + 1 .. hi
    <3>1. lo <= q - 1 /\ \A n \in lo + 1 .. q - 1 : file[n] # "nl"
      BY <2>0, <2>2
    <3>2. Newlines(q - 1) = Newlines(lo)
      BY <2>0, <3>1, SameLine
    <3> QED
      BY <1>1, <1>2, <2>2, <3>2
  <2>3. CASE hi < q
    <3>1. hi \in lo + 1 .. q - 1 /\ file[hi] = "nl"
      BY <1>0, <2>0, <2>3
    <3>2. N(lo) < N(q - 1)
      BY <2>0, <3>1, LaterLine
    <3> QED
      BY <1>1, <1>2, <2>0, <2>3, <3>2
  <2> QED
    BY <2>1, <2>2, <2>3
<1>4. \A q \in lo + 1 .. hi : q \in 1 .. Len(file)
  BY <1>0
<1> QED
  BY <1>3, <1>4 DEF LineAt

\* Such a line's text is what lies between its ends.
LEMMA TextIs ==
  ASSUME NEW lo \in Nat, NEW hi \in Nat, lo < hi, LineAt(lo + 1) = lo + 1 .. hi
  PROVE  TextOfLine(lo + 1) = StripLineEnding(SubSeq(file, lo + 1, hi))
<1> DEFINE start == CHOOSE q \in lo + 1 .. hi : \A x \in lo + 1 .. hi : q <= x
           end == CHOOSE q \in lo + 1 .. hi : \A x \in lo + 1 .. hi : x <= q
<1>1. start = lo + 1
  <2>1. /\ lo + 1 \in lo + 1 .. hi
        /\ \A x \in lo + 1 .. hi : lo + 1 <= x
    OBVIOUS
  <2> QED
    BY <2>1
<1>2. end = hi
  <2>1. /\ hi \in lo + 1 .. hi
        /\ \A x \in lo + 1 .. hi : x <= hi
    OBVIOUS
  <2> QED
    BY <2>1
<1>3. TextOfLine(lo + 1) = StripLineEnding(SubSeq(file, start, end))
  BY DEF TextOfLine
<1> HIDE DEF start, end
<1> QED
  BY <1>1, <1>2, <1>3

-----------------------------------------------------------------------------
(* One line read.                                                          *)

\* While no NUL was read, a line that fits ends at its newline or the end of
\* the file, so what comes next is the start of a line.
LEMMA WholeLineRead ==
  ASSUME ReaderInv, ReadLine, ~TooLong(CString(Buffer)), state = "reading",
         \A q \in 1 .. LastRead : file[q] # "nul"
  PROVE  /\ CString(Buffer) = SubSeq(file, pos + 1, LastRead)
         /\ LastRead = Len(file) \/ file[LastRead] = "nl"
         /\ LineStartsAfter(pos) /\ count = Cardinality(Newlines(pos))
<1>1. /\ ReaderTypeOK /\ pos < Len(file) /\ pos \in Nat /\ Len(file) \in Nat
      /\ BufferSize \in Nat
  BY ReaderAssumption DEF ReaderInv, ReaderTypeOK, ReadLine
<1>2. /\ LastRead \in pos + 1 .. Len(file)
      /\ LastRead = Len(file) \/ LastRead - pos = BufferSize - 1 \/ file[LastRead] = "nl"
  BY <1>1, LastReadFacts
<1>3. /\ Buffer \in Seq(Char) /\ Len(Buffer) = LastRead - pos
      /\ \A k \in 1 .. LastRead - pos : Buffer[k] = file[pos + k]
  BY <1>1, BufferIs
<1>4. PICK n \in Nat : n = LastRead
  BY <1>1, <1>2
<1>5. /\ n \in pos + 1 .. Len(file) /\ Len(Buffer) = n - pos
      /\ \A k \in 1 .. n - pos : Buffer[k] = file[pos + k]
      /\ n = Len(file) \/ n - pos = BufferSize - 1 \/ file[n] = "nl"
      /\ \A q \in 1 .. n : file[q] # "nul"
  BY <1>2, <1>3, <1>4
<1>6. \A k \in 1 .. Len(Buffer) : pos + k \in 1 .. n
  BY <1>1, <1>5
<1>7. \A k \in 1 .. Len(Buffer) : Buffer[k] # "nul"
  BY <1>5, <1>6
<1>8. CString(Buffer) = Buffer
  BY <1>3, <1>7, CStringFacts
<1>9. n - pos \in 1 .. n - pos /\ pos + (n - pos) = n
  BY <1>1, <1>5
<1>10. Buffer[n - pos] = file[n]
  BY <1>5, <1>9
<1>11. n = Len(file) \/ file[n] = "nl"
  BY <1>5, <1>8, <1>10 DEF TooLong
<1>12. \A q \in 1 .. pos : q \in 1 .. n
  BY <1>1, <1>5
<1>13. NoNulBefore(pos)
  BY <1>5, <1>12 DEF NoNulBefore
<1>14. LineStartsAfter(pos) /\ count = Cardinality(Newlines(pos))
  BY <1>1, <1>13 DEF ReaderInv, AtLineStart
<1> QED
  BY <1>4, <1>8, <1>11, <1>14 DEF Buffer

\* A line that is not refused leaves the reader at the start of the next one.
LEMMA FitsKeepsLineStart ==
  ASSUME ReaderInv, ReadLine, ~TooLong(CString(Buffer)), state = "reading"
  PROVE  AtLineStart'
<1> SUFFICES ASSUME LastRead < Len(file), \A q \in 1 .. LastRead : file[q] # "nul"
             PROVE  /\ LineStartsAfter(LastRead)
                    /\ count + 1 = Cardinality(Newlines(LastRead))
  BY DEF AtLineStart, ReadLine, NoNulBefore, LineStartsAfter, Newlines
<1>1. ReaderTypeOK /\ pos < Len(file) /\ pos \in Nat /\ Len(file) \in Nat
  BY DEF ReaderInv, ReaderTypeOK, ReadLine
<1>2. /\ LastRead \in pos + 1 .. Len(file)
      /\ \A m \in pos + 1 .. LastRead - 1 : file[m] # "nl"
  BY <1>1, LastReadFacts
<1>3. /\ LastRead = Len(file) \/ file[LastRead] = "nl"
      /\ count = Cardinality(Newlines(pos))
  BY WholeLineRead
<1>4. PICK n \in Nat : n = LastRead
  BY <1>1, <1>2
<1>5. /\ n \in pos + 1 .. Len(file) /\ file[n] = "nl"
      /\ \A m \in pos + 1 .. n - 1 : file[m] # "nl"
  BY <1>1, <1>2, <1>3, <1>4
<1>6. Newlines(n) = Newlines(pos) \cup {n} /\ n \notin Newlines(pos)
  BY <1>1, <1>5 DEF Newlines
<1>7. IsFiniteSet(Newlines(pos))
  BY <1>1, NewlinesFinite
<1>8. Cardinality(Newlines(n)) = Cardinality(Newlines(pos)) + 1
  BY <1>6, <1>7, FS_AddElement
<1> QED
  BY <1>3, <1>4, <1>5, <1>8 DEF LineStartsAfter

\* The record found is the whole line the reader stood at.
LEMMA HandedIsWhole ==
  ASSUME ReaderInv, HandRecord, \A q \in 1 .. LastRead : file[q] # "nul"
  PROVE  /\ count + 1 = LineOf(pos + 1)
         /\ pos + 1 = 1 \/ file[(pos + 1) - 1] = "nl"
         /\ Stripped = TextOfLine(pos + 1)
<1>1. /\ ReadLine /\ ~TooLong(CString(Buffer)) /\ state = "reading"
      /\ ReaderTypeOK /\ pos < Len(file) /\ pos \in Nat /\ Len(file) \in Nat
      /\ file \in Seq(Char) /\ count \in Nat
  BY DEF ReaderInv, ReaderTypeOK, HandRecord, ReadLine
<1>2. /\ LastRead \in pos + 1 .. Len(file)
      /\ \A m \in pos + 1 .. LastRead - 1 : file[m] # "nl"
  BY <1>1, LastReadFacts
<1>3. /\ CString(Buffer) = SubSeq(file, pos + 1, LastRead)
      /\ LastRead = Len(file) \/ file[LastRead] = "nl"
      /\ LineStartsAfter(pos) /\ count = Cardinality(Newlines(pos))
  BY <1>1, WholeLineRead
<1>4. PICK n \in Nat : n = LastRead
  BY <1>1, <1>2
<1>5. /\ pos < n /\ n <= Len(file)
      /\ n = Len(file) \/ file[n] = "nl"
      /\ \A m \in pos + 1 .. n - 1 : file[m] # "nl"
  BY <1>1, <1>2, <1>3, <1>4
<1>6. LineAt(pos + 1) = pos + 1 .. n
  BY <1>1, <1>3, <1>5, LineIs
<1>7. TextOfLine(pos + 1) = StripLineEnding(SubSeq(file, pos + 1, n))
  BY <1>1, <1>5, <1>6, TextIs
<1>8. (pos + 1) - 1 = pos
  BY <1>1
<1>9. LineOf(pos + 1) = 1 + Cardinality(Newlines(pos))
  BY <1>8 DEF LineOf, Newlines
<1>10. Cardinality(Newlines(pos)) \in Nat
  BY <1>1, NewlinesFinite
<1> QED
  BY <1>1, <1>3, <1>4, <1>7, <1>8, <1>9, <1>10 DEF Stripped, LineStartsAfter

-----------------------------------------------------------------------------
(* The steps.                                                              *)

\* What is said of a record depends on nothing but the file and the record.
LineIn(f, p) == 1 + Cardinality({q \in 1 .. p - 1 : f[q] = "nl"})

AtIn(f, p) == {q \in 1 .. Len(f) : LineIn(f, q) = LineIn(f, p)}

TextIn(f, p) ==
  LET start == CHOOSE q \in AtIn(f, p) : \A x \in AtIn(f, p) : q <= x
      end == CHOOSE q \in AtIn(f, p) : \A x \in AtIn(f, p) : x <= q
  IN  StripLineEnding(SubSeq(f, start, end))

Whole(f, h) ==
  /\ h.line = LineIn(f, h.from)
  /\ h.from = 1 \/ f[h.from - 1] = "nl"
  /\ h.text = TextIn(f, h.from)

AllWhole(f, p, hs) ==
  \A n \in 1 .. Len(hs) : (\A q \in 1 .. p : f[q] # "nul") => Whole(f, hs[n])

LEMMA WholeIsOfTheFile ==
  /\ RecordsAreWholeLines <=> AllWhole(file, pos, handed)
  /\ RecordsAreWholeLines' <=> AllWhole(file', pos', handed')
<1>1. RecordsAreWholeLines <=> AllWhole(file, pos, handed)
  BY DEF RecordsAreWholeLines, AllWhole, Whole, LineIn, AtIn, TextIn, LineOf, LineAt, TextOfLine,
         NoNulBefore
<1>2. RecordsAreWholeLines' <=> AllWhole(file', pos', handed')
  BY DEF RecordsAreWholeLines, AllWhole, Whole, LineIn, AtIn, TextIn, LineOf, LineAt, TextOfLine,
         NoNulBefore
<1> QED
  BY <1>1, <1>2

\* What was handed on before stays a record of a whole line.
LEMMA HandedStaysWhole ==
  ASSUME ReaderInv, file' = file, handed' = handed, pos' \in Nat, pos <= pos'
  PROVE  RecordsAreWholeLines'
<1>1. pos \in Nat /\ AllWhole(file, pos, handed)
  BY WholeIsOfTheFile DEF ReaderInv, ReaderTypeOK
<1>2. (\A q \in 1 .. pos' : file[q] # "nul") => \A q \in 1 .. pos : file[q] # "nul"
  BY <1>1
<1>3. AllWhole(file, pos', handed)
  BY <1>1, <1>2 DEF AllWhole
<1> QED
  BY <1>3, WholeIsOfTheFile

\* Reading a line moves forward inside the file.
LEMMA ReadLineMoves ==
  ASSUME ReaderTypeOK, ReadLine
  PROVE  /\ file' = file /\ file' \in Seq(Char)
         /\ pos' = LastRead /\ pos' \in 0 .. Len(file') /\ pos' \in Nat /\ pos <= pos'
         /\ count' \in Nat
<1>1. pos < Len(file) /\ pos \in Nat /\ Len(file) \in Nat
  BY DEF ReaderTypeOK, ReadLine
<1>2. LastRead \in pos + 1 .. Len(file)
  BY <1>1, LastReadFacts
<1>3. file' = file /\ pos' = LastRead /\ count' = count + 1
  BY DEF ReadLine
<1>4. PICK n \in Nat : n = LastRead
  BY <1>1, <1>2
<1>5. n \in pos + 1 .. Len(file)
  BY <1>2, <1>4
<1>6. n \in 0 .. Len(file) /\ pos <= n
  BY <1>1, <1>5
<1> QED
  BY <1>3, <1>4, <1>6 DEF ReaderTypeOK

LEMMA RefuseLongKeepsInv ==
  ASSUME ReaderInv, RefuseLong
  PROVE  ReaderInv'
<1>1. ReaderTypeOK /\ ReadLine /\ TooLong(CString(Buffer)) /\ state' = "long" /\ handed' = handed
  BY DEF RefuseLong, ReaderInv
<1>2. /\ file' = file /\ file' \in Seq(Char)
      /\ pos' = LastRead /\ pos' \in 0 .. Len(file') /\ pos' \in Nat /\ pos <= pos'
      /\ count' \in Nat
  BY <1>1, ReadLineMoves
<1>3. /\ pos < Len(file) /\ pos \in Nat /\ Len(file) \in Nat
      /\ BufferSize \in Nat /\ BufferSize > 2
  BY <1>1, ReaderAssumption DEF ReaderTypeOK, ReadLine
<1>4. /\ LastRead - pos <= BufferSize - 1
      /\ \A m \in pos + 1 .. LastRead - 1 : file[m] # "nl"
  BY <1>1, <1>3, LastReadFacts
<1>5. /\ Buffer \in Seq(Char) /\ Len(Buffer) = LastRead - pos
      /\ \A k \in 1 .. LastRead - pos : Buffer[k] = file[pos + k]
  BY <1>1, <1>3, BufferIs
<1>6. PICK n \in Nat : n = LastRead
  BY <1>2
<1>7. CString(Buffer) = Buffer /\ n - pos = BufferSize - 1
  <2>1. Len(CString(Buffer)) = BufferSize - 1
    BY <1>1 DEF TooLong
  <2>2. Len(Buffer) <= BufferSize - 1 /\ Len(Buffer) \in Nat
    BY <1>4, <1>5
  <2>3. ~(Len(CString(Buffer)) < Len(Buffer))
    BY <1>3, <2>1, <2>2
  <2>4. CString(Buffer) = Buffer
    BY <1>5, <2>3, CStringFacts
  <2> QED
    BY <1>5, <1>6, <2>1, <2>4
<1>8. file[n] # "nl"
  <2>1. n - pos \in 1 .. n - pos /\ pos + (n - pos) = n
    BY <1>3, <1>7
  <2>2. Buffer[n - pos] = file[n]
    BY <1>5, <1>6, <2>1
  <2> QED
    BY <1>1, <1>5, <1>6, <1>7, <2>2 DEF TooLong
<1>9. \A q \in n - BufferSize + 2 .. n : file[q] # "nl"
  <2>1. n - BufferSize + 2 = pos + 1
    BY <1>3, <1>7
  <2>2. \A q \in pos + 1 .. n : q = n \/ q \in pos + 1 .. n - 1
    BY <1>3
  <2> QED
    BY <1>4, <1>6, <1>8, <2>1, <2>2
<1>10. RefusedBuffer'
  BY <1>1, <1>2, <1>3, <1>6, <1>7, <1>9 DEF RefusedBuffer
<1>11. AtLineStart'
  BY <1>1 DEF AtLineStart
<1>12. ReaderTypeOK'
  BY <1>1, <1>2 DEF ReaderTypeOK
<1>13. RecordsAreWholeLines'
  BY <1>1, <1>2, HandedStaysWhole
<1> QED
  BY <1>10, <1>11, <1>12, <1>13 DEF ReaderInv

LEMMA SkipBlankKeepsInv ==
  ASSUME ReaderInv, SkipBlank
  PROVE  ReaderInv'
<1>1. /\ ReaderTypeOK /\ ReadLine /\ ~TooLong(CString(Buffer)) /\ state = "reading"
      /\ state' = state /\ handed' = handed
  BY DEF SkipBlank, ReaderInv, ReadLine
<1>2. /\ file' = file /\ file' \in Seq(Char) /\ pos' \in 0 .. Len(file')
      /\ pos' \in Nat /\ pos <= pos' /\ count' \in Nat
  BY <1>1, ReadLineMoves
<1>3. AtLineStart'
  BY <1>1, FitsKeepsLineStart
<1>4. RecordsAreWholeLines'
  BY <1>1, <1>2, HandedStaysWhole
<1> QED
  BY <1>1, <1>2, <1>3, <1>4 DEF ReaderInv, ReaderTypeOK, RefusedBuffer

LEMMA RefuseGarbledKeepsInv ==
  ASSUME ReaderInv, RefuseGarbled
  PROVE  ReaderInv'
<1>1. /\ ReaderTypeOK /\ ReadLine /\ state' = "garbled" /\ handed' = handed
  BY DEF RefuseGarbled, ReaderInv
<1>2. /\ file' = file /\ file' \in Seq(Char) /\ pos' \in 0 .. Len(file')
      /\ pos' \in Nat /\ pos <= pos' /\ count' \in Nat
  BY <1>1, ReadLineMoves
<1>3. RecordsAreWholeLines'
  BY <1>1, <1>2, HandedStaysWhole
<1> QED
  BY <1>1, <1>2, <1>3 DEF ReaderInv, ReaderTypeOK, RefusedBuffer, AtLineStart

LEMMA HandRecordKeepsInv ==
  ASSUME ReaderInv, HandRecord
  PROVE  ReaderInv'
<1> DEFINE h == [text |-> Stripped, from |-> pos + 1, line |-> count + 1]
<1>1. /\ ReaderTypeOK /\ ReadLine /\ ~TooLong(CString(Buffer)) /\ state = "reading"
      /\ state' = state /\ handed' = Append(handed, h) /\ RecordsAreWholeLines
  BY DEF HandRecord, ReaderInv, ReadLine
<1>2. /\ file' = file /\ file' \in Seq(Char) /\ pos' \in 0 .. Len(file') /\ pos' = LastRead
      /\ pos' \in Nat /\ pos <= pos' /\ count' \in Nat
  BY <1>1, ReadLineMoves
<1>3. AtLineStart'
  BY <1>1, FitsKeepsLineStart
<1>4. ASSUME \A q \in 1 .. pos' : file[q] # "nul"
      PROVE  Whole(file, h)
  <2>1. \A q \in 1 .. LastRead : file[q] # "nul"
    BY <1>2, <1>4
  <2>2. /\ count + 1 = LineOf(pos + 1)
        /\ pos + 1 = 1 \/ file[(pos + 1) - 1] = "nl"
        /\ Stripped = TextOfLine(pos + 1)
    BY <2>1, HandedIsWhole
  <2>3. LineOf(pos + 1) = LineIn(file, pos + 1) /\ TextOfLine(pos + 1) = TextIn(file, pos + 1)
    BY DEF LineOf, LineAt, TextOfLine, LineIn, AtIn, TextIn
  <2>4. h.line = count + 1 /\ h.from = pos + 1 /\ h.text = Stripped
    OBVIOUS
  <2> HIDE DEF h
  <2> QED
    BY <2>2, <2>3, <2>4 DEF Whole
<1>5. PICK S : handed \in Seq(S)
  BY <1>1 DEF ReaderTypeOK
<1> HIDE DEF h
<1>6. /\ handed' \in Seq(S \cup {h}) /\ Len(handed') = Len(handed) + 1 /\ Len(handed) \in Nat
      /\ \A n \in 1 .. Len(handed) : handed'[n] = handed[n]
      /\ handed'[Len(handed) + 1] = h
  BY <1>1, <1>5
<1>7. /\ AllWhole(file, pos, handed)
      /\ (\A q \in 1 .. pos' : file[q] # "nul") => \A q \in 1 .. pos : file[q] # "nul"
  BY <1>1, <1>2, WholeIsOfTheFile DEF ReaderTypeOK
<1>8. \A n \in 1 .. Len(handed') : n \in 1 .. Len(handed) \/ n = Len(handed) + 1
  BY <1>6
<1>9. RecordsAreWholeLines'
  <2> SUFFICES ASSUME NEW n \in 1 .. Len(handed'), \A q \in 1 .. pos' : file[q] # "nul"
               PROVE  Whole(file, handed'[n])
    BY <1>2, WholeIsOfTheFile DEF AllWhole
  <2>1. CASE n \in 1 .. Len(handed)
    <3>1. handed'[n] = handed[n] /\ \A q \in 1 .. pos : file[q] # "nul"
      BY <1>6, <1>7, <2>1
    <3> QED
      BY <1>7, <2>1, <3>1 DEF AllWhole
  <2>2. CASE n = Len(handed) + 1
    BY <1>4, <1>6, <2>2
  <2> QED
    BY <1>8, <2>1, <2>2
<1>10. ReaderTypeOK'
  BY <1>2, <1>6 DEF ReaderTypeOK
<1> QED
  BY <1>1, <1>3, <1>9, <1>10 DEF ReaderInv, RefusedBuffer

LEMMA StopKeepsInv ==
  ASSUME ReaderInv, ReadError \/ EndOfFile
  PROVE  ReaderInv'
<1>1. /\ UNCHANGED <<file, pos, count, handed>> /\ state' \in {"error", "end"}
      /\ ReaderTypeOK /\ pos \in Nat
  BY DEF ReadError, EndOfFile, ReaderInv, ReaderTypeOK
<1>2. RecordsAreWholeLines'
  BY <1>1, HandedStaysWhole
<1> QED
  BY <1>1, <1>2 DEF ReaderInv, ReaderTypeOK, AtLineStart, RefusedBuffer

LEMMA InitialReader == Init => ReaderInv
<1> SUFFICES ASSUME Init PROVE ReaderInv
  OBVIOUS
<1>1. file \in Seq(Char) /\ pos = 0 /\ count = 0 /\ state = "reading" /\ handed = <<>>
  BY ReaderAssumption DEF Init
<1>2. ReaderTypeOK
  BY <1>1 DEF ReaderTypeOK
<1>3. Newlines(0) = {}
  BY DEF Newlines
<1>4. AtLineStart
  BY <1>1, <1>3, FS_EmptySet DEF AtLineStart, LineStartsAfter
<1> QED
  BY <1>1, <1>2, <1>4 DEF ReaderInv, RefusedBuffer, RecordsAreWholeLines

LEMMA ReaderInvariance == Spec => []ReaderInv
<1>1. ReaderInv /\ [Next]_vars => ReaderInv'
  <2> SUFFICES ASSUME ReaderInv, [Next]_vars PROVE ReaderInv'
    OBVIOUS
  <2>1. CASE RefuseLong
    BY <2>1, RefuseLongKeepsInv
  <2>2. CASE SkipBlank
    BY <2>2, SkipBlankKeepsInv
  <2>3. CASE RefuseGarbled
    BY <2>3, RefuseGarbledKeepsInv
  <2>4. CASE HandRecord
    BY <2>4, HandRecordKeepsInv
  <2>5. CASE ReadError \/ EndOfFile
    BY <2>5, StopKeepsInv
  <2>6. CASE UNCHANGED vars
    <3>1. UNCHANGED <<file, pos, count, state, handed>>
      BY <2>6 DEF vars
    <3>2. RecordsAreWholeLines'
      BY <3>1, WholeIsOfTheFile DEF ReaderInv
    <3>3. AtLineStart'
      BY <3>1 DEF ReaderInv, AtLineStart, NoNulBefore, LineStartsAfter, Newlines
    <3> QED
      BY <3>1, <3>2, <3>3 DEF ReaderInv, ReaderTypeOK, RefusedBuffer
  <2> QED
    BY <2>1, <2>2, <2>3, <2>4, <2>5, <2>6 DEF Next
<1> QED
  BY InitialReader, <1>1, PTL DEF Spec

-----------------------------------------------------------------------------
(* The theorems.                                                           *)

\* A full buffer without a newline lies on one line.
LEMMA LongLineIsLong == ReaderInv => LongLinesAreLong
<1> SUFFICES ASSUME ReaderInv, state = "long"
             PROVE  Cardinality({p \in LineAt(pos) : file[p] # "nl"}) >= BufferSize - 1
  BY DEF LongLinesAreLong
<1>1. /\ pos \in Nat /\ Len(file) \in Nat /\ pos <= Len(file)
      /\ BufferSize \in Nat /\ BufferSize > 2 /\ pos >= BufferSize - 1
      /\ \A q \in pos - BufferSize + 2 .. pos : file[q] # "nl"
  BY ReaderAssumption DEF ReaderInv, ReaderTypeOK, RefusedBuffer
<1>2. PICK low \in Nat : low = pos - (BufferSize - 1)
  BY <1>1
<1>3. /\ low < pos /\ \A q \in low + 1 .. pos : file[q] # "nl"
      /\ low + 1 = pos - BufferSize + 2 /\ pos - (low + 1) + 1 = BufferSize - 1
  BY <1>1, <1>2
<1> DEFINE Line == {p \in LineAt(pos) : file[p] # "nl"}
<1>4. \A q \in low + 1 .. pos : q \in Line
  <2> SUFFICES ASSUME NEW q \in low + 1 .. pos PROVE q \in LineAt(pos)
    BY <1>3
  <2>0. q - 1 \in Nat /\ pos - 1 \in Nat /\ low <= q - 1 /\ low <= pos - 1
        /\ q \in 1 .. Len(file)
    BY <1>1, <1>3
  <2>1. /\ \A n \in low + 1 .. q - 1 : file[n] # "nl"
        /\ \A n \in low + 1 .. pos - 1 : file[n] # "nl"
    BY <1>1, <1>3, <2>0
  <2>2. Newlines(q - 1) = Newlines(low)
    BY <2>0, <2>1, SameLine
  <2>3. Newlines(pos - 1) = Newlines(low)
    BY <2>0, <2>1, SameLine
  <2>4. LineOf(q) = LineOf(pos)
    BY <2>2, <2>3 DEF LineOf, Newlines
  <2> QED
    BY <2>0, <2>4 DEF LineAt
<1>5. IsFiniteSet(Line)
  <2>1. IsFiniteSet(1 .. Len(file))
    BY <1>1, FS_Interval
  <2>2. Line \in SUBSET (1 .. Len(file))
    BY DEF LineAt
  <2> QED
    BY <2>1, <2>2, FS_Subset
<1> HIDE DEF Line
<1>6. (low + 1 .. pos) \in SUBSET Line
  BY <1>4
<1>7. Cardinality(low + 1 .. pos) = BufferSize - 1
  <2>1. PICK from \in Nat : from = low + 1
    OBVIOUS
  <2>2. Cardinality(from .. pos) = IF from > pos THEN 0 ELSE pos - from + 1
    BY <1>1, FS_Interval
  <2> QED
    BY <1>1, <1>3, <2>1, <2>2
<1>8. Cardinality(low + 1 .. pos) <= Cardinality(Line) /\ Cardinality(Line) \in Nat
  BY <1>5, <1>6, FS_Subset, FS_CardinalityType
<1>9. Cardinality(Line) >= BufferSize - 1
  BY <1>1, <1>7, <1>8
<1> QED
  BY <1>9 DEF Line

\* In a file without NUL every record handed on is a whole line of the file and
\* carries its line number (hex_parser.c:135, 149-158).
THEOREM RecordsAlwaysWholeLines == Spec => []RecordsAreWholeLines
BY ReaderInvariance, PTL DEF ReaderInv

\* A line that leaves room for its newline in the buffer is never refused as too
\* long, whatever the file (hex_parser.c:152).
THEOREM OnlyLongLinesRefused == Spec => []LongLinesAreLong
BY ReaderInvariance, LongLineIsLong, PTL

-----------------------------------------------------------------------------
(* The command line: which arguments are values.                           *)
(*                                                                         *)
(* IsValue recurses over the list; EndsOddRun is a solution of its         *)
(* recursion, so that its equation may be used, and two lists that agree   *)
(* up to a place have the same values up to there.                         *)

SeparateAt(a, p) == a[p].kind \in Separate

\* The recursion of IsValue over a list a.
Values(f, a) == f = [p \in Nat |-> p > 1 /\ ~f[p - 1] /\ SeparateAt(a, p - 1)]

\* The run of separate options just before p begins at s.
RunStart(a, s, p) ==
  /\ s \in 1 .. p
  /\ \A n \in s .. p - 1 : SeparateAt(a, n)
  /\ s = 1 \/ ~SeparateAt(a, s - 1)

\* Every other argument of a run is an option; what follows an odd number of
\* them is a value.
EndsOddRun(a, p) == \E s \in 1 .. p : RunStart(a, s, p) /\ (p - s) % 2 = 1

LEMMA RunStarts ==
  ASSUME NEW a, NEW p \in Nat, p > 0
  PROVE  \E s \in 1 .. p : RunStart(a, s, p)
<1> DEFINE S == {s \in 1 .. p : \A n \in s .. p - 1 : SeparateAt(a, n)}
<1>1. S \in SUBSET Nat /\ p \in S
  OBVIOUS
<1>2. PICK s \in S : \A y \in S : s <= y
  <2> HIDE DEF S
  <2> QED
    BY <1>1, LeastPosition
<1>3. s \in 1 .. p /\ \A n \in s .. p - 1 : SeparateAt(a, n)
  BY <1>2
<1>4. s = 1 \/ ~SeparateAt(a, s - 1)
  <2> SUFFICES ASSUME s # 1, SeparateAt(a, s - 1) PROVE FALSE
    OBVIOUS
  <2>1. s - 1 \in 1 .. p /\ \A n \in s - 1 .. p - 1 : n = s - 1 \/ n \in s .. p - 1
    BY <1>3
  <2>2. s - 1 \in S
    BY <1>3, <2>1
  <2> QED
    BY <1>2, <1>3, <2>2
<1> QED
  BY <1>3, <1>4 DEF RunStart

LEMMA OneRunStart ==
  ASSUME NEW a, NEW p \in Nat, NEW s, RunStart(a, s, p), NEW t, RunStart(a, t, p)
  PROVE  s = t
<1>1. s \in 1 .. p /\ t \in 1 .. p
  BY DEF RunStart
<1>2. ~(s < t)
  <2> SUFFICES ASSUME s < t PROVE FALSE
    OBVIOUS
  <2>1. t - 1 \in s .. p - 1 /\ t # 1
    BY <1>1
  <2> QED
    BY <2>1 DEF RunStart
<1>3. ~(t < s)
  <2> SUFFICES ASSUME t < s PROVE FALSE
    OBVIOUS
  <2>1. s - 1 \in t .. p - 1 /\ s # 1
    BY <1>1
  <2> QED
    BY <2>1 DEF RunStart
<1> QED
  BY <1>1, <1>2, <1>3

\* A run goes on through a separate option and is empty after anything else.
LEMMA RunGoesOn ==
  ASSUME NEW a, NEW p \in Nat, p > 1
  PROVE  EndsOddRun(a, p) <=> ~EndsOddRun(a, p - 1) /\ SeparateAt(a, p - 1)
<1>1. CASE ~SeparateAt(a, p - 1)
  <2>1. RunStart(a, p, p)
    BY <1>1 DEF RunStart
  <2>2. \A s \in 1 .. p : RunStart(a, s, p) => s = p
    BY <2>1, OneRunStart
  <2>3. (p - p) % 2 = 0
    OBVIOUS
  <2> QED
    BY <1>1, <2>2, <2>3 DEF EndsOddRun
<1>2. CASE SeparateAt(a, p - 1)
  <2>0. p - 1 \in Nat /\ p - 1 > 0
    OBVIOUS
  <2>1. PICK s \in 1 .. p - 1 : RunStart(a, s, p - 1)
    BY <2>0, RunStarts
  <2>2. RunStart(a, s, p)
    <3>1. \A n \in s .. p - 1 : n \in s .. (p - 1) - 1 \/ n = p - 1
      BY <2>1
    <3> QED
      BY <1>2, <2>1, <3>1 DEF RunStart
  <2>3. EndsOddRun(a, p) <=> (p - s) % 2 = 1
    <3>1. \A t \in 1 .. p : RunStart(a, t, p) => t = s
      BY <2>2, OneRunStart
    <3>2. s \in 1 .. p
      BY <2>1
    <3> QED
      BY <2>2, <3>1, <3>2 DEF EndsOddRun
  <2>4. EndsOddRun(a, p - 1) <=> ((p - 1) - s) % 2 = 1
    <3>1. \A t \in 1 .. p - 1 : RunStart(a, t, p - 1) => t = s
      BY <2>0, <2>1, OneRunStart
    <3> QED
      BY <2>1, <3>1 DEF EndsOddRun
  <2>5. (p - s) % 2 = 1 <=> ~(((p - 1) - s) % 2 = 1)
    <3>1. s \in Nat /\ p - s \in Nat /\ (p - 1) - s \in Nat
      BY <2>1
    <3> QED
      BY <3>1
  <2> QED
    BY <1>2, <2>3, <2>4, <2>5
<1> QED
  BY <1>1, <1>2

LEMMA ValuesExist ==
  ASSUME NEW a
  PROVE  \E f : Values(f, a)
<1> DEFINE f == [p \in Nat |-> EndsOddRun(a, p)]
<1>1. ASSUME NEW p \in Nat
      PROVE  EndsOddRun(a, p) <=> p > 1 /\ ~f[p - 1] /\ SeparateAt(a, p - 1)
  <2>1. CASE p > 1
    <3>1. p - 1 \in Nat
      BY <2>1
    <3>2. f[p - 1] = EndsOddRun(a, p - 1)
      BY <3>1, Zenon
    <3> QED
      BY <2>1, <3>2, RunGoesOn, Zenon
  <2>2. CASE ~(p > 1)
    <3>1. \A s \in 1 .. p : (p - s) % 2 = 0
      <4>1. \A s \in 1 .. p : p - s = 0
        BY <2>2
      <4> QED
        BY <4>1
    <3> QED
      BY <2>2, <3>1 DEF EndsOddRun
  <2> QED
    BY <2>1, <2>2
<1>2. f = [p \in Nat |-> p > 1 /\ ~f[p - 1] /\ SeparateAt(a, p - 1)]
  <2>1. \A p \in Nat : EndsOddRun(a, p) = (p > 1 /\ ~f[p - 1] /\ SeparateAt(a, p - 1))
    <3>1. \A p \in Nat : EndsOddRun(a, p) \in BOOLEAN
      BY DEF EndsOddRun
    <3> HIDE DEF f
    <3> QED
      BY <1>1, <3>1
  <2> QED
    BY <2>1, Zenon
<1> QED
  BY <1>2, Zenon DEF Values

LEMMA IsValueSolves == Values(IsValue, argv)
<1> DEFINE Solves(f) == f = [p \in Nat |-> p > 1 /\ ~f[p - 1] /\ argv[p - 1].kind \in Separate]
<1>1. \A f : Solves(f) <=> Values(f, argv)
  BY Zenon DEF Values, SeparateAt
<1>2. \E f : Solves(f)
  BY <1>1, ValuesExist, Zenon
<1>3. IsValue = CHOOSE f : Solves(f)
  BY Zenon DEF IsValue
<1>4. Solves(CHOOSE f : Solves(f))
  <2> HIDE DEF Solves
  <2> QED
    BY <1>2, Zenon
<1> QED
  BY <1>1, <1>3, <1>4, Zenon

\* Two lists that agree on their first n arguments have the same values among
\* the first n + 1.
LEMMA SameValues ==
  ASSUME NEW f, NEW g, NEW a, NEW b, Values(f, a), Values(g, b), NEW n \in Nat,
         \A p \in 1 .. n : a[p] = b[p]
  PROVE  \A p \in 0 .. n + 1 : f[p] <=> g[p]
<1> DEFINE S == {p \in 0 .. n + 1 : ~(f[p] <=> g[p])}
<1>1. \A p \in Nat : /\ f[p] <=> p > 1 /\ ~f[p - 1] /\ SeparateAt(a, p - 1)
                     /\ g[p] <=> p > 1 /\ ~g[p - 1] /\ SeparateAt(b, p - 1)
  BY Zenon DEF Values
<1> SUFFICES ASSUME S # {} PROVE FALSE
  OBVIOUS
<1>2. PICK k \in S : \A y \in S : k <= y
  <2>1. S \in SUBSET Nat
    OBVIOUS
  <2> HIDE DEF S
  <2> QED
    BY <2>1, LeastPosition
<1>3. k \in 0 .. n + 1 /\ ~(f[k] <=> g[k])
  BY <1>2
<1>4. k > 1
  BY <1>1, <1>3
<1>5. k - 1 \in 1 .. n /\ k - 1 \in 0 .. n + 1 /\ ~(k <= k - 1)
  BY <1>3, <1>4
<1>6. f[k - 1] <=> g[k - 1]
  BY <1>2, <1>5
<1>7. SeparateAt(a, k - 1) <=> SeparateAt(b, k - 1)
  BY <1>5 DEF SeparateAt
<1> QED
  BY <1>1, <1>3, <1>6, <1>7

\* The walk stands at an argument that is not a value.
Standing == ~IsValue[Len(argv) + 1]

\* What one step reads: an argument, or a separate option and its value.
Step(args) ==
  \/ \E x \in Args : args = <<x>>
  \/ \E x \in Args, v \in Args : args = <<x, v>> /\ x.kind \in Separate

ReadOf(args) == args \in Seq(Args) /\ Step(args) /\ argv' = argv \o args

LEMMA ArgvGrows ==
  ASSUME argv \in Seq(Args), NEW args, ReadOf(args)
  PROVE  /\ argv' \in Seq(Args)
         /\ Len(argv) \in Nat /\ Len(argv') = Len(argv) + Len(args)
         /\ Len(args) \in {1, 2}
         /\ \A p \in 1 .. Len(argv) : argv'[p] = argv[p]
         /\ argv'[Len(argv) + 1] = args[1] /\ args[1] \in Args
         /\ Len(args) = 2 => /\ argv'[Len(argv) + 2] = args[2] /\ args[2] \in Args
                             /\ args[1].kind \in Separate
<1>1. Len(argv) \in Nat
  BY LenProperties
<1>2. /\ Len(args) \in {1, 2} /\ args[1] \in Args
      /\ Len(args) = 2 => args[2] \in Args /\ args[1].kind \in Separate
  BY DEF ReadOf, Step
<1>3. /\ argv' \in Seq(Args) /\ Len(argv') = Len(argv) + Len(args)
      /\ \A p \in 1 .. Len(argv) + Len(args) :
           argv'[p] = IF p <= Len(argv) THEN argv[p] ELSE args[p - Len(argv)]
  BY ConcatProperties DEF ReadOf
<1>4. argv'[Len(argv) + 1] = args[1]
  BY <1>1, <1>2, <1>3
<1>5. Len(args) = 2 => argv'[Len(argv) + 2] = args[2]
  BY <1>1, <1>2, <1>3
<1> QED
  BY <1>1, <1>2, <1>3, <1>4, <1>5

\* A step adds one head, the argument it starts with, and stands at a head
\* again unless that is a separate option without its value.
LEMMA HeadsGrow ==
  ASSUME argv \in Seq(Args), Standing, NEW args, ReadOf(args)
  PROVE  /\ Heads' = Heads \cup {Len(argv) + 1}
         /\ (args[1].kind \in Separate => Len(args) = 2) => Standing'
<1> DEFINE n == Len(argv)
<1>1. /\ n \in Nat /\ Len(argv') = n + Len(args) /\ Len(args) \in {1, 2}
      /\ \A p \in 1 .. n : argv'[p] = argv[p]
      /\ argv'[n + 1] = args[1]
      /\ Len(args) = 2 => args[1].kind \in Separate
  BY ArgvGrows
<1>2. Values(IsValue, argv) /\ Values(IsValue', argv')
  <2>1. Values(IsValue, argv)'
    BY IsValueSolves, PTL
  <2> QED
    BY <2>1, IsValueSolves DEF Values, SeparateAt
<1>3. \A p \in 0 .. n + 1 : IsValue[p] <=> IsValue'[p]
  <2>1. n \in Nat /\ \A p \in 1 .. n : argv[p] = argv'[p]
    BY <1>1
  <2> HIDE DEF n
  <2> QED
    BY <1>2, <2>1, SameValues
<1>4. \A p \in Nat : IsValue'[p] <=> p > 1 /\ ~IsValue'[p - 1] /\ SeparateAt(argv', p - 1)
  BY <1>2, Zenon DEF Values
<1>5. ~IsValue'[n + 1]
  BY <1>1, <1>3 DEF Standing
<1>6. IsValue'[n + 2] <=> args[1].kind \in Separate
  <2>1. n + 2 \in Nat /\ n + 2 > 1 /\ (n + 2) - 1 = n + 1
    BY <1>1
  <2>2. IsValue'[n + 2] <=> ~IsValue'[n + 1] /\ SeparateAt(argv', n + 1)
    BY <1>4, <2>1
  <2> QED
    BY <1>1, <1>5, <2>2 DEF SeparateAt
<1>7. IsValue'[n + 3] => ~IsValue'[n + 2]
  <2>1. n + 3 \in Nat /\ (n + 3) - 1 = n + 2
    BY <1>1
  <2> QED
    BY <1>4, <2>1
<1>8. Heads' = Heads \cup {n + 1}
  <2>1. ASSUME NEW p PROVE p \in Heads' <=> p \in Heads \/ p = n + 1
    <3>1. p \in Heads' <=> p \in 1 .. n + Len(args) /\ ~IsValue'[p]
      BY <1>1 DEF Heads
    <3>2. p \in Heads <=> p \in 1 .. n /\ ~IsValue[p]
      BY DEF Heads
    <3>3. CASE p \in 1 .. n + 1
      BY <1>1, <1>3, <1>5, <3>1, <3>2, <3>3
    <3>4. CASE p \notin 1 .. n + 1
      <4>1. p \in 1 .. n + Len(args) => p = n + 2 /\ Len(args) = 2
        <5>1. ASSUME NEW k \in Nat, p \in 1 .. k + 1 PROVE p \in 1 .. k \/ p = k + 1
          BY <5>1
        <5> HIDE DEF n
        <5>2. n \in Nat /\ (n + 1) + 1 = n + 2 /\ n + 1 \in Nat
          BY <1>1
        <5>3. p \in 1 .. n + 2 => p = n + 2
          BY <3>4, <5>1, <5>2
        <5> QED
          BY <1>1, <3>4, <5>3
      <4> QED
        BY <1>1, <1>6, <3>1, <3>2, <3>4, <4>1
    <3> QED
      BY <3>3, <3>4
  <2> QED
    BY <2>1
<1>9. (args[1].kind \in Separate => Len(args) = 2) => Standing'
  <2>1. CASE Len(args) = 2
    <3>1. Len(argv') + 1 = n + 3
      BY <1>1, <2>1
    <3> QED
      BY <1>1, <1>6, <1>7, <2>1, <3>1 DEF Standing
  <2>2. CASE Len(args) = 1
    <3>1. Len(argv') + 1 = n + 2
      BY <1>1, <2>2
    <3> QED
      BY <1>6, <2>2, <3>1 DEF Standing
  <2> QED
    BY <1>1, <2>1, <2>2
<1> QED
  BY <1>8, <1>9

\* While the walk stands at a head, a separate option has its value behind it.
LEMMA ValueIsThere ==
  ASSUME argv \in Seq(Args), Standing, NEW p \in Heads, argv[p].kind \in Separate
  PROVE  p < Len(argv)
<1>1. Len(argv) \in Nat /\ p \in 1 .. Len(argv) /\ ~IsValue[p]
  BY LenProperties DEF Heads
<1>2. Values(IsValue, argv)
  BY IsValueSolves
<1>3. p + 1 \in Nat /\ p + 1 > 1 /\ (p + 1) - 1 = p
  BY <1>1
<1>4. IsValue[p + 1] <=> p + 1 > 1 /\ ~IsValue[(p + 1) - 1] /\ SeparateAt(argv, (p + 1) - 1)
  BY <1>2, <1>3, Zenon DEF Values
<1>5. IsValue[p + 1]
  BY <1>1, <1>3, <1>4 DEF SeparateAt
<1>6. p # Len(argv)
  BY <1>5 DEF Standing
<1> QED
  BY <1>1, <1>6

LEMMA HeadsAreArguments ==
  ASSUME argv \in Seq(Args), NEW p \in Heads
  PROVE  /\ p \in 1 .. Len(argv) /\ p \in Nat /\ Len(argv) \in Nat
         /\ argv[p] \in Args /\ argv[p].text \in Texts
         /\ argv[p].kind \in Flags \cup Separate \cup Joined \cup {"path", "unknown"}
<1>1. p \in 1 .. Len(argv) /\ Len(argv) \in Nat
  BY LenProperties DEF Heads
<1>2. argv[p] \in Args
  BY <1>1, ElementOfSeq
<1> QED
  BY <1>1, <1>2, CliAssumption

\* An old head keeps its argument, its value and whether it is bad.
LEMMA OldHeads ==
  ASSUME argv \in Seq(Args), Standing, NEW args, ReadOf(args), NEW p \in Heads
  PROVE  /\ argv'[p] = argv[p]
         /\ argv[p].kind \in Separate \cup Joined => ValueText(p)' = ValueText(p)
         /\ BadArgument(p)' <=> BadArgument(p)
<1>1. /\ p \in 1 .. Len(argv) /\ Len(argv) \in Nat
      /\ Len(argv') = Len(argv) + Len(args) /\ Len(args) \in {1, 2}
      /\ \A q \in 1 .. Len(argv) : argv'[q] = argv[q]
  BY ArgvGrows, HeadsAreArguments
<1>2. argv'[p] = argv[p]
  BY <1>1
<1>3. argv[p].kind \in Separate => p < Len(argv) /\ p < Len(argv') /\ argv'[p + 1] = argv[p + 1]
  <2> SUFFICES ASSUME argv[p].kind \in Separate
               PROVE  p < Len(argv) /\ p < Len(argv') /\ argv'[p + 1] = argv[p + 1]
    OBVIOUS
  <2>1. p < Len(argv)
    BY ValueIsThere
  <2>2. p + 1 \in 1 .. Len(argv)
    BY <1>1, <2>1
  <2> QED
    BY <1>1, <2>1, <2>2
<1>4. argv[p].kind \in Separate \cup Joined => ValueText(p)' = ValueText(p)
  <2>1. CASE argv[p].kind \in Joined
    BY <1>2, <2>1 DEF ValueText
  <2>2. CASE argv[p].kind \in Separate
    <3>1. argv[p].kind \notin Joined
      BY <2>2 DEF Separate, Joined
    <3> QED
      BY <1>2, <1>3, <2>2, <3>1 DEF ValueText, WholeText
  <2> QED
    BY <2>1, <2>2
<1>5. argv[p].kind \in Separate \cup Joined => HasValue(p) /\ HasValue(p)'
  BY <1>2, <1>3 DEF HasValue
<1>6. BadArgument(p)' <=> BadArgument(p)
  BY <1>2, <1>4, <1>5 DEF BadArgument
<1> QED
  BY <1>2, <1>4, <1>6

\* What the step read, as the new head has it.
NewText(args) == IF args[1].kind \in Joined THEN args[1].text ELSE WholeText(args[2])

LEMMA NewHead ==
  ASSUME argv \in Seq(Args), Standing, NEW args, ReadOf(args), NEW n, n = Len(argv) + 1
  PROVE  /\ n \in Nat /\ n \notin Heads /\ \A p \in Heads : p < n
         /\ argv'[n] = args[1]
         /\ args[1].kind \in Flags \cup Separate \cup Joined \cup {"path", "unknown"}
         /\ Len(args) = 2 \/ args[1].kind \in Joined => ValueText(n)' = NewText(args)
         /\ BadArgument(n)' <=>
              \/ args[1].kind = "unknown"
              \/ /\ args[1].kind \in Separate \cup Joined
                 /\ \/ args[1].kind \in Separate /\ Len(args) = 1
                    \/ ~ValueOK(args[1].kind, NewText(args))
              \/ args[1].kind = "path" /\ TextLength[args[1].text] >= PathSize
<1>1. /\ Len(argv) \in Nat
      /\ Len(argv') = Len(argv) + Len(args) /\ Len(args) \in {1, 2}
      /\ argv'[n] = args[1] /\ args[1] \in Args
      /\ Len(args) = 2 => argv'[Len(argv) + 2] = args[2] /\ args[1].kind \in Separate
  BY ArgvGrows
<1>2. n \in Nat /\ n \notin Heads /\ \A p \in Heads : p < n
  BY <1>1, HeadsAreArguments
<1>3. args[1].kind \in Flags \cup Separate \cup Joined \cup {"path", "unknown"}
  BY <1>1, CliAssumption
<1>4. Len(args) = 2 => argv'[n + 1] = args[2]
  <2>1. n + 1 = Len(argv) + 2
    BY <1>1
  <2> QED
    BY <1>1, <2>1
<1>5. Len(args) = 2 \/ args[1].kind \in Joined => ValueText(n)' = NewText(args)
  BY <1>1, <1>4 DEF ValueText, NewText, WholeText
<1>6. HasValue(n)' <=> args[1].kind \in Joined \/ Len(args) = 2
  <2>1. n < Len(argv') <=> Len(args) = 2
    <3>1. CASE Len(args) = 1
      BY <1>1, <3>1
    <3>2. CASE Len(args) = 2
      BY <1>1, <3>2
    <3> QED
      BY <1>1, <3>1, <3>2
  <2> QED
    BY <1>1, <2>1 DEF HasValue
<1>7. ~(args[1].kind \in Joined /\ args[1].kind \in Separate)
  BY DEF Separate, Joined
<1>8. BadArgument(n)' <=>
        \/ args[1].kind = "unknown"
        \/ /\ args[1].kind \in Separate \cup Joined
           /\ HasValue(n)' => ~ValueOK(args[1].kind, ValueText(n)')
        \/ args[1].kind = "path" /\ TextLength[args[1].text] >= PathSize
  BY <1>1 DEF BadArgument
<1> QED
  BY <1>1, <1>2, <1>3, <1>5, <1>6, <1>7, <1>8

LEMMA BadArgumentsGrow ==
  ASSUME argv \in Seq(Args), Standing, NEW args, ReadOf(args), NEW n, n = Len(argv) + 1
  PROVE  SomeBadArgument' <=> SomeBadArgument \/ BadArgument(n)'
<1>1. Heads' = Heads \cup {n}
  BY HeadsGrow
<1>2. \A p \in Heads : BadArgument(p)' <=> BadArgument(p)
  BY OldHeads
<1>3. SomeBadArgument' <=> \E p \in Heads' : BadArgument(p)'
  BY DEF SomeBadArgument
<1> QED
  BY <1>1, <1>2, <1>3 DEF SomeBadArgument

LEMMA HeadsOfGrow ==
  ASSUME argv \in Seq(Args), Standing, NEW args, ReadOf(args), NEW n, n = Len(argv) + 1,
         NEW K
  PROVE  HeadsOf(K)' = HeadsOf(K) \cup (IF args[1].kind \in K THEN {n} ELSE {})
<1>1. Heads' = Heads \cup {n}
  BY HeadsGrow
<1>2. \A p \in Heads : argv'[p] = argv[p]
  BY OldHeads
<1>3. argv'[n] = args[1]
  BY NewHead
<1> QED
  BY <1>1, <1>2, <1>3 DEF HeadsOf

LEMMA PathsGrow ==
  ASSUME argv \in Seq(Args), Standing, NEW args, ReadOf(args), NEW n, n = Len(argv) + 1
  PROVE  /\ Paths' = Paths \cup (IF args[1].kind = "path" /\ args[1].text # "" THEN {n} ELSE {})
         /\ SecondPath' <=> SecondPath \/ (args[1].kind = "path" /\ Paths # {})
<1>1. HeadsOf({"path"})' = HeadsOf({"path"}) \cup (IF args[1].kind = "path" THEN {n} ELSE {})
  BY HeadsOfGrow
<1>2. /\ \A p \in Heads : argv'[p] = argv[p]
      /\ \A p \in Heads : p < n /\ p \in Nat
      /\ argv'[n] = args[1] /\ n \in Nat
  BY OldHeads, NewHead, HeadsAreArguments
<1>3. HeadsOf({"path"}) \subseteq Heads /\ Paths \subseteq HeadsOf({"path"})
  BY DEF HeadsOf, Paths
<1>4. Paths' = {p \in HeadsOf({"path"})' : argv'[p].text # ""}
  BY DEF Paths
<1>5. Paths' = Paths \cup (IF args[1].kind = "path" /\ args[1].text # "" THEN {n} ELSE {})
  BY <1>1, <1>2, <1>3, <1>4 DEF Paths
<1>6. SecondPath' <=> \E p \in Paths', q \in HeadsOf({"path"})' : p < q
  BY DEF SecondPath
<1>7. \A p, q \in Heads : ~(n < n) /\ ~(n < q)
  BY <1>2
<1>8. SecondPath' <=> SecondPath \/ (args[1].kind = "path" /\ Paths # {})
  <2>1. CASE args[1].kind = "path"
    <3>1. HeadsOf({"path"})' = HeadsOf({"path"}) \cup {n}
      BY <1>1, <2>1
    <3>2. \A p \in Paths : p < n
      BY <1>2, <1>3
    <3>3. \A p \in Paths' : p \in Paths \/ p = n
      BY <1>5
    <3>4. Paths \subseteq Paths'
      BY <1>5
    <3> QED
      BY <1>3, <1>6, <1>7, <2>1, <3>1, <3>2, <3>3, <3>4 DEF SecondPath
  <2>2. CASE args[1].kind # "path"
    BY <1>1, <1>5, <1>6, <2>2 DEF SecondPath
  <2> QED
    BY <2>1, <2>2
<1> QED
  BY <1>5, <1>8

\* The heads that give an option o a value, and the last of them.
Given(o) == {p \in HeadsOf(Separate \cup Joined) : Option(argv[p].kind) = o}

LastGiven(o) == CHOOSE p \in Given(o) : \A q \in Given(o) : q <= p

ValueGiven(o) == ValueText(LastGiven(o))

\* What the options are, with LastValue unfolded.
OptionsTold ==
  /\ options.flags = {argv[p].kind : p \in HeadsOf(Flags)}
  /\ options.format = IF Given("format") = {} THEN "auto" ELSE FormatNamed[ValueGiven("format")]
  /\ options.base = IF Given("base") = {} THEN 0 ELSE U64(ValueGiven("base"))
  /\ options.chunk \in 1 .. SizeMax
  /\ options.chunk = IF Given("chunk") = {} THEN DefaultChunk ELSE U64(ValueGiven("chunk"))
  /\ options.path = IF Paths = {} THEN "" ELSE argv[CHOOSE p \in Paths : TRUE].text

LEMMA OptionsUnfolded == OptionsAreLastValues <=> OptionsTold
BY DEF OptionsAreLastValues, OptionsTold, LastValue, ValueGiven, LastGiven, Given

LEMMA LastIsGiven ==
  ASSUME argv \in Seq(Args), NEW o, Given(o) # {}
  PROVE  LastGiven(o) \in Given(o)
<1> DEFINE n == Len(argv)
           S == {n - p : p \in Given(o)}
<1>1. n \in Nat /\ \A p \in Given(o) : p \in Heads /\ p \in Nat /\ n - p \in Nat
  <2>1. n \in Nat
    BY LenProperties
  <2>2. Given(o) \subseteq Heads
    BY DEF Given, HeadsOf
  <2> QED
    BY <2>1, <2>2, HeadsAreArguments
<1>2. S \in SUBSET Nat /\ S # {}
  BY <1>1
<1>3. PICK x \in S : \A y \in S : x <= y
  <2> HIDE DEF S
  <2> QED
    BY <1>2, LeastPosition
<1>4. PICK p \in Given(o) : x = n - p
  BY <1>3
<1>5. ASSUME NEW q \in Given(o) PROVE q <= p
  <2>1. n - p <= n - q
    BY <1>3, <1>4
  <2> QED
    BY <1>1, <1>4, <2>1
<1> QED
  BY <1>4, <1>5 DEF LastGiven

LEMMA GivenGrows ==
  ASSUME argv \in Seq(Args), Standing, NEW args, ReadOf(args), NEW n, n = Len(argv) + 1,
         NEW o
  PROVE  Given(o)' =
           Given(o) \cup (IF /\ args[1].kind \in Separate \cup Joined
                             /\ Option(args[1].kind) = o
                            THEN {n} ELSE {})
<1>1. HeadsOf(Separate \cup Joined)' =
        HeadsOf(Separate \cup Joined) \cup (IF args[1].kind \in Separate \cup Joined THEN {n} ELSE {})
  BY HeadsOfGrow
<1>2. \A p \in HeadsOf(Separate \cup Joined) : argv'[p] = argv[p]
  BY OldHeads DEF HeadsOf
<1>3. argv'[n] = args[1]
  BY NewHead
<1>4. Given(o)' = {p \in HeadsOf(Separate \cup Joined)' : Option(argv'[p].kind) = o}
  BY DEF Given
<1> HIDE DEF Given
<1> QED
  BY <1>1, <1>2, <1>3, <1>4 DEF Given

\* An option the step does not give keeps its last value ...
LEMMA OtherValuesStay ==
  ASSUME argv \in Seq(Args), Standing, NEW args, ReadOf(args), NEW o,
         ~(args[1].kind \in Separate \cup Joined /\ Option(args[1].kind) = o)
  PROVE  /\ Given(o)' = Given(o)
         /\ Given(o) # {} => ValueGiven(o)' = ValueGiven(o)
<1>1. Given(o)' = Given(o)
  BY GivenGrows
<1>2. ASSUME Given(o) # {} PROVE ValueGiven(o)' = ValueGiven(o)
  <2>1. PICK p : p = LastGiven(o)
    OBVIOUS
  <2>2. LastGiven(o)' = p
    BY <1>1, <2>1 DEF LastGiven
  <2>3. p \in Heads /\ argv[p].kind \in Separate \cup Joined
    BY <1>2, <2>1, LastIsGiven DEF Given, HeadsOf
  <2>4. ValueText(p)' = ValueText(p)
    BY <2>3, OldHeads
  <2>5. ValueGiven(o)' = ValueText(p)'
    BY <2>2 DEF ValueGiven, ValueText
  <2> QED
    BY <2>1, <2>4, <2>5 DEF ValueGiven
<1> QED
  BY <1>1, <1>2

\* ... and the one it gives has the value it read.
LEMMA GivenValueIsRead ==
  ASSUME argv \in Seq(Args), Standing, NEW args, ReadOf(args), NEW o,
         args[1].kind \in Separate \cup Joined, Option(args[1].kind) = o,
         Len(args) = 2 \/ args[1].kind \in Joined
  PROVE  Given(o)' # {} /\ ValueGiven(o)' = NewText(args)
<1>1. PICK n : n = Len(argv) + 1
  OBVIOUS
<1>2. Given(o)' = Given(o) \cup {n}
  BY <1>1, GivenGrows
<1>3. n \in Nat /\ \A p \in Given(o) : p < n /\ p \in Nat
  BY <1>1, NewHead, HeadsAreArguments DEF Given, HeadsOf
<1>4. LastGiven(o)' = n
  <2>1. LastGiven(o)' = CHOOSE p \in Given(o)' : \A q \in Given(o)' : q <= p
    BY DEF LastGiven
  <2>2. n \in Given(o)' /\ \A q \in Given(o)' : q <= n
    BY <1>2, <1>3
  <2>3. \A p \in Given(o)' : (\A q \in Given(o)' : q <= p) => p = n
    <3> SUFFICES ASSUME NEW p \in Given(o)', \A q \in Given(o)' : q <= p PROVE p = n
      OBVIOUS
    <3>1. n <= p
      BY <1>2
    <3>2. p = n \/ (p < n /\ p \in Nat)
      BY <1>2, <1>3
    <3> QED
      BY <1>3, <3>1, <3>2
  <2> QED
    BY <2>1, <2>2, <2>3
<1>5. ValueText(n)' = NewText(args)
  BY <1>1, NewHead
<1>6. ValueGiven(o)' = ValueText(n)'
  BY <1>4 DEF ValueGiven, ValueText
<1> QED
  BY <1>2, <1>5, <1>6

-----------------------------------------------------------------------------
(* What a step does to what was given.                                     *)

FlagsGiven == {argv[p].kind : p \in HeadsOf(Flags)}

FormatGiven == IF Given("format") = {} THEN "auto" ELSE FormatNamed[ValueGiven("format")]

BaseGiven == IF Given("base") = {} THEN 0 ELSE U64(ValueGiven("base"))

ChunkGiven == IF Given("chunk") = {} THEN DefaultChunk ELSE U64(ValueGiven("chunk"))

PathGiven == IF Paths = {} THEN "" ELSE argv[CHOOSE p \in Paths : TRUE].text

OptionsGiven ==
  [path |-> PathGiven, format |-> FormatGiven, base |-> BaseGiven, chunk |-> ChunkGiven,
   flags |-> FlagsGiven]

OptionsType ==
  [path : Texts \cup {""}, format : Formats, base : Address, chunk : 1 .. SizeMax,
   flags : SUBSET Flags]

LEMMA FlagsGrow ==
  ASSUME argv \in Seq(Args), Standing, NEW args, ReadOf(args)
  PROVE  FlagsGiven' = FlagsGiven \cup (IF args[1].kind \in Flags THEN {args[1].kind} ELSE {})
<1>1. PICK n : n = Len(argv) + 1
  OBVIOUS
<1>2. HeadsOf(Flags)' = HeadsOf(Flags) \cup (IF args[1].kind \in Flags THEN {n} ELSE {})
  BY <1>1, HeadsOfGrow
<1>3. argv'[n] = args[1] /\ \A p \in HeadsOf(Flags) : argv'[p] = argv[p]
  BY <1>1, NewHead, OldHeads DEF HeadsOf
<1>4. FlagsGiven' = {argv'[p].kind : p \in HeadsOf(Flags)'}
  BY DEF FlagsGiven
<1> QED
  BY <1>2, <1>3, <1>4 DEF FlagsGiven

LEMMA OthersStay ==
  ASSUME argv \in Seq(Args), Standing, NEW args, ReadOf(args)
  PROVE  LET other(o) == ~(args[1].kind \in Separate \cup Joined /\ Option(args[1].kind) = o)
         IN  /\ other("format") => FormatGiven' = FormatGiven
             /\ other("base") => BaseGiven' = BaseGiven
             /\ other("chunk") => ChunkGiven' = ChunkGiven
<1> DEFINE other(o) == ~(args[1].kind \in Separate \cup Joined /\ Option(args[1].kind) = o)
<1>1. \A o : other(o) => /\ Given(o)' = Given(o)
                         /\ Given(o) # {} => ValueGiven(o)' = ValueGiven(o)
  BY OtherValuesStay
<1> HIDE DEF other
<1>2. other("format") => FormatGiven' = FormatGiven
  BY <1>1 DEF FormatGiven
<1>3. other("base") => BaseGiven' = BaseGiven
  BY <1>1 DEF BaseGiven, U64, WrapAddr
<1>4. other("chunk") => ChunkGiven' = ChunkGiven
  BY <1>1 DEF ChunkGiven, U64, WrapAddr
<1> QED
  BY <1>2, <1>3, <1>4 DEF other

LEMMA ReadValueIsGiven ==
  ASSUME argv \in Seq(Args), Standing, NEW args, ReadOf(args),
         args[1].kind \in Separate \cup Joined,
         Len(args) = 2 \/ args[1].kind \in Joined
  PROVE  LET option == Option(args[1].kind)
         IN  /\ option = "format" => FormatGiven' = FormatNamed[NewText(args)]
             /\ option = "base" => BaseGiven' = U64(NewText(args))
             /\ option = "chunk" => ChunkGiven' = U64(NewText(args))
<1>1. \A o : Option(args[1].kind) = o => Given(o)' # {} /\ ValueGiven(o)' = NewText(args)
  BY GivenValueIsRead
<1>2. Option(args[1].kind) = "format" => FormatGiven' = FormatNamed[NewText(args)]
  BY <1>1 DEF FormatGiven
<1>3. Option(args[1].kind) = "base" => BaseGiven' = U64(NewText(args))
  BY <1>1 DEF BaseGiven, U64, WrapAddr
<1>4. Option(args[1].kind) = "chunk" => ChunkGiven' = U64(NewText(args))
  BY <1>1 DEF ChunkGiven, U64, WrapAddr
<1> QED
  BY <1>2, <1>3, <1>4

\* The path is told apart from none, and the one path taken is kept.
LEMMA PathTakenIsGiven ==
  ASSUME options = OptionsGiven
  PROVE  PathTaken <=> Paths # {}
<1>1. options.path = PathGiven
  BY DEF OptionsGiven
<1>2. ASSUME Paths # {} PROVE PathGiven # ""
  <2>1. (CHOOSE p \in Paths : TRUE) \in Paths
    BY <1>2
  <2> QED
    BY <1>2, <2>1 DEF PathGiven, Paths
<1> QED
  BY <1>1, <1>2 DEF PathTaken, PathGiven

LEMMA PathStays ==
  ASSUME argv \in Seq(Args), Standing, NEW args, ReadOf(args),
         args[1].kind # "path" \/ args[1].text = ""
  PROVE  PathGiven' = PathGiven
<1>1. PICK n : n = Len(argv) + 1
  OBVIOUS
<1>2. Paths' = Paths
  BY <1>1, PathsGrow
<1>3. Paths # {} => (CHOOSE p \in Paths : TRUE) \in Heads
  BY DEF Paths, HeadsOf
<1>4. \A p \in Heads : argv'[p] = argv[p]
  BY OldHeads
<1>5. (CHOOSE p \in Paths : TRUE)' = (CHOOSE p \in Paths : TRUE)
  BY <1>2
<1>6. PathGiven' = IF Paths' = {} THEN "" ELSE argv'[(CHOOSE p \in Paths : TRUE)'].text
  BY DEF PathGiven
<1>7. Paths # {} => argv'[CHOOSE p \in Paths : TRUE].text = argv[CHOOSE p \in Paths : TRUE].text
  BY <1>3, <1>4
<1> QED
  BY <1>2, <1>5, <1>6, <1>7 DEF PathGiven

LEMMA FirstPathIsGiven ==
  ASSUME argv \in Seq(Args), Standing, NEW args, ReadOf(args), args[1].kind = "path", Paths = {}
  PROVE  PathGiven' = args[1].text
<1>1. PICK n : n = Len(argv) + 1
  OBVIOUS
<1>2. Paths' = IF args[1].text # "" THEN {n} ELSE {}
  BY <1>1, PathsGrow
<1>3. argv'[n] = args[1]
  BY <1>1, NewHead
<1>4. (CHOOSE p \in {n} : TRUE) = n
  OBVIOUS
<1> QED
  BY <1>2, <1>3, <1>4 DEF PathGiven

-----------------------------------------------------------------------------
(* The invariant of the walk.                                              *)

\* The walk stands at a head, nothing was wrong so far, and the options are what
\* the arguments read so far give.
WalkInv ==
  /\ argv \in Seq(Args)
  /\ options \in OptionsType
  /\ result = "none" => Standing /\ ~SomeBadArgument /\ ~SecondPath
  /\ result \in {"none", "ok"} => options = OptionsGiven
  /\ RefusedExactlyWhenWrong

LEMMA TextRead ==
  ASSUME NEW x \in Args, NEW args, args[1] = x,
         x.kind \in Joined \/ args[2] \in Args
  PROVE  NewText(args) \in Texts
<1>1. CliAssumption
  BY CliAssumption
<1> QED
  BY <1>1 DEF CliAssumption, NewText, WholeText, Texts

LEMMA ValueTyped ==
  ASSUME NEW kind \in Separate \cup Joined, NEW text \in Texts, ValueOK(kind, text)
  PROVE  /\ Option(kind) \in {"format", "base", "chunk"}
         /\ Option(kind) = "format" => FormatNamed[text] \in Formats
         /\ Option(kind) = "base" => U64(text) \in Address
         /\ Option(kind) = "chunk" => U64(text) \in 1 .. SizeMax
<1>1. Option(kind) \in {"format", "base", "chunk"}
  BY DEF Option, Separate, Joined
<1>2. Option(kind) = "format" => FormatNamed[text] \in Formats
  BY CliAssumption DEF ValueOK
<1>3. IsU64(text) => U64(text) \in Address
  BY CliAssumption, WidthAssumption DEF IsU64, U64, WrapAddr, Address
<1>4. Option(kind) = "base" => U64(text) \in Address
  BY <1>3 DEF ValueOK
<1>5. Option(kind) = "chunk" => U64(text) \in 1 .. SizeMax
  BY <1>3, WidthAssumption DEF ValueOK, IsSize, Address
<1> QED
  BY <1>1, <1>2, <1>4, <1>5

\* A refusal is justified by the argument read.
LEMMA RefusedKeepsInv ==
  ASSUME WalkInv, NEW args, ReadOf(args), result = "none", result' \notin {"none", "ok"},
         UNCHANGED options, NEW n, n = Len(argv) + 1, BadArgument(n)' \/ SecondPath'
  PROVE  WalkInv'
<1>1. argv' \in Seq(Args)
  BY ArgvGrows DEF WalkInv
<1>2. SomeBadArgument' \/ SecondPath'
  BY BadArgumentsGrow DEF WalkInv
<1>3. RefusedExactlyWhenWrong'
  BY <1>2 DEF RefusedExactlyWhenWrong
<1> QED
  BY <1>1, <1>3 DEF WalkInv

\* An argument taken leaves nothing wrong so far.
LEMMA TakenKeepsInv ==
  ASSUME WalkInv, NEW args, ReadOf(args), result = "none", result' = "none",
         NEW n, n = Len(argv) + 1, ~BadArgument(n)',
         args[1].kind = "path" => Paths = {},
         options' \in OptionsType, options' = OptionsGiven'
  PROVE  WalkInv'
<1>1. argv' \in Seq(Args)
  BY ArgvGrows DEF WalkInv
<1>2. ~SomeBadArgument'
  BY BadArgumentsGrow DEF WalkInv
<1>3. ~SecondPath'
  BY PathsGrow DEF WalkInv
<1>4. Standing'
  <2>1. args[1].kind \in Separate => Len(args) = 2
    <3>1. Len(args) \in {1, 2}
      BY ArgvGrows DEF WalkInv
    <3> QED
      BY <3>1, NewHead DEF WalkInv
  <2> QED
    BY <2>1, HeadsGrow DEF WalkInv
<1>5. RefusedExactlyWhenWrong'
  BY DEF RefusedExactlyWhenWrong
<1> QED
  BY <1>1, <1>2, <1>3, <1>4, <1>5 DEF WalkInv

LEMMA OneRead ==
  ASSUME NEW arg \in Args, Reads(<<arg>>)
  PROVE  ReadOf(<<arg>>) /\ result = "none" /\ <<arg>>[1] = arg /\ Len(<<arg>>) = 1
BY DEF Reads, ReadOf, Step

LEMMA PairRead ==
  ASSUME NEW arg \in Args, arg.kind \in Separate, NEW value \in Args, Reads(<<arg, value>>)
  PROVE  /\ ReadOf(<<arg, value>>) /\ result = "none" /\ Len(<<arg, value>>) = 2
         /\ <<arg, value>>[1] = arg /\ <<arg, value>>[2] = value
<1>1. <<arg, value>> \in Seq(Args) /\ Len(<<arg, value>>) = 2
  OBVIOUS
<1>2. Step(<<arg, value>>)
  BY DEF Step
<1> QED
  BY <1>1, <1>2 DEF Reads, ReadOf

\* OptionsGiven after a step, field by field.
LEMMA OptionsAfter ==
  ASSUME WalkInv, result = "none", options' \in OptionsType,
         options'.path = PathGiven', options'.format = FormatGiven',
         options'.base = BaseGiven', options'.chunk = ChunkGiven', options'.flags = FlagsGiven'
  PROVE  options' = OptionsGiven'
<1>1. OptionsGiven' = [path |-> PathGiven', format |-> FormatGiven', base |-> BaseGiven',
                       chunk |-> ChunkGiven', flags |-> FlagsGiven']
  BY DEF OptionsGiven
<1>2. options' = [path |-> options'.path, format |-> options'.format, base |-> options'.base,
                  chunk |-> options'.chunk, flags |-> options'.flags]
  BY DEF OptionsType
<1> QED
  BY <1>1, <1>2

LEMMA OptionsBefore ==
  ASSUME WalkInv, result = "none"
  PROVE  /\ options.path = PathGiven /\ options.format = FormatGiven /\ options.base = BaseGiven
         /\ options.chunk = ChunkGiven /\ options.flags = FlagsGiven
         /\ options \in OptionsType /\ options = OptionsGiven
BY DEF WalkInv, OptionsGiven

-----------------------------------------------------------------------------
(* The steps of the walk.                                                  *)

LEMMA ReadFlagKeepsInv ==
  ASSUME WalkInv, NEW arg \in Args, ReadFlag(arg)
  PROVE  WalkInv'
<1> DEFINE args == <<arg>>
<1>1. ReadOf(args) /\ result = "none" /\ args[1] = arg /\ arg.kind \in Flags
  BY OneRead DEF ReadFlag
<1> HIDE DEF args
<1>2. argv \in Seq(Args) /\ Standing
  BY <1>1 DEF WalkInv
<1>3. PICK n : n = Len(argv) + 1
  OBVIOUS
<1>4. arg.kind \notin Separate \cup Joined /\ arg.kind # "path" /\ arg.kind # "unknown"
  BY <1>1 DEF Flags, Separate, Joined
<1>5. ~BadArgument(n)'
  BY <1>1, <1>2, <1>3, <1>4, NewHead
<1>6. /\ options' = [options EXCEPT !.flags = @ \cup {arg.kind}]
      /\ options \in OptionsType
  BY <1>1, OptionsBefore DEF ReadFlag
<1>7. /\ options' \in OptionsType
      /\ options'.path = options.path /\ options'.format = options.format
      /\ options'.base = options.base /\ options'.chunk = options.chunk
      /\ options'.flags = options.flags \cup {arg.kind}
  BY <1>1, <1>6 DEF OptionsType
<1>8. /\ PathGiven' = PathGiven /\ FormatGiven' = FormatGiven /\ BaseGiven' = BaseGiven
      /\ ChunkGiven' = ChunkGiven /\ FlagsGiven' = FlagsGiven \cup {arg.kind}
  BY <1>1, <1>2, <1>4, PathStays, OthersStay, FlagsGrow
<1>9. options' = OptionsGiven'
  BY <1>1, <1>7, <1>8, OptionsBefore, OptionsAfter
<1> QED
  BY <1>1, <1>3, <1>4, <1>5, <1>7, <1>9, TakenKeepsInv DEF ReadFlag

\* Both forms of an option with a value.
LEMMA ReadValueKeepsInv ==
  ASSUME WalkInv, NEW args, ReadOf(args), result = "none",
         args[1].kind \in Separate \cup Joined,
         Len(args) = 2 \/ args[1].kind \in Joined,
         ReadValue(args[1].kind, NewText(args), args)
  PROVE  WalkInv'
<1> DEFINE kind == args[1].kind
           text == NewText(args)
<1>1. argv \in Seq(Args) /\ Standing
  BY DEF WalkInv
<1>2. PICK n : n = Len(argv) + 1
  OBVIOUS
<1>3. kind \notin Flags /\ kind # "path" /\ kind # "unknown"
  BY DEF Flags, Separate, Joined
<1>4. BadArgument(n)' <=> ~ValueOK(kind, text)
  <2>1. ~(kind \in Separate /\ Len(args) = 1)
    BY DEF Separate, Joined
  <2> QED
    BY <1>1, <1>2, <1>3, <2>1, NewHead
<1>5. text \in Texts
  <2>1. args[1] \in Args /\ (Len(args) = 2 => args[2] \in Args)
    BY <1>1, ArgvGrows
  <2> QED
    BY <2>1, TextRead
<1>6. CASE ~ValueOK(kind, text)
  <2>1. result' = "value" /\ UNCHANGED options
    BY <1>6 DEF ReadValue
  <2> QED
    BY <1>2, <1>4, <1>6, <2>1, RefusedKeepsInv
<1>7. CASE ValueOK(kind, text)
  <2>1. options' = WithValue(kind, text) /\ result' = "none" /\ options \in OptionsType
    BY <1>7, OptionsBefore DEF ReadValue
  <2>2. /\ PathGiven' = PathGiven /\ FlagsGiven' = FlagsGiven
        /\ Option(kind) # "format" => FormatGiven' = FormatGiven
        /\ Option(kind) # "base" => BaseGiven' = BaseGiven
        /\ Option(kind) # "chunk" => ChunkGiven' = ChunkGiven
    BY <1>1, <1>3, PathStays, OthersStay, FlagsGrow
  <2>3. /\ Option(kind) = "format" => FormatGiven' = FormatNamed[text]
        /\ Option(kind) = "base" => BaseGiven' = U64(text)
        /\ Option(kind) = "chunk" => ChunkGiven' = U64(text)
    BY <1>1, ReadValueIsGiven
  <2>4. /\ Option(kind) \in {"format", "base", "chunk"}
        /\ Option(kind) = "format" => FormatNamed[text] \in Formats
        /\ Option(kind) = "base" => U64(text) \in Address
        /\ Option(kind) = "chunk" => U64(text) \in 1 .. SizeMax
    BY <1>5, <1>7, ValueTyped
  <2> HIDE DEF kind, text
  <2>5. CASE Option(kind) = "format"
    <3>1. options' = [options EXCEPT !.format = FormatNamed[text]]
      BY <2>1, <2>5 DEF WithValue
    <3>2. /\ options' \in OptionsType
          /\ options'.path = options.path /\ options'.format = FormatNamed[text]
          /\ options'.base = options.base /\ options'.chunk = options.chunk
          /\ options'.flags = options.flags
      BY <2>1, <2>4, <2>5, <3>1 DEF OptionsType
    <3> QED
      BY <2>2, <2>3, <2>5, <3>2, OptionsBefore, OptionsAfter,
         <1>2, <1>3, <1>4, <1>7, <2>1, TakenKeepsInv DEF kind
  <2>6. CASE Option(kind) = "base"
    <3>1. options' = [options EXCEPT !.base = U64(text)]
      BY <2>1, <2>6 DEF WithValue
    <3>2. /\ options' \in OptionsType
          /\ options'.path = options.path /\ options'.format = options.format
          /\ options'.base = U64(text) /\ options'.chunk = options.chunk
          /\ options'.flags = options.flags
      BY <2>1, <2>4, <2>6, <3>1 DEF OptionsType
    <3> QED
      BY <2>2, <2>3, <2>6, <3>2, OptionsBefore, OptionsAfter,
         <1>2, <1>3, <1>4, <1>7, <2>1, TakenKeepsInv DEF kind
  <2>7. CASE Option(kind) = "chunk"
    <3>1. options' = [options EXCEPT !.chunk = U64(text)]
      BY <2>1, <2>7 DEF WithValue
    <3>2. /\ options' \in OptionsType
          /\ options'.path = options.path /\ options'.format = options.format
          /\ options'.base = options.base /\ options'.chunk = U64(text)
          /\ options'.flags = options.flags
      BY <2>1, <2>4, <2>7, <3>1 DEF OptionsType
    <3> QED
      BY <2>2, <2>3, <2>7, <3>2, OptionsBefore, OptionsAfter,
         <1>2, <1>3, <1>4, <1>7, <2>1, TakenKeepsInv DEF kind
  <2> QED
    BY <2>4, <2>5, <2>6, <2>7
<1> QED
  BY <1>6, <1>7

LEMMA ReadJoinedKeepsInv ==
  ASSUME WalkInv, NEW arg \in Args, ReadJoined(arg)
  PROVE  WalkInv'
<1>1. arg.kind \in Joined /\ Reads(<<arg>>) /\ ReadValue(arg.kind, arg.text, <<arg>>)
  BY DEF ReadJoined, ReadValue
<1>2. ReadOf(<<arg>>) /\ result = "none" /\ <<arg>>[1] = arg
  BY <1>1, OneRead
<1>3. NewText(<<arg>>) = arg.text
  BY <1>1, <1>2 DEF NewText
<1> QED
  BY <1>1, <1>2, <1>3, ReadValueKeepsInv

LEMMA ReadSeparateKeepsInv ==
  ASSUME WalkInv, NEW arg \in Args, ReadSeparate(arg)
  PROVE  WalkInv'
<1>1. PICK value \in Args : ReadValue(arg.kind, WholeText(value), <<arg, value>>)
  BY DEF ReadSeparate
<1>2. arg.kind \in Separate /\ Reads(<<arg, value>>)
  BY <1>1 DEF ReadSeparate, ReadValue
<1>3. /\ ReadOf(<<arg, value>>) /\ result = "none" /\ Len(<<arg, value>>) = 2
      /\ <<arg, value>>[1] = arg /\ <<arg, value>>[2] = value
  BY <1>2, PairRead
<1>4. NewText(<<arg, value>>) = WholeText(value)
  BY <1>2, <1>3 DEF NewText, Separate, Joined
<1> QED
  BY <1>1, <1>2, <1>3, <1>4, ReadValueKeepsInv

LEMMA ReadLastSeparateKeepsInv ==
  ASSUME WalkInv, NEW arg \in Args, ReadLastSeparate(arg)
  PROVE  WalkInv'
<1>1. arg.kind \in Separate /\ Reads(<<arg>>) /\ result' = "value" /\ UNCHANGED options
  BY DEF ReadLastSeparate
<1>2. ReadOf(<<arg>>) /\ result = "none" /\ <<arg>>[1] = arg /\ Len(<<arg>>) = 1
  BY <1>1, OneRead
<1>3. PICK n : n = Len(argv) + 1
  OBVIOUS
<1>4. BadArgument(n)'
  BY <1>1, <1>2, <1>3, NewHead DEF WalkInv
<1> QED
  BY <1>1, <1>2, <1>3, <1>4, RefusedKeepsInv

LEMMA RefuseUnknownKeepsInv ==
  ASSUME WalkInv, NEW arg \in Args, RefuseUnknown(arg)
  PROVE  WalkInv'
<1>1. arg.kind = "unknown" /\ Reads(<<arg>>) /\ result' = "unknown" /\ UNCHANGED options
  BY DEF RefuseUnknown
<1>2. ReadOf(<<arg>>) /\ result = "none" /\ <<arg>>[1] = arg
  BY <1>1, OneRead
<1>3. PICK n : n = Len(argv) + 1
  OBVIOUS
<1>4. BadArgument(n)'
  BY <1>1, <1>2, <1>3, NewHead DEF WalkInv
<1> QED
  BY <1>1, <1>2, <1>3, <1>4, RefusedKeepsInv

\* A path is refused for its length, or for the path before it.
LEMMA RefusePathKeepsInv ==
  ASSUME WalkInv, NEW arg \in Args, RefusePath(arg)
  PROVE  WalkInv'
<1>1. /\ arg.kind = "path" /\ Reads(<<arg>>) /\ result' = "path" /\ UNCHANGED options
      /\ PathTaken \/ TextLength[arg.text] >= PathSize
  BY DEF RefusePath
<1>2. ReadOf(<<arg>>) /\ result = "none" /\ <<arg>>[1] = arg
  BY <1>1, OneRead
<1>3. PICK n : n = Len(argv) + 1
  OBVIOUS
<1>4. argv \in Seq(Args) /\ Standing /\ options = OptionsGiven
  BY <1>2 DEF WalkInv
<1>5. PathTaken => SecondPath'
  BY <1>1, <1>2, <1>3, <1>4, PathTakenIsGiven, PathsGrow
<1>6. TextLength[arg.text] >= PathSize => BadArgument(n)'
  BY <1>1, <1>2, <1>3, <1>4, NewHead
<1> QED
  BY <1>1, <1>2, <1>3, <1>5, <1>6, RefusedKeepsInv

LEMMA ReadPathKeepsInv ==
  ASSUME WalkInv, NEW arg \in Args, ReadPath(arg)
  PROVE  WalkInv'
<1> DEFINE args == <<arg>>
<1>1. /\ arg.kind = "path" /\ Reads(args) /\ result' = result
      /\ ~PathTaken /\ TextLength[arg.text] < PathSize
      /\ options' = [options EXCEPT !.path = arg.text]
  BY DEF ReadPath
<1>2. ReadOf(args) /\ result = "none" /\ args[1] = arg
  BY <1>1, OneRead
<1> HIDE DEF args
<1>3. PICK n : n = Len(argv) + 1
  OBVIOUS
<1>4. /\ argv \in Seq(Args) /\ Standing /\ options = OptionsGiven /\ options \in OptionsType
  BY <1>2 DEF WalkInv
<1>5. Paths = {}
  BY <1>1, <1>4, PathTakenIsGiven
<1>6. arg.text \in Texts /\ arg.kind \notin Flags \cup Separate \cup Joined
  BY <1>1, CliAssumption DEF Flags, Separate, Joined
<1>7. ~BadArgument(n)'
  <2>1. TextLength[arg.text] \in Nat /\ PathSize \in Nat
    BY <1>6, CliAssumption
  <2> QED
    BY <1>1, <1>2, <1>3, <1>4, <1>6, <2>1, NewHead
<1>8. /\ options' \in OptionsType
      /\ options'.path = arg.text /\ options'.format = options.format
      /\ options'.base = options.base /\ options'.chunk = options.chunk
      /\ options'.flags = options.flags
  BY <1>1, <1>4, <1>6 DEF OptionsType
<1>9. /\ PathGiven' = arg.text /\ FormatGiven' = FormatGiven /\ BaseGiven' = BaseGiven
      /\ ChunkGiven' = ChunkGiven /\ FlagsGiven' = FlagsGiven
  BY <1>1, <1>2, <1>4, <1>5, <1>6, FirstPathIsGiven, OthersStay, FlagsGrow
<1>10. options' = OptionsGiven'
  BY <1>2, <1>8, <1>9, OptionsBefore, OptionsAfter
<1> QED
  BY <1>1, <1>2, <1>3, <1>5, <1>7, <1>8, <1>10, TakenKeepsInv

LEMMA SameArguments ==
  ASSUME argv \in Seq(Args), argv' = argv
  PROVE  /\ Standing' <=> Standing
         /\ SomeBadArgument' = SomeBadArgument /\ SecondPath' = SecondPath
         /\ NothingToDo' = NothingToDo /\ OptionsGiven' = OptionsGiven
<1> DEFINE n == Len(argv)
<1>1. n \in Nat
  BY LenProperties
<1>2. Values(IsValue, argv) /\ Values(IsValue', argv')
  <2>1. Values(IsValue, argv)'
    BY IsValueSolves, PTL
  <2> QED
    BY <2>1, IsValueSolves DEF Values, SeparateAt
<1>3. \A p \in 0 .. n + 1 : IsValue[p] <=> IsValue'[p]
  <2> HIDE DEF n
  <2> QED
    BY <1>1, <1>2, SameValues
<1>4. Heads' = Heads
  <2>1. Heads' = {p \in 1 .. n : ~IsValue'[p]} /\ Heads = {p \in 1 .. n : ~IsValue[p]}
    BY DEF Heads
  <2>2. \A p \in 1 .. n : p \in 0 .. n + 1
    BY <1>1
  <2> QED
    BY <1>3, <2>1, <2>2
<1>5. Standing' <=> Standing
  <2>1. n + 1 \in 0 .. n + 1
    BY <1>1
  <2> QED
    BY <1>3, <2>1 DEF Standing
<1>6. SomeBadArgument' = SomeBadArgument
  BY <1>4 DEF SomeBadArgument, BadArgument, HasValue, ValueText, WholeText
<1>7. SecondPath' = SecondPath /\ NothingToDo' = NothingToDo
  BY <1>4 DEF SecondPath, NothingToDo, Paths, HeadsOf
<1>8. OptionsGiven' = OptionsGiven
  BY <1>4 DEF OptionsGiven, Paths, HeadsOf, ValueText, WholeText, FlagsGiven, FormatGiven, BaseGiven,
     ChunkGiven, PathGiven, Given, ValueGiven, LastGiven, U64, WrapAddr
<1> QED
  BY <1>5, <1>6, <1>7, <1>8

\* The end of the list: nothing was wrong, and the last check is the one for a
\* path or a request for text.
LEMMA FinishKeepsInv ==
  ASSUME WalkInv, Finish
  PROVE  WalkInv'
<1>1. /\ result = "none" /\ UNCHANGED <<argv, options>>
      /\ result' = IF options.flags \cap {"help", "version"} = {} /\ options.path = ""
                     THEN "missing" ELSE "ok"
  BY DEF Finish
<1>2. options = OptionsGiven /\ ~SomeBadArgument /\ ~SecondPath /\ argv \in Seq(Args)
  BY <1>1 DEF WalkInv
<1>3. options.path = "" <=> Paths = {}
  BY <1>2, PathTakenIsGiven DEF PathTaken
<1>4. options.flags \cap {"help", "version"} = {} <=> HeadsOf({"help", "version"}) = {}
  <2>1. options.flags = {argv[p].kind : p \in HeadsOf(Flags)}
    BY <1>2 DEF OptionsGiven, FlagsGiven
  <2>2. HeadsOf({"help", "version"}) = {p \in HeadsOf(Flags) : argv[p].kind \in {"help", "version"}}
    BY DEF HeadsOf, Flags
  <2> QED
    BY <2>1, <2>2
<1>5. result' # "ok" <=> NothingToDo
  BY <1>1, <1>3, <1>4 DEF NothingToDo
<1>6. /\ argv' = argv
      /\ SomeBadArgument' = SomeBadArgument /\ SecondPath' = SecondPath
      /\ NothingToDo' = NothingToDo /\ OptionsGiven' = OptionsGiven
  BY <1>1, <1>2, SameArguments
<1>7. RefusedExactlyWhenWrong'
  BY <1>1, <1>2, <1>5, <1>6 DEF RefusedExactlyWhenWrong
<1> QED
  BY <1>1, <1>2, <1>6, <1>7 DEF WalkInv

LEMMA InitialWalk == CliInit => WalkInv
<1> SUFFICES ASSUME CliInit PROVE WalkInv
  OBVIOUS
<1>1. argv = <<>> /\ options = OptionsInit /\ result = "none"
  BY DEF CliInit
<1>2. argv \in Seq(Args) /\ Len(argv) = 0
  BY <1>1
<1>3. Heads = {}
  BY <1>2 DEF Heads
<1>4. Standing
  <2>1. Values(IsValue, argv) /\ 1 \in Nat
    BY IsValueSolves
  <2>2. IsValue[1] => 1 > 1
    BY <2>1, Zenon DEF Values
  <2> QED
    BY <1>2, <2>2 DEF Standing
<1>5. ~SomeBadArgument /\ ~SecondPath
  BY <1>3 DEF SomeBadArgument, SecondPath, Paths, HeadsOf
<1>6. Paths = {} /\ HeadsOf(Flags) = {} /\ \A o : Given(o) = {}
  BY <1>3 DEF Paths, HeadsOf, Given
<1>7. options = OptionsGiven
  BY <1>1, <1>6 DEF OptionsInit, OptionsGiven, FlagsGiven, FormatGiven, BaseGiven, ChunkGiven, PathGiven
<1>8. options \in OptionsType
  <2>1. "auto" \in Formats /\ 0 \in Address /\ DefaultChunk \in 1 .. SizeMax
    BY CliAssumption, WidthAssumption DEF Formats, Address
  <2> QED
    BY <1>1, <2>1 DEF OptionsInit, OptionsType
<1>9. RefusedExactlyWhenWrong
  BY <1>1 DEF RefusedExactlyWhenWrong
<1> QED
  BY <1>1, <1>2, <1>4, <1>5, <1>7, <1>8, <1>9 DEF WalkInv

LEMMA WalkInvariance == CliSpec => []WalkInv
<1>1. WalkInv /\ [CliNext]_cliVars => WalkInv'
  <2> SUFFICES ASSUME WalkInv, [CliNext]_cliVars PROVE WalkInv'
    OBVIOUS
  <2>1. ASSUME NEW arg \in Args, ReadFlag(arg) PROVE WalkInv'
    BY <2>1, ReadFlagKeepsInv
  <2>2. ASSUME NEW arg \in Args, ReadJoined(arg) PROVE WalkInv'
    BY <2>2, ReadJoinedKeepsInv
  <2>3. ASSUME NEW arg \in Args, ReadSeparate(arg) PROVE WalkInv'
    BY <2>3, ReadSeparateKeepsInv
  <2>4. ASSUME NEW arg \in Args, ReadLastSeparate(arg) PROVE WalkInv'
    BY <2>4, ReadLastSeparateKeepsInv
  <2>5. ASSUME NEW arg \in Args, RefuseUnknown(arg) PROVE WalkInv'
    BY <2>5, RefuseUnknownKeepsInv
  <2>6. ASSUME NEW arg \in Args, RefusePath(arg) PROVE WalkInv'
    BY <2>6, RefusePathKeepsInv
  <2>7. ASSUME NEW arg \in Args, ReadPath(arg) PROVE WalkInv'
    BY <2>7, ReadPathKeepsInv
  <2>8. CASE Finish
    BY <2>8, FinishKeepsInv
  <2>9. CASE UNCHANGED cliVars
    <3>1. argv' = argv /\ options' = options /\ result' = result
      BY <2>9 DEF cliVars
    <3>2. /\ Standing' <=> Standing
          /\ SomeBadArgument' = SomeBadArgument /\ SecondPath' = SecondPath
          /\ NothingToDo' = NothingToDo /\ OptionsGiven' = OptionsGiven
      BY <3>1, SameArguments DEF WalkInv
    <3> QED
      BY <3>1, <3>2 DEF WalkInv, RefusedExactlyWhenWrong
  <2> QED
    BY <2>1, <2>2, <2>3, <2>4, <2>5, <2>6, <2>7, <2>8, <2>9 DEF CliNext
<1> QED
  BY <1>1, InitialWalk, PTL DEF CliSpec

\* For every argument list the parse is refused exactly when an argument is bad,
\* a second path is given or nothing is asked for, whatever stands before or
\* after it: the arguments that --format, --base and --entropy-chunk consume are
\* those that the list alone makes values (cli.c:116-195).
THEOREM AlwaysRefusedExactlyWhenWrong == CliSpec => []RefusedExactlyWhenWrong
<1>1. WalkInv => RefusedExactlyWhenWrong
  BY DEF WalkInv
<1> QED
  BY <1>1, WalkInvariance, PTL

\* For every argument list that is accepted the options are the last values
\* given, the flags that stand as options and the one path; the window size is
\* positive (cli.c:119-172).
THEOREM OptionsAlwaysWhatWasGiven == CliSpec => []OptionsAreWhatWasGiven
<1>1. WalkInv => OptionsAreWhatWasGiven
  <2> SUFFICES ASSUME WalkInv, result = "ok" PROVE OptionsTold
    BY OptionsUnfolded DEF OptionsAreWhatWasGiven
  <2>1. options = OptionsGiven /\ options \in OptionsType
    BY DEF WalkInv
  <2>2. options.chunk \in 1 .. SizeMax
    BY <2>1 DEF OptionsType
  <2> QED
    BY <2>1, <2>2 DEF OptionsTold, OptionsGiven, FlagsGiven, FormatGiven, BaseGiven, ChunkGiven,
       PathGiven
<1> QED
  BY <1>1, WalkInvariance, PTL

=============================================================================
