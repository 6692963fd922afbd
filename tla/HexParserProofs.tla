--------------------------- MODULE HexParserProofs --------------------------
(***************************************************************************)
(* The HEX parser keeps its addresses inside the address space, its        *)
(* statistics in step with the image, accepts only valid files and blames  *)
(* only invalid ones, and loads what the records say, for every byte       *)
(* width, every set of lines, files of any length and every failing        *)
(* allocation.                                                             *)
(***************************************************************************)
EXTENDS HexParser, FirmwareImageProofs

-----------------------------------------------------------------------------
(* Arithmetic.                                                             *)

\* Two bytes make a 16-bit number.
LEMMA TwoBytes ==
  ASSUME NEW b \in Nat, NEW x \in 0 .. b - 1, NEW y \in 0 .. b - 1
  PROVE  x * b + y \in 0 .. b * b - 1
<1>1. x * b \in Nat /\ x * b <= (b - 1) * b
  BY SMT
<1>2. (b - 1) * b = b * b - b /\ b * b \in Nat
  BY SMT
<1> QED
  BY <1>1, <1>2

\* A 16-bit number times a unit no larger than 2^16.
LEMMA Shifted ==
  ASSUME NEW w \in Nat, NEW x \in 0 .. w - 1, NEW unit \in 0 .. w
  PROVE  x * unit \in Nat /\ x * unit <= w * w - w
<1>1. x * unit \in Nat /\ x * unit <= x * w
  BY SMT
<1>2. x * w <= (w - 1) * w /\ x * w \in Nat
  BY SMT
<1>3. (w - 1) * w = w * w - w /\ w * w \in Nat
  BY SMT
<1> QED
  BY <1>1, <1>2, <1>3

\* A number divided: quotient and remainder.
LEMMA Division ==
  ASSUME NEW b \in Nat, b > 0, NEW x \in Nat
  PROVE  x \div b \in Nat /\ x % b \in 0 .. b - 1 /\ x = b * (x \div b) + (x % b)
<1>1. x \div b \in Nat
  BY SMT
<1>2. x % b \in 0 .. b - 1
  BY SMT
<1>3. x = b * (x \div b) + (x % b)
  BY SMT
<1> QED
  BY <1>1, <1>2, <1>3

\* A 16-bit number is two bytes.
LEMMA BytesOfWord ==
  ASSUME NEW b \in Nat, b > 0, NEW x \in 0 .. b * b - 1
  PROVE  x \div b \in 0 .. b - 1 /\ x % b \in 0 .. b - 1
<1>1. b * b \in Nat
  BY SMT
<1>2. x \in Nat /\ x < b * b
  BY <1>1
<1>3. PICK q \in Nat, r \in 0 .. b - 1 : q = x \div b /\ r = x % b /\ x = b * q + r
  BY <1>2, Division
<1>4. q < b
  <2>1. CASE q >= b
    <3>1. b * q >= b * b /\ b * q \in Nat
      BY <2>1, SMT
    <3> QED
      BY <1>1, <1>2, <1>3, <3>1
  <2> QED
    BY <2>1
<1> QED
  BY <1>3, <1>4

\* What is left over by any division is the remainder.
LEMMA RemainderIs ==
  ASSUME NEW b \in Nat \ {0}, NEW x \in Nat, NEW q \in Nat, NEW r \in 0 .. b - 1,
         x = b * q + r
  PROVE  x % b = r
BY SMTT(30)

\* The checksum of the code and the definition of the format agree.
LEMMA ChecksumMeansZero ==
  ASSUME NEW b \in Nat \ {0}, NEW sum \in Nat, NEW c \in 0 .. b - 1
  PROVE  c = (b - (sum % b)) % b <=> (sum + c) % b = 0
<1> DEFINE r == sum % b
           q == sum \div b
<1>1. r \in 0 .. b - 1 /\ q \in Nat /\ sum = b * q + r
  BY Division
<1> HIDE DEF r, q
<1>2. (b - r) % b = IF r = 0 THEN 0 ELSE b - r
  <2>1. CASE r = 0
    <3>1. b - r \in Nat /\ b - r = b * 1 + 0 /\ 0 \in 0 .. b - 1
      BY <2>1
    <3> QED
      BY <2>1, <3>1, RemainderIs
  <2>2. CASE r # 0
    <3>1. b - r \in Nat /\ b - r = b * 0 + (b - r) /\ b - r \in 0 .. b - 1
      BY <1>1, <2>2
    <3> QED
      BY <2>2, <3>1, RemainderIs
  <2> QED
    BY <2>1, <2>2
<1>3. (sum + c) % b = IF r + c < b THEN r + c ELSE r + c - b
  <2>1. sum + c \in Nat
    OBVIOUS
  <2>2. CASE r + c < b
    <3>1. r + c \in 0 .. b - 1 /\ sum + c = b * q + (r + c)
      BY <1>1, <2>2
    <3> QED
      BY <1>1, <2>1, <2>2, <3>1, RemainderIs
  <2>3. CASE ~(r + c < b)
    <3>1. r + c - b \in 0 .. b - 1 /\ q + 1 \in Nat
      BY <1>1, <2>3
    <3>2. b * (q + 1) = b * q + b /\ b * q \in Nat
      BY <1>1, SMT
    <3>3. sum + c = b * (q + 1) + (r + c - b)
      BY <1>1, <3>2
    <3> QED
      BY <1>1, <2>1, <2>3, <3>1, <3>3, RemainderIs
  <2> QED
    BY <2>2, <2>3
<1>4. c = (b - r) % b <=> (sum + c) % b = 0
  BY <1>1, <1>2, <1>3
<1> QED
  BY <1>4 DEF r

-----------------------------------------------------------------------------
(* Lines and records.                                                      *)

LEMMA HexWidths ==
  /\ ByteBase \in Nat /\ ByteBase > 5 /\ Byte = 0 .. ByteBase - 1
  /\ Word = ByteBase * ByteBase /\ Word \in Nat /\ Word > ByteBase
  /\ Word * Word \in Nat /\ Word <= Word * Word /\ Word * Word + ByteBase <= AddrMax
  /\ AddrMax \in Nat /\ SizeMax \in Nat /\ Paragraph \in 0 .. Word
<1>1. /\ ByteBase \in Nat /\ ByteBase > 5 /\ Byte = 0 .. ByteBase - 1
      /\ Word * Word + ByteBase <= AddrMax /\ Paragraph \in 1 .. Word
  BY HexAssumption
<1>2. Word = ByteBase * ByteBase
  BY DEF Word
<1>3. Word \in Nat /\ Word > ByteBase
  BY <1>1, <1>2
<1>4. Word * Word \in Nat /\ Word <= Word * Word
  BY <1>1, <1>3
<1>5. AddrMax \in Nat /\ SizeMax \in Nat
  BY WidthAssumption
<1> QED
  BY <1>1, <1>2, <1>3, <1>4, <1>5

\* Total adds its numbers up: it is the count of as many units as they say.
LEMMA TotalCounted ==
  ASSUME NEW B \in Nat, NEW weight, IsFiniteSet(DOMAIN weight),
         \A x \in DOMAIN weight : weight[x] \in 0 .. B
  PROVE  /\ Total(weight) =
              Cardinality({u \in (DOMAIN weight) \X (1 .. B) : u[2] <= weight[u[1]]})
         /\ Total(weight) \in Nat
<1> DEFINE D == DOMAIN weight
           First(s) == CHOOSE x \in s : TRUE
           first == [s \in SUBSET D |-> First(s)]
           Units(s) == {u \in D \X (1 .. B) : u[1] \in s /\ u[2] <= weight[u[1]]}
           count == [s \in SUBSET D |-> Cardinality(Units(s))]
           IsSum(f) == f = [s \in SUBSET D |-> IF s = {} THEN 0
                                               ELSE weight[First(s)] + f[s \ {First(s)}]]
           sum == CHOOSE f : IsSum(f)
<1>2. IsFiniteSet(D) /\ IsFiniteSet(D \X (1 .. B))
  <2>1. B \in Int /\ 1 \in Int
    OBVIOUS
  <2>2. IsFiniteSet(1 .. B)
    BY <2>1, FS_Interval
  <2> QED
    BY <2>2, FS_Product
<1>3. \A s \in SUBSET D : IsFiniteSet(Units(s)) /\ Cardinality(Units(s)) \in Nat
  <2> TAKE s \in SUBSET D
  <2>1. Units(s) \in SUBSET (D \X (1 .. B))
    OBVIOUS
  <2>2. IsFiniteSet(Units(s))
    BY <1>2, <2>1, FS_Subset
  <2> QED
    BY <2>2, FS_CardinalityType
<1>4. \A s \in SUBSET D : s # {} => First(s) \in s
  OBVIOUS
<1>5. count[{}] = 0
  <2>1. Units({}) = {}
    OBVIOUS
  <2> QED
    BY <2>1, FS_EmptySet
<1>6. ASSUME NEW s \in SUBSET D, NEW x \in s
      PROVE  count[s] = weight[x] + count[s \ {x}]
  <2>1. weight[x] \in Nat /\ weight[x] <= B
    OBVIOUS
  <2>2. Units(s) = ({x} \X (1 .. weight[x])) \cup Units(s \ {x})
    BY <2>1
  <2>3. ({x} \X (1 .. weight[x])) \cap Units(s \ {x}) = {}
    OBVIOUS
  <2>5. /\ IsFiniteSet({x} \X (1 .. weight[x]))
        /\ Cardinality({x} \X (1 .. weight[x])) = weight[x]
    BY <2>1, UnitsOfOne
  <2>6. IsFiniteSet(Units(s \ {x}))
    BY <1>3
  <2> HIDE DEF Units
  <2> QED
    BY <2>2, <2>3, <2>5, <2>6, DisjointCount
<1>7. IsSum(sum)
  <2>1. \A s \in SUBSET D : s # {} => count[s] = weight[First(s)] + count[s \ {First(s)}]
    BY <1>4, <1>6
  <2>2. IsSum(count)
    BY <1>5, <2>1
  <2> HIDE DEF IsSum
  <2> QED
    BY <2>2
<1>8. Total(weight) = sum[D]
  BY DEF Total, FoldFunction, FoldFunctionOnSet, MapThenFoldSet
<1>9. SumsUp(D, first, weight, sum)
  <2>1. \A s \in SUBSET D :
          sum[s] = IF s = {} THEN 0 ELSE weight[First(s)] + sum[s \ {First(s)}]
    <3> HIDE DEF sum
    <3> QED
      BY <1>7
  <2> HIDE DEF sum
  <2> QED
    BY <1>4, <2>1 DEF SumsUp
<1>10. Counts(D, weight, count)
  BY <1>5, <1>6 DEF Counts
<1>11. /\ Units(D) = {u \in D \X (1 .. B) : u[2] <= weight[u[1]]}
       /\ count[D] = Cardinality(Units(D)) /\ count[D] \in Nat
  BY <1>3
<1> HIDE DEF sum, count, first, D, Units
<1>12. sum[D] = count[D]
  BY <1>2, <1>9, <1>10, SumIsCount
<1> QED
  BY <1>8, <1>11, <1>12 DEF D

\* The sum of a record's bytes is a number, for every record.
LEMMA TotalIsNatural ==
  ASSUME NEW B \in Nat, NEW bytes \in Seq(0 .. B)
  PROVE  Total(bytes) \in Nat
<1>1. DOMAIN bytes = 1 .. Len(bytes) /\ \A x \in DOMAIN bytes : bytes[x] \in 0 .. B
  OBVIOUS
<1>2. IsFiniteSet(1 .. Len(bytes))
  <2>1. Len(bytes) \in Int /\ 1 \in Int
    OBVIOUS
  <2> QED
    BY <2>1, FS_Interval
<1> QED
  BY <1>1, <1>2, TotalCounted

LEMMA RecordFacts ==
  ASSUME NEW l \in Lines, l.form = "record"
  PROVE  /\ l.type \in Nat
         /\ l.offset \in 0 .. Word - 1
         /\ l.data \in Seq(0 .. ByteBase - 1) /\ l.data \in Seq(Byte)
         /\ Len(l.data) \in Nat /\ Len(l.data) < ByteBase
         /\ l.checksum \in 0 .. ByteBase - 1
         /\ RecordSum(l) \in Nat
<1>1. l \in Line
  BY HexAssumption
<1>2. l \in [form : {"record"}, type : 0 .. ByteBase - 1, offset : 0 .. Word - 1,
             data : Seq(0 .. ByteBase - 1), checksum : 0 .. ByteBase - 1]
  BY <1>1 DEF Line
<1>3. /\ l.type \in 0 .. ByteBase - 1 /\ l.offset \in 0 .. Word - 1
      /\ l.data \in Seq(0 .. ByteBase - 1) /\ l.checksum \in 0 .. ByteBase - 1
  BY <1>2
<1>4. Len(l.data) \in Nat
  BY <1>3, LenProperties
<1>5. Byte = 0 .. ByteBase - 1 /\ Len(l.data) < ByteBase
  BY HexAssumption
<1>6. RecordSum(l) \in Nat
  <2>1. PICK n \in 0 .. Word - 1 : n = l.offset
    BY <1>3
  <2>2. n \div ByteBase \in 0 .. ByteBase - 1 /\ n % ByteBase \in 0 .. ByteBase - 1
    BY <2>1, HexWidths, BytesOfWord
  <2>3. AddressBytes(l) \in Seq(0 .. ByteBase - 1)
    BY <2>1, <2>2 DEF AddressBytes
  <2>4. Total(AddressBytes(l)) \in Nat /\ Total(l.data) \in Nat
    <3>1. PICK m \in Nat : m = ByteBase - 1
      BY HexWidths
    <3>2. AddressBytes(l) \in Seq(0 .. m) /\ l.data \in Seq(0 .. m)
      BY <1>3, <2>3, <3>1
    <3> QED
      BY <3>1, <3>2, TotalIsNatural
  <2>5. l.type \in Nat
    BY <1>3
  <2> QED
    BY <1>4, <2>4, <2>5 DEF RecordSum
<1> QED
  BY <1>3, <1>4, <1>5, <1>6

LEMMA FormFacts ==
  ASSUME NEW l \in Lines
  PROVE  l.form \in {"blank", "long", "garbled", "record"}
<1>1. l \in Line
  BY HexAssumption
<1> QED
  BY <1>1 DEF Line

\* A record whose checksum the parser accepts sums to zero, and no other does.
LEMMA ChecksumIsSum ==
  ASSUME NEW l \in Lines, l.form = "record"
  PROVE  ChecksumOK(l) <=> SumsToZero(l)
<1>1. /\ RecordSum(l) \in Nat /\ l.checksum \in 0 .. ByteBase - 1
      /\ ByteBase \in Nat \ {0}
  BY RecordFacts, HexWidths
<1> QED
  BY <1>1, ChecksumMeansZero DEF ChecksumOK, SumsToZero

-----------------------------------------------------------------------------
(* Addresses.                                                              *)

\* The largest base a record can set.
MaxBase == Word * Word - Word

BaseInRange == base \in 0 .. MaxBase

\* A sequence of length two has two elements.
LEMMA PairOf ==
  ASSUME NEW S, NEW d \in Seq(S), Len(d) = 2
  PROVE  d[1] \in S /\ d[2] \in S
<1>1. \A n \in 1 .. Len(d) : d[n] \in S
  BY ElementOfSeq
<1> QED
  BY <1>1

LEMMA NewBaseInRange ==
  ASSUME NEW l \in Lines, l.form = "record", l.type \in {2, 4}, ShapeOK(l)
  PROVE  NewBase(l) \in 0 .. MaxBase
<1>1. Len(l.data) = 2 /\ l.data \in Seq(0 .. ByteBase - 1)
  <2>1. CASE l.type = 2
    BY <2>1, RecordFacts DEF ShapeOK
  <2>2. CASE l.type = 4
    BY <2>2, RecordFacts DEF ShapeOK
  <2> QED
    BY <2>1, <2>2
<1>2. l.data[1] \in 0 .. ByteBase - 1 /\ l.data[2] \in 0 .. ByteBase - 1
  BY <1>1, PairOf
<1>3. Operand(l) \in 0 .. Word - 1
  BY <1>2, TwoBytes, HexWidths DEF Operand
<1>4. /\ Operand(l) * Paragraph \in Nat /\ Operand(l) * Paragraph <= MaxBase
      /\ Operand(l) * Word \in Nat /\ Operand(l) * Word <= MaxBase
  <2>1. Word \in Nat /\ Paragraph \in 0 .. Word /\ Word \in 0 .. Word
    BY HexWidths
  <2>2. /\ Operand(l) * Paragraph \in Nat
        /\ Operand(l) * Paragraph <= Word * Word - Word
    BY <1>3, <2>1, Shifted
  <2>3. Operand(l) * Word \in Nat /\ Operand(l) * Word <= Word * Word - Word
    BY <1>3, <2>1, Shifted
  <2> QED
    BY <2>2, <2>3 DEF MaxBase
<1>5. MaxBase \in Nat
  BY HexWidths DEF MaxBase
<1> QED
  BY <1>4, <1>5 DEF NewBase

\* From any base the records can set, any record stays inside the address space.
LEMMA RecordAddress ==
  ASSUME BaseInRange, NEW l \in Lines, l.form = "record"
  PROVE  /\ StartOf(l) = base + l.offset /\ StartOf(l) \in Address
         /\ l.data # <<>> =>
              /\ ~AddressOverflows(StartOf(l), Len(l.data))
              /\ EndOf(StartOf(l), l.data) = base + l.offset + Len(l.data) - 1
<1> DEFINE off == l.offset
           len == Len(l.data)
<1>1. /\ off \in 0 .. Word - 1 /\ len \in Nat /\ len < ByteBase
  BY RecordFacts
<1>2. l.data # <<>> => len > 0
  BY RecordFacts, <1>1, EmptySeq
<1>3. base \in Nat /\ base <= Word * Word - Word
  BY HexWidths DEF BaseInRange, MaxBase
<1>4. StartOf(l) = WrapAddr(base + off)
  BY DEF StartOf
<1> HIDE DEF off, len
<1>5. base + off \in Nat /\ base + off + ByteBase <= AddrMax
  BY <1>1, <1>3, HexWidths
<1>6. StartOf(l) = base + off /\ StartOf(l) \in Address
  BY <1>4, <1>5, HexWidths DEF WrapAddr, Address
<1>7. base + off + len - 1 <= AddrMax
  BY <1>1, <1>5, HexWidths
<1>8. len - 1 <= AddrMax - (base + off)
  BY <1>1, <1>5, HexWidths
<1>9. ~(len - 1 > AddrMax - (base + off))
  BY <1>1, <1>5, <1>8, HexWidths
<1>10. ASSUME len > 0
       PROVE  WrapAddr(base + off + len - 1) = base + off + len - 1
  BY <1>1, <1>5, <1>7, <1>10, HexWidths DEF WrapAddr
<1>11. l.data # <<>> => ~AddressOverflows(StartOf(l), Len(l.data))
  BY <1>6, <1>9 DEF AddressOverflows, len
<1>12. ASSUME l.data # <<>>
       PROVE  EndOf(StartOf(l), l.data) = base + off + len - 1
  <2>1. EndOf(StartOf(l), l.data) = WrapAddr(base + off + len - 1)
    BY <1>6 DEF EndOf, len
  <2> QED
    BY <1>2, <1>10, <1>12, <2>1
<1> QED
  BY <1>6, <1>11, <1>12 DEF off, len

-----------------------------------------------------------------------------
(* Files, line by line.                                                    *)

LEMMA AppendFacts ==
  ASSUME NEW S, NEW s \in Seq(S), NEW x \in S
  PROVE  /\ Append(s, x) \in Seq(S) /\ Len(s) \in Nat /\ Len(Append(s, x)) = Len(s) + 1
         /\ \A k \in 1 .. Len(s) : Append(s, x)[k] = s[k]
         /\ Append(s, x)[Len(s) + 1] = x
BY AppendProperties, LenProperties

\* A valid file stays one with another valid line, and with nothing but a blank
\* one once it has its EOF record.
LEMMA ValidAppend ==
  ASSUME NEW s \in Seq(Lines), NEW l \in Lines, ValidPrefix(s), ValidLine(l),
         HasEof(s) => l.form = "blank"
  PROVE  ValidPrefix(Append(s, l))
<1> DEFINE t == Append(s, l)
<1>1. /\ Len(s) \in Nat /\ Len(t) = Len(s) + 1
      /\ \A k \in 1 .. Len(s) : t[k] = s[k]
      /\ t[Len(s) + 1] = l
  BY AppendFacts
<1> HIDE DEF t
<1>2. ASSUME NEW k \in 1 .. Len(t)
      PROVE  ValidLine(t[k])
  <2>1. CASE k \in 1 .. Len(s)
    BY <1>1, <2>1 DEF ValidPrefix
  <2>2. CASE k = Len(s) + 1
    BY <1>1, <2>2
  <2> QED
    BY <1>1, <2>1, <2>2
<1>3. ASSUME NEW k \in 1 .. Len(t), NEW m \in 1 .. Len(t), k < m, IsRecord(t[k], {1})
      PROVE  t[m].form = "blank"
  <2>1. k \in 1 .. Len(s)
    BY <1>1, <1>3
  <2>2. IsRecord(s[k], {1})
    BY <1>1, <1>3, <2>1
  <2>3. CASE m \in 1 .. Len(s)
    BY <1>1, <1>3, <2>1, <2>2, <2>3 DEF ValidPrefix
  <2>4. CASE m = Len(s) + 1
    BY <1>1, <2>1, <2>2, <2>4 DEF HasEof
  <2> QED
    BY <1>1, <2>3, <2>4
<1> QED
  BY <1>2, <1>3 DEF ValidPrefix, t

\* A line that is not valid, or stands behind the EOF record, spoils the file.
LEMMA InvalidAppend ==
  ASSUME NEW s \in Seq(Lines), NEW l \in Lines,
         ~ValidLine(l) \/ (HasEof(s) /\ l.form # "blank")
  PROVE  ~ValidPrefix(Append(s, l))
<1> DEFINE t == Append(s, l)
           n == Len(s) + 1
<1>1. /\ Len(s) \in Nat /\ Len(t) = n
      /\ \A k \in 1 .. Len(s) : t[k] = s[k]
      /\ t[n] = l
  BY AppendFacts
<1> HIDE DEF t
<1>2. n \in 1 .. Len(t)
  BY <1>1
<1>3. CASE ~ValidLine(l)
  BY <1>1, <1>2, <1>3 DEF ValidPrefix, t
<1>4. CASE HasEof(s) /\ l.form # "blank"
  <2>1. PICK k \in 1 .. Len(s) : IsRecord(s[k], {1})
    BY <1>4 DEF HasEof
  <2>2. k \in 1 .. Len(t) /\ k < n /\ IsRecord(t[k], {1})
    BY <1>1, <2>1
  <2> QED
    BY <1>1, <1>2, <1>4, <2>2 DEF ValidPrefix, t
<1> QED
  BY <1>3, <1>4

LEMMA EofAppend ==
  ASSUME NEW s \in Seq(Lines), NEW l \in Lines
  PROVE  HasEof(Append(s, l)) <=> HasEof(s) \/ IsRecord(l, {1})
<1> DEFINE t == Append(s, l)
<1>1. /\ Len(s) \in Nat /\ Len(t) = Len(s) + 1
      /\ \A k \in 1 .. Len(s) : t[k] = s[k]
      /\ t[Len(s) + 1] = l
  BY AppendFacts
<1> HIDE DEF t
<1>2. ASSUME HasEof(t) PROVE HasEof(s) \/ IsRecord(l, {1})
  <2>1. PICK k \in 1 .. Len(t) : IsRecord(t[k], {1})
    BY <1>2 DEF HasEof
  <2>2. k \in 1 .. Len(s) \/ k = Len(s) + 1
    BY <1>1
  <2> QED
    BY <1>1, <2>1, <2>2 DEF HasEof
<1>3. ASSUME HasEof(s) PROVE HasEof(t)
  <2>1. PICK k \in 1 .. Len(s) : IsRecord(s[k], {1})
    BY <1>3 DEF HasEof
  <2>2. k \in 1 .. Len(t) /\ IsRecord(t[k], {1})
    BY <1>1, <2>1
  <2> QED
    BY <2>2 DEF HasEof
<1>4. ASSUME IsRecord(l, {1}) PROVE HasEof(t)
  <2>1. Len(s) + 1 \in 1 .. Len(t) /\ IsRecord(t[Len(s) + 1], {1})
    BY <1>1, <1>4
  <2> QED
    BY <2>1 DEF HasEof
<1> QED
  BY <1>2, <1>3, <1>4 DEF t

\* The file without its last line.
LEMMA FrontOfAppend ==
  ASSUME NEW S, NEW s \in Seq(S), NEW x \in S
  PROVE  SubSeq(Append(s, x), 1, Len(Append(s, x)) - 1) = s
<1> DEFINE t == Append(s, x)
<1>1. /\ t \in Seq(S) /\ Len(s) \in Nat /\ Len(t) = Len(s) + 1
      /\ \A k \in 1 .. Len(s) : t[k] = s[k]
  BY AppendFacts
<1> HIDE DEF t
<1>2. SubSeq(t, 1, Len(s)) = s
  BY <1>1
<1> QED
  BY <1>1, <1>2 DEF t

\* A further line adds itself to the lines of its type.
LEMMA RecordLinesAppend ==
  ASSUME NEW s \in Seq(Lines), NEW l \in Lines, NEW types
  PROVE  LET n == Len(s) + 1
             before == RecordLines(s, types)
             now == RecordLines(Append(s, l), types)
         IN  /\ now = IF IsRecord(l, types) THEN before \cup {n} ELSE before
             /\ before \in SUBSET (1 .. Len(s))
             /\ Cardinality(now) = Cardinality(before) + IF IsRecord(l, types) THEN 1 ELSE 0
<1> DEFINE t == Append(s, l)
           n == Len(s) + 1
           before == RecordLines(s, types)
           now == RecordLines(t, types)
<1>1. /\ Len(s) \in Nat /\ Len(t) = n
      /\ \A k \in 1 .. Len(s) : t[k] = s[k]
      /\ t[n] = l
  BY AppendFacts
<1> HIDE DEF t
<1>2. now = IF IsRecord(l, types) THEN before \cup {n} ELSE before
  <2>1. 1 .. Len(t) = (1 .. Len(s)) \cup {n}
    BY <1>1
  <2> QED
    BY <1>1, <2>1 DEF RecordLines
<1>3. before \in SUBSET (1 .. Len(s)) /\ n \notin before
  BY <1>1 DEF RecordLines
<1> HIDE DEF before, now
<1>4. IsFiniteSet(before) /\ Cardinality(before) \in Nat
  <2>1. IsFiniteSet(1 .. Len(s))
    BY <1>1, FS_Interval
  <2> QED
    BY <1>3, <2>1, FS_Subset, FS_CardinalityType
<1>5. Cardinality(now) = Cardinality(before) + IF IsRecord(l, types) THEN 1 ELSE 0
  <2>1. CASE IsRecord(l, types)
    BY <1>2, <1>3, <1>4, <2>1, FS_AddElement
  <2>2. CASE ~IsRecord(l, types)
    BY <1>2, <1>4, <2>2
  <2> QED
    BY <2>1, <2>2
<1> QED
  BY <1>2, <1>3, <1>5 DEF before, now, t

\* What a valid line adds to what the file says of itself.
Advances(c, d, l) ==
  /\ d.records = c.records + IF l.form = "record" THEN 1 ELSE 0
  /\ d.dataRecords = c.dataRecords + IF IsRecord(l, {0}) THEN 1 ELSE 0
  /\ d.hasStart <=> c.hasStart \/ IsRecord(l, {5})
  /\ d.start = IF IsRecord(l, {5}) THEN l.data ELSE c.start

LEMMA DescribesAppend ==
  ASSUME NEW s \in Seq(Lines), NEW l \in Lines, ValidLine(l),
         NEW c, NEW d, Describes(s, c), Advances(c, d, l)
  PROVE  Describes(Append(s, l), d)
<1> DEFINE t == Append(s, l)
           n == Len(s) + 1
<1>1. Len(s) \in Nat /\ t[n] = l /\ \A k \in 1 .. Len(s) : t[k] = s[k]
  BY AppendFacts
<1>2. IsRecord(l, Supported) <=> l.form = "record"
  BY DEF ValidLine, ShapeOK, Supported, IsRecord
<1>3. Cardinality(RecordLines(t, Supported)) =
        Cardinality(RecordLines(s, Supported)) + IF l.form = "record" THEN 1 ELSE 0
  BY <1>2, RecordLinesAppend
<1>4. Cardinality(RecordLines(t, {0})) =
        Cardinality(RecordLines(s, {0})) + IF IsRecord(l, {0}) THEN 1 ELSE 0
  BY RecordLinesAppend
<1> DEFINE before == RecordLines(s, {5})
           now == RecordLines(t, {5})
<1>5. /\ now = IF IsRecord(l, {5}) THEN before \cup {n} ELSE before
      /\ before \in SUBSET (1 .. Len(s))
  BY RecordLinesAppend
<1>6. /\ c.hasStart <=> before # {}
      /\ \A k \in before : c.start = s[k].data \/ \E m \in before : k < m
      /\ c.records = Cardinality(RecordLines(s, Supported))
      /\ c.dataRecords = Cardinality(RecordLines(s, {0}))
  BY DEF Describes
<1> HIDE DEF before, now, t
<1>7. d.hasStart <=> now # {}
  BY <1>5, <1>6 DEF Advances
<1>8. ASSUME NEW k \in now
      PROVE  d.start = t[k].data \/ \E m \in now : k < m
  <2>1. CASE IsRecord(l, {5})
    <3>1. n \in now /\ d.start = t[n].data
      BY <1>1, <1>5, <2>1 DEF Advances
    <3>2. k = n \/ k < n
      BY <1>1, <1>5, <1>8, <2>1
    <3> QED
      BY <3>1, <3>2
  <2>2. CASE ~IsRecord(l, {5})
    <3>1. k \in before /\ now = before /\ k \in 1 .. Len(s) /\ d.start = c.start
      BY <1>5, <1>8, <2>2 DEF Advances
    <3>2. t[k] = s[k]
      BY <1>1, <3>1
    <3> QED
      BY <1>6, <3>1, <3>2
  <2> QED
    BY <2>1, <2>2
<1>9. /\ d.records = Cardinality(RecordLines(t, Supported))
      /\ d.dataRecords = Cardinality(RecordLines(t, {0}))
  BY <1>3, <1>4, <1>6 DEF Advances
<1> QED
  BY <1>7, <1>8, <1>9 DEF Describes, now, t

LEMMA DescribesNothing == Describes(<<>>, StatsInit)
<1>1. \A types : RecordLines(<<>>, types) = {}
  BY DEF RecordLines
<1>2. Cardinality({}) = 0
  BY FS_EmptySet
<1> QED
  BY <1>1, <1>2 DEF Describes, StatsInit

-----------------------------------------------------------------------------
(* The inductive invariant.                                                *)

StatsType ==
  [lines : Nat, records : Nat, dataRecords : Nat, dataBytes : 0 .. SizeMax,
   sawEof : BOOLEAN, hasStart : BOOLEAN, start : Seq(0 .. ByteBase - 1)]

\* Within a call nothing has gone wrong yet, and saw_eof tells whether the EOF
\* record was among the lines read.
SoundSoFar ==
  pc = "reading" =>
    /\ result = "none" /\ diag = "none"
    /\ ValidPrefix(seen)
    /\ stats.sawEof <=> HasEof(seen)

HexInv ==
  /\ ImageInv
  /\ TypeOK
  /\ BaseInRange
  /\ SoundSoFar
  /\ StatsMatchImage
  /\ AcceptsOnlyValid
  /\ SyntaxErrorsAreReal

LEMMA CountedFacts ==
  ASSUME stats \in StatsType
  PROVE  /\ Counted \in StatsType
         /\ Counted.lines = stats.lines + 1
         /\ Counted.records = stats.records
         /\ Counted.dataRecords = stats.dataRecords
         /\ Counted.dataBytes = stats.dataBytes
         /\ Counted.sawEof = stats.sawEof
         /\ Counted.hasStart = stats.hasStart /\ Counted.start = stats.start
BY DEF StatsType, Counted

LEMMA RecordCounted ==
  ASSUME NEW c \in StatsType
  PROVE  LET d == [c EXCEPT !.records = @ + 1]
         IN  /\ d \in StatsType /\ d.lines = c.lines /\ d.records = c.records + 1
             /\ d.dataRecords = c.dataRecords /\ d.dataBytes = c.dataBytes
             /\ d.sawEof = c.sawEof /\ d.hasStart = c.hasStart /\ d.start = c.start
BY DEF StatsType

LEMMA EofSet ==
  ASSUME NEW c \in StatsType
  PROVE  LET d == [c EXCEPT !.sawEof = TRUE]
         IN  /\ d \in StatsType /\ d.lines = c.lines /\ d.records = c.records
             /\ d.dataRecords = c.dataRecords /\ d.dataBytes = c.dataBytes
             /\ d.sawEof = TRUE /\ d.hasStart = c.hasStart /\ d.start = c.start
BY DEF StatsType

LEMMA StartSet ==
  ASSUME NEW c \in StatsType, NEW data \in Seq(0 .. ByteBase - 1)
  PROVE  LET d == [c EXCEPT !.hasStart = TRUE, !.start = data]
         IN  /\ d \in StatsType /\ d.lines = c.lines /\ d.records = c.records
             /\ d.dataRecords = c.dataRecords /\ d.dataBytes = c.dataBytes
             /\ d.sawEof = c.sawEof /\ d.hasStart = TRUE /\ d.start = data
BY DEF StatsType

LEMMA CountedRecordFacts ==
  ASSUME stats \in StatsType
  PROVE  /\ CountedRecord \in StatsType
         /\ CountedRecord.lines = stats.lines + 1
         /\ CountedRecord.records = stats.records + 1
         /\ CountedRecord.dataRecords = stats.dataRecords
         /\ CountedRecord.dataBytes = stats.dataBytes
         /\ CountedRecord.sawEof = stats.sawEof
         /\ CountedRecord.hasStart = stats.hasStart
         /\ CountedRecord.start = stats.start
<1> DEFINE c == Counted
           d == CountedRecord
<1>1. d = [c EXCEPT !.records = @ + 1]
  BY DEF CountedRecord
<1>2. /\ c \in StatsType /\ c.lines = stats.lines + 1 /\ c.records = stats.records
      /\ c.dataRecords = stats.dataRecords /\ c.dataBytes = stats.dataBytes
      /\ c.sawEof = stats.sawEof /\ c.hasStart = stats.hasStart /\ c.start = stats.start
  BY CountedFacts
<1> HIDE DEF c, d
<1>3. /\ d \in StatsType /\ d.lines = c.lines /\ d.records = c.records + 1
      /\ d.dataRecords = c.dataRecords /\ d.dataBytes = c.dataBytes
      /\ d.sawEof = c.sawEof /\ d.hasStart = c.hasStart /\ d.start = c.start
  BY <1>1, <1>2, RecordCounted
<1>4. /\ d \in StatsType /\ d.lines = stats.lines + 1 /\ d.records = stats.records + 1
      /\ d.dataRecords = stats.dataRecords /\ d.dataBytes = stats.dataBytes
      /\ d.sawEof = stats.sawEof /\ d.hasStart = stats.hasStart /\ d.start = stats.start
  BY <1>2, <1>3
<1> QED
  BY <1>4 DEF d

LEMMA StatsInitFacts ==
  /\ StatsInit \in StatsType
  /\ StatsInit.lines = 0 /\ StatsInit.dataBytes = 0 /\ StatsInit.sawEof = FALSE
<1>1. <<>> \in Seq(0 .. ByteBase - 1)
  BY EmptySeq
<1>2. SizeMax \in Nat
  BY HexWidths
<1> QED
  BY <1>1, <1>2 DEF StatsType, StatsInit

-----------------------------------------------------------------------------
(* The two kinds of step: a line after which the call reads on, and a step *)
(* after which there is no call.                                           *)

\* What the invariant says within a call.
LEMMA InCallFacts ==
  ASSUME HexInv, pc = "reading"
  PROVE  /\ result = "none" /\ diag = "none" /\ ValidPrefix(seen)
         /\ stats.sawEof <=> HasEof(seen)
         /\ stats \in StatsType /\ seen \in Seq(Lines)
         /\ stats.lines = Len(seen)
         /\ Describes(seen, stats)
         /\ stats.dataBytes = totalLoaded - prior.bytes
         /\ prior.chunks \in Nat /\ prior.bytes \in Nat
         /\ Len(chunks) \in Nat /\ totalLoaded \in 0 .. SizeMax
<1>1. /\ result = "none" /\ diag = "none" /\ ValidPrefix(seen)
      /\ stats.sawEof <=> HasEof(seen)
  BY DEF HexInv, SoundSoFar
<1>2. stats \in StatsType /\ seen \in Seq(Lines)
  BY DEF HexInv, TypeOK, StatsType
<1>3. prior \in [chunks : Nat, bytes : Nat]
  BY DEF HexInv, TypeOK
<1>4. chunks \in Seq(SourceChunk) /\ totalLoaded \in 0 .. SizeMax
  BY DEF HexInv, ImageInv, ImageTypeOK
<1>5. prior.chunks \in Nat /\ prior.bytes \in Nat
  BY <1>3
<1>6. Len(chunks) \in Nat
  BY <1>4, LenProperties
<1>7. /\ stats.lines = Len(seen)
      /\ Describes(seen, stats)
      /\ stats.dataBytes = totalLoaded - prior.bytes
  BY DEF HexInv, StatsMatchImage, InCall
<1> QED
  BY <1>1, <1>2, <1>4, <1>5, <1>6, <1>7

\* A valid line that loads n bytes is counted for what it is.
LEMMA StatsKeepUp ==
  ASSUME HexInv, NEW l \in Lines, Read(l), Continue, ValidLine(l), NEW n \in Nat,
         totalLoaded' = totalLoaded + n,
         stats'.lines = stats.lines + 1, Advances(stats, stats', l),
         stats'.dataBytes = stats.dataBytes + n
  PROVE  StatsMatchImage'
<1>1. /\ pc = "reading" /\ seen' = Append(seen, l) /\ prior' = prior
      /\ result' = result
  BY DEF Read, Continue
<1>2. /\ result = "none" /\ seen \in Seq(Lines) /\ Describes(seen, stats)
      /\ stats.lines = Len(seen)
  BY <1>1, InCallFacts
<1>3. Describes(seen', stats')
  BY <1>1, <1>2, DescribesAppend
<1>4. stats'.lines = Len(seen')
  BY <1>1, <1>2, AppendFacts
<1>5. stats'.dataBytes = totalLoaded' - prior'.bytes
  <2> DEFINE bytes == stats.dataBytes
             held == prior.bytes
  <2>1. bytes = totalLoaded - held /\ totalLoaded \in Nat /\ held \in Nat
    BY <1>1, InCallFacts
  <2>2. bytes + n = totalLoaded' - held
    BY <2>1
  <2> QED
    BY <1>1, <2>2
<1> QED
  BY <1>1, <1>2, <1>3, <1>4, <1>5 DEF StatsMatchImage

LEMMA ReadsOnKeepsInv ==
  ASSUME HexInv, NEW l \in Lines, Read(l), Continue, ImageInv',
         base' \in 0 .. MaxBase, stats' \in StatsType, StatsMatchImage',
         ValidLine(l), stats.sawEof => l.form = "blank",
         stats'.sawEof <=> (stats.sawEof \/ IsRecord(l, {1}))
  PROVE  HexInv'
<1>1. /\ pc = "reading" /\ pc' = pc /\ seen' = Append(seen, l)
      /\ diag' = diag /\ result' = result /\ missing' = missing /\ prior' = prior
  BY DEF Read, Continue
<1>2. /\ result = "none" /\ diag = "none" /\ ValidPrefix(seen)
      /\ stats.sawEof <=> HasEof(seen)
      /\ seen \in Seq(Lines)
  BY <1>1, InCallFacts
<1>3. seen' \in Seq(Lines)
  BY <1>1, <1>2, AppendFacts
<1>4. ValidPrefix(seen')
  BY <1>1, <1>2, ValidAppend
<1>5. stats'.sawEof <=> HasEof(seen')
  BY <1>1, <1>2, EofAppend
<1>6. BaseInRange' /\ base' \in 0 .. Word * Word
  <2>1. MaxBase \in Nat /\ Word * Word \in Nat /\ MaxBase <= Word * Word
    BY HexWidths DEF MaxBase
  <2> QED
    BY <2>1 DEF BaseInRange
<1>7. TypeOK'
  <2>1. ImageTypeOK'
    BY DEF ImageInv
  <2>2. /\ pc' \in {"idle", "reading"}
        /\ diag' \in {"none", "argument", "open", "io", "syntax", "no eof", "resource"}
        /\ result' \in {"none", "ok", "failed"}
        /\ missing' \in {"none", "path", "image", "stats"}
        /\ prior' \in [chunks : Nat, bytes : Nat]
    BY <1>1 DEF HexInv, TypeOK
  <2> QED
    BY <1>3, <1>6, <2>1, <2>2 DEF TypeOK, StatsType
<1>8. SoundSoFar'
  BY <1>1, <1>2, <1>4, <1>5 DEF SoundSoFar
<1>9. AcceptsOnlyValid' /\ SyntaxErrorsAreReal'
  BY <1>1, <1>2 DEF AcceptsOnlyValid, SyntaxErrorsAreReal
<1> QED
  BY <1>6, <1>7, <1>8, <1>9 DEF HexInv

LEMMA BaseIsWide == \A b \in 0 .. MaxBase : b \in 0 .. Word * Word
BY HexWidths DEF MaxBase

LEMMA LeavesKeepsInv ==
  ASSUME HexInv, ImageInv', pc' = "idle", result' \in {"none", "failed"},
         diag' \in {"none", "argument", "open", "io", "syntax", "no eof", "resource"},
         missing' \in {"none", "path", "image", "stats"},
         base' \in 0 .. MaxBase, stats' \in StatsType, seen' \in Seq(Lines),
         prior' \in [chunks : Nat, bytes : Nat],
         result' = "failed" /\ diag' \notin {"argument", "open"} =>
           stats'.lines = Len(seen') /\ chunks' = <<>> /\ totalLoaded' = 0,
         SyntaxErrorsAreReal'
  PROVE  HexInv'
<1>1. BaseInRange' /\ base' \in 0 .. Word * Word
  BY BaseIsWide, Zenon DEF BaseInRange
<1>2. TypeOK'
  <2>1. ImageTypeOK'
    BY DEF ImageInv
  <2> QED
    BY <1>1, <2>1 DEF TypeOK, StatsType
<1>3. SoundSoFar' /\ StatsMatchImage' /\ AcceptsOnlyValid'
  BY DEF SoundSoFar, StatsMatchImage, AcceptsOnlyValid, InCall
<1> QED
  BY <1>1, <1>2, <1>3 DEF HexInv

-----------------------------------------------------------------------------
(* Outside the loop.                                                       *)

LEMMA ZeroBase == 0 \in 0 .. MaxBase /\ MaxBase \in Nat
BY HexWidths DEF MaxBase

LEMMA NothingPriorTyped == NothingPrior \in [chunks : Nat, bytes : Nat]
BY DEF NothingPrior

LEMMA BeginFacts ==
  ASSUME HexInv, NEW null \in {"none", "path", "image", "stats"}, Begin(null)
  PROVE  /\ ImageInv' /\ pc = "idle" /\ missing' = null
         /\ seen' = <<>> /\ seen' \in Seq(Lines) /\ Len(seen') = 0
         /\ prior' \in [chunks : Nat, bytes : Nat]
         /\ prior'.chunks = Len(chunks') /\ prior'.bytes = totalLoaded'
         /\ base' = 0 /\ UNCHANGED imageVars
         /\ Len(chunks') \in Nat /\ totalLoaded' \in Nat
<1>1. /\ pc = "idle" /\ missing' = null /\ seen' = <<>> /\ base' = 0
      /\ prior' = [chunks |-> Len(chunks), bytes |-> totalLoaded]
      /\ UNCHANGED imageVars /\ chunks' = chunks /\ totalLoaded' = totalLoaded
  BY DEF Begin, imageVars, totalVars
<1>2. ImageInv'
  BY <1>1, UnchangedKeepsInv DEF HexInv
<1>3. chunks \in Seq(SourceChunk) /\ totalLoaded \in Nat
  BY HexWidths DEF HexInv, ImageInv, ImageTypeOK
<1>4. Len(chunks) \in Nat
  BY <1>3, LenProperties
<1>5. <<>> \in Seq(Lines) /\ Len(<<>>) = 0
  BY EmptySeq
<1> QED
  BY <1>1, <1>2, <1>3, <1>4, <1>5

LEMMA InvalidArgumentKeepsInv ==
  ASSUME HexInv, InvalidArgument
  PROVE  HexInv'
<1>1. PICK null \in {"path", "image", "stats"} :
        /\ Begin(null)
        /\ stats' = IF null = "stats" THEN stats ELSE StatsInit
        /\ diag' = "argument" /\ result' = "failed" /\ pc' = pc
  BY DEF InvalidArgument
<1>2. stats' \in StatsType
  BY <1>1, StatsInitFacts DEF HexInv, TypeOK, StatsType
<1>3. SyntaxErrorsAreReal'
  BY <1>1 DEF SyntaxErrorsAreReal
<1> QED
  BY <1>1, <1>2, <1>3, BeginFacts, ZeroBase, LeavesKeepsInv

LEMMA OpenFailsKeepsInv ==
  ASSUME HexInv, OpenFails
  PROVE  HexInv'
<1>1. /\ Begin("none") /\ stats' = StatsInit
      /\ diag' = "open" /\ result' = "failed" /\ pc' = pc
  BY DEF OpenFails
<1>2. SyntaxErrorsAreReal'
  BY <1>1 DEF SyntaxErrorsAreReal
<1> QED
  BY <1>1, <1>2, BeginFacts, StatsInitFacts, ZeroBase, LeavesKeepsInv

LEMMA OpenKeepsInv ==
  ASSUME HexInv, Open
  PROVE  HexInv'
<1>1. /\ Begin("none") /\ stats' = StatsInit
      /\ diag' = "none" /\ result' = "none" /\ pc' = "reading"
  BY DEF Open
<1>2. /\ ImageInv' /\ missing' = "none"
      /\ seen' = <<>> /\ seen' \in Seq(Lines) /\ Len(seen') = 0
      /\ prior' \in [chunks : Nat, bytes : Nat]
      /\ prior'.chunks = Len(chunks') /\ prior'.bytes = totalLoaded'
      /\ base' = 0 /\ Len(chunks') \in Nat /\ totalLoaded' \in Nat
  BY <1>1, BeginFacts
<1>3. TypeOK'
  <2>1. ImageTypeOK' /\ stats' \in StatsType
    BY <1>1, <1>2, StatsInitFacts DEF ImageInv
  <2>2. base' \in 0 .. Word * Word
    BY <1>2, HexWidths
  <2> QED
    BY <1>1, <1>2, <2>1, <2>2 DEF TypeOK, StatsType
<1>4. BaseInRange'
  BY <1>2, ZeroBase DEF BaseInRange
<1>5. SoundSoFar'
  <2>1. 1 .. Len(seen') = {}
    BY <1>2
  <2>2. ValidPrefix(seen')
    BY <2>1 DEF ValidPrefix
  <2>3. ~HasEof(seen')
    BY <2>1 DEF HasEof
  <2>4. stats'.sawEof = FALSE
    BY <1>1, StatsInitFacts
  <2> QED
    BY <1>1, <2>2, <2>3, <2>4 DEF SoundSoFar
<1>6. StatsMatchImage'
  <2>1. stats'.lines = 0 /\ stats'.dataBytes = 0 /\ Describes(seen', stats')
    BY <1>1, <1>2, StatsInitFacts, DescribesNothing
  <2>2. ASSUME NEW a \in Nat, NEW b, b = a PROVE 0 = a - b
    BY <2>2
  <2>3. stats'.dataBytes = totalLoaded' - prior'.bytes
    BY <1>2, <2>1, <2>2, Zenon
  <2>4. stats'.lines = Len(seen') /\ result' # "failed"
    BY <1>1, <1>2, <2>1, Zenon
  <2> QED
    BY <2>1, <2>3, <2>4, Zenon DEF StatsMatchImage
<1>7. AcceptsOnlyValid' /\ SyntaxErrorsAreReal'
  BY <1>1 DEF AcceptsOnlyValid, SyntaxErrorsAreReal
<1> QED
  BY <1>2, <1>3, <1>4, <1>5, <1>6, <1>7 DEF HexInv

\* Every failure in the loop frees the image and says what it is about.
LEMMA FailKeepsInv ==
  ASSUME HexInv, NEW about \in {"io", "syntax", "no eof", "resource"}, Fail(about),
         stats' \in StatsType, seen' \in Seq(Lines), stats'.lines = Len(seen'),
         about = "syntax" =>
           ~ValidPrefix(seen') /\ ValidPrefix(SubSeq(seen', 1, Len(seen') - 1)),
         about = "no eof" => ValidPrefix(seen') /\ ~HasEof(seen')
  PROVE  HexInv'
<1>1. /\ pc' = "idle" /\ diag' = about /\ result' = "failed" /\ base' = 0
      /\ prior' = NothingPrior /\ missing' = missing
  BY DEF Fail
<1>2. ImageInv'
  BY FreeKeepsInv DEF Fail
<1>3. missing' \in {"none", "path", "image", "stats"}
  BY <1>1 DEF HexInv, TypeOK
<1>4. SyntaxErrorsAreReal'
  BY <1>1 DEF SyntaxErrorsAreReal
<1>5. chunks' = <<>> /\ totalLoaded' = 0
  BY DEF Fail, FreeImage
<1> QED
  BY <1>1, <1>2, <1>3, <1>4, <1>5, ZeroBase, NothingPriorTyped, LeavesKeepsInv

LEMMA EndsKeepInv ==
  ASSUME HexInv, ReadError \/ MissingEof
  PROVE  HexInv'
<1>1. pc = "reading" /\ stats' = stats /\ seen' = seen
  BY DEF ReadError, MissingEof
<1>2. stats' \in StatsType /\ seen' \in Seq(Lines) /\ stats'.lines = Len(seen')
  BY <1>1, InCallFacts
<1>3. CASE ReadError
  BY <1>2, <1>3, FailKeepsInv DEF ReadError
<1>4. CASE MissingEof
  <2>1. ValidPrefix(seen') /\ ~HasEof(seen')
    BY <1>1, <1>4, InCallFacts DEF MissingEof
  <2> QED
    BY <1>2, <1>4, <2>1, FailKeepsInv DEF MissingEof
<1> QED
  BY <1>3, <1>4

LEMMA SucceedKeepsInv ==
  ASSUME HexInv, Succeed
  PROVE  HexInv'
<1>1. /\ pc = "reading" /\ stats.sawEof /\ pc' = "idle" /\ result' = "ok" /\ base' = 0
      /\ UNCHANGED imageVars /\ stats' = stats /\ diag' = diag /\ missing' = missing
      /\ seen' = seen /\ prior' = prior
      /\ chunks' = chunks /\ totalLoaded' = totalLoaded
  BY DEF Succeed, imageVars, totalVars
<1>2. ImageInv'
  BY <1>1, UnchangedKeepsInv DEF HexInv
<1>3. /\ diag = "none" /\ ValidPrefix(seen) /\ HasEof(seen)
  BY <1>1, InCallFacts
<1>4. TypeOK'
  <2>1. ImageTypeOK' /\ base' \in 0 .. Word * Word
    BY <1>1, <1>2, HexWidths DEF ImageInv
  <2> QED
    BY <1>1, <2>1 DEF HexInv, TypeOK
<1>5. StatsMatchImage'
  BY <1>1 DEF HexInv, StatsMatchImage, InCall
<1>6. BaseInRange' /\ SoundSoFar' /\ AcceptsOnlyValid' /\ SyntaxErrorsAreReal'
  BY <1>1, <1>3, ZeroBase DEF BaseInRange, SoundSoFar, AcceptsOnlyValid, SyntaxErrorsAreReal
<1> QED
  BY <1>2, <1>4, <1>5, <1>6 DEF HexInv

LEMMA CallerFreesKeepsInv ==
  ASSUME HexInv, CallerFrees
  PROVE  HexInv'
<1>1. /\ pc' = "idle" /\ seen' = <<>> /\ prior' = NothingPrior /\ result' = "none"
      /\ diag' = "none" /\ base' = base /\ stats' = stats /\ missing' = missing
  BY DEF CallerFrees
<1>2. ImageInv'
  BY FreeKeepsInv DEF CallerFrees
<1>3. /\ missing' \in {"none", "path", "image", "stats"} /\ stats' \in StatsType
      /\ base' \in 0 .. MaxBase /\ seen' \in Seq(Lines)
  BY <1>1, EmptySeq DEF HexInv, TypeOK, StatsType, BaseInRange
<1>4. SyntaxErrorsAreReal'
  BY <1>1 DEF SyntaxErrorsAreReal
<1> QED
  BY <1>1, <1>2, <1>3, <1>4, NothingPriorTyped, LeavesKeepsInv

-----------------------------------------------------------------------------
(* The lines of the loop.                                                  *)

LEMMA ReadFacts ==
  ASSUME HexInv, NEW l \in Lines, Read(l)
  PROVE  /\ pc = "reading" /\ seen' = Append(seen, l) /\ seen' \in Seq(Lines)
         /\ seen \in Seq(Lines) /\ stats \in StatsType
         /\ stats.sawEof <=> HasEof(seen)
         /\ Len(seen') = stats.lines + 1
         /\ ValidPrefix(SubSeq(seen', 1, Len(seen') - 1))
<1>1. pc = "reading" /\ seen' = Append(seen, l)
  BY DEF Read
<1>2. /\ seen \in Seq(Lines) /\ stats \in StatsType /\ ValidPrefix(seen)
      /\ stats.sawEof <=> HasEof(seen)
      /\ stats.lines = Len(seen)
  BY <1>1, InCallFacts
<1>3. seen' \in Seq(Lines) /\ Len(seen') = Len(seen) + 1
  BY <1>1, <1>2, AppendFacts
<1>4. SubSeq(seen', 1, Len(seen') - 1) = seen
  <2>1. SubSeq(Append(seen, l), 1, Len(Append(seen, l)) - 1) = seen
    BY <1>2, FrontOfAppend, Zenon
  <2> QED
    BY <1>1, <2>1, Zenon
<1>5. ValidPrefix(SubSeq(seen', 1, Len(seen') - 1))
  BY <1>2, <1>4, Zenon
<1>6. Len(seen') = stats.lines + 1
  BY <1>2, <1>3
<1> QED
  BY <1>1, <1>2, <1>3, <1>5, <1>6, Zenon

\* A step that leaves the image alone.
LEMMA QuietKeepsInv ==
  ASSUME HexInv, NEW l \in Lines, Read(l), Continue, UNCHANGED imageVars,
         base' \in 0 .. MaxBase, stats' \in StatsType,
         stats'.lines = stats.lines + 1, Advances(stats, stats', l),
         stats'.dataBytes = stats.dataBytes,
         ValidLine(l), stats.sawEof => l.form = "blank",
         stats'.sawEof <=> (stats.sawEof \/ IsRecord(l, {1}))
  PROVE  HexInv'
<1>1. ImageInv'
  BY UnchangedKeepsInv DEF HexInv
<1>2. totalLoaded' = totalLoaded
  BY DEF imageVars, totalVars
<1>3. totalLoaded \in 0 .. SizeMax /\ stats \in StatsType
  BY ReadFacts, InCallFacts
<1>4. totalLoaded' = totalLoaded + 0
  BY <1>2, <1>3, HexWidths
<1>5. stats.dataBytes \in Nat
  BY <1>3, HexWidths DEF StatsType
<1>6. stats'.dataBytes = stats.dataBytes + 0
  BY <1>5
<1>7. StatsMatchImage'
  BY <1>4, <1>6, StatsKeepUp
<1> QED
  BY <1>1, <1>7, ReadsOnKeepsInv

LEMMA SkipBlankKeepsInv ==
  ASSUME HexInv, NEW l \in Lines, SkipBlank(l)
  PROVE  HexInv'
<1>1. /\ Read(l) /\ Continue /\ UNCHANGED imageVars /\ base' = base
      /\ l.form = "blank" /\ stats' = Counted
  BY DEF SkipBlank
<1>2. stats \in StatsType
  BY <1>1, ReadFacts
<1>3. /\ stats' \in StatsType /\ stats'.lines = stats.lines + 1
      /\ stats'.records = stats.records /\ stats'.dataRecords = stats.dataRecords
      /\ stats'.dataBytes = stats.dataBytes /\ stats'.sawEof = stats.sawEof
      /\ stats'.hasStart = stats.hasStart /\ stats'.start = stats.start
  BY <1>1, <1>2, CountedFacts
<1>4. stats.records \in Nat /\ stats.dataRecords \in Nat
  BY <1>2 DEF StatsType
<1>5. ValidLine(l) /\ \A types : ~IsRecord(l, types)
  BY <1>1 DEF ValidLine, IsRecord
<1>6. Advances(stats, stats', l)
  BY <1>1, <1>3, <1>4, <1>5 DEF Advances
<1>7. base' \in 0 .. MaxBase
  BY <1>1 DEF HexInv, BaseInRange
<1> QED
  BY <1>1, <1>3, <1>5, <1>6, <1>7, QuietKeepsInv

LEMMA RefuseLineKeepsInv ==
  ASSUME HexInv, NEW l \in Lines, RefuseLine(l)
  PROVE  HexInv'
<1>1. Read(l) /\ RefusedBeforeSwitch(l) /\ stats' = Counted /\ Fail("syntax")
  BY DEF RefuseLine
<1>2. /\ seen' = Append(seen, l) /\ seen' \in Seq(Lines)
      /\ seen \in Seq(Lines) /\ stats \in StatsType
      /\ stats.sawEof <=> HasEof(seen)
      /\ Len(seen') = stats.lines + 1
      /\ ValidPrefix(SubSeq(seen', 1, Len(seen') - 1))
  BY <1>1, ReadFacts
<1>3. stats' \in StatsType /\ stats'.lines = Len(seen')
  BY <1>1, <1>2, CountedFacts
<1>4. ~ValidLine(l) \/ (HasEof(seen) /\ l.form # "blank")
  <2>1. CASE l.form \in {"long", "garbled"}
    BY <2>1 DEF ValidLine
  <2>2. CASE l.form # "blank" /\ stats.sawEof
    BY <1>2, <2>2
  <2>3. CASE l.form = "record" /\ ~ChecksumOK(l)
    BY <2>3, ChecksumIsSum DEF ValidLine
  <2> QED
    BY <1>1, <2>1, <2>2, <2>3 DEF RefusedBeforeSwitch
<1>5. ~ValidPrefix(seen')
  BY <1>2, <1>4, InvalidAppend
<1> QED
  BY <1>1, <1>2, <1>3, <1>5, FailKeepsInv

\* A record that reached the switch is sound and stands before any EOF record.
LEMMA DispatchedFacts ==
  ASSUME HexInv, NEW l \in Lines, Dispatched(l)
  PROVE  /\ Read(l) /\ l.form = "record" /\ ~stats.sawEof /\ SumsToZero(l)
         /\ stats \in StatsType
         /\ seen' = Append(seen, l) /\ seen' \in Seq(Lines) /\ seen \in Seq(Lines)
         /\ Len(seen') = stats.lines + 1
         /\ ValidPrefix(SubSeq(seen', 1, Len(seen') - 1))
<1>1. Read(l) /\ l.form = "record" /\ ~RefusedBeforeSwitch(l)
  BY DEF Dispatched
<1>2. ~stats.sawEof /\ ChecksumOK(l)
  BY <1>1 DEF RefusedBeforeSwitch
<1>3. SumsToZero(l)
  BY <1>1, <1>2, ChecksumIsSum
<1> QED
  BY <1>1, <1>2, <1>3, ReadFacts

LEMMA RefuseRecordKeepsInv ==
  ASSUME HexInv, NEW l \in Lines, RefuseRecord(l)
  PROVE  HexInv'
<1>1. Dispatched(l) /\ ~ShapeOK(l) /\ stats' = CountedRecord /\ Fail("syntax")
  BY DEF RefuseRecord
<1>2. /\ l.form = "record" /\ stats \in StatsType
      /\ seen' = Append(seen, l) /\ seen' \in Seq(Lines) /\ seen \in Seq(Lines)
      /\ Len(seen') = stats.lines + 1
      /\ ValidPrefix(SubSeq(seen', 1, Len(seen') - 1))
  BY <1>1, DispatchedFacts
<1>3. stats' \in StatsType /\ stats'.lines = Len(seen')
  BY <1>1, <1>2, CountedRecordFacts
<1>4. ~ValidLine(l)
  BY <1>1, <1>2 DEF ValidLine
<1>5. ~ValidPrefix(seen')
  BY <1>2, <1>4, InvalidAppend
<1> QED
  BY <1>1, <1>2, <1>3, <1>5, FailKeepsInv

LEMMA DataRecordFailsKeepsInv ==
  ASSUME HexInv, NEW l \in Lines, DataRecordFails(l)
  PROVE  HexInv'
<1>1. Dispatched(l) /\ stats' = CountedRecord /\ Fail("resource")
  BY DEF DataRecordFails
<1>2. stats \in StatsType /\ seen' \in Seq(Lines) /\ Len(seen') = stats.lines + 1
  BY <1>1, DispatchedFacts
<1>3. stats' \in StatsType /\ stats'.lines = Len(seen')
  BY <1>1, <1>2, CountedRecordFacts
<1> QED
  BY <1>1, <1>2, <1>3, FailKeepsInv

\* A record that only the parser's own state remembers.
LEMMA ControlKeepsInv ==
  ASSUME HexInv, NEW l \in Lines, Dispatched(l), ShapeOK(l), l.type # 0, Continue,
         UNCHANGED imageVars, base' \in 0 .. MaxBase,
         stats' \in StatsType,
         stats'.lines = CountedRecord.lines, stats'.records = CountedRecord.records,
         stats'.dataRecords = CountedRecord.dataRecords,
         stats'.dataBytes = CountedRecord.dataBytes,
         stats'.sawEof <=> l.type = 1,
         stats'.hasStart <=> CountedRecord.hasStart \/ l.type = 5,
         stats'.start = IF l.type = 5 THEN l.data ELSE CountedRecord.start
  PROVE  HexInv'
<1>1. /\ Read(l) /\ l.form = "record" /\ ~stats.sawEof /\ SumsToZero(l)
      /\ stats \in StatsType
  BY DispatchedFacts
<1>2. /\ CountedRecord.lines = stats.lines + 1
      /\ CountedRecord.records = stats.records + 1
      /\ CountedRecord.dataRecords = stats.dataRecords
      /\ CountedRecord.dataBytes = stats.dataBytes
      /\ CountedRecord.hasStart = stats.hasStart
      /\ CountedRecord.start = stats.start
  BY <1>1, CountedRecordFacts
<1>3. stats.dataRecords \in Nat
  BY <1>1 DEF StatsType
<1>4. /\ ValidLine(l) /\ ~IsRecord(l, {0})
      /\ IsRecord(l, {1}) <=> l.type = 1
      /\ IsRecord(l, {5}) <=> l.type = 5
  BY <1>1 DEF ValidLine, IsRecord
<1>5. Advances(stats, stats', l)
  <2>1. stats'.dataRecords = stats.dataRecords + 0 /\ stats'.records = stats.records + 1
    BY <1>2, <1>3
  <2>2. stats'.hasStart <=> stats.hasStart \/ IsRecord(l, {5})
    BY <1>2, <1>4, Zenon
  <2>3. stats'.start = IF IsRecord(l, {5}) THEN l.data ELSE stats.start
    BY <1>2, <1>4, Zenon
  <2> QED
    BY <1>1, <1>4, <2>1, <2>2, <2>3, Zenon DEF Advances
<1>6. /\ stats'.lines = stats.lines + 1 /\ stats'.dataBytes = stats.dataBytes
      /\ stats'.sawEof <=> stats.sawEof \/ IsRecord(l, {1})
  BY <1>1, <1>2, <1>4, Zenon
<1> QED
  BY <1>1, <1>4, <1>5, <1>6, QuietKeepsInv

LEMMA EofRecordKeepsInv ==
  ASSUME HexInv, NEW l \in Lines, EofRecord(l)
  PROVE  HexInv'
<1>1. /\ Dispatched(l) /\ l.type = 1 /\ ShapeOK(l) /\ Continue
      /\ UNCHANGED imageVars /\ base' = base
      /\ stats' = [CountedRecord EXCEPT !.sawEof = TRUE]
  BY DEF EofRecord
<1> DEFINE c == CountedRecord
<1>2. c \in StatsType
  BY <1>1, DispatchedFacts, CountedRecordFacts
<1>3. stats' = [c EXCEPT !.sawEof = TRUE]
  BY <1>1
<1> HIDE DEF c
<1>4. /\ stats' \in StatsType /\ stats'.lines = c.lines /\ stats'.records = c.records
      /\ stats'.dataRecords = c.dataRecords /\ stats'.dataBytes = c.dataBytes
      /\ stats'.sawEof /\ stats'.hasStart = c.hasStart /\ stats'.start = c.start
  BY <1>2, <1>3, EofSet
<1>5. base' \in 0 .. MaxBase
  BY <1>1 DEF HexInv, BaseInRange
<1>6. /\ l.type # 0 /\ l.type # 5
      /\ stats'.sawEof <=> l.type = 1
      /\ stats'.hasStart <=> c.hasStart \/ l.type = 5
      /\ stats'.start = IF l.type = 5 THEN l.data ELSE c.start
  BY <1>1, <1>4
<1> QED
  BY <1>1, <1>4, <1>5, <1>6, ControlKeepsInv DEF c

LEMMA AddressRecordKeepsInv ==
  ASSUME HexInv, NEW l \in Lines, AddressRecord(l)
  PROVE  HexInv'
<1>1. /\ Dispatched(l) /\ l.type \in {2, 4} /\ ShapeOK(l) /\ Continue
      /\ UNCHANGED imageVars /\ base' = NewBase(l) /\ stats' = CountedRecord
  BY DEF AddressRecord
<1>2. /\ l.form = "record" /\ stats \in StatsType /\ ~stats.sawEof
  BY <1>1, DispatchedFacts
<1>3. stats' \in StatsType /\ stats'.sawEof = stats.sawEof
  BY <1>1, <1>2, CountedRecordFacts
<1>4. base' \in 0 .. MaxBase
  BY <1>1, <1>2, NewBaseInRange
<1> QED
  BY <1>1, <1>2, <1>3, <1>4, ControlKeepsInv

LEMMA StartRecordKeepsInv ==
  ASSUME HexInv, NEW l \in Lines, StartRecord(l)
  PROVE  HexInv'
<1>1. /\ Dispatched(l) /\ l.type = 5 /\ ShapeOK(l) /\ Continue
      /\ UNCHANGED imageVars /\ base' = base
      /\ stats' = [CountedRecord EXCEPT !.hasStart = TRUE, !.start = l.data]
  BY DEF StartRecord
<1>2. l.form = "record" /\ stats \in StatsType /\ ~stats.sawEof
  BY <1>1, DispatchedFacts
<1> DEFINE c == CountedRecord
           data == l.data
<1>3. c \in StatsType /\ c.sawEof = stats.sawEof /\ data \in Seq(0 .. ByteBase - 1)
  BY <1>2, CountedRecordFacts, RecordFacts
<1>4. stats' = [c EXCEPT !.hasStart = TRUE, !.start = data]
  BY <1>1
<1> HIDE DEF c, data
<1>5. /\ stats' \in StatsType /\ stats'.lines = c.lines /\ stats'.records = c.records
      /\ stats'.dataRecords = c.dataRecords /\ stats'.dataBytes = c.dataBytes
      /\ stats'.sawEof = c.sawEof /\ stats'.hasStart = TRUE /\ stats'.start = data
  BY <1>3, <1>4, StartSet
<1>6. base' \in 0 .. MaxBase
  BY <1>1 DEF HexInv, BaseInRange
<1> QED
  BY <1>1, <1>2, <1>3, <1>5, <1>6, ControlKeepsInv DEF c, data

\* What a data record does to the statistics, n bytes long.
WithData(n) ==
  [CountedRecord EXCEPT !.dataRecords = @ + 1, !.dataBytes = WrapSize(@ + n)]

LEMMA DataStats ==
  ASSUME HexInv, NEW l \in Lines, Dispatched(l), NEW n \in Nat,
         stats.dataBytes + n <= SizeMax,
         stats' = WithData(n)
  PROVE  /\ stats' \in StatsType /\ stats'.lines = stats.lines + 1
         /\ stats'.records = stats.records + 1
         /\ stats'.dataRecords = stats.dataRecords + 1
         /\ stats'.dataBytes = stats.dataBytes + n
         /\ stats'.sawEof = stats.sawEof
         /\ stats'.hasStart = stats.hasStart /\ stats'.start = stats.start
<1> DEFINE c == CountedRecord
           recs == stats.dataRecords
           bytes == stats.dataBytes
<1>1. stats \in StatsType
  BY DispatchedFacts
<1>2. /\ c \in StatsType /\ c.lines = stats.lines + 1 /\ c.records = stats.records + 1
      /\ c.dataRecords = recs /\ c.dataBytes = bytes /\ c.sawEof = stats.sawEof
      /\ c.hasStart = stats.hasStart /\ c.start = stats.start
  BY <1>1, CountedRecordFacts
<1>3. bytes \in Nat /\ bytes + n <= SizeMax
  BY <1>1 DEF StatsType
<1>4. stats' = [c EXCEPT !.dataRecords = @ + 1, !.dataBytes = WrapSize(@ + n)]
  BY DEF WithData
<1> HIDE DEF c, recs, bytes
<1>5. WrapSize(bytes + n) = bytes + n /\ bytes + n \in 0 .. SizeMax
  BY <1>3, HexWidths DEF WrapSize
<1>6. WrapSize(c.dataBytes + n) = bytes + n
  BY <1>2, <1>5, Zenon
<1>7. c.dataRecords + 1 = recs + 1
  BY <1>2, Zenon
<1>8. stats' = [c EXCEPT !.dataRecords = recs + 1, !.dataBytes = bytes + n]
  BY <1>4, <1>6, <1>7, Zenon
<1>9. recs + 1 \in Nat
  BY <1>1 DEF StatsType, recs
<1>10. /\ stats' \in StatsType /\ stats'.lines = c.lines /\ stats'.records = c.records
       /\ stats'.dataRecords = recs + 1 /\ stats'.dataBytes = bytes + n
       /\ stats'.sawEof = c.sawEof /\ stats'.hasStart = c.hasStart /\ stats'.start = c.start
  <2> DEFINE y == recs + 1
             z == bytes + n
  <2>1. c \in StatsType /\ y \in Nat /\ z \in 0 .. SizeMax
    BY <1>2, <1>5, <1>9
  <2>2. stats' = [c EXCEPT !.dataRecords = y, !.dataBytes = z]
    BY <1>8
  <2> HIDE DEF y, z
  <2>3. /\ stats' \in StatsType /\ stats'.lines = c.lines /\ stats'.records = c.records
        /\ stats'.dataRecords = y /\ stats'.dataBytes = z /\ stats'.sawEof = c.sawEof
        /\ stats'.hasStart = c.hasStart /\ stats'.start = c.start
    BY <2>1, <2>2 DEF StatsType
  <2> QED
    BY <2>3 DEF y, z
<1> QED
  BY <1>2, <1>10 DEF recs, bytes

LEMMA PartAdded ==
  ASSUME NEW t \in Nat, NEW h \in Nat, NEW k \in Nat, NEW most \in Nat, t + k <= most
  PROVE  t - h + k <= most
OBVIOUS

\* A data record adds its bytes and its chunk, and counts them.
LEMMA LoadedKeepsInv ==
  ASSUME HexInv, NEW l \in Lines, Dispatched(l), l.type = 0, Continue, base' = base,
         ImageInv', NEW n \in Nat, totalLoaded' = totalLoaded + n,
         totalLoaded + n <= SizeMax,
         stats' = WithData(n)
  PROVE  HexInv'
<1>1. /\ Read(l) /\ l.form = "record" /\ ~stats.sawEof /\ SumsToZero(l) /\ pc = "reading"
  BY DispatchedFacts, ReadFacts
<1>2. stats.dataBytes + n <= SizeMax
  <2> DEFINE held == prior.bytes
             bytes == stats.dataBytes
  <2>1. bytes = totalLoaded - held /\ held \in Nat /\ totalLoaded \in Nat
    BY <1>1, InCallFacts
  <2>2. totalLoaded - held + n <= SizeMax
    BY <2>1, HexWidths, PartAdded, Zenon
  <2> QED
    BY <2>1, <2>2, Zenon
<1>3. /\ stats' \in StatsType /\ stats'.lines = stats.lines + 1
      /\ stats'.records = stats.records + 1
      /\ stats'.dataRecords = stats.dataRecords + 1
      /\ stats'.dataBytes = stats.dataBytes + n
      /\ stats'.sawEof = stats.sawEof
      /\ stats'.hasStart = stats.hasStart /\ stats'.start = stats.start
  BY <1>2, DataStats
<1>4. /\ ValidLine(l) /\ IsRecord(l, {0})
      /\ ~IsRecord(l, {1}) /\ ~IsRecord(l, {5})
  BY <1>1 DEF ValidLine, IsRecord, ShapeOK
<1>5. Advances(stats, stats', l)
  BY <1>1, <1>3, <1>4, Zenon DEF Advances
<1>6. StatsMatchImage'
  BY <1>1, <1>3, <1>4, <1>5, StatsKeepUp
<1>7. base' \in 0 .. MaxBase
  BY DEF HexInv, BaseInRange
<1> QED
  BY <1>1, <1>3, <1>4, <1>6, <1>7, ReadsOnKeepsInv

LEMMA DataRecordKeepsInv ==
  ASSUME HexInv, NEW l \in Lines, DataRecord(l)
  PROVE  HexInv'
<1> DEFINE n == Len(l.data)
<1>1. /\ Dispatched(l) /\ l.type = 0 /\ Continue /\ base' = base
      /\ \/ AddChunkEmpty(l.data)
         \/ AddChunkStored(StartOf(l), l.data, stats.lines + 1)
      /\ stats' = WithData(n)
  BY DEF DataRecord, WithData
<1>2. l.form = "record" /\ stats \in StatsType /\ pc = "reading"
  BY <1>1, DispatchedFacts, ReadFacts
<1>3. /\ l.data \in Seq(Byte) /\ n \in Nat
      /\ Len(chunks) \in Nat /\ totalLoaded \in 0 .. SizeMax
  BY <1>2, RecordFacts, InCallFacts
<1>4. CASE AddChunkEmpty(l.data)
  <2>1. l.data = <<>> /\ UNCHANGED imageVars
    BY <1>4 DEF AddChunkEmpty
  <2>2. n = 0 /\ totalLoaded' = totalLoaded
    BY <2>1, EmptySeq DEF imageVars, totalVars
  <2>3. ImageInv'
    BY <2>1, UnchangedKeepsInv DEF HexInv
  <2> HIDE DEF n
  <2>4. totalLoaded' = totalLoaded + n /\ totalLoaded + n <= SizeMax
    BY <1>3, <2>2, HexWidths
  <2> QED
    BY <1>1, <1>3, <2>3, <2>4, LoadedKeepsInv
<1>5. CASE AddChunkStored(StartOf(l), l.data, stats.lines + 1)
  <2> DEFINE start == StartOf(l)
  <2>1. start \in Address
    BY <1>2, RecordAddress DEF HexInv
  <2>2. stats.lines + 1 \in Nat
    BY <1>2 DEF StatsType
  <2>3. ImageInv'
    BY <1>3, <1>5, <2>1, <2>2, StoredKeepsInv DEF HexInv
  <2>4. ~CountOverflows(n) /\ totalLoaded' = WrapSize(totalLoaded + n)
    BY <1>5 DEF AddChunkStored
  <2> HIDE DEF start, n
  <2>5. totalLoaded' = totalLoaded + n /\ totalLoaded + n <= SizeMax
    BY <1>3, <2>4, HexWidths DEF CountOverflows, WrapSize
  <2> QED
    BY <1>1, <1>3, <2>3, <2>5, LoadedKeepsInv
<1> QED
  BY <1>1, <1>4, <1>5

-----------------------------------------------------------------------------
(* The invariant.                                                          *)

LEMMA InitHex == Init => HexInv
<1> SUFFICES ASSUME Init PROVE HexInv
  OBVIOUS
<1>1. ImageInv
  BY EmptyImageInv DEF Init, ImageInit
<1>2. /\ pc = "idle" /\ base = 0 /\ stats = StatsInit /\ diag = "none"
      /\ result = "none" /\ missing = "none" /\ seen = <<>> /\ prior = NothingPrior
  BY DEF Init
<1>3. BaseInRange /\ base \in 0 .. Word * Word
  BY <1>2, ZeroBase, HexWidths DEF BaseInRange
<1>4. TypeOK
  <2>1. stats \in StatsType /\ seen \in Seq(Lines) /\ prior \in [chunks : Nat, bytes : Nat]
    BY <1>2, StatsInitFacts, NothingPriorTyped, EmptySeq
  <2> QED
    BY <1>1, <1>2, <1>3, <2>1 DEF TypeOK, ImageInv, StatsType
<1>5. SoundSoFar /\ StatsMatchImage /\ AcceptsOnlyValid /\ SyntaxErrorsAreReal
  BY <1>2 DEF SoundSoFar, StatsMatchImage, InCall, AcceptsOnlyValid, SyntaxErrorsAreReal
<1> QED
  BY <1>1, <1>3, <1>4, <1>5 DEF HexInv

LEMMA IdleStepKeepsInv ==
  ASSUME HexInv, UNCHANGED vars
  PROVE  HexInv'
<1>1. /\ UNCHANGED imageVars /\ pc' = pc /\ base' = base /\ stats' = stats /\ diag' = diag
      /\ result' = result /\ missing' = missing /\ seen' = seen /\ prior' = prior
  BY DEF vars, callVars
<1>2. chunks' = chunks /\ totalLoaded' = totalLoaded
  BY <1>1 DEF imageVars, totalVars
<1>3. ImageInv'
  BY <1>1, UnchangedKeepsInv DEF HexInv
<1>4. TypeOK'
  BY <1>1, <1>3 DEF HexInv, TypeOK, ImageInv
<1>5. BaseInRange' /\ SoundSoFar' /\ AcceptsOnlyValid' /\ SyntaxErrorsAreReal'
  BY <1>1 DEF HexInv, BaseInRange, SoundSoFar, AcceptsOnlyValid, SyntaxErrorsAreReal
<1>6. StatsMatchImage'
  BY <1>1, <1>2 DEF HexInv, StatsMatchImage, InCall
<1> QED
  BY <1>3, <1>4, <1>5, <1>6 DEF HexInv

LEMMA StepHex == HexInv /\ [Next]_vars => HexInv'
<1> SUFFICES ASSUME HexInv, [Next]_vars PROVE HexInv'
  OBVIOUS
<1>1. CASE InvalidArgument
  BY <1>1, InvalidArgumentKeepsInv
<1>2. CASE OpenFails
  BY <1>2, OpenFailsKeepsInv
<1>3. CASE Open
  BY <1>3, OpenKeepsInv
<1>4. CASE ReadLine
  <2>1. PICK l \in Lines :
          \/ SkipBlank(l) \/ RefuseLine(l) \/ RefuseRecord(l)
          \/ DataRecord(l) \/ DataRecordFails(l)
          \/ EofRecord(l) \/ AddressRecord(l) \/ StartRecord(l)
    BY <1>4 DEF ReadLine
  <2>2. CASE SkipBlank(l) \/ RefuseLine(l) \/ RefuseRecord(l)
    BY <2>2, SkipBlankKeepsInv, RefuseLineKeepsInv, RefuseRecordKeepsInv
  <2>3. CASE DataRecord(l) \/ DataRecordFails(l)
    BY <2>3, DataRecordKeepsInv, DataRecordFailsKeepsInv
  <2>4. CASE EofRecord(l) \/ AddressRecord(l) \/ StartRecord(l)
    BY <2>4, EofRecordKeepsInv, AddressRecordKeepsInv, StartRecordKeepsInv
  <2> QED
    BY <2>1, <2>2, <2>3, <2>4
<1>5. CASE ReadError \/ MissingEof
  BY <1>5, EndsKeepInv
<1>6. CASE Succeed
  BY <1>6, SucceedKeepsInv
<1>7. CASE CallerFrees
  BY <1>7, CallerFreesKeepsInv
<1>8. CASE UNCHANGED vars
  BY <1>8, IdleStepKeepsInv
<1> QED
  BY <1>1, <1>2, <1>3, <1>4, <1>5, <1>6, <1>7, <1>8 DEF Next

LEMMA HexInvariance == Spec => []HexInv
BY InitHex, StepHex, PTL DEF Spec

-----------------------------------------------------------------------------
(* What the lines of a file mean, line by line.                            *)

\* A set of numbers up to n that is not empty has a greatest.
LEMMA Greatest ==
  ASSUME NEW n \in Nat, NEW T, T \subseteq 1 .. n, T # {}
  PROVE  \E m \in T : \A k \in T : k <= m
<1> DEFINE below == {n - m : m \in T}
           less == OpToRel(<, Nat)
<1>1. below \subseteq Nat /\ below # {}
  <2>1. \A m \in T : n - m \in Nat
    OBVIOUS
  <2>2. PICK m \in T : TRUE
    OBVIOUS
  <2>3. n - m \in below
    OBVIOUS
  <2> QED
    BY <2>1, <2>3
<1>2. PICK b \in below : \A y \in below : b <= y
  <2>1. less = {p \in Nat \X Nat : p[1] < p[2]}
    BY DEF OpToRel
  <2>2. IsWellFoundedOn(less, Nat)
    BY NatLessThanWellFounded
  <2> HIDE DEF below, less
  <2>3. PICK b \in below : \A y \in below : <<y, b>> \notin less
    BY <1>1, <2>2, WFMin
  <2>4. ASSUME NEW y \in below PROVE b <= y
    <3>1. y \in Nat /\ b \in Nat
      BY <1>1
    <3>2. y < b => <<y, b>> \in less
      BY <2>1, <3>1
    <3> QED
      BY <2>3, <3>1, <3>2
  <2> QED
    BY <2>4
<1>3. PICK m \in T : b = n - m
  BY <1>2
<1>4. ASSUME NEW k \in T PROVE k <= m
  <2>1. n - k \in below
    BY <1>4
  <2>2. n - m <= n - k
    BY <1>2, <1>3, <2>1
  <2>3. m \in Nat /\ k \in Nat
    BY <1>3, <1>4
  <2> QED
    BY <2>2, <2>3
<1> QED
  BY <1>4

\* The address records before line k.
SetsBase(l) == IsRecord(l, {2, 4})

Earlier(s, k) == {m \in 1 .. k - 1 : SetsBase(s[m])}

Latest(T) == CHOOSE m \in T : \A n \in T : n <= m

SetBy(l) == Operand(l) * (IF l.type = 2 THEN Paragraph ELSE Word)

LEMMA BaseAtUnfolds ==
  ASSUME NEW s, NEW k
  PROVE  BaseAt(s, k) = IF Earlier(s, k) = {} THEN 0 ELSE SetBy(s[Latest(Earlier(s, k))])
BY DEF BaseAt, Earlier, SetsBase, Latest, SetBy

\* A later line does not change the base an earlier line sees.
LEMMA BaseBefore ==
  ASSUME NEW s \in Seq(Lines), NEW l \in Lines, NEW k \in 1 .. Len(s) + 1
  PROVE  BaseAt(Append(s, l), k) = BaseAt(s, k)
<1> DEFINE t == Append(s, l)
<1>1. /\ Len(s) \in Nat /\ \A m \in 1 .. Len(s) : t[m] = s[m]
  BY AppendFacts
<1> HIDE DEF t
<1>2. 1 .. k - 1 \subseteq 1 .. Len(s) /\ k - 1 \in Nat
  BY <1>1
<1>3. Earlier(t, k) = Earlier(s, k)
  BY <1>1, <1>2 DEF Earlier
<1>4. ASSUME Earlier(s, k) # {}
      PROVE  t[Latest(Earlier(s, k))] = s[Latest(Earlier(s, k))]
  <2>1. Earlier(s, k) \subseteq 1 .. k - 1
    BY DEF Earlier
  <2>2. \E m \in Earlier(s, k) : \A j \in Earlier(s, k) : j <= m
    BY <1>2, <1>4, <2>1, Greatest
  <2>3. Latest(Earlier(s, k)) \in Earlier(s, k)
    BY <2>2 DEF Latest
  <2> QED
    BY <1>1, <1>2, <2>1, <2>3
<1>5. BaseAt(t, k) = BaseAt(s, k)
  BY <1>3, <1>4, BaseAtUnfolds
<1> QED
  BY <1>5 DEF t

LEMMA EarlierNext ==
  ASSUME NEW t, NEW n \in Nat \ {0}
  PROVE  /\ Earlier(t, n) \subseteq 1 .. n - 1
         /\ Earlier(t, n + 1) =
              IF SetsBase(t[n]) THEN Earlier(t, n) \cup {n} ELSE Earlier(t, n)
<1>1. \A m : m \in 1 .. (n + 1) - 1 <=> m \in 1 .. n - 1 \/ m = n
  OBVIOUS
<1>2. \A m : m \in Earlier(t, n + 1) <=> m \in Earlier(t, n) \/ (m = n /\ SetsBase(t[m]))
  BY <1>1 DEF Earlier
<1>3. Earlier(t, n) \subseteq 1 .. n - 1
  BY DEF Earlier
<1>4. CASE SetsBase(t[n])
  BY <1>2, <1>3, <1>4
<1>5. CASE ~SetsBase(t[n])
  BY <1>2, <1>3, <1>5
<1> QED
  BY <1>3, <1>4, <1>5

\* The next line sees the base a record sets, or the one the line before saw.
LEMMA BaseAfter ==
  ASSUME NEW s \in Seq(Lines), NEW l \in Lines
  PROVE  BaseAt(Append(s, l), Len(s) + 2) =
           IF SetsBase(l) THEN SetBy(l) ELSE BaseAt(s, Len(s) + 1)
<1> DEFINE t == Append(s, l)
           n == Len(s) + 1
           T == Earlier(t, n)
           U == Earlier(t, n + 1)
<1>1. Len(s) \in Nat /\ n \in Nat /\ n \in 1 .. Len(s) + 1 /\ t[n] = l /\ Len(s) + 2 = n + 1
  BY AppendFacts
<1>2. BaseAt(t, n) = BaseAt(s, n)
  BY <1>1, BaseBefore
<1>3. T \subseteq 1 .. n - 1 /\ U = IF SetsBase(t[n]) THEN T \cup {n} ELSE T
  <2>1. n \in Nat \ {0}
    BY <1>1
  <2> HIDE DEF t, n
  <2> QED
    BY <2>1, EarlierNext, Zenon
<1> HIDE DEF t, n, T, U
<1>4. CASE SetsBase(l)
  <2>1. U = T \cup {n}
    BY <1>1, <1>3, <1>4
  <2>2. n \in U /\ \A j \in U : j <= n
    BY <1>1, <1>3, <2>1
  <2>3. \A m \in U : (\A j \in U : j <= m) => m = n
    BY <1>1, <1>3, <2>1, <2>2
  <2>4. Latest(U) = n
    BY <2>2, <2>3 DEF Latest
  <2>5. BaseAt(t, n + 1) = SetBy(l)
    BY <1>1, <2>2, <2>4, BaseAtUnfolds DEF U
  <2> QED
    BY <1>1, <1>4, <2>5 DEF t, n
<1>5. CASE ~SetsBase(l)
  <2>1. U = T
    BY <1>1, <1>3, <1>5
  <2>2. BaseAt(t, n + 1) = BaseAt(t, n)
    BY <2>1, BaseAtUnfolds DEF T, U
  <2> QED
    BY <1>1, <1>2, <1>5, <2>2 DEF t, n
<1> QED
  BY <1>4, <1>5

-----------------------------------------------------------------------------
(* The lines that carry bytes, counted.                                    *)

Carries(l) == IsRecord(l, {0}) /\ l.data # <<>>

DataUpTo(s, k) == {j \in 1 .. k : Carries(s[j])}

LEMMA DataLinesAre ==
  ASSUME NEW s PROVE DataLines(s) = DataUpTo(s, Len(s))
BY DEF DataLines, DataUpTo, Carries

LEMMA PrefixData ==
  ASSUME NEW s \in Seq(Lines), NEW k \in 1 .. Len(s)
  PROVE  DataLines(SubSeq(s, 1, k)) = DataUpTo(s, k)
<1> DEFINE t == SubSeq(s, 1, k)
<1>1. Len(s) \in Nat /\ k \in Nat
  BY LenProperties
<1>2. Len(t) = k /\ \A i \in 1 .. k : t[i] = s[i]
  BY <1>1
<1> HIDE DEF t
<1>3. DataUpTo(t, Len(t)) = DataUpTo(s, k)
  BY <1>2 DEF DataUpTo
<1> QED
  BY <1>3, DataLinesAre DEF t

LEMMA CountData ==
  ASSUME NEW s, NEW k \in Nat
  PROVE  /\ IsFiniteSet(DataUpTo(s, k)) /\ Cardinality(DataUpTo(s, k)) \in Nat
         /\ DataUpTo(s, k) # {} => Cardinality(DataUpTo(s, k)) >= 1
         /\ Cardinality(DataUpTo(s, k + 1)) =
              Cardinality(DataUpTo(s, k)) + IF Carries(s[k + 1]) THEN 1 ELSE 0
         /\ \A j \in 1 .. k : Cardinality(DataUpTo(s, j)) <= Cardinality(DataUpTo(s, k))
<1> DEFINE D(j) == DataUpTo(s, j)
<1>1. IsFiniteSet(1 .. k)
  BY FS_Interval
<1>2. D(k) \in SUBSET (1 .. k)
  BY DEF DataUpTo
<1>3. IsFiniteSet(D(k)) /\ Cardinality(D(k)) \in Nat
  BY <1>1, <1>2, FS_Subset, FS_CardinalityType
<1>4. D(k) # {} => Cardinality(D(k)) >= 1
  BY <1>3, FS_EmptySet
<1>5. D(k + 1) = IF Carries(s[k + 1]) THEN D(k) \cup {k + 1} ELSE D(k)
  <2>1. 1 .. k + 1 = (1 .. k) \cup {k + 1}
    OBVIOUS
  <2> QED
    BY <2>1 DEF DataUpTo
<1>6. k + 1 \notin D(k)
  BY <1>2
<1>7. \A j \in 1 .. k : D(j) \in SUBSET D(k)
  BY DEF DataUpTo
<1> HIDE DEF D
<1>8. Cardinality(D(k + 1)) = Cardinality(D(k)) + IF Carries(s[k + 1]) THEN 1 ELSE 0
  <2>1. CASE Carries(s[k + 1])
    BY <1>3, <1>5, <1>6, <2>1, FS_AddElement
  <2>2. CASE ~Carries(s[k + 1])
    BY <1>3, <1>5, <2>2
  <2> QED
    BY <2>1, <2>2
<1>9. \A j \in 1 .. k : Cardinality(D(j)) <= Cardinality(D(k))
  BY <1>3, <1>7, FS_Subset
<1> QED
  BY <1>3, <1>4, <1>8, <1>9 DEF D
\* The chunk line k of a file asks for, and what a file does to a table of chunks
\* that held some before it.
ChunkOf(s, k) ==
  [start |-> BaseAt(s, k) + s[k].offset,
   end |-> BaseAt(s, k) + s[k].offset + Len(s[k].data) - 1,
   bytes |-> s[k].data, line |-> k]

PlaceOf(s, k, held) == held + Cardinality(DataUpTo(s, k))

Loaded(s, table, held) ==
  /\ Len(table) = PlaceOf(s, Len(s), held)
  /\ \A k \in DataUpTo(s, Len(s)) : table[PlaceOf(s, k, held)] = ChunkOf(s, k)

LEMMA LoadedMeans ==
  ASSUME NEW s \in Seq(Lines), NEW table, NEW held
  PROVE  Loaded(s, table, held) <=>
           /\ Len(table) = held + Cardinality(DataLines(s))
           /\ \A k \in DataLines(s) :
                LET at == held + Cardinality(DataLines(SubSeq(s, 1, k)))
                    start == BaseAt(s, k) + s[k].offset
                IN  table[at] = [start |-> start, end |-> start + Len(s[k].data) - 1,
                                 bytes |-> s[k].data, line |-> k]
<1>1. DataLines(s) = DataUpTo(s, Len(s)) /\ DataLines(s) \subseteq 1 .. Len(s)
  BY DataLinesAre DEF DataUpTo
<1>2. \A k \in DataLines(s) : DataLines(SubSeq(s, 1, k)) = DataUpTo(s, k)
  BY <1>1, PrefixData
<1> QED
  BY <1>1, <1>2, Zenon DEF Loaded, PlaceOf, ChunkOf

\* A table that a file loaded holds the chunks of its lines and no other: the
\* places of the lines are as many as the chunks and no two are the same.
LEMMA LoadedTable ==
  ASSUME NEW s \in Seq(Lines), NEW table, Loaded(s, table, 0)
  PROVE  /\ Len(table) = Cardinality(DataLines(s))
         /\ \A p \in 1 .. Len(table) : \E k \in DataLines(s) : table[p] = ChunkOf(s, k)
         /\ \A k \in DataLines(s) : \E p \in 1 .. Len(table) : table[p] = ChunkOf(s, k)
         /\ \A p, q \in 1 .. Len(table) : table[p].line = table[q].line => p = q
<1> DEFINE D == DataUpTo(s, Len(s))
           n == Cardinality(D)
           place == [k \in D |-> Cardinality(DataUpTo(s, k))]
<1>1. D = DataLines(s) /\ D \subseteq 1 .. Len(s) /\ Len(s) \in Nat
  BY DataLinesAre DEF DataUpTo
<1>2. IsFiniteSet(D) /\ n \in Nat
  BY <1>1, CountData
<1>3. ASSUME NEW k \in D
      PROVE  /\ place[k] \in 1 .. n /\ PlaceOf(s, k, 0) = place[k]
             /\ \A m \in D : m < k => place[m] < place[k]
  <2>1. k \in Nat /\ k - 1 \in Nat /\ k \in 1 .. Len(s) /\ k \in DataUpTo(s, k) /\ Carries(s[k])
    BY <1>1 DEF DataUpTo
  <2>2. /\ Cardinality(DataUpTo(s, k)) \in Nat /\ Cardinality(DataUpTo(s, k)) >= 1
        /\ Cardinality(DataUpTo(s, k)) <= n
    BY <1>1, <2>1, CountData
  <2>3. Cardinality(DataUpTo(s, k)) = Cardinality(DataUpTo(s, k - 1)) + 1
    <3>1. k - 1 + 1 = k
      BY <2>1
    <3>2. Cardinality(DataUpTo(s, k - 1 + 1)) = Cardinality(DataUpTo(s, k - 1)) + 1
      BY <2>1, <3>1, CountData
    <3> QED
      BY <3>1, <3>2
  <2>4. ASSUME NEW m \in D, m < k PROVE place[m] < place[k]
    <3>1. m \in Nat /\ m \in 1 .. k - 1
      BY <1>1, <2>1, <2>4
    <3>2. Cardinality(DataUpTo(s, m)) <= Cardinality(DataUpTo(s, k - 1))
      BY <2>1, <3>1, CountData
    <3>3. Cardinality(DataUpTo(s, m)) \in Nat
      BY <3>1, CountData
    <3>5. Cardinality(DataUpTo(s, k - 1)) \in Nat
      BY <2>1, CountData
    <3>4. place[m] = Cardinality(DataUpTo(s, m)) /\ place[k] = Cardinality(DataUpTo(s, k))
      OBVIOUS
    <3> HIDE DEF place
    <3> QED
      BY <2>3, <3>2, <3>3, <3>4, <3>5
  <2>5. PlaceOf(s, k, 0) = place[k]
    BY <2>2 DEF PlaceOf
  <2> QED
    BY <1>2, <2>2, <2>4, <2>5
<1> HIDE DEF place
<1>4. place \in Injection(D, 1 .. n)
  <2>1. place \in [D -> 1 .. n]
    <3>1. place = [k \in D |-> place[k]]
      BY DEF place
    <3> QED
      BY <1>3, <3>1
  <2>2. \A k, m \in D : place[k] = place[m] => k = m
    <3>1. \A k, m \in D : k < m \/ m < k \/ k = m
      BY <1>1
    <3>2. \A k \in D : place[k] \in Nat
      BY <1>2, <1>3
    <3> QED
      BY <1>3, <3>1, <3>2
  <2> QED
    BY <2>1, <2>2 DEF Injection, IsInjective
<1>5. place \in Surjection(D, 1 .. n)
  <2>1. IsFiniteSet(1 .. n) /\ Cardinality(1 .. n) = n
    BY <1>2, FS_Interval
  <2> QED
    BY <1>4, <2>1, FS_Injection
<1>6. \A p \in 1 .. n : \E k \in D : place[k] = p
  BY <1>5 DEF Surjection
<1>7. Len(table) = n /\ \A k \in D : table[PlaceOf(s, k, 0)] = ChunkOf(s, k)
  BY <1>2 DEF Loaded, PlaceOf
<1>8. \A k \in D : table[place[k]] = ChunkOf(s, k) /\ table[place[k]].line = k
  BY <1>3, <1>7 DEF ChunkOf
<1>9. \A p, q \in 1 .. n : table[p].line = table[q].line => p = q
  BY <1>6, <1>8
<1>10. \A p \in 1 .. n : \E k \in D : table[p] = ChunkOf(s, k)
  BY <1>6, <1>8
<1>11. \A k \in D : \E p \in 1 .. n : table[p] = ChunkOf(s, k)
  BY <1>3, <1>8
<1>12. D = DataLines(s) /\ Len(table) = n /\ n = Cardinality(D)
  BY <1>1, <1>7
<1> HIDE DEF D, n
<1> QED
  BY <1>9, <1>10, <1>11, <1>12

LEMMA InSpan ==
  ASSUME NEW a \in Nat, NEW b \in Nat, NEW m \in Nat, m >= 1, m <= b - a + 1
  PROVE  /\ a + m - 1 \in Nat /\ (a + m - 1) - a + 1 = m
         /\ a <= a + m - 1 /\ a + m - 1 <= b
OBVIOUS

\* The bytes of the data lines add up to the bytes loaded: each is at one address
\* of one chunk.
LEMMA LinesTotal ==
  ASSUME NEW s \in Seq(Lines), NEW table \in Seq(SourceChunk), Loaded(s, table, 0),
         \A p \in 1 .. Len(table) :
           Len(table[p].bytes) = table[p].end - table[p].start + 1
  PROVE  Total([k \in DataLines(s) |-> Len(s[k].data)]) = Cardinality(LoadedBytes(table))
<1> DEFINE D == DataLines(s)
           n == Len(table)
           weight == [k \in D |-> Len(s[k].data)]
           U == {u \in D \X (1 .. ByteBase) : u[2] <= weight[u[1]]}
           L == LoadedBytes(table)
           unit == [ka \in L |-> <<table[ka[1]].line, ka[2] - table[ka[1]].start + 1>>]
<1>1. /\ D \subseteq 1 .. Len(s) /\ IsFiniteSet(D)
      /\ \A k \in D : s[k] \in Lines /\ s[k].form = "record"
  <2>1. Len(s) \in Nat /\ D = DataUpTo(s, Len(s))
    BY DataLinesAre
  <2>2. IsFiniteSet(D)
    BY <2>1, CountData
  <2> QED
    BY <2>1, <2>2 DEF DataLines, IsRecord
<1>2. ASSUME NEW k \in D PROVE weight[k] \in 0 .. ByteBase /\ weight[k] = Len(s[k].data)
  <2>1. Len(s[k].data) \in Nat /\ Len(s[k].data) < ByteBase /\ ByteBase \in Nat
    BY <1>1, RecordFacts, HexAssumption DEF HexAssumption
  <2> QED
    BY <2>1
<1>3. DOMAIN weight = D /\ ByteBase \in Nat
  BY HexAssumption DEF HexAssumption
<1>4. Total(weight) = Cardinality(U)
  <2>1. \A k \in DOMAIN weight : weight[k] \in 0 .. ByteBase
    BY <1>2, <1>3
  <2> HIDE DEF weight
  <2> QED
    BY <1>1, <1>3, <2>1, TotalCounted
<1>5. ASSUME NEW p \in 1 .. n
      PROVE  /\ table[p].line \in D /\ weight[table[p].line] = Len(table[p].bytes)
             /\ \E a, b \in Nat :
                  /\ a = table[p].start /\ b = table[p].end /\ b <= AddrMax
                  /\ weight[table[p].line] = b - a + 1
                  /\ weight[table[p].line] <= ByteBase
  <2>1. PICK k \in D : table[p] = ChunkOf(s, k)
    BY LoadedTable
  <2>2. table[p].line = k /\ table[p].bytes = s[k].data
    BY <2>1 DEF ChunkOf
  <2>3. AddrMax \in Nat
    BY HexWidths
  <2>9. table[p] \in SourceChunk
    OBVIOUS
  <2>4. PICK a, b \in Nat : a = table[p].start /\ b = table[p].end /\ b <= AddrMax
    BY <2>3, <2>9 DEF SourceChunk, Address
  <2>5. weight[k] = Len(table[p].bytes) /\ weight[k] <= ByteBase
    BY <1>2, <1>3, <2>2
  <2> HIDE DEF weight
  <2>6. Len(table[p].bytes) = table[p].end - table[p].start + 1
    OBVIOUS
  <2>7. weight[k] = b - a + 1
    BY <2>4, <2>5, <2>6
  <2> QED
    BY <2>2, <2>4, <2>5, <2>7
<1>6. ASSUME NEW k \in D PROVE \E p \in 1 .. n : table[p].line = k
  <2>1. PICK p \in 1 .. n : table[p] = ChunkOf(s, k)
    BY LoadedTable
  <2>2. ChunkOf(s, k).line = k
    BY DEF ChunkOf
  <2> QED
    BY <2>1, <2>2
<1>7. \A p, q \in 1 .. n : table[p].line = table[q].line => p = q
  BY LoadedTable
<1> HIDE DEF weight, D
<1>8. ASSUME NEW ka \in L
      PROVE  /\ ka[1] \in 1 .. n /\ ka[2] \in Int /\ ka = <<ka[1], ka[2]>>
             /\ table[ka[1]].start \in Int
             /\ unit[ka] = <<table[ka[1]].line, ka[2] - table[ka[1]].start + 1>>
             /\ unit[ka] \in U
  <2>1. PICK p, c : ka = <<p, c>> /\ p \in 1 .. n /\ c \in table[p].start .. table[p].end
    BY DEF LoadedBytes
  <2>2. PICK a, b \in Nat :
          /\ a = table[p].start /\ b = table[p].end
          /\ weight[table[p].line] = b - a + 1 /\ weight[table[p].line] <= ByteBase
    BY <1>5, <2>1
  <2>3. c \in Int /\ a <= c /\ c <= b
    BY <2>1, <2>2
  <2>4. c - a + 1 \in 1 .. ByteBase /\ c - a + 1 <= weight[table[p].line]
    BY <1>3, <2>2, <2>3
  <2>5. unit[ka] = <<table[p].line, c - a + 1>>
    BY <2>1, <2>2
  <2>6. unit[ka] \in U
    BY <1>5, <2>1, <2>4, <2>5
  <2> QED
    BY <2>1, <2>2, <2>3, <2>5, <2>6
<1>9. ASSUME NEW u \in U PROVE \E ka \in L : unit[ka] = u
  <2>1. PICK k \in D, m \in 1 .. ByteBase : u = <<k, m>> /\ m <= weight[k]
    OBVIOUS
  <2>2. PICK p \in 1 .. n : table[p].line = k
    BY <1>6
  <2>3. PICK a, b \in Nat :
          /\ a = table[p].start /\ b = table[p].end /\ b <= AddrMax
          /\ weight[k] = b - a + 1
    BY <1>5, <2>2
  <2>4. m \in Nat /\ m >= 1 /\ m <= b - a + 1 /\ AddrMax \in Nat
    BY <1>3, <2>1, <2>3, HexWidths
  <2>9. PICK c \in Nat : c - a + 1 = m /\ a <= c /\ c <= b
    BY <2>4, InSpan
  <2>6. c \in a .. b /\ c \in 0 .. AddrMax
    BY <2>3, <2>4, <2>9
  <2>5. <<p, c>> \in L
    BY <2>3, <2>6 DEF LoadedBytes, Address
  <2>7. unit[<<p, c>>] = <<table[p].line, c - table[p].start + 1>>
    <3> HIDE DEF L
    <3> QED
      BY <2>5
  <2>8. unit[<<p, c>>] = <<k, m>>
    BY <2>2, <2>3, <2>7, <2>9
  <2> QED
    BY <2>1, <2>5, <2>6, <2>8
<1>10. ASSUME NEW x \in L, NEW y \in L, unit[x] = unit[y] PROVE x = y
  <2>1. table[x[1]].line = table[y[1]].line
        /\ x[2] - table[x[1]].start + 1 = y[2] - table[y[1]].start + 1
    BY <1>8, <1>10
  <2>2. x[1] = y[1]
    BY <1>7, <1>8, <2>1
  <2>3. PICK a, b, c \in Int : a = x[2] /\ b = y[2] /\ c = table[x[1]].start
    BY <1>8
  <2>4. a - c + 1 = b - c + 1
    BY <2>1, <2>2, <2>3
  <2>5. a = b
    BY <2>4
  <2> QED
    BY <1>8, <2>2, <2>3, <2>5
<1>11. unit \in Surjection(L, U) /\ unit \in Injection(L, U)
  <2>1. unit = [ka \in L |-> unit[ka]]
    OBVIOUS
  <2> HIDE DEF unit, U, L
  <2>2. unit \in [L -> U]
    BY <1>8, <2>1
  <2> QED
    BY <1>9, <1>10, <2>2 DEF Surjection, Injection, IsInjective
<1>12. IsFiniteSet(L)
  BY LoadedBytesFinite
<1>13. Cardinality(U) = Cardinality(L)
  <2> HIDE DEF unit, U, L
  <2> QED
    BY <1>11, <1>12, FS_Surjection
<1> QED
  BY <1>4, <1>13 DEF weight, D

\* Another line leaves the chunks and the places of the lines before it alone.
LEMMA OldLines ==
  ASSUME NEW s \in Seq(Lines), NEW l \in Lines, NEW k \in 1 .. Len(s)
  PROVE  /\ DataUpTo(Append(s, l), k) = DataUpTo(s, k)
         /\ ChunkOf(Append(s, l), k) = ChunkOf(s, k)
<1> DEFINE t == Append(s, l)
<1>1. /\ Len(s) \in Nat /\ \A m \in 1 .. Len(s) : t[m] = s[m]
      /\ k \in 1 .. Len(s) + 1
  BY AppendFacts
<1>2. BaseAt(t, k) = BaseAt(s, k)
  BY <1>1, BaseBefore
<1> HIDE DEF t
<1>3. DataUpTo(t, k) = DataUpTo(s, k)
  <2>1. \A j \in 1 .. k : t[j] = s[j]
    BY <1>1
  <2> QED
    BY <2>1 DEF DataUpTo
<1>4. ChunkOf(t, k) = ChunkOf(s, k)
  BY <1>1, <1>2 DEF ChunkOf
<1> QED
  BY <1>3, <1>4 DEF t

\* The lines with bytes after one more line.
LEMMA DataAppend ==
  ASSUME NEW s \in Seq(Lines), NEW l \in Lines
  PROVE  /\ Len(s) \in Nat /\ Append(s, l)[Len(s) + 1] = l
         /\ Len(Append(s, l)) = Len(s) + 1
         /\ DataUpTo(Append(s, l), Len(s)) = DataUpTo(s, Len(s))
         /\ \A k \in DataUpTo(Append(s, l), Len(s) + 1) :
              k \in DataUpTo(s, Len(s)) \/ (k = Len(s) + 1 /\ Carries(l))
<1> DEFINE t == Append(s, l)
<1>1. /\ Len(s) \in Nat /\ t[Len(s) + 1] = l /\ Len(t) = Len(s) + 1
      /\ \A m \in 1 .. Len(s) : t[m] = s[m]
  BY AppendFacts
<1> HIDE DEF t
<1>2. DataUpTo(t, Len(s)) = DataUpTo(s, Len(s))
  BY <1>1 DEF DataUpTo
<1>3. ASSUME NEW k \in DataUpTo(t, Len(s) + 1)
      PROVE  k \in DataUpTo(s, Len(s)) \/ (k = Len(s) + 1 /\ Carries(l))
  <2>1. k \in 1 .. Len(s) + 1 /\ Carries(t[k])
    BY <1>3 DEF DataUpTo
  <2>2. CASE k = Len(s) + 1
    BY <1>1, <2>1, <2>2
  <2>3. CASE k \in 1 .. Len(s)
    BY <1>1, <2>1, <2>3 DEF DataUpTo
  <2> QED
    BY <1>1, <2>1, <2>2, <2>3
<1> QED
  BY <1>1, <1>2, <1>3 DEF t

LEMMA QuietLine ==
  ASSUME NEW s \in Seq(Lines), NEW l \in Lines, NEW table, NEW held \in Nat,
         ~Carries(l), Loaded(s, table, held)
  PROVE  Loaded(Append(s, l), table, held)
<1> DEFINE t == Append(s, l)
           n == Len(s)
<1>1. /\ n \in Nat /\ t[n + 1] = l /\ Len(t) = n + 1
      /\ DataUpTo(t, n) = DataUpTo(s, n)
      /\ \A k \in DataUpTo(t, n + 1) : k \in DataUpTo(s, n)
  BY DataAppend
<1>2. \A k \in 1 .. n : DataUpTo(t, k) = DataUpTo(s, k) /\ ChunkOf(t, k) = ChunkOf(s, k)
  BY OldLines
<1> HIDE DEF t
<1>3. Cardinality(DataUpTo(t, n + 1)) = Cardinality(DataUpTo(s, n))
  <2> DEFINE before == Cardinality(DataUpTo(t, n))
  <2>1. ~Carries(t[n + 1])
    BY <1>1
  <2>2. before \in Nat /\ Cardinality(DataUpTo(t, n + 1)) = before + 0
    BY <1>1, <2>1, CountData
  <2> HIDE DEF before
  <2>3. Cardinality(DataUpTo(t, n + 1)) = before
    BY <2>2
  <2> QED
    BY <1>1, <2>3 DEF before
<1>4. Len(table) = PlaceOf(t, Len(t), held)
  BY <1>1, <1>3 DEF Loaded, PlaceOf
<1>5. ASSUME NEW k \in DataUpTo(t, Len(t))
      PROVE  table[PlaceOf(t, k, held)] = ChunkOf(t, k)
  <2>1. k \in DataUpTo(s, n) /\ k \in 1 .. n
    BY <1>1, <1>5 DEF DataUpTo
  <2> QED
    BY <1>2, <2>1 DEF Loaded, PlaceOf
<1> QED
  BY <1>4, <1>5 DEF Loaded, t

LEMMA DataLine ==
  ASSUME NEW s \in Seq(Lines), NEW l \in Lines, NEW held \in Nat,
         NEW table \in Seq(SourceChunk), NEW c \in SourceChunk,
         Carries(l), Loaded(s, table, held), c = ChunkOf(Append(s, l), Len(s) + 1)
  PROVE  Loaded(Append(s, l), Append(table, c), held)
<1> DEFINE t == Append(s, l)
           n == Len(s)
           grown == Append(table, c)
<1>1. /\ n \in Nat /\ t[n + 1] = l /\ Len(t) = n + 1
      /\ DataUpTo(t, n) = DataUpTo(s, n)
      /\ \A k \in DataUpTo(t, n + 1) : k \in DataUpTo(s, n) \/ k = n + 1
  BY DataAppend
<1>2. \A k \in 1 .. n : DataUpTo(t, k) = DataUpTo(s, k) /\ ChunkOf(t, k) = ChunkOf(s, k)
  BY OldLines
<1>3. /\ Len(table) \in Nat /\ Len(grown) = Len(table) + 1
      /\ \A i \in 1 .. Len(table) : grown[i] = table[i]
      /\ grown[Len(table) + 1] = c
  BY AppendFacts
<1>4. c = ChunkOf(t, n + 1)
  OBVIOUS
<1> HIDE DEF t, grown, n
<1>5. /\ Cardinality(DataUpTo(s, n)) \in Nat
      /\ Cardinality(DataUpTo(t, n + 1)) = Cardinality(DataUpTo(s, n)) + 1
  BY <1>1, CountData
<1>6. Len(table) = held + Cardinality(DataUpTo(s, n))
  BY DEF Loaded, PlaceOf, n
<1>7. PlaceOf(t, n + 1, held) = Len(table) + 1
  BY <1>5, <1>6 DEF PlaceOf
<1>8. ASSUME NEW k \in DataUpTo(s, n)
      PROVE  grown[PlaceOf(t, k, held)] = ChunkOf(t, k)
  <2>1. k \in 1 .. n /\ Carries(s[k]) /\ k \in DataUpTo(s, k)
    <3>1. k \in 1 .. n /\ Carries(s[k])
      BY <1>8 DEF DataUpTo
    <3> QED
      BY <1>1, <3>1 DEF DataUpTo
  <2>2. /\ Cardinality(DataUpTo(s, k)) \in Nat /\ Cardinality(DataUpTo(s, k)) >= 1
        /\ Cardinality(DataUpTo(s, k)) <= Cardinality(DataUpTo(s, n))
    BY <1>1, <2>1, CountData
  <2>3. PlaceOf(t, k, held) = PlaceOf(s, k, held) /\ PlaceOf(s, k, held) \in 1 .. Len(table)
    <3> DEFINE some == Cardinality(DataUpTo(s, k))
               all == Cardinality(DataUpTo(s, n))
    <3>1. PlaceOf(t, k, held) = held + some /\ PlaceOf(s, k, held) = held + some
      BY <1>2, <2>1 DEF PlaceOf
    <3>2. /\ some \in Nat /\ some >= 1 /\ some <= all
          /\ all \in Nat /\ Len(table) = held + all
      BY <1>5, <1>6, <2>2
    <3> HIDE DEF some, all
    <3>3. held + some \in 1 .. Len(table)
      BY <3>2
    <3> QED
      BY <3>1, <3>3
  <2>4. table[PlaceOf(s, k, held)] = ChunkOf(s, k)
    BY <1>8 DEF Loaded, n
  <2> QED
    BY <1>2, <1>3, <2>1, <2>3, <2>4
<1>9. \A k \in DataUpTo(t, Len(t)) : grown[PlaceOf(t, k, held)] = ChunkOf(t, k)
  BY <1>1, <1>3, <1>4, <1>7, <1>8
<1> QED
  BY <1>1, <1>3, <1>7, <1>9 DEF Loaded, t, grown
-----------------------------------------------------------------------------
(* The image follows the file.                                             *)

\* Within a call address_base is the base the lines read so far have set, and
\* the image holds what it held before and then what they carry.
BaseFollows == pc = "reading" => base = BaseAt(seen, Len(seen) + 1)

ChunksFollow == InCall => Loaded(seen, chunks, prior.chunks)

LoadInv == HexInv /\ BaseFollows /\ ChunksFollow

\* A line that carries no byte, and sets the base when it is an address record.
LEMMA QuietFollows ==
  ASSUME LoadInv, NEW l \in Lines, Read(l), Continue, chunks' = chunks, ~Carries(l),
         base' = IF SetsBase(l) THEN SetBy(l) ELSE base
  PROVE  BaseFollows' /\ ChunksFollow'
<1>1. /\ pc = "reading" /\ seen' = Append(seen, l) /\ prior' = prior
      /\ seen \in Seq(Lines) /\ prior.chunks \in Nat
  BY ReadFacts, InCallFacts DEF LoadInv, Continue
<1>2. Loaded(seen, chunks, prior.chunks) /\ base = BaseAt(seen, Len(seen) + 1)
  BY <1>1 DEF LoadInv, BaseFollows, ChunksFollow, InCall
<1>3. Loaded(seen', chunks', prior'.chunks)
  BY <1>1, <1>2, QuietLine
<1>4. base' = BaseAt(seen', Len(seen) + 2)
  BY <1>1, <1>2, BaseAfter
<1>5. Len(seen) + 2 = Len(seen') + 1
  BY <1>1, AppendFacts
<1> QED
  BY <1>3, <1>4, <1>5 DEF BaseFollows, ChunksFollow

LEMMA StoredFollows ==
  ASSUME LoadInv, NEW l \in Lines, Dispatched(l), l.type = 0, Continue, base' = base,
         AddChunkStored(StartOf(l), l.data, stats.lines + 1), ImageInv'
  PROVE  BaseFollows' /\ ChunksFollow'
<1> DEFINE n == Len(seen)
           c == [start |-> StartOf(l), end |-> EndOf(StartOf(l), l.data),
                 bytes |-> l.data, line |-> stats.lines + 1]
<1>1. /\ pc = "reading" /\ seen' = Append(seen, l) /\ prior' = prior
      /\ seen \in Seq(Lines) /\ prior.chunks \in Nat /\ l.form = "record"
      /\ stats.lines = n /\ stats.lines + 1 \in Nat
  <2>1. HexInv /\ Read(l) /\ l.form = "record" /\ stats \in StatsType
    BY DispatchedFacts DEF LoadInv
  <2> QED
    BY <2>1, ReadFacts, InCallFacts DEF Continue, StatsType
<1>2. Loaded(seen, chunks, prior.chunks) /\ base = BaseAt(seen, n + 1)
  BY <1>1 DEF LoadInv, BaseFollows, ChunksFollow, InCall
<1>3. /\ seen'[n + 1] = l /\ n \in Nat /\ n + 1 \in 1 .. n + 1
      /\ Len(seen') = n + 1 /\ n + 2 = (n + 1) + 1
  BY <1>1, AppendFacts
<1>4. ~SetsBase(l) /\ Carries(l) /\ l.data # <<>>
  <2>1. l.data # <<>>
    BY DEF AddChunkStored
  <2>2. IsRecord(l, {0}) /\ ~IsRecord(l, {2, 4})
    BY <1>1 DEF IsRecord
  <2> QED
    BY <2>1, <2>2 DEF SetsBase, Carries
<1>5. BaseAt(seen', n + 1) = base /\ BaseAt(seen', n + 2) = base
  BY <1>1, <1>2, <1>3, <1>4, BaseBefore, BaseAfter
<1>6. /\ StartOf(l) = base + l.offset /\ StartOf(l) \in Address
      /\ EndOf(StartOf(l), l.data) = base + l.offset + Len(l.data) - 1
  BY <1>1, <1>4, RecordAddress DEF LoadInv, HexInv
<1>7. c = ChunkOf(seen', n + 1)
  <2>1. c = [start |-> base + l.offset, end |-> base + l.offset + Len(l.data) - 1,
             bytes |-> l.data, line |-> n + 1]
    BY <1>1, <1>6
  <2> QED
    BY <1>3, <1>5, <2>1, Zenon DEF ChunkOf
<1>8. c \in SourceChunk
  <2>1. EndOf(StartOf(l), l.data) \in Address
    BY <1>1, <1>6, RecordFacts, StoredChunkWellFormed DEF AddChunkStored, SourceChunk
  <2>2. l.data \in Seq(Byte)
    BY <1>1, RecordFacts
  <2> QED
    BY <1>1, <1>6, <2>1, <2>2 DEF SourceChunk
<1>9. chunks \in Seq(SourceChunk) /\ chunks' = Append(chunks, c)
  BY DEF AddChunkStored, LoadInv, HexInv, ImageInv, ImageTypeOK
<1> HIDE DEF c, n
<1>10. Loaded(seen', chunks', prior'.chunks)
  BY <1>1, <1>2, <1>4, <1>7, <1>8, <1>9, DataLine DEF n
<1>11. base' = BaseAt(seen', Len(seen') + 1)
  BY <1>3, <1>5
<1> QED
  BY <1>10, <1>11 DEF BaseFollows, ChunksFollow

LEMMA OutOfCall ==
  ASSUME pc' = "idle", result' # "ok"
  PROVE  BaseFollows' /\ ChunksFollow'
BY DEF BaseFollows, ChunksFollow, InCall

LEMMA OpenFollows ==
  ASSUME LoadInv, Open
  PROVE  BaseFollows' /\ ChunksFollow'
<1>1. Begin("none") /\ HexInv
  BY DEF Open, LoadInv
<1>2. /\ seen' = <<>> /\ Len(seen') = 0 /\ base' = 0
      /\ prior'.chunks = Len(chunks') /\ Len(chunks') \in Nat
  BY <1>1, BeginFacts
<1>3. Earlier(seen', 1) = {} /\ DataUpTo(seen', 0) = {}
  BY DEF Earlier, DataUpTo
<1>4. BaseAt(seen', 1) = 0
  BY <1>3, BaseAtUnfolds
<1>5. PlaceOf(seen', 0, prior'.chunks) = Len(chunks')
  <2>1. PlaceOf(seen', 0, prior'.chunks) = Len(chunks') + 0
    BY <1>2, <1>3, FS_EmptySet, Zenon DEF PlaceOf
  <2> QED
    BY <1>2, <2>1
<1>6. Loaded(seen', chunks', prior'.chunks)
  BY <1>2, <1>3, <1>5 DEF Loaded
<1> QED
  BY <1>2, <1>4, <1>6 DEF BaseFollows, ChunksFollow

LEMMA LineFollows ==
  ASSUME LoadInv, HexInv', NEW l \in Lines,
         \/ SkipBlank(l) \/ DataRecord(l) \/ EofRecord(l)
         \/ AddressRecord(l) \/ StartRecord(l)
  PROVE  BaseFollows' /\ ChunksFollow'
<1>1. CASE SkipBlank(l)
  <2>1. ~Carries(l) /\ ~SetsBase(l)
    BY <1>1 DEF SkipBlank, Carries, SetsBase, IsRecord
  <2> QED
    BY <1>1, <2>1, QuietFollows DEF SkipBlank, imageVars
<1>2. CASE EofRecord(l) \/ StartRecord(l)
  <2>1. Dispatched(l) /\ l.type \in {1, 5} /\ Continue /\ base' = base /\ chunks' = chunks
    BY <1>2 DEF EofRecord, StartRecord, imageVars
  <2>2. ~Carries(l) /\ ~SetsBase(l) /\ Read(l)
    BY <2>1 DEF Carries, SetsBase, IsRecord, Dispatched
  <2> QED
    BY <2>1, <2>2, QuietFollows
<1>3. CASE AddressRecord(l)
  <2>1. /\ Dispatched(l) /\ l.type \in {2, 4} /\ Continue /\ base' = NewBase(l)
        /\ chunks' = chunks
    BY <1>3 DEF AddressRecord, imageVars
  <2>2. ~Carries(l) /\ SetsBase(l) /\ Read(l)
    BY <2>1 DEF Carries, SetsBase, IsRecord, Dispatched
  <2>3. NewBase(l) = SetBy(l)
    BY DEF NewBase, SetBy
  <2> QED
    BY <2>1, <2>2, <2>3, QuietFollows
<1>4. CASE DataRecord(l)
  <2>1. /\ Dispatched(l) /\ l.type = 0 /\ Continue /\ base' = base
        /\ \/ AddChunkEmpty(l.data)
           \/ AddChunkStored(StartOf(l), l.data, stats.lines + 1)
    BY <1>4 DEF DataRecord
  <2>2. CASE AddChunkEmpty(l.data)
    <3>1. ~Carries(l) /\ ~SetsBase(l) /\ Read(l) /\ chunks' = chunks
      BY <2>1, <2>2 DEF AddChunkEmpty, Carries, SetsBase, IsRecord, Dispatched, imageVars
    <3> QED
      BY <2>1, <3>1, QuietFollows
  <2>3. CASE AddChunkStored(StartOf(l), l.data, stats.lines + 1)
    BY <2>1, <2>3, StoredFollows DEF HexInv
  <2> QED
    BY <2>1, <2>2, <2>3
<1> QED
  BY <1>1, <1>2, <1>3, <1>4

LEMMA StepLoad == LoadInv /\ [Next]_vars => LoadInv'
<1> SUFFICES ASSUME LoadInv, [Next]_vars PROVE BaseFollows' /\ ChunksFollow' /\ HexInv'
  BY DEF LoadInv
<1>0. HexInv'
  BY StepHex DEF LoadInv
<1>1. CASE InvalidArgument \/ OpenFails \/ CallerFrees
  BY <1>0, <1>1, OutOfCall DEF InvalidArgument, OpenFails, CallerFrees, Begin
<1>2. CASE Open
  BY <1>0, <1>2, OpenFollows
<1>3. CASE ReadLine
  <2>1. PICK l \in Lines :
          \/ SkipBlank(l) \/ RefuseLine(l) \/ RefuseRecord(l)
          \/ DataRecord(l) \/ DataRecordFails(l)
          \/ EofRecord(l) \/ AddressRecord(l) \/ StartRecord(l)
    BY <1>3 DEF ReadLine
  <2>2. CASE RefuseLine(l) \/ RefuseRecord(l) \/ DataRecordFails(l)
    BY <1>0, <2>2, OutOfCall DEF RefuseLine, RefuseRecord, DataRecordFails, Fail
  <2> QED
    BY <1>0, <2>1, <2>2, LineFollows
<1>4. CASE ReadError \/ MissingEof
  BY <1>0, <1>4, OutOfCall DEF ReadError, MissingEof, Fail
<1>5. CASE Succeed
  <2>1. /\ pc = "reading" /\ pc' = "idle"
        /\ chunks' = chunks /\ seen' = seen /\ prior' = prior
    BY <1>5 DEF Succeed, imageVars
  <2> QED
    BY <1>0, <2>1 DEF LoadInv, BaseFollows, ChunksFollow, InCall
<1>6. CASE UNCHANGED vars
  <2>1. /\ pc' = pc /\ result' = result /\ base' = base
        /\ chunks' = chunks /\ seen' = seen /\ prior' = prior
    BY <1>6 DEF vars, callVars, imageVars
  <2> QED
    BY <1>0, <2>1 DEF LoadInv, BaseFollows, ChunksFollow, InCall
<1> QED
  BY <1>1, <1>2, <1>3, <1>4, <1>5, <1>6 DEF Next

LEMMA InitLoad == Init => LoadInv
BY InitHex DEF Init, LoadInv, BaseFollows, ChunksFollow, InCall

LEMMA LoadInvariance == Spec => []LoadInv
BY InitLoad, StepLoad, PTL DEF Spec

-----------------------------------------------------------------------------
(* The theorems.                                                           *)

\* The types: the byte count of the statistics never leaves size_t and
\* address_base stays a 32-bit address for every file (hex_parser.c:253-301).
THEOREM HexTypeCorrect == Spec => []TypeOK
BY HexInvariance, PTL DEF HexInv

\* Whatever the file, after every line the statistics are those of the lines read
\* and agree with what the call did to the image, also one that was not empty;
\* and a failure leaves an empty image and the number of the last line read
\* (hex_parser.c:149, 249, 253-264, 312-315, 346-349).
THEOREM StatsAlwaysMatchImage == Spec => []StatsMatchImage
BY HexInvariance, PTL DEF HexInv

\* bl_hex_parse_file returns success only for a file whose records all sum to
\* zero, have their shape, and end with the EOF record (hex_parser.c:166-336).
THEOREM AcceptsOnlyValidFiles == Spec => []AcceptsOnlyValid
BY HexInvariance, PTL DEF HexInv

\* It refuses no line of a valid file: the line it calls malformed, whose number
\* it reports, is the first that leaves the file no valid beginning, and it misses
\* the EOF record only of a file without one (hex_parser.c:144-346).
THEOREM BlamesOnlyInvalidFiles == Spec => []SyntaxErrorsAreReal
BY HexInvariance, PTL DEF HexInv

\* address_base + offset never leaves the address space and add_chunk never
\* refuses a record for its address, for any base a file can set
\* (hex_parser.c:255, 289, 301 and firmware_image.c:99).
THEOREM RecordsAlwaysStayInAddressSpace == Spec => []RecordsStayInAddressSpace
<1>1. HexInv => RecordsStayInAddressSpace
  <2> SUFFICES ASSUME HexInv, NEW l \in Lines, IsRecord(l, {0}), l.data # <<>>
               PROVE  /\ StartOf(l) = base + l.offset
                      /\ ~AddressOverflows(StartOf(l), Len(l.data))
    BY DEF RecordsStayInAddressSpace
  <2>1. BaseInRange /\ l.form = "record"
    BY DEF HexInv, IsRecord
  <2> QED
    BY <2>1, RecordAddress
<1> QED
  BY <1>1, HexInvariance, PTL

\* The parser loads what the records say: after every line the image holds what
\* it held before the call and one chunk per data line, in file order, at the
\* base the latest address record set (hex_parser.c:253-301).
THEOREM ChunksAlwaysMatchRecords == Spec => []ChunksMatchRecords
<1>1. LoadInv => ChunksMatchRecords
  <2> SUFFICES ASSUME LoadInv, InCall
               PROVE  Loaded(seen, chunks, prior.chunks) /\ seen \in Seq(Lines)
    BY LoadedMeans DEF ChunksMatchRecords
  <2> QED
    BY DEF LoadInv, ChunksFollow, HexInv, TypeOK
<1> QED
  BY <1>1, LoadInvariance, PTL

=============================================================================
