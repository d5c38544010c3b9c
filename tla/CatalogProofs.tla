---------------------------- MODULE CatalogProofs ----------------------------
(***************************************************************************)
(* Theorems about Catalog, for any objects of the server, any rows and     *)
(* bindings: what an application sees of the catalog and of a row.         *)
(***************************************************************************)
EXTENDS Catalog, SequenceTheorems, WellFoundedInduction, TLAPS

-----------------------------------------------------------------------------
(***************************************************************************)
(* Recursive functions on positions, by induction on a set of positions.   *)
(***************************************************************************)
LEMMA LeastNumber ==
  ASSUME NEW S \in SUBSET Nat, S # {}
  PROVE  \E x \in S : \A y \in S : x <= y
<1> DEFINE R == OpToRel(<, Nat)
<1>1. IsWellFoundedOn(R, Nat)
  BY NatLessThanWellFounded
<1>2. PICK x \in S : \A y \in S : ~(<<y, x>> \in R)
  <2> HIDE DEF R
  <2> QED BY <1>1, WFMin
<1>3. \A y \in S : x <= y
  <2> SUFFICES ASSUME NEW y \in S, y < x PROVE FALSE
    OBVIOUS
  <2>1. <<y, x>> \in R
    BY DEF OpToRel
  <2> QED BY <1>2, <2>1
<1> QED BY <1>3

LEMMA Induction ==
  ASSUME NEW S \in SUBSET Nat, 0 \in S, \A n \in S : n + 1 \in S
  PROVE  S = Nat
<1> SUFFICES ASSUME Nat \ S # {} PROVE FALSE
  OBVIOUS
<1>1. PICK x \in Nat \ S : \A y \in Nat \ S : x <= y
  BY LeastNumber
<1>2. x - 1 \in Nat /\ x - 1 \in S
  BY <1>1
<1> QED BY <1>1, <1>2

-----------------------------------------------------------------------------
(***************************************************************************)
(* Texts: their bytes, and the digits of a number.                         *)
(***************************************************************************)
\* The bytes of a text are a text.
LEMMA Utf8Texts ==
  ASSUME NEW text \in Texts
  PROVE  Utf8(text) \in Texts
<1> DEFINE Reads(f, m) == [n \in 0..m |-> IF n = 0 THEN << >> ELSE f[n - 1] \o Encoded(text[n])]
           S == {m \in Nat : \E f : f = Reads(f, m)}
           f == CHOOSE f : f = Reads(f, Len(text))
<1>1. text \in Seq(Characters) /\ Len(text) \in Nat
  BY LenProperties DEF Texts
<1>2. 0 \in S
  <2> DEFINE g == [n \in 0..0 |-> << >>]
  <2>1. g = Reads(g, 0)
    OBVIOUS
  <2> QED BY <2>1
<1>3. ASSUME NEW m \in S PROVE m + 1 \in S
  <2>1. m \in Nat /\ m + 1 \in Nat
    OBVIOUS
  <2>2. PICK h : h = Reads(h, m)
    OBVIOUS
  <2> DEFINE g == Reads(h, m + 1)
  <2>3. \A n \in 0..m : g[n] = h[n]
    <3> TAKE n \in 0..m
    <3>1. h[n] = Reads(h, m)[n]
      BY <2>2
    <3> QED BY <2>1, <3>1
  <2>4. \A n \in 0..(m + 1) : g[n] = Reads(g, m + 1)[n]
    <3> TAKE n \in 0..(m + 1)
    <3>1. n # 0 => n - 1 \in 0..m
      BY <2>1
    <3>2. n # 0 => g[n - 1] = h[n - 1]
      BY <2>3, <3>1
    <3> HIDE <2>3
    <3> QED BY <3>2
  <2>5. g = Reads(g, m + 1)
    BY <2>4
  <2> HIDE DEF g
  <2> QED BY <2>1, <2>5
<1>4. S = Nat
  <2> HIDE DEF S
  <2> QED BY <1>2, <1>3, Induction DEF S
<1>5. f = Reads(f, Len(text))
  BY <1>1, <1>4
<1>6. Utf8(text) = f[Len(text)]
  BY Zenon DEF Utf8
<1> HIDE DEF f
<1> DEFINE T == {n \in Nat : n <= Len(text) => f[n] \in Seq(Characters)}
<1>7. 0 \in T
  <2>1. f[0] = << >>
    BY <1>1, <1>5
  <2>2. << >> \in Seq(Characters)
    OBVIOUS
  <2> QED BY <2>1, <2>2
<1>8. ASSUME NEW n \in T PROVE n + 1 \in T
  <2>1. n \in Nat /\ n + 1 \in Nat
    OBVIOUS
  <2> SUFFICES ASSUME n + 1 <= Len(text) PROVE f[n + 1] \in Seq(Characters)
    BY <2>1
  <2>2. f[n + 1] = f[n] \o Encoded(text[n + 1])
    <3>1. n + 1 \in 0..Len(text) /\ n + 1 # 0 /\ (n + 1) - 1 = n
      BY <1>1, <2>1
    <3> QED BY <1>5, <3>1
  <2>3. f[n] \in Seq(Characters)
    BY <1>1, <2>1
  <2>4. Encoded(text[n + 1]) \in Seq(Characters)
    <3>1. text[n + 1] \in Characters
      BY <1>1, <2>1
    <3>2. "+" \in Characters
      BY ValuesAssumption
    <3> QED BY <3>1, <3>2 DEF Encoded
  <2> QED BY <2>2, <2>3, <2>4, ConcatProperties
<1>9. T = Nat
  <2> HIDE DEF T
  <2> QED BY <1>7, <1>8, Induction DEF T
<1>10. f[Len(text)] \in Seq(Characters)
  BY <1>1, <1>9
<1> QED BY <1>6, <1>10 DEF Texts

\* A number is written as a text.
LEMMA DecimalTexts ==
  ASSUME NEW number \in Nat
  PROVE  Decimal(number) \in Texts
<1> DEFINE Reads(f, m) == [k \in 0..m |-> IF k < 10 THEN <<Digits[k + 1]>>
                                          ELSE Append(f[k \div 10], Digits[(k % 10) + 1])]
           S == {m \in Nat : \E f : f = Reads(f, m)}
           f == CHOOSE f : f = Reads(f, number)
<1>1. \A k \in Nat : k >= 10 => k \div 10 \in Nat /\ k \div 10 <= k - 1
  OBVIOUS
<1>2. 0 \in S
  <2> DEFINE g == [k \in 0..0 |-> <<Digits[k + 1]>>]
  <2>1. g = Reads(g, 0)
    OBVIOUS
  <2> QED BY <2>1
<1>3. ASSUME NEW m \in S PROVE m + 1 \in S
  <2>1. m \in Nat /\ m + 1 \in Nat
    OBVIOUS
  <2>2. PICK h : h = Reads(h, m)
    OBVIOUS
  <2> DEFINE g == Reads(h, m + 1)
  <2>3. \A k \in 0..m : g[k] = h[k]
    <3> TAKE k \in 0..m
    <3>1. h[k] = Reads(h, m)[k]
      BY <2>2
    <3>2. k \in 0..(m + 1)
      BY <2>1
    <3> QED BY <3>1, <3>2
  <2>4. \A k \in 0..(m + 1) : g[k] = Reads(g, m + 1)[k]
    <3> TAKE k \in 0..(m + 1)
    <3>1. ~(k < 10) => k \div 10 \in 0..m
      BY <1>1, <2>1
    <3>2. ~(k < 10) => g[k \div 10] = h[k \div 10]
      BY <2>3, <3>1
    <3> HIDE <2>3
    <3> QED BY <3>2
  <2>5. g = Reads(g, m + 1)
    BY <2>4
  <2> HIDE DEF g
  <2> QED BY <2>1, <2>5
<1>4. S = Nat
  <2> HIDE DEF S
  <2> QED BY <1>2, <1>3, Induction DEF S
<1>5. f = Reads(f, number)
  BY <1>4
<1>6. Decimal(number) = f[number]
  BY Zenon DEF Decimal
<1> HIDE DEF f
<1> DEFINE T == {n \in Nat : n <= number => \A k \in 0..n : f[k] \in Seq(Characters)}
<1>7. \A d \in 0..9 : Digits[d + 1] \in Characters
  <2>1. /\ Digits[1] = "0"
        /\ Digits[2] = "1"
        /\ Digits[3] = "2"
        /\ Digits[4] = "3"
        /\ Digits[5] = "4"
        /\ Digits[6] = "5"
        /\ Digits[7] = "6"
        /\ Digits[8] = "7"
        /\ Digits[9] = "8"
        /\ Digits[10] = "9"
    BY DEF Digits
  <2>2. ASSUME NEW d \in 0..9 PROVE d + 1 \in {1, 2, 3, 4, 5, 6, 7, 8, 9, 10}
    OBVIOUS
  <2>3. \A n \in {1, 2, 3, 4, 5, 6, 7, 8, 9, 10} : Digits[n] \in Characters
    BY <2>1, ValuesAssumption
  <2> QED BY <2>2, <2>3
<1>8. 0 \in T
  <2>1. f[0] = <<Digits[0 + 1]>>
    BY <1>5
  <2>2. <<Digits[0 + 1]>> \in Seq(Characters)
    BY <1>7
  <2>3. \A k \in 0..0 : k = 0
    OBVIOUS
  <2> QED BY <2>1, <2>2, <2>3
<1>9. ASSUME NEW n \in T PROVE n + 1 \in T
  <2>1. n \in Nat /\ n + 1 \in Nat
    OBVIOUS
  <2> SUFFICES ASSUME n + 1 <= number PROVE f[n + 1] \in Seq(Characters)
    BY <2>1
  <2>2. CASE n + 1 < 10
    <3>1. f[n + 1] = <<Digits[(n + 1) + 1]>>
      BY <1>5, <2>1, <2>2
    <3>2. n + 1 \in 0..9
      BY <2>1, <2>2
    <3> HIDE <2>1
    <3> QED BY <1>7, <3>1, <3>2
  <2>3. CASE ~(n + 1 < 10)
    <3>1. f[n + 1] = Append(f[(n + 1) \div 10], Digits[((n + 1) % 10) + 1])
      <4> DEFINE k == n + 1
      <4>1. k \in 0..number /\ ~(k < 10)
        BY <2>1, <2>3
      <4> HIDE DEF k
      <4>2. f[k] = Append(f[k \div 10], Digits[(k % 10) + 1])
        BY <1>5, <4>1
      <4> QED BY <4>2 DEF k
    <3>2. (n + 1) \div 10 \in 0..n
      BY <1>1, <2>1, <2>3
    <3>3. (n + 1) % 10 \in 0..9
      BY <2>1
    <3>4. f[(n + 1) \div 10] \in Seq(Characters)
      BY <2>1, <3>2
    <3>5. Digits[((n + 1) % 10) + 1] \in Characters
      BY <1>7, <3>3
    <3> QED BY <3>1, <3>4, <3>5
  <2> QED BY <2>2, <2>3
<1>10. T = Nat
  <2> HIDE DEF T
  <2> QED BY <1>8, <1>9, Induction DEF T
<1>11. f[number] \in Seq(Characters)
  BY <1>10
<1> QED BY <1>6, <1>11 DEF Texts

\* The datasets with a schema are datasets.
LEMMA WithSchemaObjects ==
  ASSUME NEW O, NEW objects \in Seq(O)
  PROVE  WithSchema(objects) \in Seq(O)
<1> DEFINE Reads(f, m) == [n \in 0..m |-> IF n = 0 THEN << >>
                                          ELSE IF HasSchema(objects[n]) THEN Append(f[n - 1], objects[n])
                                          ELSE f[n - 1]]
           S == {m \in Nat : \E f : f = Reads(f, m)}
           f == CHOOSE f : f = Reads(f, Len(objects))
<1>1. Len(objects) \in Nat
  BY LenProperties
<1>2. 0 \in S
  <2> DEFINE g == [n \in 0..0 |-> << >>]
  <2>1. g = Reads(g, 0)
    OBVIOUS
  <2> QED BY <2>1
<1>3. ASSUME NEW m \in S PROVE m + 1 \in S
  <2>1. m \in Nat /\ m + 1 \in Nat
    OBVIOUS
  <2>2. PICK h : h = Reads(h, m)
    OBVIOUS
  <2> DEFINE g == Reads(h, m + 1)
  <2>3. \A n \in 0..m : g[n] = h[n]
    <3> TAKE n \in 0..m
    <3>1. h[n] = Reads(h, m)[n]
      BY <2>2
    <3> QED BY <2>1, <3>1
  <2>4. \A n \in 0..(m + 1) : g[n] = Reads(g, m + 1)[n]
    <3> TAKE n \in 0..(m + 1)
    <3>1. n # 0 => n - 1 \in 0..m
      BY <2>1
    <3>2. n # 0 => g[n - 1] = h[n - 1]
      BY <2>3, <3>1
    <3> HIDE <2>3
    <3> QED BY <3>2
  <2>5. g = Reads(g, m + 1)
    BY <2>4
  <2> HIDE DEF g
  <2> QED BY <2>1, <2>5
<1>4. S = Nat
  <2> HIDE DEF S
  <2> QED BY <1>2, <1>3, Induction DEF S
<1>5. f = Reads(f, Len(objects))
  BY <1>1, <1>4
<1>6. WithSchema(objects) = f[Len(objects)]
  BY Zenon DEF WithSchema
<1> HIDE DEF f
<1> DEFINE T == {n \in Nat : n <= Len(objects) => f[n] \in Seq(O)}
<1>7. 0 \in T
  <2>1. f[0] = << >>
    BY <1>1, <1>5
  <2>2. << >> \in Seq(O)
    OBVIOUS
  <2> QED BY <2>1, <2>2
<1>8. ASSUME NEW n \in T PROVE n + 1 \in T
  <2>1. n \in Nat /\ n + 1 \in Nat
    OBVIOUS
  <2> SUFFICES ASSUME n + 1 <= Len(objects) PROVE f[n + 1] \in Seq(O)
    BY <2>1
  <2>2. f[n + 1] = IF HasSchema(objects[n + 1]) THEN Append(f[n], objects[n + 1]) ELSE f[n]
    <3>1. n + 1 \in 0..Len(objects) /\ n + 1 # 0 /\ (n + 1) - 1 = n
      BY <1>1, <2>1
    <3> QED BY <1>5, <3>1
  <2>3. f[n] \in Seq(O)
    BY <1>1, <2>1
  <2>4. objects[n + 1] \in O
    BY <1>1, <2>1
  <2> QED BY <2>2, <2>3, <2>4
<1>9. T = Nat
  <2> HIDE DEF T
  <2> QED BY <1>7, <1>8, Induction DEF T
<1> QED BY <1>1, <1>6, <1>9

-----------------------------------------------------------------------------
(***************************************************************************)
(* What a fetch writes of a value.                                         *)
(***************************************************************************)
LEMMA SignedTexts ==
  ASSUME NEW n \in Int
  PROVE  Signed(n) \in Texts
<1>1. CASE n < 0
  <2>1. Decimal(-n) \in Seq(Characters)
    BY <1>1, DecimalTexts DEF Texts
  <2>2. <<"-">> \in Seq(Characters)
    <3>1. "-" \in Characters
      BY ValuesAssumption
    <3> QED BY <3>1
  <2>3. <<"-">> \o Decimal(-n) \in Seq(Characters)
    BY <2>1, <2>2, ConcatProperties
  <2> QED BY <1>1, <2>3 DEF Signed, Texts
<1>2. CASE ~(n < 0)
  BY <1>2, DecimalTexts DEF Signed
<1> QED BY <1>1, <1>2

LEMMA ConstantSeq ==
  ASSUME NEW S, NEW x \in S, NEW m \in Nat
  PROVE  [k \in 1..m |-> x] \in Seq(S)
OBVIOUS

LEMMA BlankTexts ==
  ASSUME NEW n \in Int
  PROVE  Blanks(n) \in Texts
<1> DEFINE m == IF n < 0 THEN 0 ELSE n
<1>1. m \in Nat /\ 1..n = 1..m
  OBVIOUS
<1>2. " " \in Characters
  BY ValuesAssumption
<1> HIDE DEF m
<1>3. [k \in 1..m |-> " "] \in Seq(Characters)
  BY <1>1, <1>2, ConstantSeq
<1> QED BY <1>1, <1>3 DEF Blanks, Texts

LEMMA WStringTexts ==
  ASSUME NEW value \in JsonValues, NEW b, b.length \in Nat
  PROVE  ToWString(value, b) \in Texts
<1> DEFINE numeral == Signed(value.number)
           blanks == Blanks(b.length - 1 - Len(numeral))
<1>1. value.text \in Texts /\ value.number \in Int
  BY DEF JsonValues
<1>2. numeral \in Texts
  BY <1>1, SignedTexts
<1>3. Len(numeral) \in Nat
  BY <1>2, LenProperties DEF Texts
<1>4. b.length - 1 - Len(numeral) \in Int
  BY <1>3
<1>5. blanks \in Texts
  BY <1>4, BlankTexts
<1>6. blanks \o numeral \in Texts
  BY <1>2, <1>5, ConcatProperties DEF Texts
<1>7. << >> \in Texts
  BY DEF Texts
<1> HIDE DEF numeral, blanks
<1> QED BY <1>1, <1>2, <1>6, <1>7 DEF ToWString, numeral, blanks

LEMMA CutText ==
  ASSUME NEW text \in Texts, NEW n \in 0..Len(text)
  PROVE  Len(SubSeq(text, 1, n)) = n /\ IsPrefix(SubSeq(text, 1, n), text)
<1>1. 1 \in Int /\ n \in Int /\ \A k \in 1..n : text[k] \in Characters
  BY LenProperties DEF Texts
<1>2. SubSeq(text, 1, n) \in Seq(Characters) /\ Len(SubSeq(text, 1, n)) = n
  BY <1>1, SubSeqProperties
<1> QED BY <1>1, <1>2 DEF IsPrefix

\* The buffer of the application and its indicator.
IsCell(cell) ==
  /\ cell = [data |-> cell.data, ind |-> cell.ind]
  /\ cell.ind \in Int /\ cell.ind >= SQL_NULL_DATA
  /\ cell.data # Refused

LEMMA VarcharFits ==
  ASSUME NEW text \in Texts, NEW b, b.length \in Nat, b.length >= 1
  PROVE  /\ IsCell(FetchVarchar(text, b))
         /\ Fits(FetchVarchar(text, b), Utf8(text), 1, b.length)
<1> DEFINE bytes == Utf8(text)
           size == Least(Len(bytes), b.length - 1)
           cut == SubSeq(bytes, 1, size)
           cell == [data |-> Data(cut, 0), ind |-> size]
<1>1. bytes \in Texts /\ Len(bytes) \in Nat
  BY Utf8Texts, LenProperties DEF Texts
<1>2. size \in 0..Len(bytes) /\ size <= b.length - 1 /\ (size < Len(bytes) => size = b.length - 1)
  <2> HIDE DEF bytes
  <2> QED BY <1>1 DEF Least
<1>3. FetchVarchar(text, b) = cell
  BY DEF FetchVarchar
<1>4. Len(cut) = size /\ IsPrefix(cut, bytes)
  <2> HIDE DEF bytes, size
  <2> QED BY <1>1, <1>2, CutText
<1> HIDE DEF bytes, size, cut
<1>5. cell.data.text = cut /\ cell.ind = size /\ cell.data.number = 0
  BY DEF Data
<1>6. Data(cut, 0) # Refused
  BY DEF Data, Refused
<1>7. size \in Int /\ size >= -1 /\ size * 1 = size /\ (size + 1) * 1 <= b.length
      /\ (size < Len(bytes) => (size + 2) * 1 > b.length)
  BY <1>1, <1>2
<1>8. IsCell(cell)
  BY <1>6, <1>7 DEF IsCell, SQL_NULL_DATA
<1>9. Fits(cell, bytes, 1, b.length)
  BY <1>4, <1>5, <1>7 DEF Fits
<1> HIDE DEF cell
<1> QED BY <1>3, <1>8, <1>9 DEF bytes

LEMMA WVarcharFits ==
  ASSUME NEW text \in Texts, NEW b, b.length \in Nat, b.length >= WideChar
  PROVE  /\ IsCell(FetchWVarchar(text, b))
         /\ Fits(FetchWVarchar(text, b), text, WideChar, b.length)
<1> DEFINE room == b.length \div 2
           size == Least(Len(text), room - 1)
           cut == SubSeq(text, 1, size)
           cell == [data |-> Data(cut, 0), ind |-> size * 2]
<1>1. Len(text) \in Nat
  BY LenProperties DEF Texts
<1>2. room \in Nat /\ room >= 1 /\ room * 2 <= b.length /\ (room + 1) * 2 > b.length
  BY DEF WideChar
<1> HIDE DEF room
<1>3. size \in 0..Len(text) /\ size <= room - 1 /\ (size < Len(text) => size = room - 1)
  BY <1>1, <1>2 DEF Least
<1>4. FetchWVarchar(text, b) = cell
  BY DEF FetchWVarchar, WideChar, room
<1>5. Len(cut) = size /\ IsPrefix(cut, text)
  <2> HIDE DEF size
  <2> QED BY <1>3, CutText
<1> HIDE DEF size, cut
<1>6. cell.data.text = cut /\ cell.ind = size * 2 /\ cell.data.number = 0
  BY DEF Data
<1>7. Data(cut, 0) # Refused
  BY DEF Data, Refused
<1>8. size \in Int /\ size * 2 \in Int /\ size * 2 >= -1 /\ (size + 1) * 2 <= b.length
      /\ (size < Len(text) => (size + 2) * 2 > b.length)
  BY <1>1, <1>2, <1>3
<1>9. IsCell(cell)
  BY <1>7, <1>8 DEF IsCell, SQL_NULL_DATA
<1>10. Fits(cell, text, WideChar, b.length)
  BY <1>5, <1>6, <1>8 DEF Fits, WideChar
<1> HIDE DEF cell
<1> QED BY <1>4, <1>9, <1>10

-----------------------------------------------------------------------------
(***************************************************************************)
(* The rows of the readers.                                                *)
(***************************************************************************)
IsReader(reader) ==
  /\ reader = [kind |-> reader.kind, table |-> reader.table, rows |-> reader.rows,
               split |-> reader.split, index |-> reader.index]
  /\ reader.table \in Texts
  /\ reader.index \in 0..(Len(reader.rows) + 1)
  /\ \/ reader.kind \in {"none", "nothing", "failed"} /\ reader.rows = << >>
     \/ reader.kind = "streams" /\ reader.rows \in Seq(Streams) /\ reader.index = 0
     \/ reader.kind = "tables" /\ reader.rows \in Seq(Streams \cup Datasets)
     \/ reader.kind = "columns" /\ reader.rows \in Seq(Fields)
     \/ reader.kind = "no schema" /\ reader.rows = NoSchemaFields
     \/ reader.kind = "types" /\ reader.rows = <<"string">>
     \/ reader.kind = "query" /\ reader.rows = QueryRows
     \/ reader.kind = "select 1" /\ reader.rows = <<1>>

\* The values of the catalog.
CatalogValue(value) ==
  value = Null \/ (\E t \in Texts : value = Text(t)) \/ (\E n : value = Integer(n))

LEMMA CatalogValues ==
  /\ CatalogValue(Null)
  /\ \A t \in Texts : CatalogValue(Text(t))
  /\ \A n : CatalogValue(Integer(n))
BY DEF CatalogValue

LEMMA SingletonSeq ==
  ASSUME NEW S, NEW x \in S
  PROVE  <<x>> \in Seq(S)
OBVIOUS

LEMMA Letters ==
  \A c \in {"stream_", "dataset_", "_", "t", "h", "b", "T", "Y", "N", "string", "length"} :
    c \in Characters /\ <<c>> \in Texts
<1> SUFFICES ASSUME NEW c \in {"stream_", "dataset_", "_", "t", "h", "b", "T", "Y", "N", "string", "length"}
             PROVE  c \in Characters /\ <<c>> \in Texts
  OBVIOUS
<1>1. c \in Characters
  BY CatalogAssumption
<1>2. <<c>> \in Seq(Characters)
  BY <1>1, SingletonSeq
<1> QED BY <1>1, <1>2 DEF Texts

LEMMA HiveNames ==
  ASSUME NEW kind \in {"stream_", "dataset_"}, NEW name \in Texts
  PROVE  /\ HiveName(kind, name) \in Texts
         /\ HiveName(kind, name)[1] = kind
<1> DEFINE rest == Underscored(name)
<1>1. <<kind>> \in Seq(Characters) /\ Len(<<kind>>) = 1 /\ <<kind>>[1] = kind
  BY Letters DEF Texts
<1>2. rest \in Seq(Characters) /\ Len(rest) \in Nat
  <2>1. name \in [1..Len(name) -> Characters] /\ Len(name) \in Nat
    BY LenProperties DEF Texts
  <2>2. "_" \in Characters
    BY Letters
  <2>3. rest \in [1..Len(name) -> Characters]
    BY <2>1, <2>2 DEF Underscored
  <2> HIDE DEF rest
  <2>4. rest \in Seq(Characters)
    BY <2>1, <2>3
  <2> QED BY <2>4, LenProperties
<1> HIDE DEF rest
<1>3. HiveName(kind, name) = <<kind>> \o rest
  BY DEF HiveName, rest
<1>4. <<kind>> \o rest \in Seq(Characters) /\ (<<kind>> \o rest)[1] = kind
  BY <1>1, <1>2, ConcatProperties
<1> QED BY <1>3, <1>4 DEF Texts

LEMMA TablesRowValues ==
  ASSUME NEW reader, NEW i \in 1..Len(reader.rows), reader.rows \in Seq(Streams \cup Datasets)
  PROVE  DOMAIN TablesRow(reader, i) = 1..5 /\ \A c \in 1..5 : CatalogValue(TablesRow(reader, i)[c])
<1>1. ObjectName(reader, i) \in Texts
  <2>1. reader.rows[i] \in Streams \cup Datasets
    OBVIOUS
  <2> QED BY <2>1, CatalogAssumption DEF ObjectName
<1>2. TableName(reader, i) \in Texts
  BY <1>1, HiveNames DEF TableName, KindOf
<1>3. <<"T">> \in Texts
  BY Letters
<1> QED BY <1>2, <1>3, CatalogValues DEF TablesRow

LEMMA ColumnsRowValues ==
  ASSUME NEW reader, NEW i \in 1..Len(reader.rows), reader.rows \in Seq(Fields), reader.table \in Texts
  PROVE  DOMAIN ColumnsRow(reader, i) = 1..18 /\ \A c \in 1..18 : CatalogValue(ColumnsRow(reader, i)[c])
<1> DEFINE field == reader.rows[i]
<1>1. field \in Fields
  OBVIOUS
<1>2. field.name \in Texts /\ <<field.type>> \in Texts
  BY <1>1 DEF Fields, Texts
<1>3. \A yes : CatalogValue(Flag(yes)) /\ CatalogValue(YesNo(yes))
  BY CatalogValues, Letters DEF Flag, YesNo
<1> QED BY <1>2, <1>3, CatalogValues DEF ColumnsRow

LEMMA NoSchemaRowValues ==
  ASSUME NEW reader, NEW i \in 1..3, reader.table \in Texts
  PROVE  /\ DOMAIN NoSchemaColumnsRow(reader, i) = 1..18
         /\ \A c \in 1..18 : CatalogValue(NoSchemaColumnsRow(reader, i)[c])
<1>1. NoSchemaFields[i] \in Texts
  <2>1. i = 1 \/ i = 2 \/ i = 3
    OBVIOUS
  <2>2. NoSchemaFields[1] = <<"t">> /\ NoSchemaFields[2] = <<"h">> /\ NoSchemaFields[3] = <<"b">>
    BY DEF NoSchemaFields
  <2> QED BY <2>1, <2>2, Letters
<1>2. \A yes : CatalogValue(Flag(yes)) /\ CatalogValue(YesNo(yes))
  BY CatalogValues, Letters DEF Flag, YesNo
<1>3. <<"string">> \in Texts
  BY Letters
<1> QED BY <1>1, <1>2, <1>3, CatalogValues DEF NoSchemaColumnsRow

LEMMA TypesRowValues ==
  DOMAIN TypesRow = 1..19 /\ \A c \in 1..19 : CatalogValue(TypesRow[c])
<1>1. <<"string">> \in Texts /\ <<"length">> \in Texts
  BY Letters
<1> QED BY <1>1, CatalogValues DEF TypesRow

LEMMA RowValues ==
  ASSUME NEW reader, IsReader(reader), reader.index \in 1..Len(reader.rows),
         NEW b, Touched(reader, b)
  PROVE  IF IsQuery(reader) THEN ValueOf(reader, b) \in JsonValues
         ELSE CatalogValue(ValueOf(reader, b))
<1> DEFINE c == b.column
           i == reader.index
<1>1. c \in DOMAIN Row(reader, i) /\ ValueOf(reader, b) = Row(reader, i)[c]
  BY DEF Touched, ValueOf
<1>2. Len(reader.rows) # 0
  OBVIOUS
<1>3. reader.rows # << >>
  BY <1>2
<1>4. CASE reader.kind = "tables"
  <2>1. Row(reader, i) = TablesRow(reader, i) /\ ~IsQuery(reader)
    BY <1>4 DEF Row, IsQuery
  <2>2. reader.rows \in Seq(Streams \cup Datasets)
    BY <1>4 DEF IsReader
  <2> HIDE DEF c, i
  <2> QED BY <1>1, <2>1, <2>2, TablesRowValues DEF i
<1>5. CASE reader.kind = "columns"
  <2>1. Row(reader, i) = ColumnsRow(reader, i) /\ ~IsQuery(reader)
    BY <1>5 DEF Row, IsQuery
  <2>2. reader.rows \in Seq(Fields) /\ reader.table \in Texts
    BY <1>5 DEF IsReader
  <2> HIDE DEF c, i
  <2> QED BY <1>1, <2>1, <2>2, ColumnsRowValues DEF i
<1>6. CASE reader.kind = "no schema"
  <2>1. Row(reader, i) = NoSchemaColumnsRow(reader, i) /\ ~IsQuery(reader)
    BY <1>6 DEF Row, IsQuery
  <2>2. reader.rows = NoSchemaFields /\ reader.table \in Texts
    BY <1>6 DEF IsReader
  <2>3. i \in 1..3
    <3>1. Len(NoSchemaFields) = 3
      BY DEF NoSchemaFields
    <3> QED BY <2>2, <3>1
  <2> HIDE DEF c, i
  <2> QED BY <1>1, <2>1, <2>2, <2>3, NoSchemaRowValues
<1>7. CASE reader.kind = "types"
  <2>1. Row(reader, i) = TypesRow /\ ~IsQuery(reader)
    BY <1>7 DEF Row, IsQuery
  <2> HIDE DEF c, i
  <2> QED BY <1>1, <2>1, TypesRowValues
<1>8. CASE reader.kind = "query"
  <2>1. Row(reader, i) = reader.rows[i] /\ IsQuery(reader)
    BY <1>8 DEF Row, IsQuery
  <2>2. reader.rows \in Seq(Seq(JsonValues))
    BY <1>8, QueryAssumption DEF IsReader
  <2>3. reader.rows[i] \in Seq(JsonValues)
    BY <2>2
  <2> HIDE DEF c, i
  <2> QED BY <1>1, <2>1, <2>3
<1>9. CASE reader.kind = "select 1"
  <2>1. Row(reader, i) = [k \in Columns |-> Integer(1)] /\ IsQuery(reader)
    BY <1>9 DEF Row, IsQuery
  <2>2. Integer(1) \in JsonValues
    <3>1. Integer(1) = [kind |-> "integer", text |-> << >>, number |-> 1, parts |-> 0, ms |-> 0]
      BY DEF Integer, Value
    <3>2. "integer" \in Kinds
      BY DEF Kinds
    <3>3. << >> \in Texts
      BY DEF Texts
    <3> QED BY <3>1, <3>2, <3>3 DEF JsonValues
  <2> HIDE DEF c, i
  <2> QED BY <1>1, <2>1, <2>2
<1>10. reader.kind \notin {"none", "nothing", "failed", "streams"}
  <2>1. ~(reader.kind \in {"none", "nothing", "failed"} /\ reader.rows = << >>)
    BY <1>3
  <2>2. reader.index # 0
    OBVIOUS
  <2> QED BY <2>1, <2>2 DEF IsReader
<1>11. reader.kind \in {"none", "nothing", "failed", "streams", "tables", "columns", "no schema",
                       "types", "query", "select 1"}
  BY DEF IsReader
<1> QED BY <1>4, <1>5, <1>6, <1>7, <1>8, <1>9, <1>10, <1>11

-----------------------------------------------------------------------------
(***************************************************************************)
(* A fetch shows the value, whatever the reader, the value and the buffer. *)
(***************************************************************************)
LEMMA FixedCell ==
  ASSUME NEW cell, IsCell(cell), NEW data, data # Refused
  PROVE  /\ IsCell(FetchFixed(data, cell))
         /\ FetchFixed(data, cell).data = data /\ FetchFixed(data, cell).ind = cell.ind
<1>1. FetchFixed(data, cell) = [data |-> data, ind |-> cell.ind]
  BY DEF FetchFixed, IsCell
<1> QED BY <1>1 DEF IsCell

LEMMA NullCell ==
  ASSUME NEW cell, IsCell(cell)
  PROVE  IsCell(FetchNull(cell)) /\ FetchNull(cell).ind = SQL_NULL_DATA
<1>1. FetchNull(cell) = [data |-> cell.data, ind |-> SQL_NULL_DATA]
  BY DEF FetchNull, IsCell
<1> QED BY <1>1 DEF IsCell, SQL_NULL_DATA

LEMMA TextFields ==
  /\ \A t : Text(t).kind = "string" /\ Text(t).text = t /\ Text(t).number = 0
  /\ \A n : Integer(n).kind = "integer" /\ Integer(n).text = << >> /\ Integer(n).number = n
BY DEF Text, Integer, Value

LEMMA CellWritten ==
  ASSUME NEW reader, IsReader(reader), reader.index \in 1..Len(reader.rows),
         NEW b \in Bindings, Touched(reader, b), ~Throws(reader, b), NEW cell, IsCell(cell)
  PROVE  /\ IsCell(GetColumnValue(reader, b, cell))
         /\ \A reset : (reset => cell.ind = 0) => Shows(reader, reset, GetColumnValue(reader, b, cell), b)
<1> DEFINE value == ValueOf(reader, b)
           new == GetColumnValue(reader, b, cell)
<1>1. /\ b.length \in Nat /\ b.length >= 1
      /\ b.type = "WCHAR" => b.length >= WideChar
  <2>1. b.length \in Nat /\ b.length >= (IF b.type = "WCHAR" THEN WideChar ELSE 1)
    BY CatalogAssumption
  <2> QED BY ONLY <2>1 DEF WideChar
<1>2. IF IsQuery(reader) THEN value \in JsonValues ELSE CatalogValue(value)
  BY RowValues
<1>3. CASE value = Null
  <2>1. new = FetchNull(cell)
    BY <1>3 DEF GetColumnValue
  <2>2. IsCell(new) /\ new.ind = SQL_NULL_DATA
    BY <2>1, NullCell
  <2> HIDE DEF new
  <2>3. \A reset : Shows(reader, reset, new, b)
    BY <1>3, <2>2 DEF Shows
  <2> QED BY <2>2, <2>3 DEF new
<1>4. CASE value # Null /\ IsQuery(reader)
  <2> DEFINE data == Convert(value, b)
  <2>1. reader.kind # "types"
    BY <1>4 DEF IsQuery
  <2>2. new = Fetched(data, b, cell)
    BY <1>4, <2>1 DEF GetColumnValue
  <2>3. data # Refused
    BY <1>4 DEF Throws
  <2>4. CASE b.type \in CharTypes
    <3>1. data = Data(ToWString(value, b), 0)
      BY <2>4 DEF Convert, CharTypes
    <3>2. data.text \in Texts
      BY <1>1, <1>2, <1>4, <3>1, WStringTexts DEF Data
    <3>3. CASE b.type = "CHAR"
      <4>1. new = FetchVarchar(data.text, b)
        BY <2>2, <3>3 DEF Fetched
      <4>2. IsCell(new) /\ Fits(new, Utf8(data.text), 1, b.length)
        BY <1>1, <3>2, <4>1, VarcharFits
      <4> HIDE DEF new
      <4>3. \A reset : Shows(reader, reset, new, b)
        BY <1>4, <2>1, <3>3, <4>2 DEF Shows, CharTypes
      <4> QED BY <4>2, <4>3 DEF new
    <3>4. CASE b.type = "WCHAR"
      <4>1. new = FetchWVarchar(data.text, b)
        BY <2>2, <3>4 DEF Fetched
      <4>2. IsCell(new) /\ Fits(new, data.text, WideChar, b.length)
        BY <1>1, <3>2, <3>4, <4>1, WVarcharFits
      <4> HIDE DEF new
      <4>3. \A reset : Shows(reader, reset, new, b)
        BY <1>4, <2>1, <3>4, <4>2 DEF Shows, CharTypes
      <4> QED BY <4>2, <4>3 DEF new
    <3> QED BY <2>4, <3>3, <3>4 DEF CharTypes
  <2>5. CASE b.type \notin CharTypes
    <3>1. new = FetchFixed(data, cell)
      BY <2>2, <2>5 DEF Fetched, CharTypes
    <3>2. IsCell(new) /\ new.data = data /\ new.ind = cell.ind
      BY <2>3, <3>1, FixedCell
    <3> HIDE DEF new
    <3>3. \A reset : (reset => cell.ind = 0) => Shows(reader, reset, new, b)
      BY <1>4, <2>5, <3>2 DEF Shows, SQL_NULL_DATA
    <3> QED BY <3>2, <3>3 DEF new
  <2> QED BY <2>4, <2>5
<1>5. CASE value # Null /\ ~IsQuery(reader)
  <2>1. CASE \E t \in Texts : value = Text(t)
    <3>1. value.text \in Texts /\ value.kind = "string"
      BY <2>1, TextFields
    <3>2. Data(value.text, value.number).text = value.text
      BY DEF Data
    <3>3. CASE b.type = "WCHAR" /\ reader.kind # "types"
      <4>1. new = FetchWVarchar(value.text, b)
        BY <1>5, <3>1, <3>3 DEF GetColumnValue, FetchedAsIs
      <4>2. IsCell(new) /\ Fits(new, value.text, WideChar, b.length)
        BY <1>1, <3>1, <3>3, <4>1, WVarcharFits
      <4> HIDE DEF new
      <4>3. \A reset : Shows(reader, reset, new, b)
        BY <1>5, <3>1, <3>2, <3>3, <4>2 DEF Shows
      <4> QED BY <4>2, <4>3 DEF new
    <3>4. CASE ~(b.type = "WCHAR" /\ reader.kind # "types")
      <4>1. new = FetchVarchar(value.text, b)
        BY <1>5, <3>1, <3>4 DEF GetColumnValue, FetchedAsIs
      <4>2. IsCell(new) /\ Fits(new, Utf8(value.text), 1, b.length)
        BY <1>1, <3>1, <4>1, VarcharFits
      <4> HIDE DEF new
      <4>3. \A reset : Shows(reader, reset, new, b)
        BY <1>5, <3>1, <3>2, <3>4, <4>2 DEF Shows
      <4> QED BY <4>2, <4>3 DEF new
    <3> QED BY <3>3, <3>4
  <2>2. CASE \E n : value = Integer(n)
    <3> DEFINE data == Data(<< >>, value.number)
    <3>1. value.kind = "integer" /\ value.text = << >>
      BY <2>2, TextFields
    <3>2. new = FetchFixed(data, cell)
      BY <1>5, <3>1 DEF GetColumnValue, FetchedAsIs
    <3>3. data # Refused
      BY DEF Data, Refused
    <3> HIDE DEF data
    <3>4. IsCell(new) /\ new.data = data /\ new.ind = cell.ind
      BY <3>2, <3>3, FixedCell
    <3>5. new.data = Data(value.text, value.number)
      BY <3>1, <3>4 DEF data
    <3> HIDE DEF new
    <3>6. \A reset : (reset => cell.ind = 0) => Shows(reader, reset, new, b)
      BY <1>5, <3>1, <3>4, <3>5 DEF Shows, SQL_NULL_DATA
    <3> QED BY <3>4, <3>6 DEF new
  <2> QED BY <1>2, <1>5, <2>1, <2>2 DEF CatalogValue
<1> QED BY <1>3, <1>4, <1>5

-----------------------------------------------------------------------------
(***************************************************************************)
(* A binding to the type that the driver describes is never refused.       *)
(***************************************************************************)
CTypeOf(type) ==
  CASE type = "boolean" -> "BIT" [] type = "binary" -> "BINARY" [] type = "double" -> "DOUBLE"
    [] type = "float" -> "FLOAT" [] type \in {"int", "bigint"} -> "SBIGINT"
    [] type \in {"string", "map"} -> "CHAR" [] type = "timestamp" -> "TIMESTAMP" [] type = "date" -> "DATE"

LEMMA DescribedTypes ==
  ASSUME NEW type \in DOMAIN DataTypes
  PROVE  /\ "SQL_DESC_TYPE" \in DOMAIN DataTypes[type]
         /\ DefaultCType[DataTypes[type]["SQL_DESC_TYPE"]] = CTypeOf(type)
         /\ type \in {"boolean", "binary", "double", "float", "int", "bigint", "string", "map",
                      "timestamp", "date"}
<1>1. type \in {"boolean", "binary", "double", "float", "int", "bigint", "string", "map",
                "timestamp", "date"}
  BY DEF DataTypes
<1>2. CASE type = "boolean"
  BY <1>2 DEF DataTypes, DataType, DefaultCType, CTypeOf
<1>3. CASE type = "binary"
  BY <1>3 DEF DataTypes, DataType, DefaultCType, CTypeOf
<1>4. CASE type = "double"
  BY <1>4 DEF DataTypes, DataType, DefaultCType, CTypeOf
<1>5. CASE type = "float"
  BY <1>5 DEF DataTypes, DataType, DefaultCType, CTypeOf
<1>6. CASE type = "int"
  BY <1>6 DEF DataTypes, DataType, DefaultCType, CTypeOf
<1>7. CASE type = "bigint"
  BY <1>7 DEF DataTypes, DataType, DefaultCType, CTypeOf
<1>8. CASE type = "string"
  BY <1>8 DEF DataTypes, DataType, DefaultCType, CTypeOf
<1>9. CASE type = "map"
  BY <1>9 DEF DataTypes, DataType, DefaultCType, CTypeOf
<1>10. CASE type = "timestamp"
  BY <1>10 DEF DataTypes, DataType, DefaultCType, CTypeOf
<1>11. CASE type = "date"
  BY <1>11 DEF DataTypes, DataType, DefaultCType, CTypeOf
<1> QED BY <1>1, <1>2, <1>3, <1>4, <1>5, <1>6, <1>7, <1>8, <1>9, <1>10, <1>11

LEMMA NotRefused ==
  /\ \A n : Data(<< >>, n) # Refused
  /\ \A t : Data(t, 0) # Refused
  /\ \A t : \A n \in Nat : Data(t, n) # Refused
<1>1. \A n : Data(<< >>, n).text # Refused.text
  BY DEF Data, Refused
<1>2. \A t : \A n \in Nat : Data(t, n).number # Refused.number
  BY DEF Data, Refused
<1> QED BY <1>1, <1>2

\* A value of a column is converted to the C type of the column's type.
LEMMA Converted ==
  ASSUME NEW value \in JsonValues, value # Null, NEW type \in DOMAIN DataTypes,
         Conforms(value, type), NEW b, b.type = CTypeOf(type), b.type \notin {"BINARY", "FLOAT"}
  PROVE  Convert(value, b) # Refused
<1>1. value.ms \in Nat
  BY DEF JsonValues
<1>2. IntToFrac(value.ms) \in Nat
  BY <1>1 DEF IntToFrac
<1>3. CASE type = "boolean"
  <2>1. b.type = "BIT" /\ value.kind = "boolean"
    BY <1>3 DEF CTypeOf, Conforms
  <2>2. Convert(value, b) = Data(<< >>, value.number)
    BY <2>1 DEF Convert, CharTypes
  <2> QED BY <2>2, NotRefused
<1>4. CASE type \in {"double", "float"}
  <2>1. b.type = "DOUBLE" /\ value.kind \in Numeric
    BY <1>4 DEF CTypeOf, Conforms
  <2>2. Convert(value, b) = Data(<< >>, value.number)
    BY <2>1 DEF Convert, CharTypes
  <2> QED BY <2>2, NotRefused
<1>5. CASE type \in {"int", "bigint"}
  <2>1. b.type = "SBIGINT" /\ value.kind \in Numeric
    BY <1>5 DEF CTypeOf, Conforms
  <2>2. Convert(value, b) = Data(<< >>, value.number)
    BY <2>1 DEF Convert, CharTypes, Numeric
  <2> QED BY <2>2, NotRefused
<1>6. CASE type \in {"string", "map"}
  <2>1. b.type = "CHAR"
    BY <1>6 DEF CTypeOf
  <2>2. Convert(value, b) = Data(ToWString(value, b), 0)
    BY <2>1 DEF Convert, CharTypes
  <2> QED BY <2>2, NotRefused
<1>7. CASE type = "timestamp"
  <2>1. b.type = "TIMESTAMP" /\ value.kind = "string" /\ value.parts \in {3, 7}
    BY <1>7 DEF CTypeOf, Conforms
  <2>2. Convert(value, b) = Data(value.text, IntToFrac(value.ms))
    BY <2>1 DEF Convert, CharTypes
  <2> QED BY <1>2, <2>2, NotRefused
<1>8. CASE type = "date"
  <2>1. b.type = "DATE" /\ value.kind = "string" /\ value.parts >= 3
    BY <1>8 DEF CTypeOf, Conforms
  <2>2. Convert(value, b) = Data(SubSeq(value.text, 1, Least(3, Len(value.text))), 0)
    BY <2>1 DEF Convert, CharTypes
  <2> QED BY <2>2, NotRefused
<1>9. type # "binary"
  BY DEF CTypeOf
<1> QED BY <1>3, <1>4, <1>5, <1>6, <1>7, <1>8, <1>9, DescribedTypes

LEMMA DescribedFetched ==
  ASSUME NEW reader, IsReader(reader), reader.index \in 1..Len(reader.rows),
         NEW b \in Bindings, Described(reader, b)
  PROVE  ~Throws(reader, b)
<1> SUFFICES ASSUME IsQuery(reader) PROVE ~Throws(reader, b)
  BY DEF Throws
<1> DEFINE column == b.column
           type == ColumnInfo(reader, column)
           value == ValueOf(reader, b)
<1>1. [reader EXCEPT !.index = 0].kind = reader.kind /\ [reader EXCEPT !.index = 0].index = 0
  BY DEF IsReader
<1>2. column \in 1..NumResultCols([reader EXCEPT !.index = 0])
  BY DEF Described
<1>3. /\ b.type \notin {"BINARY", "FLOAT"}
      /\ ColAttribute(reader, column, "SQL_DESC_TYPE") \in DOMAIN DefaultCType
      /\ b.type = DefaultCType[ColAttribute(reader, column, "SQL_DESC_TYPE")]
  BY DEF Described, DescribeCol
<1>4. type \in DOMAIN DataTypes /\ b.type = CTypeOf(type)
  <2>1. Undefined \notin DOMAIN DefaultCType /\ Error \notin DOMAIN DefaultCType
    BY DEF DefaultCType, Undefined, Error
  <2> HIDE DEF type
  <2>2. Undefined \notin DOMAIN DataTypes
    BY DEF Undefined, DataTypes
  <2>3. CASE type = Undefined
    <3>1. ColAttribute(reader, column, "SQL_DESC_TYPE") = Undefined
      BY <2>3, <2>2 DEF ColAttribute, type
    <3> QED BY <1>3, <2>1, <3>1
  <2>4. CASE type # Undefined /\ type \notin DOMAIN DataTypes
    <3>1. ColAttribute(reader, column, "SQL_DESC_TYPE") = Error
      BY <2>4 DEF ColAttribute, type
    <3> QED BY <1>3, <2>1, <3>1
  <2>5. type # Undefined /\ type \in DOMAIN DataTypes
    BY <2>3, <2>2, <2>4
  <2>6. "SQL_DESC_TYPE" \in DOMAIN DataTypes[type]
    BY <2>5, DescribedTypes
  <2>7. ColAttribute(reader, column, "SQL_DESC_TYPE") = DataTypes[type]["SQL_DESC_TYPE"]
    BY <2>5, <2>6 DEF ColAttribute, type
  <2> QED BY <1>3, <2>5, <2>7, DescribedTypes
<1>5. Touched(reader, b) /\ Conforms(value, type)
  <2>1. CASE reader.kind = "query"
    <3> DEFINE row == QueryRows[reader.index]
    <3>1. reader.rows = QueryRows /\ reader.index \in 1..Len(QueryRows)
      BY <2>1 DEF IsReader
    <3>2. reader.index \in DOMAIN QueryRows /\ row \in Seq(JsonValues)
      BY <3>1, QueryAssumption
    <3>3. /\ Len(row) = Len(QueryColumns)
          /\ \A c \in DOMAIN row : Conforms(row[c], QueryColumns[c])
      BY <3>2, QueryAssumption
    <3>4. Row(reader, reader.index) = row /\ type = QueryColumns[column]
      BY <2>1, <3>1 DEF Row, ColumnInfo
    <3>5. NumResultCols([reader EXCEPT !.index = 0]) = Len(QueryColumns)
      <4> DEFINE start == [reader EXCEPT !.index = 0]
      <4>1. start.kind = "query" /\ ~(start.index > 0)
        BY <1>1, <2>1
      <4> HIDE DEF start
      <4> QED BY <4>1 DEF NumResultCols, start
    <3> HIDE DEF row, column, type
    <3>6. column \in DOMAIN row
      BY <1>2, <3>2, <3>3, <3>5, LenProperties
    <3>7. Conforms(row[column], type)
      BY <3>3, <3>4, <3>6
    <3> QED BY <3>4, <3>6, <3>7 DEF Touched, ValueOf, column
  <2>2. CASE reader.kind = "select 1"
    <3>1. Row(reader, reader.index) = [c \in Columns |-> Integer(1)] /\ type = "int"
      BY <2>2 DEF Row, ColumnInfo
    <3>2. column \in Columns
      BY DEF Columns
    <3>3. Conforms(Integer(1), "int")
      BY TextFields DEF Conforms, Numeric
    <3> QED BY <3>1, <3>2, <3>3 DEF Touched, ValueOf
  <2> QED BY <2>1, <2>2 DEF IsQuery
<1>6. value \in JsonValues
  BY <1>5, RowValues
<1> HIDE DEF type, value
<1>7. value # Null => Convert(value, b) # Refused
  BY <1>3, <1>4, <1>5, <1>6, Converted
<1> QED BY <1>5, <1>7 DEF Throws, value

-----------------------------------------------------------------------------
(***************************************************************************)
(* The inductive invariant.                                                *)
(***************************************************************************)
ObjectNames == {o.name : o \in Streams \cup Datasets}

ShownRows ==
  {row \in [hiveName : Texts, kind : {"stream_", "dataset_"}, name : ObjectNames] :
     row.hiveName = HiveName(row.kind, row.name)}

Types ==
  /\ streams \in Seq(Streams) /\ datasets \in Seq(Datasets)
  /\ IsReader(dataReader)
  /\ columnBindings \in Seq(Bindings)
  /\ \A c \in Columns : IsCell(cells[c])
  /\ Range(tableNames) \subseteq ObjectNames
  /\ shown \in Seq(ShownRows)
  /\ result \in {"none", "row", "noData", "error"}

BoundOnce ==
  \A i, j \in DOMAIN columnBindings : columnBindings[i].column = columnBindings[j].column => i = j

\* The map leads from a name to the last table that was shown by it.
Mapped(row) ==
  /\ row.hiveName \in DOMAIN tableNames
  /\ \E other \in Range(shown) :
       other.hiveName = row.hiveName /\ tableNames[row.hiveName] = other.name

ReadsSchema(row) ==
  Unambiguous(row) /\ dataReader.kind = "columns" /\ dataReader.table = row.hiveName =>
    dataReader.rows \in Schemas(row)

Resolved == \A row \in Range(shown) : Mapped(row) /\ ReadsSchema(row)

CatalogInv == Types /\ BoundOnce /\ Resolved /\ CellsDescribed

-----------------------------------------------------------------------------
LEMMA RangeElements ==
  ASSUME NEW S, NEW seq \in Seq(S)
  PROVE  Range(seq) \subseteq S /\ \A i \in DOMAIN seq : seq[i] \in S
BY DEF Range

LEMMA AppendRange ==
  ASSUME NEW S, NEW seq \in Seq(S), NEW e \in S
  PROVE  Append(seq, e) \in Seq(S) /\ Range(Append(seq, e)) = Range(seq) \cup {e}
<1>1. /\ Append(seq, e) \in Seq(S) /\ Len(Append(seq, e)) = Len(seq) + 1
      /\ \A i \in 1..Len(seq) : Append(seq, e)[i] = seq[i]
      /\ Append(seq, e)[Len(seq) + 1] = e
      /\ Len(seq) \in Nat
  BY AppendProperties, LenProperties
<1>2. DOMAIN Append(seq, e) = 1..(Len(seq) + 1) /\ DOMAIN seq = 1..Len(seq)
  BY <1>1, LenProperties
<1>3. 1..(Len(seq) + 1) = 1..Len(seq) \cup {Len(seq) + 1}
  BY <1>1
<1>4. \A x : x \in Range(Append(seq, e)) <=> x \in Range(seq) \cup {e}
  <2> DEFINE t == Append(seq, e)
  <2>1. DOMAIN t = 1..Len(seq) \cup {Len(seq) + 1}
    BY <1>2, <1>3
  <2> HIDE DEF t
  <2>2. Range(t) = {t[k] : k \in DOMAIN t}
    BY DEF Range
  <2>3. \A x : x \in Range(t) <=> (\E k \in 1..Len(seq) : t[k] = x) \/ t[Len(seq) + 1] = x
    BY <2>1, <2>2
  <2>4. \A x : x \in Range(seq) <=> \E k \in 1..Len(seq) : seq[k] = x
    BY <1>2 DEF Range
  <2> QED BY <1>1, <2>3, <2>4 DEF t
<1> QED BY <1>1, <1>4

LEMMA RemoveAtSeq ==
  ASSUME NEW S, NEW seq \in Seq(S), NEW i \in DOMAIN seq
  PROVE  RemoveAt(seq, i) \in Seq(S)
<1>1. i \in 1..Len(seq) /\ Len(seq) \in Nat /\ \A k \in 1..Len(seq) : seq[k] \in S
  BY LenProperties
<1>2. SubSeq(seq, 1, i - 1) \in Seq(S)
  BY <1>1, SubSeqProperties
<1>3. SubSeq(seq, i + 1, Len(seq)) \in Seq(S)
  BY <1>1, SubSeqProperties
<1> QED BY <1>2, <1>3, ConcatProperties DEF RemoveAt

LEMMA NoReaderIsReader == IsReader(NoReader)
<1>1. << >> \in Texts /\ Len(<< >>) = 0
  BY DEF Texts
<1> QED BY <1>1 DEF IsReader, NoReader

LEMMA NoDescription ==
  ASSUME result' \notin {"row", "error"}
  PROVE  CellsDescribed'
BY DEF CellsDescribed

LEMMA CatalogInit == Init => CatalogInv
<1> SUFFICES ASSUME Init PROVE CatalogInv
  OBVIOUS
<1>1. streams = << >> /\ datasets = << >> /\ tableNames = << >> /\ dataReader = NoReader
      /\ columnBindings = << >> /\ cells = [c \in Columns |-> NoCell] /\ result = "none" /\ shown = << >>
  BY DEF Init
<1>2. IsCell(NoCell)
  BY NotRefused DEF IsCell, NoCell, SQL_NULL_DATA
<1>3. Range(<< >>) = {}
  BY DEF Range
<1>4. Types
  BY <1>1, <1>2, <1>3, NoReaderIsReader DEF Types
<1>5. BoundOnce /\ Resolved
  BY <1>1, <1>3 DEF BoundOnce, Resolved
<1>6. CellsDescribed
  BY <1>1 DEF CellsDescribed
<1> QED BY <1>4, <1>5, <1>6 DEF CatalogInv

LEMMA ServerChangesInv == CatalogInv /\ ServerChanges => CatalogInv'
<1> SUFFICES ASSUME CatalogInv, ServerChanges PROVE CatalogInv'
  OBVIOUS
<1>1. UNCHANGED <<tableNames, dataReader, columnBindings, cells, result, cleared, shown>>
  BY DEF ServerChanges, historyVars
<1>2. ASSUME NEW S, NEW seq \in Seq(S), NEW new \in Change(seq, S) PROVE new \in Seq(S)
  BY <1>2, AppendProperties, RemoveAtSeq DEF Change
<1>3. streams' \in Seq(Streams) /\ datasets' \in Seq(Datasets)
  BY <1>2 DEF CatalogInv, Types, ServerChanges
<1>4. Types'
  BY <1>1, <1>3 DEF CatalogInv, Types
<1>5. BoundOnce' /\ Resolved' /\ CellsDescribed'
  <2>1. BoundOnce /\ Resolved /\ CellsDescribed
    BY DEF CatalogInv
  <2>2. BoundOnce'
    BY <1>1, <2>1 DEF BoundOnce
  <2>3. Resolved'
    BY <1>1, <2>1 DEF Resolved, Mapped, ReadsSchema, Unambiguous, Schemas
  <2>4. CellsDescribed'
    BY <1>1, <2>1 DEF CellsDescribed, Touched, Shows, ValueOf
  <2> QED BY <2>2, <2>3, <2>4
<1> QED BY <1>4, <1>5 DEF CatalogInv

\* A call that opens a reader other than one of columns.
LEMMA OpenInv ==
  ASSUME CatalogInv, NEW reader, Open(reader), IsReader(reader), reader.kind # "columns",
         shown' = shown \/ shown' = << >>
  PROVE  CatalogInv'
<1>1. /\ UNCHANGED <<streams, datasets, tableNames, columnBindings, cells>>
      /\ dataReader' = reader /\ result' = "none"
  BY DEF Open, serverVars
<1>2. shown' \in Seq(ShownRows) /\ Range(shown') \subseteq Range(shown)
  <2>1. CASE shown' = shown
    BY <2>1 DEF CatalogInv, Types
  <2>2. CASE shown' = << >>
    BY <2>2 DEF Range
  <2> QED BY <2>1, <2>2
<1>3. Types'
  BY <1>1, <1>2 DEF CatalogInv, Types
<1>4. BoundOnce'
  BY <1>1 DEF CatalogInv, BoundOnce
<1>5. Resolved'
  <2>1. CASE shown' = shown
    BY <1>1, <2>1 DEF CatalogInv, Resolved, Mapped, ReadsSchema
  <2>2. CASE shown' = << >>
    <3>1. Range(shown') = {}
      BY <2>2 DEF Range
    <3> QED BY <3>1 DEF Resolved
  <2> QED BY <2>1, <2>2
<1>6. CellsDescribed'
  BY <1>1, NoDescription
<1> QED BY <1>3, <1>4, <1>5, <1>6 DEF CatalogInv

LEMMA GetStreamsInv == CatalogInv /\ GetStreams => CatalogInv'
<1> SUFFICES ASSUME CatalogInv, GetStreams PROVE CatalogInv'
  OBVIOUS
<1> DEFINE reader == Reader("streams", << >>, streams, Len(streams))
<1>1. streams \in Seq(Streams) /\ Len(streams) \in Nat
  BY LenProperties DEF CatalogInv, Types
<1>2. /\ reader = [kind |-> reader.kind, table |-> reader.table, rows |-> reader.rows,
                   split |-> reader.split, index |-> reader.index]
      /\ reader.kind = "streams" /\ reader.table = << >> /\ reader.rows = streams /\ reader.index = 0
  BY DEF Reader
<1>3. << >> \in Texts
  BY DEF Texts
<1>4. Open(reader) /\ shown' = << >>
  BY DEF GetStreams
<1> HIDE DEF reader
<1>5. IsReader(reader)
  BY <1>1, <1>2, <1>3 DEF IsReader
<1> QED BY <1>2, <1>4, <1>5, OpenInv

LEMMA GetDatasetsInv == CatalogInv /\ GetDatasets => CatalogInv'
<1> SUFFICES ASSUME CatalogInv, GetDatasets PROVE CatalogInv'
  OBVIOUS
<1> DEFINE rows == dataReader.rows \o WithSchema(datasets)
           reader == [dataReader EXCEPT !.kind = "tables", !.rows = @ \o WithSchema(datasets)]
<1>1. IsReader(dataReader) /\ dataReader.kind = "streams" /\ datasets \in Seq(Datasets)
  BY DEF CatalogInv, Types, GetDatasets
<1>2. dataReader.rows \in Seq(Streams) /\ dataReader.index = 0 /\ dataReader.table \in Texts
  BY <1>1 DEF IsReader
<1>3. rows \in Seq(Streams \cup Datasets) /\ Len(rows) \in Nat
  <2>1. WithSchema(datasets) \in Seq(Datasets)
    BY <1>1, WithSchemaObjects
  <2>2. dataReader.rows \in Seq(Streams \cup Datasets) /\ WithSchema(datasets) \in Seq(Streams \cup Datasets)
    BY <1>2, <2>1
  <2>3. rows \in Seq(Streams \cup Datasets)
    BY <2>2, ConcatProperties
  <2> QED BY <2>3, LenProperties
<1>4. Open(reader) /\ shown' = shown
  BY DEF GetDatasets
<1>5. reader = [kind |-> "tables", table |-> dataReader.table, rows |-> rows,
                split |-> dataReader.split, index |-> dataReader.index]
  <2>1. dataReader = [kind |-> dataReader.kind, table |-> dataReader.table, rows |-> dataReader.rows,
                      split |-> dataReader.split, index |-> dataReader.index]
    BY <1>1 DEF IsReader
  <2>2. ASSUME NEW k, NEW t, NEW r, NEW s, NEW i, NEW w, NEW x, NEW y,
               x = [kind |-> k, table |-> t, rows |-> r, split |-> s, index |-> i],
               y = [x EXCEPT !.kind = "tables", !.rows = w]
        PROVE  y = [kind |-> "tables", table |-> t, rows |-> w, split |-> s, index |-> i]
    BY ONLY <2>2
  <2>3. reader = [dataReader EXCEPT !.kind = "tables", !.rows = rows]
    OBVIOUS
  <2> HIDE DEF reader, rows
  <2> QED BY <2>1, <2>2, <2>3
<1> HIDE DEF reader, rows
<1>6. IsReader(reader) /\ reader.kind = "tables"
  BY <1>2, <1>3, <1>5 DEF IsReader
<1> QED BY <1>4, <1>6, OpenInv

LEMMA GetDataTypesInv == CatalogInv /\ GetDataTypes => CatalogInv'
<1> SUFFICES ASSUME CatalogInv, GetDataTypes PROVE CatalogInv'
  OBVIOUS
<1> DEFINE reader == Reader("types", << >>, <<"string">>, 0)
<1>1. << >> \in Texts /\ Len(<<"string">>) = 1
  BY DEF Texts
<1>2. IsReader(reader) /\ reader.kind = "types"
  BY <1>1 DEF IsReader, Reader
<1>3. Open(reader) /\ shown' = shown
  BY DEF GetDataTypes
<1> HIDE DEF reader
<1> QED BY <1>2, <1>3, OpenInv

LEMMA GetNothingInv == CatalogInv /\ GetNothing => CatalogInv'
<1> SUFFICES ASSUME CatalogInv, GetNothing PROVE CatalogInv'
  OBVIOUS
<1> DEFINE reader == Reader("nothing", << >>, << >>, 0)
<1>1. << >> \in Texts /\ Len(<< >>) = 0
  BY DEF Texts
<1>2. IsReader(reader) /\ reader.kind = "nothing"
  BY <1>1 DEF IsReader, Reader
<1>3. Open(reader) /\ shown' = shown
  BY DEF GetNothing
<1> HIDE DEF reader
<1> QED BY <1>2, <1>3, OpenInv

LEMMA ExecuteInv == CatalogInv /\ Execute => CatalogInv'
<1> SUFFICES ASSUME CatalogInv, Execute PROVE CatalogInv'
  OBVIOUS
<1> DEFINE query == Reader("query", << >>, QueryRows, 0)
           one == Reader("select 1", << >>, <<1>>, 0)
<1>1. << >> \in Texts /\ Len(<<1>>) = 1 /\ Len(QueryRows) \in Nat
  BY QueryAssumption, LenProperties DEF Texts
<1>2. IsReader(query) /\ query.kind = "query"
  BY <1>1 DEF IsReader, Reader
<1>3. IsReader(one) /\ one.kind = "select 1"
  BY <1>1 DEF IsReader, Reader
<1>4. (Open(query) \/ Open(one)) /\ shown' = shown
  BY DEF Execute
<1> HIDE DEF query, one
<1> QED BY <1>2, <1>3, <1>4, OpenInv

LEMMA CloseStmtInv == CatalogInv /\ CloseStmt => CatalogInv'
<1> SUFFICES ASSUME CatalogInv, CloseStmt PROVE CatalogInv'
  OBVIOUS
<1>1. Open(NoReader) /\ shown' = shown
  BY DEF CloseStmt
<1>2. NoReader.kind = "none"
  BY DEF NoReader
<1> QED BY <1>1, <1>2, NoReaderIsReader, OpenInv

ObjectsOf(hiveName) == IF IsStream(hiveName) THEN Streams ELSE Datasets

ReadsObject(reader, hiveName, name) ==
  /\ reader.table = hiveName
  /\ \E o \in ObjectsOf(hiveName) : o.name = name /\ reader.rows = o.schema

\* The columns of a table are those of an object of its name.
LEMMA ColumnsOfObject ==
  ASSUME CatalogInv, NEW hiveName \in Texts, NEW name
  PROVE  /\ IsReader(ColumnsOf(hiveName, name))
         /\ ColumnsOf(hiveName, name).kind \in {"failed", "no schema", "columns"}
         /\ ColumnsOf(hiveName, name).kind = "columns" =>
              ReadsObject(ColumnsOf(hiveName, name), hiveName, name)
<1> DEFINE objects == IF IsStream(hiveName) THEN streams ELSE datasets
           all == ObjectsOf(hiveName)
           found == Called(objects, name)
           o == CHOOSE o \in found : TRUE
           fields == o.schema
           reader == ColumnsOf(hiveName, name)
<1>1. objects \in Seq(all)
  BY DEF CatalogInv, Types, ObjectsOf
<1>2. Range(objects) \subseteq all /\ all \subseteq Streams \cup Datasets
  BY <1>1, RangeElements DEF ObjectsOf
<1>3. << >> \in Texts /\ Len(<< >>) = 0
  BY DEF Texts
<1>4. IsReader(FailedReader) /\ FailedReader.kind = "failed"
  BY <1>3 DEF IsReader, FailedReader, Reader
<1>5. CASE found = {} \/ fields = NoSchema
  <2>1. reader = FailedReader
    BY <1>5 DEF ColumnsOf
  <2>2. IsReader(reader) /\ reader.kind = "failed"
    BY <1>4, <2>1
  <2> HIDE DEF reader
  <2> QED BY <2>2 DEF reader
<1>6. CASE found # {} /\ fields # NoSchema
  <2>1. o \in found
    BY <1>6
  <2>2. o \in all /\ o.name = name
    BY <1>2, <2>1 DEF Called
  <2>3. fields \in Seq(Fields) /\ Len(fields) \in Nat
    <3> HIDE DEF o, all
    <3>1. o \in Streams \cup Datasets
      BY <1>2, <2>2
    <3>2. o.schema \in Seq(Fields)
      BY <3>1, CatalogAssumption
    <3> QED BY <3>2, LenProperties
  <2>4. Len(NoSchemaFields) = 3
    BY DEF NoSchemaFields
  <2>5. reader = Reader("no schema", hiveName, NoSchemaFields, 0) \/ reader = Reader("columns", hiveName, fields, 0)
    BY <1>6 DEF ColumnsOf
  <2> HIDE DEF reader, o, found, all
  <2>6. CASE reader = Reader("no schema", hiveName, NoSchemaFields, 0)
    <3>1. /\ reader = [kind |-> reader.kind, table |-> reader.table, rows |-> reader.rows,
                       split |-> reader.split, index |-> reader.index]
          /\ reader.kind = "no schema" /\ reader.table = hiveName /\ reader.rows = NoSchemaFields
          /\ reader.index = 0
      BY <2>6 DEF Reader
    <3>2. reader.index \in 0..(Len(reader.rows) + 1)
      <4>1. reader.index = 0 /\ Len(reader.rows) = 3
        BY <2>4, <3>1
      <4> QED BY ONLY <4>1
    <3>3. IsReader(reader)
      BY <3>1, <3>2 DEF IsReader
    <3> QED BY <3>1, <3>3 DEF reader
  <2>7. CASE reader = Reader("columns", hiveName, fields, 0)
    <3>1. IsReader(reader) /\ reader.table = hiveName /\ reader.rows = fields /\ reader.kind = "columns"
      BY <2>3, <2>7 DEF IsReader, Reader
    <3>2. ReadsObject(reader, hiveName, name)
      BY <2>2, <3>1 DEF all, ReadsObject
    <3> QED BY <3>1, <3>2 DEF reader
  <2> QED BY <2>5, <2>6, <2>7
<1> QED BY <1>5, <1>6

\* The name of an object that was shown leads to it, if no other was shown by the same.
LEMMA RealName ==
  ASSUME CatalogInv, NEW row \in Range(shown), Unambiguous(row)
  PROVE  GetRealName(row.hiveName) = row.name
<1>1. Mapped(row)
  BY DEF CatalogInv, Resolved
<1>2. PICK other \in Range(shown) :
        other.hiveName = row.hiveName /\ tableNames[row.hiveName] = other.name
  BY <1>1 DEF Mapped
<1>3. other = row
  BY <1>2 DEF Unambiguous
<1> QED BY <1>1, <1>2, <1>3 DEF Mapped, GetRealName

LEMMA ShownTables ==
  ASSUME CatalogInv, NEW row \in Range(shown)
  PROVE  /\ row \in ShownRows /\ row.hiveName \in Texts
         /\ IsStream(row.hiveName) <=> row.kind = "stream_"
<1>1. row \in ShownRows
  BY RangeElements DEF CatalogInv, Types
<1>2. row.kind \in {"stream_", "dataset_"} /\ row.hiveName = HiveName(row.kind, row.name)
      /\ row.hiveName \in Texts /\ row.name \in ObjectNames
  BY <1>1 DEF ShownRows
<1>3. row.name \in Texts
  BY <1>2, CatalogAssumption DEF ObjectNames
<1>4. row.hiveName[1] = row.kind
  BY <1>2, <1>3, HiveNames
<1> QED BY <1>1, <1>2, <1>4 DEF IsStream

LEMMA GetColumnsInv == CatalogInv /\ GetColumns => CatalogInv'
<1> SUFFICES ASSUME CatalogInv, GetColumns PROVE CatalogInv'
  OBVIOUS
<1>1. PICK hiveName \in {row.hiveName : row \in Range(shown)} \cup OtherTables :
        Open(IF GetRealName(hiveName) = TooShort THEN NoReader
             ELSE ColumnsOf(hiveName, GetRealName(hiveName)))
  BY DEF GetColumns
<1>2. shown' = shown
  BY DEF GetColumns
<1>3. hiveName \in Texts
  BY <1>1, ShownTables, CatalogAssumption
<1>4. CASE GetRealName(hiveName) = TooShort
  <2>1. Open(NoReader) /\ NoReader.kind = "none"
    BY <1>1, <1>4 DEF NoReader
  <2> QED BY <1>2, <2>1, NoReaderIsReader, OpenInv
<1>5. CASE GetRealName(hiveName) # TooShort
  <2> DEFINE name == GetRealName(hiveName)
             reader == ColumnsOf(hiveName, name)
  <2>1. Open(reader)
    BY <1>1, <1>5
  <2>2. IsReader(reader) /\ reader.kind \in {"failed", "no schema", "columns"}
    BY <1>3, ColumnsOfObject
  <2>3. reader.kind = "columns" =>
          /\ reader.table = hiveName
          /\ \E o \in ObjectsOf(hiveName) :
               o.name = name /\ reader.rows = o.schema
    <3>1. reader.kind = "columns" => ReadsObject(reader, hiveName, name)
      BY <1>3, ColumnsOfObject
    <3> HIDE DEF reader, name
    <3> QED BY <3>1 DEF ReadsObject
  <2> HIDE DEF reader, name
  <2>4. CASE reader.kind # "columns"
    BY <1>2, <2>1, <2>2, <2>4, OpenInv
  <2>5. CASE reader.kind = "columns"
    <3>1. /\ UNCHANGED <<streams, datasets, tableNames, columnBindings, cells, shown>>
          /\ dataReader' = reader /\ result' = "none"
      BY <1>2, <2>1 DEF Open, serverVars
    <3>2. Types'
      BY <2>2, <3>1 DEF CatalogInv, Types
    <3>3. BoundOnce'
      BY <3>1 DEF CatalogInv, BoundOnce
    <3>4. ASSUME NEW row \in Range(shown') PROVE Mapped(row)' /\ ReadsSchema(row)'
      <4>1. row \in Range(shown)
        BY <3>1
      <4>2. Mapped(row)'
        BY <3>1, <4>1 DEF CatalogInv, Resolved, Mapped
      <4>3. ASSUME Unambiguous(row)', dataReader'.table = row.hiveName PROVE dataReader'.rows \in Schemas(row)'
        <5>1. Unambiguous(row)
          BY <3>1, <4>3 DEF Unambiguous
        <5>2. hiveName = row.hiveName
          BY <2>3, <2>5, <3>1, <4>3
        <5>3. name = row.name
          BY <4>1, <5>1, <5>2, RealName DEF name
        <5>4. IsStream(hiveName) <=> row.kind = "stream_"
          BY <4>1, <5>2, ShownTables
        <5>5. PICK o \in (IF row.kind = "stream_" THEN Streams ELSE Datasets) :
                o.name = row.name /\ reader.rows = o.schema
          BY <2>3, <2>5, <5>3, <5>4 DEF ObjectsOf
        <5> QED BY <3>1, <5>5 DEF Schemas
      <4> QED BY <4>2, <4>3 DEF ReadsSchema
    <3>5. Resolved'
      BY <3>4 DEF Resolved
    <3>6. CellsDescribed'
      BY <3>1, NoDescription
    <3> QED BY <3>2, <3>3, <3>5, <3>6 DEF CatalogInv
  <2> QED BY <2>4, <2>5
<1> QED BY <1>4, <1>5

\* A change of the bindings between two fetches.
LEMMA BindInv ==
  ASSUME CatalogInv, NEW bindings, Bind(bindings), bindings \in Seq(Bindings),
         \A i, j \in DOMAIN bindings : bindings[i].column = bindings[j].column => i = j
  PROVE  CatalogInv'
<1>1. /\ UNCHANGED <<streams, datasets, tableNames, dataReader, cells, shown>>
      /\ columnBindings' = bindings /\ result' = "none"
  BY DEF Bind, serverVars
<1>2. Types'
  BY <1>1 DEF CatalogInv, Types
<1>3. BoundOnce'
  BY <1>1 DEF BoundOnce
<1>4. Resolved'
  BY <1>1 DEF CatalogInv, Resolved, Mapped, ReadsSchema, Unambiguous, Schemas
<1>5. CellsDescribed'
  BY <1>1, NoDescription
<1> QED BY <1>2, <1>3, <1>4, <1>5 DEF CatalogInv

LEMMA BindColInv == CatalogInv /\ BindCol => CatalogInv'
<1> SUFFICES ASSUME CatalogInv, BindCol PROVE CatalogInv'
  OBVIOUS
<1>1. PICK b \in Bindings : Bind(Rebound(b))
  BY DEF BindCol
<1>2. columnBindings \in Seq(Bindings) /\ BoundOnce
  BY DEF CatalogInv, Types
<1>3. Len(columnBindings) \in Nat /\ DOMAIN columnBindings = 1..Len(columnBindings)
  BY <1>2, LenProperties
<1> DEFINE new == Rebound(b)
<1>4. new \in Seq(Bindings) /\ \A i, j \in DOMAIN new : new[i].column = new[j].column => i = j
  <2>1. CASE \E i \in DOMAIN columnBindings : columnBindings[i].column = b.column
    <3>1. new = [i \in DOMAIN columnBindings |->
                   IF columnBindings[i].column = b.column THEN b ELSE columnBindings[i]]
      BY <2>1 DEF Rebound
    <3> HIDE DEF new
    <3>2. \A i \in DOMAIN columnBindings : columnBindings[i] \in Bindings
      BY <1>2
    <3>3. new \in [1..Len(columnBindings) -> Bindings]
      BY <1>3, <3>1, <3>2
    <3>4. new \in Seq(Bindings)
      BY <1>3, <3>3
    <3>5. DOMAIN new = DOMAIN columnBindings /\ \A i \in DOMAIN new : new[i].column = columnBindings[i].column
      BY <3>1
    <3> QED BY <1>2, <3>4, <3>5 DEF BoundOnce
  <2>2. CASE ~(\E i \in DOMAIN columnBindings : columnBindings[i].column = b.column)
    <3>1. new = Append(columnBindings, b)
      BY <2>2 DEF Rebound
    <3> HIDE DEF new
    <3>2. /\ new \in Seq(Bindings) /\ Len(new) = Len(columnBindings) + 1
          /\ \A i \in 1..Len(columnBindings) : new[i] = columnBindings[i]
          /\ new[Len(columnBindings) + 1] = b
      BY <1>2, <3>1, AppendProperties
    <3>3. DOMAIN new = 1..(Len(columnBindings) + 1)
      BY <3>2, LenProperties
    <3>4. ASSUME NEW i \in DOMAIN new, NEW j \in DOMAIN new, new[i].column = new[j].column PROVE i = j
      <4>1. i \in DOMAIN columnBindings \/ i = Len(columnBindings) + 1
        BY <1>3, <3>3
      <4>2. j \in DOMAIN columnBindings \/ j = Len(columnBindings) + 1
        BY <1>3, <3>3, <3>4
      <4> QED BY <1>2, <1>3, <2>2, <3>2, <3>4, <4>1, <4>2 DEF BoundOnce
    <3> QED BY <3>2, <3>4
  <2> QED BY <2>1, <2>2
<1> HIDE DEF new
<1> QED BY <1>1, <1>4, BindInv DEF new

LEMMA UnbindInv == CatalogInv /\ Unbind => CatalogInv'
<1> SUFFICES ASSUME CatalogInv, Unbind PROVE CatalogInv'
  OBVIOUS
<1>1. Bind(<< >>)
  BY DEF Unbind
<1>2. << >> \in Seq(Bindings) /\ DOMAIN << >> = {}
  OBVIOUS
<1> QED BY <1>1, <1>2, BindInv

\* The reader moves to the next position.
LEMMA Advanced ==
  ASSUME NEW reader, IsReader(reader), ~(reader.index > Len(reader.rows)), reader.kind # "streams",
         NEW next, next = [reader EXCEPT !.index = @ + 1]
  PROVE  /\ IsReader(next)
         /\ next.index = reader.index + 1 /\ next.index \in Nat
         /\ next.kind = reader.kind /\ next.table = reader.table /\ next.rows = reader.rows
<1>1. Len(reader.rows) \in Nat
  <2>1. Len(<< >>) = 0 /\ Len(NoSchemaFields) = 3 /\ Len(<<"string">>) = 1 /\ Len(<<1>>) = 1
    BY DEF NoSchemaFields
  <2>2. Len(QueryRows) \in Nat
    BY QueryAssumption, LenProperties
  <2>3. reader.rows \in Seq(Streams) \/ reader.rows \in Seq(Streams \cup Datasets)
          \/ reader.rows \in Seq(Fields) => Len(reader.rows) \in Nat
    BY LenProperties
  <2>4. \/ reader.rows \in {<< >>, NoSchemaFields, <<"string">>, <<1>>, QueryRows}
        \/ reader.rows \in Seq(Streams) \/ reader.rows \in Seq(Streams \cup Datasets)
        \/ reader.rows \in Seq(Fields)
    BY DEF IsReader
  <2> QED BY <2>1, <2>2, <2>3, <2>4
<1>2. reader.index \in 0..(Len(reader.rows) + 1)
  BY DEF IsReader
<1>3. reader.index + 1 \in 0..(Len(reader.rows) + 1) /\ reader.index + 1 \in Nat
  BY <1>1, <1>2
<1>4. reader = [kind |-> reader.kind, table |-> reader.table, rows |-> reader.rows,
                split |-> reader.split, index |-> reader.index]
  BY DEF IsReader
<1>5. next = [kind |-> reader.kind, table |-> reader.table, rows |-> reader.rows,
              split |-> reader.split, index |-> reader.index + 1]
  BY <1>4
<1>6. /\ next = [kind |-> next.kind, table |-> next.table, rows |-> next.rows,
                 split |-> next.split, index |-> next.index]
      /\ next.kind = reader.kind /\ next.table = reader.table /\ next.rows = reader.rows
      /\ next.index = reader.index + 1
  BY ONLY <1>5
<1> QED BY <1>3, <1>6 DEF IsReader

LEMMA FetchEndInv == CatalogInv /\ FetchEnd => CatalogInv'
<1> SUFFICES ASSUME CatalogInv, FetchEnd PROVE CatalogInv'
  OBVIOUS
<1>1. /\ UNCHANGED <<streams, datasets, tableNames, columnBindings, cells, shown>>
      /\ dataReader' = [dataReader EXCEPT !.index = @ + 1] /\ result' = "noData"
  BY DEF FetchEnd, serverVars
<1>2. IsReader(dataReader) /\ ~(dataReader.index > Len(dataReader.rows)) /\ dataReader.kind # "streams"
  BY DEF CatalogInv, Types, FetchEnd, IsOpen, AtEnd
<1>3. /\ IsReader(dataReader')
      /\ dataReader'.kind = dataReader.kind /\ dataReader'.table = dataReader.table
      /\ dataReader'.rows = dataReader.rows
  BY <1>1, <1>2, Advanced
<1>4. Types'
  BY <1>1, <1>3 DEF CatalogInv, Types
<1>5. BoundOnce'
  BY <1>1 DEF CatalogInv, BoundOnce
<1>6. Resolved'
  BY <1>1, <1>3 DEF CatalogInv, Resolved, Mapped, ReadsSchema, Unambiguous, Schemas
<1>7. CellsDescribed'
  BY <1>1, NoDescription
<1> QED BY <1>4, <1>5, <1>6, <1>7 DEF CatalogInv

LEMMA StutterInv == CatalogInv /\ UNCHANGED vars => CatalogInv'
<1> SUFFICES ASSUME CatalogInv, UNCHANGED vars PROVE CatalogInv'
  OBVIOUS
<1>1. UNCHANGED <<streams, datasets, tableNames, dataReader, columnBindings, cells, result, cleared, shown>>
  BY DEF vars, serverVars, historyVars
<1>2. Types /\ BoundOnce /\ Resolved /\ CellsDescribed
  BY DEF CatalogInv
<1>3. Types'
  BY <1>1, <1>2 DEF Types
<1>4. BoundOnce'
  BY <1>1, <1>2 DEF BoundOnce
<1>5. Resolved'
  BY <1>1, <1>2 DEF Resolved, Mapped, ReadsSchema, Unambiguous, Schemas
<1>6. CellsDescribed'
  BY <1>1, <1>2 DEF CellsDescribed, Touched, Shows, ValueOf
<1> QED BY <1>3, <1>4, <1>5, <1>6 DEF CatalogInv

-----------------------------------------------------------------------------
(***************************************************************************)
(* SQLFetch.                                                               *)
(***************************************************************************)
LEMMA BeforeCells ==
  ASSUME CatalogInv, NEW reset \in BOOLEAN, NEW c \in Columns
  PROVE  IsCell(Before(reset)[c]) /\ (reset => Before(reset)[c].ind = 0)
<1>1. IsCell(cells[c])
  BY DEF CatalogInv, Types
<1>2. CASE reset
  <2>1. Before(reset)[c] = [cells[c] EXCEPT !.ind = 0]
    BY <1>2 DEF Before
  <2>2. cells[c] = [data |-> cells[c].data, ind |-> cells[c].ind]
    BY <1>1 DEF IsCell
  <2>3. Before(reset)[c] = [data |-> cells[c].data, ind |-> 0]
    BY <2>1, <2>2
  <2> QED BY <1>1, <2>3 DEF IsCell, SQL_NULL_DATA
<1>3. CASE ~reset
  BY <1>1, <1>3 DEF Before
<1> QED BY <1>2, <1>3

\* The cell of a binding that is written is written by this binding alone.
LEMMA WrittenCells ==
  ASSUME CatalogInv, NEW reader, NEW before, NEW c \in Columns
  PROVE  /\ (\A i \in Written(reader) : columnBindings[i].column # c) => Cells(reader, before)[c] = before[c]
         /\ \A i \in Written(reader) : columnBindings[i].column = c =>
              Cells(reader, before)[c] = GetColumnValue(reader, columnBindings[i], before[c])
<1> DEFINE bound == {i \in Written(reader) : columnBindings[i].column = c}
           value(i) == GetColumnValue(reader, columnBindings[i], before[c])
<1>1. Cells(reader, before)[c] = IF bound = {} THEN before[c] ELSE value(CHOOSE i \in bound : TRUE)
  BY DEF Cells
<1>2. (\A i \in Written(reader) : columnBindings[i].column # c) => bound = {}
  OBVIOUS
<1>3. ASSUME NEW i \in Written(reader), columnBindings[i].column = c
      PROVE  bound # {} /\ (CHOOSE j \in bound : TRUE) = i
  <2>1. i \in bound
    BY <1>3
  <2>2. ASSUME NEW j \in bound PROVE j = i
    BY <1>3, <2>2 DEF CatalogInv, BoundOnce, Written
  <2>3. (CHOOSE j \in bound : TRUE) \in bound
    BY <2>1
  <2> HIDE DEF bound
  <2> QED BY <2>1, <2>2, <2>3
<1> HIDE DEF bound, value
<1> QED BY <1>1, <1>2, <1>3 DEF value

\* What is written by one fetch.
LEMMA WrittenValues ==
  ASSUME CatalogInv, NEW reader, IsReader(reader), reader.index \in 1..Len(reader.rows),
         NEW reset \in BOOLEAN
  PROVE  /\ \A c \in Columns : IsCell(Cells(reader, Before(reset))[c])
         /\ \A i \in Written(reader) :
              LET b == columnBindings[i] IN Shows(reader, reset, Cells(reader, Before(reset))[b.column], b)
<1> DEFINE new == Cells(reader, Before(reset))
<1>1. ASSUME NEW i \in Written(reader)
      PROVE  /\ columnBindings[i] \in Bindings /\ columnBindings[i].column \in Columns
             /\ Touched(reader, columnBindings[i]) /\ ~Throws(reader, columnBindings[i])
  <2>1. columnBindings \in Seq(Bindings)
    BY DEF CatalogInv, Types
  <2>2. i \in DOMAIN columnBindings /\ Touched(reader, columnBindings[i])
        /\ \A k \in 1..i : ~Throws(reader, columnBindings[k])
    BY DEF Written
  <2>3. i \in 1..i /\ columnBindings[i] \in Bindings
    BY <2>1, <2>2, LenProperties
  <2> QED BY <2>2, <2>3 DEF Columns
<1>2. ASSUME NEW i \in Written(reader)
      PROVE  /\ IsCell(new[columnBindings[i].column])
             /\ Shows(reader, reset, new[columnBindings[i].column], columnBindings[i])
  <2> DEFINE b == columnBindings[i]
             before == Before(reset)[b.column]
  <2>1. /\ b \in Bindings /\ b.column \in Columns
        /\ Touched(reader, b) /\ ~Throws(reader, b)
    BY <1>1
  <2>2. IsCell(before) /\ (reset => before.ind = 0)
    BY <2>1, BeforeCells
  <2>3. new[b.column] = GetColumnValue(reader, b, before)
    BY <2>1, WrittenCells
  <2> HIDE DEF b, before, new
  <2>4. /\ IsCell(GetColumnValue(reader, b, before))
        /\ Shows(reader, reset, GetColumnValue(reader, b, before), b)
    BY <2>1, <2>2, CellWritten
  <2> QED BY <2>3, <2>4 DEF b
<1>3. ASSUME NEW c \in Columns PROVE IsCell(new[c])
  <2>1. CASE \A i \in Written(reader) : columnBindings[i].column # c
    <3>1. new[c] = Before(reset)[c]
      BY <2>1, WrittenCells
    <3> HIDE DEF new
    <3> QED BY <3>1, BeforeCells
  <2>2. CASE \E i \in Written(reader) : columnBindings[i].column = c
    BY <1>2, <2>2
  <2> QED BY <2>1, <2>2
<1> HIDE DEF new
<1> QED BY <1>2, <1>3 DEF new

\* The names that one fetch shows.
LEMMA ReadTableNames ==
  ASSUME CatalogInv, NEW reader, IsReader(reader), reader.index \in 1..Len(reader.rows),
         reader.kind = "tables", tableNames' = Remember(reader), shown' = Append(shown, ShownRow(reader))
  PROVE  /\ Range(tableNames') \subseteq ObjectNames
         /\ shown' \in Seq(ShownRows)
         /\ \A row \in Range(shown') : Mapped(row)'
<1> DEFINE hiveName == TableName(reader, reader.index)
           name == ObjectName(reader, reader.index)
           kind == KindOf(reader, reader.index)
           new == ShownRow(reader)
<1>1. name \in ObjectNames /\ name \in Texts
  <2>1. reader.rows \in Seq(Streams \cup Datasets)
    BY DEF IsReader
  <2>2. reader.rows[reader.index] \in Streams \cup Datasets
    BY <2>1
  <2> QED BY <2>2, CatalogAssumption DEF ObjectName, ObjectNames
<1>2. kind \in {"stream_", "dataset_"} /\ hiveName = HiveName(kind, name)
  BY DEF KindOf, TableName
<1>3. hiveName \in Texts
  BY <1>1, <1>2, HiveNames
<1>4. new = [hiveName |-> hiveName, kind |-> kind, name |-> name]
  BY DEF ShownRow
<1>5. tableNames' = [n \in DOMAIN tableNames \cup {hiveName} |-> IF n = hiveName THEN name ELSE tableNames[n]]
  BY DEF Remember
<1> HIDE DEF hiveName, name, kind, new
<1>6. new \in ShownRows /\ new.hiveName = hiveName /\ new.name = name
  BY <1>1, <1>2, <1>3, <1>4 DEF ShownRows
<1>7. shown' \in Seq(ShownRows) /\ Range(shown') = Range(shown) \cup {new}
  BY <1>6, AppendRange DEF CatalogInv, Types, new
<1>8. Range(tableNames') \subseteq ObjectNames
  <2>1. \A n \in DOMAIN tableNames : tableNames[n] \in ObjectNames
    BY DEF CatalogInv, Types, Range
  <2> QED BY <1>1, <1>5, <2>1 DEF Range
<1>9. ASSUME NEW row \in Range(shown') PROVE Mapped(row)'
  <2>1. CASE row.hiveName = hiveName
    BY <1>5, <1>6, <1>7, <2>1 DEF Mapped
  <2>2. CASE row.hiveName # hiveName
    <3>1. row \in Range(shown)
      BY <1>6, <1>7, <2>2
    <3>2. Mapped(row)
      BY <3>1 DEF CatalogInv, Resolved
    <3> QED BY <1>5, <1>7, <2>2, <3>2 DEF Mapped
  <2> QED BY <2>1, <2>2
<1> QED BY <1>7, <1>8, <1>9

LEMMA FetchRowInv == CatalogInv /\ FetchRow => CatalogInv'
<1> SUFFICES ASSUME CatalogInv, FetchRow PROVE CatalogInv'
  OBVIOUS
<1> DEFINE next == [dataReader EXCEPT !.index = @ + 1]
           throws == \E i \in DOMAIN columnBindings : Throws(next, columnBindings[i])
<1>1. /\ UNCHANGED <<streams, datasets, columnBindings>>
      /\ dataReader' = next /\ cleared' \in BOOLEAN
      /\ cells' = Cells(next, Before(cleared'))
      /\ result' = IF throws THEN "error" ELSE "row"
      /\ ReadTable(next)
  BY DEF FetchRow, serverVars
<1>2. /\ IsReader(dataReader) /\ dataReader.index < Len(dataReader.rows)
      /\ ~(dataReader.index > Len(dataReader.rows)) /\ dataReader.kind # "streams"
  BY DEF CatalogInv, Types, FetchRow, IsOpen, AtEnd, HasNext
<1> HIDE DEF next
<1>3. /\ IsReader(next)
      /\ next.index = dataReader.index + 1 /\ next.index \in Nat
      /\ next.kind = dataReader.kind /\ next.table = dataReader.table /\ next.rows = dataReader.rows
  BY <1>2, Advanced DEF next
<1>4. next.index \in 1..Len(next.rows)
  <2>1. dataReader.index \in 0..(Len(dataReader.rows) + 1)
    BY <1>2 DEF IsReader
  <2> QED BY <1>2, <1>3, <2>1
<1>5. /\ \A c \in Columns : IsCell(cells'[c])
      /\ \A i \in Written(next) :
           LET b == columnBindings[i] IN Shows(next, cleared', cells'[b.column], b)
  BY <1>1, <1>3, <1>4, WrittenValues
<1>6. /\ Range(tableNames') \subseteq ObjectNames /\ shown' \in Seq(ShownRows)
      /\ Resolved'
  <2>1. CASE next.kind = "tables" /\ NameIsBound
    <3>1. tableNames' = Remember(next) /\ shown' = Append(shown, ShownRow(next))
      BY <1>1, <2>1 DEF ReadTable
    <3>2. /\ Range(tableNames') \subseteq ObjectNames /\ shown' \in Seq(ShownRows)
          /\ \A row \in Range(shown') : Mapped(row)'
      BY <1>3, <1>4, <2>1, <3>1, ReadTableNames
    <3>3. \A row : ReadsSchema(row)'
      BY <1>1, <2>1 DEF ReadsSchema
    <3> QED BY <3>2, <3>3 DEF Resolved
  <2>2. CASE ~(next.kind = "tables" /\ NameIsBound)
    <3>1. UNCHANGED <<tableNames, shown>>
      BY <1>1, <2>2 DEF ReadTable
    <3>2. Resolved'
      BY <1>1, <1>3, <3>1 DEF CatalogInv, Resolved, Mapped, ReadsSchema, Unambiguous, Schemas
    <3> QED BY <3>1, <3>2 DEF CatalogInv, Types
  <2> QED BY <2>1, <2>2
<1>7. Types'
  BY <1>1, <1>3, <1>5, <1>6 DEF CatalogInv, Types
<1>8. BoundOnce'
  BY <1>1 DEF CatalogInv, BoundOnce
<1>9. CASE throws
  <2>1. PICK i \in DOMAIN columnBindings : Throws(next, columnBindings[i])
    BY <1>9
  <2>2. columnBindings[i] \in Bindings
    BY RangeElements DEF CatalogInv, Types
  <2>3. ~Described(next, columnBindings[i])
    BY <1>3, <1>4, <2>1, <2>2, DescribedFetched
  <2>4. result' = "error"
    BY <1>1, <1>9
  <2>5. CellsDescribed'
    BY <1>1, <2>3, <2>4 DEF CellsDescribed
  <2> QED BY <1>6, <1>7, <1>8, <2>5 DEF CatalogInv
<1>10. CASE ~throws
  <2>1. result' = "row"
    BY <1>1, <1>10
  <2>2. ASSUME NEW i \in DOMAIN columnBindings, Touched(next, columnBindings[i])
        PROVE  Shows(next, cleared', cells'[columnBindings[i].column], columnBindings[i])
    <3>1. 1..i \subseteq DOMAIN columnBindings
      BY LenProperties DEF CatalogInv, Types
    <3>2. i \in Written(next)
      BY <1>10, <2>2, <3>1 DEF Written
    <3> QED BY <1>5, <3>2
  <2>3. CellsDescribed'
    BY <1>1, <2>1, <2>2 DEF CellsDescribed
  <2> QED BY <1>6, <1>7, <1>8, <2>3 DEF CatalogInv
<1> QED BY <1>9, <1>10

-----------------------------------------------------------------------------
(***************************************************************************)
(* The theorems.                                                           *)
(***************************************************************************)
LEMMA CatalogNext == CatalogInv /\ [Next]_vars => CatalogInv'
<1> SUFFICES ASSUME CatalogInv, [Next]_vars PROVE CatalogInv'
  OBVIOUS
<1>1. CASE ServerChanges
  BY <1>1, ServerChangesInv
<1>2. CASE GetStreams
  BY <1>2, GetStreamsInv
<1>3. CASE GetDatasets
  BY <1>3, GetDatasetsInv
<1>4. CASE GetColumns
  BY <1>4, GetColumnsInv
<1>5. CASE GetDataTypes
  BY <1>5, GetDataTypesInv
<1>6. CASE GetNothing
  BY <1>6, GetNothingInv
<1>7. CASE Execute
  BY <1>7, ExecuteInv
<1>8. CASE BindCol
  BY <1>8, BindColInv
<1>9. CASE Unbind
  BY <1>9, UnbindInv
<1>10. CASE FetchRow
  BY <1>10, FetchRowInv
<1>11. CASE FetchEnd
  BY <1>11, FetchEndInv
<1>12. CASE CloseStmt
  BY <1>12, CloseStmtInv
<1>13. CASE UNCHANGED vars
  BY <1>13, StutterInv
<1> QED BY <1>1, <1>2, <1>3, <1>4, <1>5, <1>6, <1>7, <1>8, <1>9, <1>10, <1>11, <1>12, <1>13 DEF Next

LEMMA Invariance == Spec => []CatalogInv
<1>1. Init => CatalogInv
  BY CatalogInit
<1>2. CatalogInv /\ [Next]_vars => CatalogInv'
  BY CatalogNext
<1> QED BY <1>1, <1>2, PTL DEF Spec

\* The map of names leads to names of objects, the index stays within the rows and one, the
\* bindings are the application's, and no cell holds data that a conversion refused (Statement,
\* DataReader::fetchValue).
THEOREM TypeCorrect == Spec => []TypeOK
<1>1. CatalogInv => TypeOK
  <2> SUFFICES ASSUME CatalogInv PROVE TypeOK
    OBVIOUS
  <2>1. Types
    BY DEF CatalogInv
  <2>2. dataReader.index \in 0..(Len(dataReader.rows) + 1)
    BY <2>1 DEF Types, IsReader
  <2>3. \A c \in Columns : cells[c].ind >= SQL_NULL_DATA /\ cells[c].data # Refused
    BY <2>1 DEF Types, IsCell
  <2> QED BY <2>1, <2>2, <2>3 DEF Types, TypeOK, ObjectNames
<1> QED BY <1>1, Invariance, PTL

\* Whatever the server's objects become in the meantime, a table that SQLTables has shown under a
\* name no other has is the one whose columns SQLColumns asks for and returns
\* (TablesDataReader::getTableName, Statement::getRealName, Statement::getColumns).
THEOREM ResolveCorrect == Spec => []TablesResolve
<1>1. CatalogInv => TablesResolve
  <2> SUFFICES ASSUME CatalogInv, NEW row \in Range(shown), Unambiguous(row)
               PROVE  /\ GetRealName(row.hiveName) = row.name
                      /\ dataReader.kind = "columns" /\ dataReader.table = row.hiveName =>
                           dataReader.rows \in Schemas(row)
    BY DEF TablesResolve
  <2>1. GetRealName(row.hiveName) = row.name
    BY RealName
  <2>2. ReadsSchema(row)
    BY DEF CatalogInv, Resolved
  <2> QED BY <2>1, <2>2 DEF ReadsSchema
<1> QED BY <1>1, Invariance, PTL

\* After a fetch the buffers and indicators of the bound columns describe the row that was
\* fetched and no earlier one, and a fetch fails only for a binding that the driver's own
\* description of the column does not give (DataReader::fetchValue and the fetches,
\* Statement::fetch, Driver's table of types).
THEOREM DescribedCorrect == Spec => []CellsDescribed
<1>1. CatalogInv => CellsDescribed
  BY DEF CatalogInv
<1> QED BY <1>1, Invariance, PTL
=============================================================================
