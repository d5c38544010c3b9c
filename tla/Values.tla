------------------------------- MODULE Values -------------------------------
(***************************************************************************)
(* The values of a result set and what DataReader writes of them into the  *)
(* buffers of an application: conversion to the C type of the binding,     *)
(* truncation, and the length indicator.                                   *)
(*                                                                         *)
(* A text is a sequence of characters, none of them the one that ends a    *)
(* text of C; a number is an integer, and a double one that is written     *)
(* without a point or an exponent.  What a text means as a number or as a  *)
(* timestamp is part of the value.                                         *)
(***************************************************************************)
EXTENDS Integers, Sequences

CONSTANTS
  Characters,   \* the characters of texts; a name of a type of Hive is one, too
  TwoBytes,     \* the characters that take two bytes in UTF-8
  LONG_MAX      \* the largest long of the C run-time, 2^31 - 1

Texts == Seq(Characters)

-----------------------------------------------------------------------------
\* Values of JSON.  The numeral of a text is what wcstol would read with no limit, parts
\* and ms are the fields of a timestamp in it and its milliseconds.
Value(kind) == [kind |-> kind, text |-> << >>, number |-> 0, parts |-> 0, ms |-> 0]
Null == Value("null")
Text(text) == [Value("string") EXCEPT !.text = text]
Numeral(text, n) == [Text(text) EXCEPT !.number = n]
Timestamp(text, parts, ms) == [Text(text) EXCEPT !.parts = parts, !.ms = ms]
Integer(n) == [Value("integer") EXCEPT !.number = n]
Double(n) == [Value("double") EXCEPT !.number = n]
Boolean(n) == [Value("boolean") EXCEPT !.number = n]
Bytes(text) == [Value("array") EXCEPT !.text = text]

Kinds == {"null", "string", "integer", "double", "boolean", "array"}
JsonValues == [kind : Kinds, text : Texts, number : Int, parts : Nat, ms : Nat]

CharTypes == {"CHAR", "WCHAR"}
CTypes == CharTypes \cup
  {"BIT", "TINYINT", "SSHORT", "SLONG", "DOUBLE", "ULONG", "SBIGINT", "TIMESTAMP", "DATE",
   "FLOAT", "BINARY"}

-----------------------------------------------------------------------------
(***************************************************************************)
(* Conversion: the data a value becomes, or Refused.  Data of any type is  *)
(* a text, which is empty for numbers, and a number, which is the fraction *)
(* of a timestamp.                                                         *)
(***************************************************************************)
Refused == [text |-> <<"refused">>, number |-> -1]
Data(text, n) == [text |-> text, number |-> n]

Digits == <<"0", "1", "2", "3", "4", "5", "6", "7", "8", "9">>
Decimal(n) ==
  LET digits[k \in 0..n] ==
        IF k < 10 THEN <<Digits[k + 1]>> ELSE Append(digits[k \div 10], Digits[(k % 10) + 1])
  IN  digits[n]

Signed(n) == IF n < 0 THEN <<"-">> \o Decimal(-n) ELSE Decimal(n)

ASSUME ValuesAssumption ==
  /\ LONG_MAX \in Nat \ {0}
  /\ {"0", "1", "2", "3", "4", "5", "6", "7", "8", "9", "-", " ", "+"} \subseteq Characters

\* toWString; a double is filled up with blanks to the width of the buffer, in bytes.
Blanks(n) == [k \in 1..n |-> " "]

ToWString(value, binding) ==
  LET numeral == Signed(value.number)
  IN  CASE value.kind \in {"string", "array"} -> value.text
        [] value.kind \in {"integer", "boolean"} -> numeral
        [] value.kind = "double" -> Blanks(binding.length - 1 - Len(numeral)) \o numeral
        [] OTHER -> << >>

Least(a, b) == IF a < b THEN a ELSE b

\* intToFrac: the milliseconds are read as an integer, so that zeros in front are lost.
IntToFrac(ms) == IF ms >= 100 THEN ms ELSE IF ms >= 10 THEN ms * 10 ELSE ms * 100

Numeric == {"integer", "double"}

\* wcstol and wcstoul: a numeral beyond the limits is the limit, and a negative one is an
\* unsigned number from the other end.
ULONG_MAX == 2 * LONG_MAX + 1
Wcstol(n) == IF n > LONG_MAX THEN LONG_MAX ELSE IF n < -LONG_MAX - 1 THEN -LONG_MAX - 1 ELSE n
Wcstoul(n) == IF n \in (-ULONG_MAX)..ULONG_MAX THEN n % (ULONG_MAX + 1) ELSE ULONG_MAX

\* fetchValue, up to the choice of the fetch.
Convert(value, binding) ==
  LET type == binding.type IN
  CASE type \in {"BIT", "TINYINT"} ->
         (CASE value.kind = "boolean" -> Data(<< >>, value.number)
            [] value.kind = "integer" -> Data(<< >>, value.number % 256)
            [] OTHER -> Refused)
    [] type \in CharTypes -> Data(ToWString(value, binding), 0)
    [] type = "DOUBLE" ->
         (IF value.kind \in Numeric \cup {"string", "boolean"} THEN Data(<< >>, value.number) ELSE Refused)
    [] type \in {"ULONG", "SBIGINT"} ->
         (CASE value.kind \in Numeric \cup {"boolean"} -> Data(<< >>, value.number)
            [] value.kind = "string" ->
                 Data(<< >>, IF type = "SBIGINT" THEN Wcstol(value.number) ELSE Wcstoul(value.number))
            [] OTHER -> Refused)
    [] type = "TIMESTAMP" ->
         (IF value.kind = "string" /\ value.parts \in {3, 7}
          THEN Data(value.text, IntToFrac(value.ms)) ELSE Refused)
    [] type = "DATE" ->
         (IF value.kind = "string" /\ value.parts >= 3
          THEN Data(SubSeq(value.text, 1, Least(3, Len(value.text))), 0) ELSE Refused)
    [] OTHER -> Refused

-----------------------------------------------------------------------------
(***************************************************************************)
(* What is written for a binding: the data, and for character types the    *)
(* indicator.  The fetches of numbers leave the indicator as it was.       *)
(***************************************************************************)
SQL_NULL_DATA == -1
WideChar == 2   \* sizeof(wchar_t)

\* The bytes of a text; the second byte of a character is a "+".
Encoded(c) == IF c \in TwoBytes THEN <<c, "+">> ELSE <<c>>

Utf8(text) ==
  LET bytes[n \in 0..Len(text)] == IF n = 0 THEN << >> ELSE bytes[n - 1] \o Encoded(text[n])
  IN  bytes[Len(text)]

FetchNull(cell) == [cell EXCEPT !.ind = SQL_NULL_DATA]

FetchVarcharUnterminated(text, binding) ==
  LET bytes == Utf8(text)
      size == Least(Len(bytes), binding.length)
  IN  [data |-> Data(SubSeq(bytes, 1, size), 0), ind |-> size]

FetchVarchar(text, binding) ==
  LET bytes == Utf8(text)
      size == Least(Len(bytes), binding.length - 1)
  IN  [data |-> Data(SubSeq(bytes, 1, size), 0), ind |-> size]

FetchWVarchar(text, binding) ==
  LET size == Least(Len(text), binding.length \div WideChar - 1)
  IN  [data |-> Data(SubSeq(text, 1, size), 0), ind |-> size * WideChar]

FetchFixed(data, cell) == [cell EXCEPT !.data = data]

\* fetchValue chooses the fetch by the type of the binding, the readers of the catalog by the
\* value's, with FetchVarchar for any binding of a text that is not of wide characters.
Fetched(data, binding, cell) ==
  CASE binding.type = "CHAR" -> FetchVarchar(data.text, binding)
    [] binding.type = "WCHAR" -> FetchWVarchar(data.text, binding)
    [] OTHER -> FetchFixed(data, cell)

FetchedAsIs(value, binding, cell) ==
  IF value.kind = "string"
  THEN IF binding.type = "WCHAR" THEN FetchWVarchar(value.text, binding) ELSE FetchVarchar(value.text, binding)
  ELSE FetchFixed(Data(<< >>, value.number), cell)

-----------------------------------------------------------------------------
(***************************************************************************)
(* The types of Hive as SQLDescribeCol and SQLColAttribute report them,    *)
(* from Driver's table, and the C type an application binds for a type of  *)
(* SQL; the SQL type that SQLColumns reports for a field of a schema.      *)
(***************************************************************************)
DataType(sqlType, size, octetLength) ==
  [SQL_DESC_TYPE |-> sqlType, SQL_DESC_LENGTH |-> size, SQL_DESC_OCTET_LENGTH |-> octetLength,
   SQL_DESC_NULLABLE |-> 1]

\* Of the maps only map<string,string> is a type; the size of a string is 2^16 - 1.
DataTypes == [
  boolean |-> DataType("SQL_BIT", 1, 1), binary |-> DataType("SQL_BINARY", 0, 0),
  double |-> DataType("SQL_DOUBLE", 0, 8), float |-> DataType("SQL_REAL", 0, 4),
  int |-> DataType("SQL_BIGINT", 0, 4), bigint |-> DataType("SQL_BIGINT", 0, 20),
  string |-> DataType("SQL_CHAR", 65535, 0), map |-> DataType("SQL_CHAR", 0, 0),
  timestamp |-> DataType("SQL_TIMESTAMP", 0, 0), date |-> DataType("SQL_DATE", 0, 0)]

DefaultCType == [
  SQL_BIT |-> "BIT", SQL_BINARY |-> "BINARY", SQL_DOUBLE |-> "DOUBLE", SQL_REAL |-> "FLOAT",
  SQL_BIGINT |-> "SBIGINT", SQL_CHAR |-> "CHAR", SQL_TIMESTAMP |-> "TIMESTAMP",
  SQL_DATE |-> "DATE"]

SchemaTypes == [
  boolean |-> "SQL_BIT", bytes |-> "SQL_BINARY", double |-> "SQL_DOUBLE", float |-> "SQL_REAL",
  int |-> "SQL_INTEGER", long |-> "SQL_BIGINT", string |-> "SQL_VARCHAR"]

\* getDataType of a field: the first type of a union counts.
GetDataType(type) ==
  IF type \in DOMAIN SchemaTypes THEN SchemaTypes[type] ELSE "SQL_UNKNOWN_TYPE"
=============================================================================
