------------------------------ MODULE Catalog ------------------------------
(***************************************************************************)
(* What an application sees of a statement's results: the tables and their *)
(* columns, which the readers make of the server's streams and datasets,   *)
(* and the values that a fetch writes into the buffers it bound.           *)
(*                                                                         *)
(* The server's objects change while the application looks at them.  Hive  *)
(* knows an object by another name than the server, and the statement maps *)
(* the names it has shown back when SQLColumns is called.  Statements are  *)
(* synchronous here, and one call is one step but for the two requests of  *)
(* SQLTables.                                                              *)
(***************************************************************************)
EXTENDS Values, SequencesExt, Functions

CONSTANTS
  Streams, Datasets,   \* the objects the server may have: [name, schema] with the schema
                       \* a sequence of fields, or NoSchema
  OtherTables,         \* names an application may use that SQLTables does not show
  QueryColumns,        \* the Hive types of the columns of the queries
  QueryRows,           \* the rows of the queries
  Bindings,            \* the bindings [column, type, length] an application makes
  MaxChanges, MaxCalls \* bounds on the changes of the server and on the calls

NoSchema == << >>

\* A field of a schema; the name of its type is one character.
Fields == [name : Texts, type : Characters, nullable : BOOLEAN]

\* What the server returns for a column of a type of Hive.
Conforms(value, type) ==
  value # Null =>
    CASE type = "boolean" -> value.kind = "boolean"
      [] type \in {"float", "double", "int", "bigint"} -> value.kind \in Numeric
      [] type = "timestamp" -> value.kind = "string" /\ value.parts \in {3, 7}
      [] type = "date" -> value.kind = "string" /\ value.parts = 3
      [] OTHER -> TRUE

\* The lengths of buffers are taken on trust: a buffer for a text has room for its end.
ASSUME CatalogAssumption ==
  /\ MaxChanges \in Nat /\ MaxCalls \in Nat
  /\ {"stream_", "dataset_", "_", "t", "h", "b", "T", "Y", "N", "string", "length"} \subseteq Characters
  /\ \A o \in Streams \cup Datasets : o.name \in Texts /\ o.schema \in Seq(Fields)
  /\ \A b \in Bindings : b.length \in Nat /\ b.length >= (IF b.type = "WCHAR" THEN WideChar ELSE 1)
  /\ OtherTables \subseteq Texts

\* The rows of a query are those of its columns.
ASSUME QueryAssumption ==
  /\ QueryRows \in Seq(Seq(JsonValues))
  /\ \A i \in DOMAIN QueryRows :
       /\ Len(QueryRows[i]) = Len(QueryColumns)
       /\ \A c \in DOMAIN QueryRows[i] : Conforms(QueryRows[i][c], QueryColumns[c])

VARIABLES
  streams, datasets,   \* the server's objects, in the order it lists them
  tableNames,          \* the statement's map from the names of Hive to the server's
  dataReader,
  columnBindings,      \* a sequence: bindings are written in this order
  cells,               \* column -> the application's buffer and indicator
  result,              \* what the last SQLFetch returned
  cleared,             \* the application had reset its indicators before it
  shown,               \* history: the tables shown since the last SQLTables
  changes, calls       \* counters

serverVars == <<streams, datasets, changes>>
historyVars == <<result, cleared, shown>>
vars == <<serverVars, tableNames, dataReader, columnBindings, cells, historyVars, calls>>

-----------------------------------------------------------------------------
(***************************************************************************)
(* Names.  A Hive name starts with the kind of the object, as one          *)
(* character here, and has '_' for '-'.                                    *)
(***************************************************************************)
Underscored(name) == [i \in DOMAIN name |-> IF name[i] = "-" THEN "_" ELSE name[i]]
HiveName(kind, name) == <<kind>> \o Underscored(name)
IsStream(hiveName) == hiveName[1] = "stream_"

\* find_first_of looks for any of the characters.  A name that starts with one of them and
\* not with the prefix loses as many characters, or is too short.
InStream == {"s", "t", "r", "e", "a", "m", "_"}
InDataset == {"d", "a", "t", "s", "e", "_"}
TooShort == <<"too short">>
Cut(name, n) == IF n > Len(name) THEN TooShort ELSE SubSeq(name, n + 1, Len(name))

Guess(hiveName) ==
  CASE hiveName[1] \in {"stream_", "dataset_"} -> Tail(hiveName)
    [] hiveName[1] \in InStream -> Cut(hiveName, 7)
    [] hiveName[1] \in InDataset \ InStream -> Cut(hiveName, 8)
    [] OTHER -> hiveName

GetRealName(hiveName) ==
  IF hiveName \in DOMAIN tableNames THEN tableNames[hiveName] ELSE Guess(hiveName)

-----------------------------------------------------------------------------
(***************************************************************************)
(* The readers.  Each is a table of rows and an index; a row is a function *)
(* from the columns it writes to values, whatever is bound beyond them is  *)
(* left alone.                                                             *)
(***************************************************************************)
NoReader == [kind |-> "none", table |-> << >>, rows |-> << >>, split |-> 0, index |-> 0]
Reader(kind, table, rows, split) ==
  [kind |-> kind, table |-> table, rows |-> rows, split |-> split, index |-> 0]

HasSchema(object) == object.schema # NoSchema

WithSchema(objects) ==
  LET kept[n \in 0..Len(objects)] ==
        IF n = 0 THEN << >>
        ELSE IF HasSchema(objects[n]) THEN Append(kept[n - 1], objects[n]) ELSE kept[n - 1]
  IN  kept[Len(objects)]

\* The object a row of the tables is about: streams come first.
ObjectName(reader, i) == reader.rows[i].name
KindOf(reader, i) == IF i <= reader.split THEN "stream_" ELSE "dataset_"
TableName(reader, i) == HiveName(KindOf(reader, i), ObjectName(reader, i))

TablesRow(reader, i) ==
  [c \in 1..5 |-> CASE c = 3 -> Text(TableName(reader, i))
                    [] c = 4 -> Text(<<"T">>)
                    [] OTHER -> Null]

\* COLUMN_SIZE and BUFFER_LENGTH, as 0, the size of a number, or the largest int.
LargestInt == LONG_MAX
ColumnSize(type) == IF GetDataType(type) \in {"SQL_CHAR", "SQL_BINARY"} THEN LargestInt ELSE 0
BufferLength(type) ==
  CASE GetDataType(type) = "SQL_BIT" -> 1
    [] GetDataType(type) \in {"SQL_BINARY", "SQL_CHAR"} -> LargestInt
    [] GetDataType(type) \in {"SQL_DOUBLE", "SQL_BIGINT"} -> 8
    [] GetDataType(type) \in {"SQL_REAL", "SQL_INTEGER"} -> 4
    [] OTHER -> 0
Radix(type) == IF GetDataType(type) \in {"SQL_INTEGER", "SQL_DOUBLE"} THEN 2 ELSE 0

\* SQL types are numbers in these rows.
SqlTypes == <<"SQL_UNKNOWN_TYPE", "SQL_BIT", "SQL_BINARY", "SQL_DOUBLE", "SQL_REAL", "SQL_INTEGER",
              "SQL_BIGINT", "SQL_VARCHAR", "SQL_CHAR">>
TypeNumber(type) == CHOOSE n \in DOMAIN SqlTypes : SqlTypes[n] = type
YesNo(yes) == Text(IF yes THEN <<"Y">> ELSE <<"N">>)
Flag(yes) == Integer(IF yes THEN 1 ELSE 0)

ColumnsRow(reader, i) ==
  LET field == reader.rows[i]
  IN  [c \in 1..18 |->
         CASE c = 3 -> Text(reader.table)
           [] c = 4 -> Text(field.name)
           [] c \in {5, 14} -> Integer(TypeNumber(GetDataType(field.type)))
           [] c = 6 -> Text(<<field.type>>)
           [] c = 7 -> Integer(ColumnSize(field.type))
           [] c = 8 -> Integer(BufferLength(field.type))
           [] c = 10 -> IF Radix(field.type) > 0 THEN Integer(Radix(field.type)) ELSE Null
           [] c = 11 -> Flag(field.nullable)
           [] c = 17 -> Integer(i)
           [] c = 18 -> YesNo(field.nullable)
           [] OTHER -> Null]

\* A stream without a schema has three columns of strings.
NoSchemaFields == <<<<"t">>, <<"h">>, <<"b">>>>

NoSchemaColumnsRow(reader, i) ==
  [c \in 1..18 |->
     CASE c = 3 -> Text(reader.table)
       [] c = 4 -> Text(NoSchemaFields[i])
       [] c \in {5, 14} -> Integer(TypeNumber("SQL_CHAR"))
       [] c = 6 -> Text(<<"string">>)
       [] c \in {7, 8} -> Integer(LargestInt)
       [] c = 10 -> Integer(0)
       [] c = 11 -> Flag(TRUE)
       [] c = 17 -> Integer(i)
       [] c = 18 -> YesNo(TRUE)
       [] OTHER -> Null]

TypesRow ==
  [c \in 1..19 |->
     CASE c = 1 -> Text(<<"string">>)
       [] c \in {2, 16} -> Integer(TypeNumber("SQL_VARCHAR"))
       [] c = 3 -> Integer(2000)
       [] c = 6 -> Text(<<"length">>)
       [] c \in {7, 8} -> Integer(1)
       [] c = 9 -> Integer(3)
       [] c = 11 -> Integer(0)
       [] OTHER -> Null]

\* QuerySELECT1DataReader has the value 1 in whatever column is asked for.
Columns == {b.column : b \in Bindings}

Row(reader, i) ==
  CASE reader.kind = "tables" -> TablesRow(reader, i)
    [] reader.kind = "columns" -> ColumnsRow(reader, i)
    [] reader.kind = "no schema" -> NoSchemaColumnsRow(reader, i)
    [] reader.kind = "types" -> TypesRow
    [] reader.kind = "query" -> reader.rows[i]
    [] reader.kind = "select 1" -> [c \in Columns |-> Integer(1)]

\* SQLNumResultCols, SQLDescribeCol, SQLColAttribute.  Nobody may ask for the number of columns
\* after the first fetch; of the readers without rows that of the special columns has 8, that of
\* the schemas 5.  The readers of the catalog have no information on their columns, and the null
\* pointer they return is followed; a type that is not in the table is refused.
Error == "error"
Undefined == "undefined"
NumResultCols(reader) ==
  IF reader.kind \in {"none", "streams", "failed"} \/ reader.index > 0 THEN 0
  ELSE CASE reader.kind = "query" -> Len(QueryColumns)
         [] reader.kind = "select 1" -> 1
         [] reader.kind = "tables" -> 5
         [] reader.kind \in {"columns", "no schema"} -> 18
         [] reader.kind = "types" -> 19
         [] reader.kind = "nothing" -> 8

ColumnInfo(reader, column) ==
  CASE reader.kind = "query" -> QueryColumns[column]
    [] reader.kind = "select 1" -> "int"
    [] OTHER -> Undefined

ColAttribute(reader, column, field) ==
  LET type == ColumnInfo(reader, column)
  IN  CASE type = Undefined -> Undefined
        [] type \in DOMAIN DataTypes /\ field \in DOMAIN DataTypes[type] -> DataTypes[type][field]
        [] OTHER -> Error

DescribeCol(reader, column) ==
  [field \in {"SQL_DESC_TYPE", "SQL_DESC_LENGTH", "SQL_DESC_NULLABLE"} |->
     ColAttribute(reader, column, field)]

NoCell == [data |-> Data(<< >>, 0), ind |-> 0]

Init ==
  /\ streams = << >> /\ datasets = << >>
  /\ tableNames = << >>
  /\ dataReader = NoReader
  /\ columnBindings = << >>
  /\ cells = [c \in Columns |-> NoCell]
  /\ result = "none" /\ cleared = FALSE
  /\ shown = << >>
  /\ changes = 0 /\ calls = 0

-----------------------------------------------------------------------------
(***************************************************************************)
(* Another user of the server creates or drops an object.                  *)
(***************************************************************************)
Names(objects) == {o.name : o \in Range(objects)}

Change(objects, all) ==
  {Append(objects, o) : o \in {o \in all : o.name \notin Names(objects)}}
  \cup {RemoveAt(objects, i) : i \in DOMAIN objects}

ServerChanges ==
  /\ changes < MaxChanges /\ changes' = changes + 1
  /\ \/ streams' \in Change(streams, Streams) /\ UNCHANGED datasets
     \/ datasets' \in Change(datasets, Datasets) /\ UNCHANGED streams
  /\ UNCHANGED <<tableNames, dataReader, columnBindings, cells, historyVars, calls>>

-----------------------------------------------------------------------------
(***************************************************************************)
(* The calls that open a reader.  A statement that is open refuses them.   *)
(***************************************************************************)
Calls == calls < MaxCalls /\ calls' = calls + 1

Open(reader) ==
  /\ dataReader' = reader
  /\ result' = "none" /\ cleared' = FALSE
  /\ UNCHANGED <<serverVars, tableNames, columnBindings, cells>>

\* SQLTables: the streams, and in a second request the datasets with a schema.
GetStreams ==
  /\ Calls /\ dataReader = NoReader
  /\ Open(Reader("streams", << >>, streams, Len(streams)))
  /\ shown' = << >>

GetDatasets ==
  /\ dataReader.kind = "streams"
  /\ Open([dataReader EXCEPT !.kind = "tables", !.rows = @ \o WithSchema(datasets)])
  /\ UNCHANGED <<calls, shown>>

\* SQLColumns of a table that was shown, or of any other name.
Called(objects, name) == {o \in Range(objects) : o.name = name}

FailedReader == Reader("failed", << >>, << >>, 0)

\* A dataset must have a schema.  A stream always has one, which may be a body alone.
ColumnsOf(hiveName, realName) ==
  LET found == Called(IF IsStream(hiveName) THEN streams ELSE datasets, realName)
      fields == (CHOOSE o \in found : TRUE).schema
  IN  IF found = {} \/ fields = NoSchema THEN FailedReader
      ELSE IF IsStream(hiveName) /\ Len(fields) = 1 /\ fields[1].name = <<"b">>
           THEN Reader("no schema", hiveName, NoSchemaFields, 0)
           ELSE Reader("columns", hiveName, fields, 0)

\* A name that is too short leaves the statement as it is; one that the server does not know
\* leaves it with a command, to be closed.
GetColumns ==
  /\ Calls /\ dataReader = NoReader
  /\ \E hiveName \in {row.hiveName : row \in Range(shown)} \cup OtherTables :
       LET realName == GetRealName(hiveName)
       IN  Open(IF realName = TooShort THEN NoReader ELSE ColumnsOf(hiveName, realName))
  /\ UNCHANGED shown

GetDataTypes ==
  /\ Calls /\ dataReader = NoReader
  /\ Open(Reader("types", << >>, <<"string">>, 0))
  /\ UNCHANGED shown

\* SQLSpecialColumns, and SQLTables for the schemas, have no rows.
GetNothing ==
  /\ Calls /\ dataReader = NoReader
  /\ Open(Reader("nothing", << >>, << >>, 0))
  /\ UNCHANGED shown

Execute ==
  /\ Calls /\ dataReader = NoReader
  /\ \/ Open(Reader("query", << >>, QueryRows, 0))
     \/ Open(Reader("select 1", << >>, <<1>>, 0))
  /\ UNCHANGED shown

\* SQLFreeStmt(SQL_CLOSE): the bindings and the names stay.
CloseStmt ==
  /\ dataReader.kind \notin {"none", "streams"}
  /\ Open(NoReader)
  /\ UNCHANGED <<calls, shown>>

-----------------------------------------------------------------------------
(***************************************************************************)
(* SQLBindCol and SQLFreeStmt(SQL_UNBIND).  A column is bound once; the    *)
(* place of its first binding is kept.  A result read to its end takes no  *)
(* more bindings.                                                          *)
(***************************************************************************)
AtEnd == dataReader.index > Len(dataReader.rows)

Rebound(b) ==
  IF \E i \in DOMAIN columnBindings : columnBindings[i].column = b.column
  THEN [i \in DOMAIN columnBindings |->
          IF columnBindings[i].column = b.column THEN b ELSE columnBindings[i]]
  ELSE Append(columnBindings, b)

Bind(bindings) ==
  /\ dataReader.kind # "streams"
  /\ columnBindings' = bindings
  /\ result' = "none" /\ cleared' = FALSE
  /\ UNCHANGED <<serverVars, tableNames, dataReader, cells, shown>>

BindCol == Calls /\ ~AtEnd /\ \E b \in Bindings : Bind(Rebound(b))

Unbind == dataReader.index = 0 /\ columnBindings # << >> /\ Bind(<< >>) /\ UNCHANGED calls

-----------------------------------------------------------------------------
(***************************************************************************)
(* SQLFetch: the next row is written binding by binding.  An exception     *)
(* leaves the cells of the later bindings as they were.  To read the name  *)
(* of a table stores it in the map.                                        *)
(***************************************************************************)
IsQuery(reader) == reader.kind \in {"query", "select 1"}
ValueOf(reader, b) == Row(reader, reader.index)[b.column]

\* A reader of the catalog leaves alone what is bound beyond its columns.
Touched(reader, b) == b.column \in DOMAIN Row(reader, reader.index)

Throws(reader, b) ==
  /\ IsQuery(reader)
  /\ ~Touched(reader, b) \/ (ValueOf(reader, b) # Null /\ Convert(ValueOf(reader, b), b) = Refused)

GetColumnValue(reader, b, cell) ==
  LET value == ValueOf(reader, b)
  IN  IF value = Null THEN FetchNull(cell)
      ELSE CASE IsQuery(reader) -> Fetched(Convert(value, b), b, cell)
             [] reader.kind = "types" /\ value.kind = "string" -> FetchVarchar(value.text, b)
             [] OTHER -> FetchedAsIs(value, b, cell)

\* The bindings that are written: those before the first that throws.
WrittenPastErrors(reader) == {i \in DOMAIN columnBindings : Touched(reader, columnBindings[i])}

Written(reader) ==
  {i \in DOMAIN columnBindings :
     /\ Touched(reader, columnBindings[i])
     /\ \A k \in 1..i : ~Throws(reader, columnBindings[k])}

Cells(reader, before) ==
  [c \in Columns |->
     LET bound == {i \in Written(reader) : columnBindings[i].column = c}
     IN  IF bound = {} THEN before[c]
         ELSE GetColumnValue(reader, columnBindings[CHOOSE i \in bound : TRUE], before[c])]

\* The application may reset its indicators before a fetch.
Before(reset) == IF reset THEN [c \in Columns |-> [cells[c] EXCEPT !.ind = 0]] ELSE cells

NameIsBound == \E i \in DOMAIN columnBindings : columnBindings[i].column = 3

\* getTableName, with insert_or_assign.
RememberFirst(reader) ==
  [hiveName \in DOMAIN tableNames \cup {TableName(reader, reader.index)} |->
     IF hiveName \in DOMAIN tableNames THEN tableNames[hiveName] ELSE ObjectName(reader, reader.index)]

Remember(reader) ==
  [hiveName \in DOMAIN tableNames \cup {TableName(reader, reader.index)} |->
     IF hiveName = TableName(reader, reader.index) THEN ObjectName(reader, reader.index)
     ELSE tableNames[hiveName]]

ShownRow(reader) ==
  [hiveName |-> TableName(reader, reader.index), kind |-> KindOf(reader, reader.index),
   name |-> ObjectName(reader, reader.index)]

ReadTable(reader) ==
  IF reader.kind = "tables" /\ NameIsBound
  THEN tableNames' = Remember(reader) /\ shown' = Append(shown, ShownRow(reader))
  ELSE UNCHANGED <<tableNames, shown>>

HasNext == dataReader.index < Len(dataReader.rows)
IsOpen == dataReader.kind \notin {"none", "streams", "failed"} /\ ~AtEnd

FetchRow ==
  /\ IsOpen /\ HasNext
  /\ LET reader == [dataReader EXCEPT !.index = @ + 1]
     IN  /\ dataReader' = reader
         /\ cleared' \in BOOLEAN
         /\ cells' = Cells(reader, Before(cleared'))
         /\ result' = IF \E i \in DOMAIN columnBindings : Throws(reader, columnBindings[i])
                      THEN "error" ELSE "row"
         /\ ReadTable(reader)
  /\ UNCHANGED <<serverVars, columnBindings, calls>>

FetchEnd ==
  /\ IsOpen /\ ~HasNext
  /\ dataReader' = [dataReader EXCEPT !.index = @ + 1]
  /\ result' = "noData" /\ cleared' = FALSE
  /\ UNCHANGED <<serverVars, tableNames, columnBindings, cells, shown, calls>>

Next ==
  \/ ServerChanges
  \/ GetStreams \/ GetDatasets \/ GetColumns \/ GetDataTypes \/ GetNothing \/ Execute
  \/ BindCol \/ Unbind \/ FetchRow \/ FetchEnd \/ CloseStmt

Spec == Init /\ [][Next]_vars

-----------------------------------------------------------------------------
(***************************************************************************)
(* Properties.                                                             *)
(***************************************************************************)

\* Type invariant: the map of names leads to names of objects, data that a conversion refused
\* is never written, and an indicator is NULL or a length (Statement, DataReader::fetchValue).
TypeOK ==
  /\ dataReader.index \in 0..(Len(dataReader.rows) + 1)
  /\ Range(tableNames) \subseteq {o.name : o \in Streams \cup Datasets}
  /\ columnBindings \in Seq(Bindings)
  /\ \A c \in Columns : cells[c].ind >= SQL_NULL_DATA /\ cells[c].data # Refused
  /\ result \in {"none", "row", "noData", "error"}

\* A table that SQLTables has shown is the one whose columns SQLColumns returns, whatever was
\* shown by the same name before and whatever the server's objects are by then, unless two
\* objects of one list share the name in Hive (TablesDataReader::getTableName, getRealName).
Unambiguous(row) == \A other \in Range(shown) : other.hiveName = row.hiveName => other = row
Schemas(row) ==
  {o.schema : o \in {o \in IF row.kind = "stream_" THEN Streams ELSE Datasets : o.name = row.name}}

TablesResolve ==
  \A row \in {row \in Range(shown) : Unambiguous(row)} :
    /\ GetRealName(row.hiveName) = row.name
    /\ dataReader.kind = "columns" /\ dataReader.table = row.hiveName =>
         dataReader.rows \in Schemas(row)

\* After a fetch every bound column shows the value of this row and of no earlier one: a text as
\* far as the buffer holds it with its terminator and its length in bytes, NULL exactly for
\* null.  The indicator of a number is right only if the application had reset it
\* (DataReader's fetches).
Fits(cell, full, unit, length) ==
  LET n == Len(cell.data.text)
  IN  /\ cell.ind = n * unit /\ (n + 1) * unit <= length
      /\ IsPrefix(cell.data.text, full)
      /\ n < Len(full) => (n + 2) * unit > length

Shows(reader, reset, cell, b) ==
  LET value == ValueOf(reader, b)
      data == IF IsQuery(reader) THEN Convert(value, b) ELSE Data(value.text, value.number)
      isText == b.type \in CharTypes /\ (IsQuery(reader) \/ value.kind = "string")
      isNumber == IF IsQuery(reader) THEN b.type \notin CharTypes ELSE value.kind = "integer"
      isWide == b.type = "WCHAR" /\ reader.kind # "types"
  IN  IF value = Null THEN cell.ind = SQL_NULL_DATA
      ELSE /\ isText => IF isWide THEN Fits(cell, data.text, WideChar, b.length)
                        ELSE Fits(cell, Utf8(data.text), 1, b.length)
           /\ isNumber => cell.data = data /\ (reset => cell.ind # SQL_NULL_DATA)

\* A column of a query that is bound as the driver describes it is always fetched, but for the
\* types binary and float, which no fetch writes (SQLDescribeColW, DataReader::fetchValue).
Described(reader, b) ==
  /\ b.column \in 1..NumResultCols([reader EXCEPT !.index = 0])
  /\ LET type == DescribeCol(reader, b.column).SQL_DESC_TYPE
     IN  /\ type \in DOMAIN DefaultCType /\ b.type = DefaultCType[type]
         /\ b.type \notin {"BINARY", "FLOAT"}

CellsDescribed ==
  /\ result = "row" =>
       \A i \in DOMAIN columnBindings :
         LET b == columnBindings[i]
         IN  Touched(dataReader, b) => Shows(dataReader, cleared, cells[b.column], b)
  /\ result = "error" =>
       \E i \in DOMAIN columnBindings : ~Described(dataReader, columnBindings[i])
=============================================================================
