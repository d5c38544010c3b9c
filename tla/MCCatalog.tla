----------------------------- MODULE MCCatalog -----------------------------
(***************************************************************************)
(* Instances of Catalog for TLC: objects whose names are one in Hive, a    *)
(* dataset without a schema, a stream without one, names that the guess    *)
(* cuts, values and buffers that do not fit each other.                    *)
(***************************************************************************)
EXTENDS Catalog

Field(name, type, nullable) == [name |-> name, type |-> type, nullable |-> nullable]
Object(name, schema) == [name |-> name, schema |-> schema]

MCCharacters ==
  {"0", "1", "2", "3", "4", "5", "6", "7", "8", "9", "-", "_", " ", "+",
   "stream_", "dataset_", "a", "b", "c", "d", "e", "f", "g", "h", "i", "m", "t", "u", "x", "y", "z",
   "T", "Y", "N", "string", "length", "long", "int", "double"}

MCStreams ==
  {Object(<<"a", "-", "b">>, <<Field(<<"f">>, "long", FALSE), Field(<<"g">>, "int", TRUE)>>),
   Object(<<"a", "_", "b">>, <<Field(<<"b">>, "string", FALSE)>>)}
MCDatasets ==
  {Object(<<"a", "-", "b">>, <<Field(<<"h">>, "double", TRUE)>>), Object(<<"c">>, NoSchema)}

MCOtherTables == {<<"dataset_", "c">>, <<"stream_", "a", "-", "b">>, <<"e", "m">>, <<"i", "d">>}

MCQueryColumns == <<"timestamp", "bigint", "string", "float">>
MCQueryRows ==
  <<<<Null, Integer(300), Text(<<"x", "e", "x">>), Double(1)>>,
    <<Timestamp(<<"t">>, 7, 5), Null, Text(<<"x", "y", "z", "e">>), Null>>,
    <<Timestamp(<<"u">>, 7, 12), Integer(7), Null, Double(2)>>>>

Binding(column, type, length) == [column |-> column, type |-> type, length |-> length]
MCBindings ==
  {Binding(1, "TIMESTAMP", 16), Binding(2, "SBIGINT", 8),
   Binding(3, "CHAR", 4), Binding(3, "WCHAR", 6), Binding(4, "FLOAT", 4),
   Binding(4, "CHAR", 4), Binding(10, "SSHORT", 2)}
=============================================================================
