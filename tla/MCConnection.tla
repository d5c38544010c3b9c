---------------------------- MODULE MCConnection ----------------------------
(***************************************************************************)
(* Instances of Connection for TLC.  The strings name one server in two    *)
(* spellings, with two namespaces and a data source, and the server with   *)
(* port 0; one names no host, one is malformed and one is empty.           *)
(***************************************************************************)
EXTENDS Connection, TLC

CONSTANTS c1, t1

MCWords ==
  {"", "default", "true", "false", "cdap", "source", "ns", "token", "10000", "0", "big"}
  \cup DOMAIN Default
MCNumber == ("10000" :> 10000) @@ ("0" :> 0) @@ ("big" :> Overflow)

Key(w) == Text(w)
Caps(w) == [Text(w) EXCEPT !.capitals = TRUE]
Pair(key, value) == [key |-> key, value |-> value]

Plain == <<Pair(Caps("host"), Text("cdap"))>>
DataSource == <<Pair(Caps("dsn"), Text("source")), Pair(Key("host"), Caps("cdap")),
                Pair(Key("namespace"), [Text("ns") EXCEPT !.blanks = TRUE])>>
PortZero == <<Pair(Key("host"), Text("cdap")), Pair(Key("port"), Text("0"))>>
TokenInBase64 == <<Pair(Caps("dsn"), Text("source")),
                   Pair(Key("auth_token"), [Text("token") EXCEPT !.equals = 2])>>

NoHost == <<Pair(Key("namespace"), Text("ns"))>>

MCDirect == {DataSource, TokenInBase64, NoHost, << >>}
MCPooled == {Plain, DataSource, PortZero}
MCTyped == {[host |-> Text("cdap"), auth_token |-> Empty]}
=============================================================================
