-------------------------- MODULE ConnectionParams --------------------------
(***************************************************************************)
(* Connection strings and the parameters read from them                    *)
(* (ConnectionParams.cpp, SecureString).                                   *)
(*                                                                         *)
(* A text is a word with what the code can tell about it: whether it is    *)
(* written in capitals (_wcsicmp ignores that), whether blanks surround it *)
(* (trim removes them), and how many '=' signs follow it (a token in       *)
(* base 64 may end in one or two).  A connection string is the sequence of *)
(* its "key=value" items.                                                  *)
(***************************************************************************)
EXTENDS Integers, Sequences

CONSTANTS Words,    \* of the texts
          Number,   \* what _wtoi makes of a word; Overflow when it sets errno
          Overflow,
          Invalid   \* the result of a parse that throws invalid_argument

NoWord == ""

\* A number is written with a word, and so is the port that is the default.
ASSUME NumberAssumption ==
  /\ Number \in [DOMAIN Number -> Int \cup {Overflow}] /\ Overflow \notin Int
  /\ DOMAIN Number \subseteq Words \ {NoWord}
  /\ \E w \in DOMAIN Number : Number[w] = 10000

Texts == {t \in [word : Words, capitals : BOOLEAN, blanks : BOOLEAN, equals : Nat] :
            t.word = NoWord => ~t.capitals}
Items == [key : Texts, value : Texts]

Text(w) == [word |-> w, capitals |-> FALSE, blanks |-> FALSE, equals |-> 0]
Empty == Text(NoWord)

\* size() > 0
NonEmpty(t) == t.word # NoWord \/ t.blanks \/ t.equals > 0

\* _wcsicmp
EqualText(a, b) == [a EXCEPT !.capitals = FALSE] = [b EXCEPT !.capitals = FALSE]

\* String::trim leaves a text of nothing but blanks as it is.
Trim(t) == IF t.word = NoWord /\ t.equals = 0 THEN t ELSE [t EXCEPT !.blanks = FALSE]

\* String::split(item, '='): getline yields no last part when the item ends
\* with the delimiter, and one empty part for each further '='.
Split(item) ==
  LET value == item.value
      plain == [value EXCEPT !.equals = 0]
  IN  <<item.key>> \o (IF value.equals > 0
                       THEN <<plain>> \o [i \in 1..(value.equals - 1) |-> Empty]
                       ELSE IF NonEmpty(plain) THEN <<plain>> ELSE << >>)

\* The constructor ConnectionParams().  The fields are named as the keys are.
Default ==
  [driver |-> Empty, dsn |-> Empty, host |-> Empty, port |-> 10000, auth_token |-> Empty,
   namespace |-> Text("default"), ssl_enabled |-> FALSE, verify_ssl_cert |-> TRUE]

Booleans == {"ssl_enabled", "verify_ssl_cert"}

ASSUME WordAssumption ==
  DOMAIN Default \cup {NoWord, "default", "true", "false"} \subseteq Words

\* parseBool and parseInt; the other parameters are kept as they are written.
Convert(field, t) ==
  CASE field = "port" -> IF t.word \in DOMAIN Number
                         THEN IF Number[t.word] = Overflow THEN Invalid ELSE Number[t.word]
                         ELSE 0
    [] field \in Booleans -> IF EqualText(t, Text("true")) THEN TRUE
                             ELSE IF EqualText(t, Text("false")) THEN FALSE ELSE Invalid
    [] OTHER -> t

\* The key and the value of an item of two parts.
KeyOf(item) == Trim(Split(item)[1])
ValueOf(item) == Convert(KeyOf(item).word, Trim(Split(item)[2]))

\* What makes parse() throw.
Malformed(item) == Len(Split(item)) # 2 \/ ~NonEmpty(KeyOf(item)) \/ ValueOf(item) = Invalid

\* The loop of parse(): a key that is no parameter is ignored, and of two
\* items with one key the later counts.
Parse(string) ==
  IF \E i \in DOMAIN string : Malformed(string[i]) THEN Invalid
  ELSE [f \in DOMAIN Default |->
          LET items == {i \in DOMAIN string : KeyOf(string[i]).word = f}
          IN  IF items = {} THEN Default[f]
              ELSE ValueOf(string[CHOOSE i \in items : \A j \in items : j <= i])]

Item(key, value) == [key |-> [Text(key) EXCEPT !.capitals = TRUE], value |-> value]
When(condition, item) == IF condition THEN <<item>> ELSE << >>

\* getFullConnectionString(): the data source name is not written.
FullConnectionString(p) ==
     When(NonEmpty(p.driver), Item("driver", p.driver))
  \o <<Item("host", p.host)>>
  \o When(p.port > 0, Item("port", Text(CHOOSE w \in DOMAIN Number : Number[w] = p.port)))
  \o When(NonEmpty(p.auth_token), Item("auth_token", p.auth_token))
  \o When(~EqualText(p.namespace, Text("default")), Item("namespace", p.namespace))
  \o When(p.ssl_enabled, Item("ssl_enabled", Text("true")))
  \o When(~p.verify_ssl_cert, Item("verify_ssl_cert", Text("false")))

\* operator==
EqualParams(p, q) ==
  /\ \A f \in DOMAIN p \ {"host", "namespace"} : p[f] = q[f]
  /\ EqualText(p.host, q.host)
  /\ EqualText(p.namespace, q.namespace)

\* Mutants of SameServer: the port is not compared; the case of the host is.
SameServerAnyPort(p, q) == EqualText(p.host, q.host)
SameServerExact(p, q) == p.host = q.host /\ p.port = q.port

\* ConnectionPool::keysEqual and ConnectionInfo::canReuse compare these two.
SameServer(p, q) == EqualText(p.host, q.host) /\ p.port = q.port
=============================================================================
