-------------------------- MODULE ConnectionProofs --------------------------
(***************************************************************************)
(* Theorems about Connection, for any connections, strings and clients,    *)
(* any schedule of the asynchronous opens and any number of calls: what an *)
(* open asked for is what the connection serves, and a pooled connection   *)
(* goes to who asks for the same thing.  They rest on the round trip of    *)
(* the connection string: what is written and read again says the same.    *)
(***************************************************************************)
EXTENDS Connection, SequenceTheorems, WellFoundedInduction, TLAPS

-----------------------------------------------------------------------------
(***************************************************************************)
(* Reading a written string.                                               *)
(***************************************************************************)
\* The items of a string, and that no two of them have one key.
ItemsOf(s) == {s[i] : i \in DOMAIN s}
Distinct(s) == \A i, j \in DOMAIN s : s[i].key.word = s[j].key.word => i = j

LEMMA WhenItems ==
  ASSUME NEW s \in Seq(Items), NEW condition \in BOOLEAN, NEW item \in Items,
         Distinct(s), \A x \in ItemsOf(s) : x.key.word # item.key.word
  PROVE  LET u == s \o When(condition, item)
         IN  /\ u \in Seq(Items) /\ Distinct(u)
             /\ ItemsOf(u) = ItemsOf(s) \cup (IF condition THEN {item} ELSE {})
<1> DEFINE w == When(condition, item)
           u == s \o w
<1>1. /\ w \in Seq(Items) /\ u \in Seq(Items) /\ Len(u) = Len(s) + Len(w)
      /\ \A i \in 1..Len(u) : u[i] = IF i <= Len(s) THEN s[i] ELSE w[i - Len(s)]
  BY ConcatProperties DEF When
<1>2. Len(s) \in Nat /\ DOMAIN s = 1..Len(s) /\ DOMAIN u = 1..Len(u)
  BY <1>1, LenProperties
<1>3. CASE ~condition
  <2>1. Len(w) = 0
    BY <1>3 DEF When
  <2>2. DOMAIN u = DOMAIN s /\ \A i \in DOMAIN s : u[i] = s[i]
    BY <1>1, <1>2, <2>1
  <2> QED BY <1>1, <1>3, <2>2 DEF Distinct, ItemsOf
<1>4. CASE condition
  <2>1. Len(w) = 1 /\ w[1] = item
    BY <1>4 DEF When
  <2>2. /\ DOMAIN u = DOMAIN s \cup {Len(s) + 1}
        /\ \A i \in DOMAIN s : u[i] = s[i]
        /\ u[Len(s) + 1] = item
    BY <1>1, <1>2, <2>1
  <2>3. ItemsOf(u) = ItemsOf(s) \cup {item}
    <3>1. ItemsOf(u) \subseteq ItemsOf(s) \cup {item}
      BY <2>2 DEF ItemsOf
    <3>2. ItemsOf(s) \subseteq ItemsOf(u) /\ item \in ItemsOf(u)
      BY <2>2 DEF ItemsOf
    <3> QED BY <3>1, <3>2
  <2>4. Distinct(u)
    <3> SUFFICES ASSUME NEW i \in DOMAIN u, NEW j \in DOMAIN u, u[i].key.word = u[j].key.word
                 PROVE  i = j
      BY DEF Distinct
    <3>1. \A k \in DOMAIN s : s[k].key.word # item.key.word
      BY DEF ItemsOf
    <3> QED BY <2>2, <3>1 DEF Distinct
  <2> QED BY <1>1, <1>4, <2>3, <2>4
<1> QED BY <1>3, <1>4

\* What a string makes of a parameter it has an item for, or has not.
LEMMA ParseItem ==
  ASSUME NEW s \in Seq(Items), Distinct(s), Parse(s) # Invalid,
         NEW x \in ItemsOf(s), x.key.word \in DOMAIN Default
  PROVE  /\ ~Malformed(x)
         /\ Parse(s)[x.key.word] = ValueOf(x)
<1>1. PICK k \in DOMAIN s : s[k] = x
  BY DEF ItemsOf
<1>2. \A i \in DOMAIN s : ~Malformed(s[i])
  BY DEF Parse
<1>3. \A i \in DOMAIN s : KeyOf(s[i]).word = s[i].key.word
  <2> SUFFICES ASSUME NEW i \in DOMAIN s PROVE KeyOf(s[i]).word = s[i].key.word
    OBVIOUS
  <2>1. s[i] \in Items
    BY ElementOfSeq, LenProperties
  <2>2. s[i].key \in Texts
    BY <2>1 DEF Items
  <2>3. Split(s[i])[1] = s[i].key
    BY <2>1 DEF Split
  <2> QED BY <2>2, <2>3 DEF KeyOf, Trim, Texts
<1>4. {i \in DOMAIN s : KeyOf(s[i]).word = x.key.word} = {k}
  BY <1>1, <1>3 DEF Distinct
<1>5. k \in Int
  BY LenProperties
<1>6. (CHOOSE i \in {k} : \A j \in {k} : j <= i) = k
  BY <1>5
<1>7. Parse(s) = [f \in DOMAIN Default |->
          LET items == {i \in DOMAIN s : KeyOf(s[i]).word = f}
          IN  IF items = {} THEN Default[f]
              ELSE ValueOf(s[CHOOSE i \in items : \A j \in items : j <= i])]
  BY <1>2 DEF Parse
<1> QED BY <1>1, <1>2, <1>4, <1>6, <1>7

LEMMA ParseDefault ==
  ASSUME NEW s \in Seq(Items), Parse(s) # Invalid, NEW f \in DOMAIN Default,
         \A x \in ItemsOf(s) : x.key.word # f
  PROVE  Parse(s)[f] = Default[f]
<1>2. \A i \in DOMAIN s : ~Malformed(s[i])
  BY DEF Parse
<1>3. \A i \in DOMAIN s : KeyOf(s[i]).word = s[i].key.word
  <2> SUFFICES ASSUME NEW i \in DOMAIN s PROVE KeyOf(s[i]).word = s[i].key.word
    OBVIOUS
  <2>1. s[i] \in Items
    BY ElementOfSeq, LenProperties
  <2>2. s[i].key \in Texts
    BY <2>1 DEF Items
  <2>3. Split(s[i])[1] = s[i].key
    BY <2>1 DEF Split
  <2> QED BY <2>2, <2>3 DEF KeyOf, Trim, Texts
<1>4. {i \in DOMAIN s : KeyOf(s[i]).word = f} = {}
  BY <1>3 DEF ItemsOf
<1>7. Parse(s) = [g \in DOMAIN Default |->
          LET items == {i \in DOMAIN s : KeyOf(s[i]).word = g}
          IN  IF items = {} THEN Default[g]
              ELSE ValueOf(s[CHOOSE i \in items : \A j \in items : j <= i])]
  BY <1>2 DEF Parse
<1> QED BY <1>4, <1>7

\* What an item says when it is not malformed: a text without blanks around it.
Clean(t) == t \in Texts /\ t.equals = 0 /\ (t.word # NoWord => ~t.blanks)

LEMMA ItemValue ==
  ASSUME NEW x \in Items, ~Malformed(x)
  PROVE  Clean(Trim(Split(x)[2])) /\ (NonEmpty(x.value) /\ Clean(x.value) => Trim(Split(x)[2]) = x.value)
         /\ NonEmpty(x.value)
<1> DEFINE v == x.value
           plain == [v EXCEPT !.equals = 0]
<1>1. v \in Texts /\ plain \in Texts /\ plain.equals = 0 /\ x.key \in Texts /\ v.equals \in Nat
  BY DEF Items, Texts
<1>2. Len(Split(x)) = 2
  BY DEF Malformed
<1>3. CASE v.equals > 0
  <2> DEFINE more == [i \in 1..(v.equals - 1) |-> Empty]
  <2>1. Split(x) = <<x.key>> \o (<<plain>> \o more)
    BY <1>3 DEF Split
  <2>2. more \in Seq({Empty})
    BY <1>1, <1>3, IsASeq
  <2>3. Split(x)[2] = plain
    BY <1>1, <1>3, <2>1, <2>2
  <2>4. Clean(Trim(plain))
    <3>1. CASE plain.word = NoWord
      BY <1>1, <3>1 DEF Clean, Trim
    <3>2. CASE plain.word # NoWord
      BY <1>1, <3>2 DEF Clean, Trim, Texts
    <3> QED BY <3>1, <3>2
  <2>5. NonEmpty(v)
    BY <1>3 DEF NonEmpty
  <2>6. ~Clean(v)
    <3> SUFFICES ASSUME Clean(v) PROVE FALSE
      OBVIOUS
    <3>1. v.equals = 0
      BY DEF Clean
    <3> QED BY <1>3, <3>1
  <2> QED BY <2>3, <2>4, <2>5, <2>6
<1>4. CASE v.equals = 0
  <2>1. v = plain
    BY <1>1, <1>4 DEF Texts
  <2>2. NonEmpty(plain) /\ Split(x) = <<x.key>> \o <<plain>>
    <3>1. NonEmpty(plain)
      <4> SUFFICES ASSUME ~NonEmpty(plain) PROVE FALSE
        OBVIOUS
      <4>1. Split(x) = <<x.key>> \o << >>
        BY <1>1, <1>4 DEF Split
      <4> QED BY <1>1, <1>2, <4>1
    <3> QED BY <1>1, <1>4, <3>1 DEF Split
  <2>3. Split(x)[2] = plain
    BY <2>2
  <2>4. Clean(Trim(plain))
    <3>1. CASE plain.word = NoWord
      BY <1>1, <3>1 DEF Clean, Trim
    <3>2. CASE plain.word # NoWord
      BY <1>1, <3>2 DEF Clean, Trim, Texts
    <3> QED BY <3>1, <3>2
  <2>5. Clean(v) => Trim(v) = v
    BY <1>1 DEF Clean, Trim, Texts
  <2>6. NonEmpty(v) /\ Split(x)[2] = v /\ Clean(Trim(v))
    BY <2>1, <2>2, <2>3, <2>4
  <2> HIDE DEF v, plain
  <2>7. Clean(Trim(Split(x)[2])) /\ (Clean(v) => Trim(Split(x)[2]) = v)
    BY <2>5, <2>6
  <2> QED BY <2>6, <2>7 DEF v
<1> QED BY <1>1, <1>3, <1>4

\* A set of positions has a last one.
LEMMA LastPosition ==
  ASSUME NEW n \in Nat, NEW S \in SUBSET (1..n), S # {}
  PROVE  \E i \in S : \A j \in S : j <= i
<1> DEFINE Rest == {n - i : i \in S}
           R == OpToRel(<, Nat)
<1>1. Rest \subseteq Nat /\ Rest # {}
  <2>1. \A i \in S : n - i \in Nat
    OBVIOUS
  <2>2. PICK i \in S : TRUE
    OBVIOUS
  <2>3. n - i \in Rest
    BY <2>2
  <2> QED BY <2>1, <2>3
<1>2. IsWellFoundedOn(R, Nat)
  BY NatLessThanWellFounded
<1>3. PICK x \in Rest : \A y \in Rest : ~(<<y, x>> \in R)
  <2> HIDE DEF R, Rest
  <2> QED BY <1>1, <1>2, WFMin
<1>4. \A y \in Rest : ~(y < x)
  <2> SUFFICES ASSUME NEW y \in Rest, y < x PROVE FALSE
    OBVIOUS
  <2>1. <<y, x>> \in R
    BY <1>1 DEF OpToRel
  <2> QED BY <1>3, <2>1
<1>5. PICK i \in S : x = n - i
  OBVIOUS
<1>6. \A j \in S : j <= i
  BY <1>4, <1>5
<1> QED BY <1>6

\* What a parse yields, when it yields something.
ReadShape(p) ==
  /\ DOMAIN p = DOMAIN Default
  /\ \A f \in {"driver", "dsn", "host", "auth_token", "namespace"} : Clean(p[f])
  /\ p.port \in Int /\ (p.port > 0 => \E w \in DOMAIN Number : Number[w] = p.port)
  /\ \A f \in Booleans : p[f] \in BOOLEAN

LEMMA DefaultShape == ReadShape(Default)
<1>1. Clean(Empty) /\ Clean(Text("default"))
  <2>1. ASSUME NEW w \in Words PROVE Clean(Text(w))
    <3> DEFINE t == Text(w)
    <3>1. t \in Texts /\ t.equals = 0
      BY DEF Text, Texts
    <3>2. ~t.blanks
      BY DEF Text
    <3> QED BY <3>1, <3>2 DEF Clean
  <2>2. NoWord \in Words /\ "default" \in Words
    BY WordAssumption
  <2> QED BY <2>1, <2>2 DEF Empty
<1>2. /\ Default.driver = Empty /\ Default.dsn = Empty /\ Default.host = Empty
      /\ Default.auth_token = Empty /\ Default.namespace = Text("default")
      /\ Default.port = 10000
  BY DEF Default
<1>3. \A f \in {"driver", "dsn", "host", "auth_token", "namespace"} : Clean(Default[f])
  BY <1>1, <1>2
<1>4. Default["ssl_enabled"] \in BOOLEAN /\ Default["verify_ssl_cert"] \in BOOLEAN
  BY DEF Default
<1>5. \A f \in Booleans : Default[f] \in BOOLEAN
  BY <1>4 DEF Booleans
<1>6. \E w \in DOMAIN Number : Number[w] = Default.port
  BY <1>2, NumberAssumption
<1>7. Default.port \in Int
  BY <1>2
<1> QED BY <1>3, <1>5, <1>6, <1>7 DEF ReadShape

LEMMA ParseShape ==
  ASSUME NEW s \in Seq(Items), Parse(s) # Invalid
  PROVE  ReadShape(Parse(s))
<1>1. \A i \in DOMAIN s : ~Malformed(s[i])
  BY DEF Parse
<1> DEFINE Chosen(f) == {i \in DOMAIN s : KeyOf(s[i]).word = f}
           Last(f) == CHOOSE i \in Chosen(f) : \A j \in Chosen(f) : j <= i
<1>2. Parse(s) = [f \in DOMAIN Default |->
                    IF Chosen(f) = {} THEN Default[f] ELSE ValueOf(s[Last(f)])]
  BY <1>1 DEF Parse
<1>3. ASSUME NEW f \in DOMAIN Default, Chosen(f) # {}
      PROVE  \E i \in DOMAIN s : KeyOf(s[i]).word = f /\ Parse(s)[f] = ValueOf(s[i])
  <2>1. Chosen(f) \in SUBSET (1..Len(s)) /\ Len(s) \in Nat
    BY LenProperties
  <2>2. \E i \in Chosen(f) : \A j \in Chosen(f) : j <= i
    <3> HIDE DEF Chosen
    <3> QED BY <1>3, <2>1, LastPosition
  <2>3. Last(f) \in Chosen(f)
    BY <2>2
  <2> QED BY <1>2, <1>3, <2>3
<1>4. ASSUME NEW f \in DOMAIN Default, Parse(s)[f] # Default[f]
      PROVE  \E x \in Items : ~Malformed(x) /\ KeyOf(x).word = f /\ Parse(s)[f] = ValueOf(x)
  <2>1. PICK i \in DOMAIN s : KeyOf(s[i]).word = f /\ Parse(s)[f] = ValueOf(s[i])
    BY <1>2, <1>3, <1>4
  <2>2. s[i] \in Items
    BY ElementOfSeq, LenProperties
  <2> QED BY <1>1, <2>1, <2>2
<1>5. DOMAIN Parse(s) = DOMAIN Default
  BY <1>2
<1>6. ASSUME NEW f \in {"driver", "dsn", "host", "auth_token", "namespace"}
      PROVE  Clean(Parse(s)[f])
  <2>1. f \in DOMAIN Default
    BY DEF Default
  <2>2. CASE Parse(s)[f] = Default[f]
    BY <2>2, DefaultShape DEF ReadShape
  <2>3. CASE Parse(s)[f] # Default[f]
    <3>1. PICK x \in Items : ~Malformed(x) /\ KeyOf(x).word = f /\ Parse(s)[f] = ValueOf(x)
      BY <1>4, <2>1, <2>3
    <3>2. ValueOf(x) = Trim(Split(x)[2])
      BY <3>1 DEF ValueOf, Convert, Booleans
    <3> QED BY <3>1, <3>2, ItemValue
  <2> QED BY <2>2, <2>3
<1>7. ASSUME NEW f \in Booleans
      PROVE  Parse(s)[f] \in BOOLEAN
  <2>1. f \in DOMAIN Default /\ f # "port"
    BY DEF Default, Booleans
  <2>2. CASE Parse(s)[f] = Default[f]
    BY <2>2, DefaultShape DEF ReadShape
  <2>3. CASE Parse(s)[f] # Default[f]
    <3>1. PICK x \in Items : ~Malformed(x) /\ KeyOf(x).word = f /\ Parse(s)[f] = ValueOf(x)
      BY <1>4, <2>1, <2>3
    <3>2. ValueOf(x) # Invalid
      BY <3>1 DEF Malformed
    <3>3. ValueOf(x) \in {TRUE, FALSE, Invalid}
      BY <2>1, <3>1 DEF ValueOf, Convert
    <3> QED BY <3>1, <3>2, <3>3
  <2> QED BY <2>2, <2>3
<1>8. Parse(s).port \in Int /\ (Parse(s).port > 0 => \E w \in DOMAIN Number : Number[w] = Parse(s).port)
  <2>1. "port" \in DOMAIN Default
    BY DEF Default
  <2>2. CASE Parse(s).port = Default.port
    BY <2>2, DefaultShape DEF ReadShape
  <2>3. CASE Parse(s).port # Default.port
    <3>1. PICK x \in Items : ~Malformed(x) /\ KeyOf(x).word = "port" /\ Parse(s).port = ValueOf(x)
      BY <1>4, <2>1, <2>3
    <3>2. ValueOf(x) # Invalid
      BY <3>1 DEF Malformed
    <3> DEFINE t == Trim(Split(x)[2])
    <3>3. ValueOf(x) = IF t.word \in DOMAIN Number
                       THEN IF Number[t.word] = Overflow THEN Invalid ELSE Number[t.word]
                       ELSE 0
      BY <3>1 DEF ValueOf, Convert, Booleans
    <3>4. CASE t.word \in DOMAIN Number
      <4>1. ValueOf(x) = Number[t.word] /\ Number[t.word] # Overflow
        BY <3>2, <3>3, <3>4
      <4>2. \A w \in DOMAIN Number : Number[w] \in Int \cup {Overflow}
        BY NumberAssumption
      <4>3. Number[t.word] \in Int
        BY <3>4, <4>1, <4>2
      <4> QED BY <3>1, <3>4, <4>1, <4>3
    <3>5. CASE t.word \notin DOMAIN Number
      BY <3>1, <3>3, <3>5
    <3> QED BY <3>4, <3>5
  <2> QED BY <2>2, <2>3
<1> QED BY <1>5, <1>6, <1>7, <1>8 DEF ReadShape

\* The string that is written for parameters: one item each, for those that need one.
Numeral(n) == CHOOSE w \in DOMAIN Number : Number[w] = n
If(condition, item) == IF condition THEN {item} ELSE {}

LEMMA AnItem ==
  ASSUME NEW key \in DOMAIN Default, NEW value \in Texts
  PROVE  Item(key, value) \in Items /\ Item(key, value).key.word = key
                                   /\ Item(key, value).value = value
<1>1. key \in Words
  BY WordAssumption
<1>2. Text(key) \in Texts /\ Text(key).word = key
  BY <1>1 DEF Text, Texts
<1>3. key # NoWord
  BY DEF Default, NoWord
<1>4. [Text(key) EXCEPT !.capitals = TRUE] \in Texts
  BY <1>2, <1>3 DEF Texts
<1> QED BY <1>2, <1>4 DEF Item, Items, Texts

LEMMA WrittenItems ==
  ASSUME NEW p, ReadShape(p)
  PROVE  LET s == FullConnectionString(p)
         IN  /\ s \in Seq(Items) /\ Distinct(s)
             /\ ItemsOf(s) = {Item("host", p.host)}
                  \cup If(NonEmpty(p.driver), Item("driver", p.driver))
                  \cup If(p.port > 0, Item("port", Text(Numeral(p.port))))
                  \cup If(NonEmpty(p.auth_token), Item("auth_token", p.auth_token))
                  \cup If(~EqualText(p.namespace, Text("default")), Item("namespace", p.namespace))
                  \cup If(p.ssl_enabled, Item("ssl_enabled", Text("true")))
                  \cup If(~p.verify_ssl_cert, Item("verify_ssl_cert", Text("false")))
<1> DEFINE driver == Item("driver", p.driver)
           host == Item("host", p.host)
           port == Item("port", Text(Numeral(p.port)))
           token == Item("auth_token", p.auth_token)
           namespace == Item("namespace", p.namespace)
           ssl == Item("ssl_enabled", Text("true"))
           verify == Item("verify_ssl_cert", Text("false"))
           C1 == NonEmpty(p.driver)
           C3 == p.port > 0
           C4 == NonEmpty(p.auth_token)
           C5 == ~EqualText(p.namespace, Text("default"))
           C6 == p.ssl_enabled
           C7 == ~p.verify_ssl_cert
           S0 == << >>
           S1 == S0 \o When(C1, driver)
           S2 == S1 \o When(TRUE, host)
           S3 == S2 \o When(C3, port)
           S4 == S3 \o When(C4, token)
           S5 == S4 \o When(C5, namespace)
           S6 == S5 \o When(C6, ssl)
           S7 == S6 \o When(C7, verify)
<1>1. {"driver", "host", "port", "auth_token", "namespace", "ssl_enabled", "verify_ssl_cert"}
        \subseteq DOMAIN Default
  BY DEF Default
<1>2. \A w \in Words : Text(w) \in Texts
  BY DEF Text, Texts
<1>3. Text("true") \in Texts /\ Text("false") \in Texts
  BY <1>2, WordAssumption
<1>4. p.driver \in Texts /\ p.host \in Texts /\ p.auth_token \in Texts /\ p.namespace \in Texts
  BY DEF ReadShape, Clean
<1>5. C3 => Text(Numeral(p.port)) \in Texts
  BY <1>2, NumberAssumption DEF ReadShape, Numeral
<1>6. C1 \in BOOLEAN /\ C4 \in BOOLEAN
  BY <1>4 DEF NonEmpty, Texts
<1>7. C3 \in BOOLEAN /\ C5 \in BOOLEAN /\ C6 \in BOOLEAN /\ C7 \in BOOLEAN
  BY DEF ReadShape, Booleans
<1>8. /\ driver \in Items /\ driver.key.word = "driver"
      /\ host \in Items /\ host.key.word = "host"
      /\ C3 => port \in Items /\ port.key.word = "port"
      /\ token \in Items /\ token.key.word = "auth_token"
      /\ namespace \in Items /\ namespace.key.word = "namespace"
      /\ ssl \in Items /\ ssl.key.word = "ssl_enabled"
      /\ verify \in Items /\ verify.key.word = "verify_ssl_cert"
  BY <1>1, <1>3, <1>4, <1>5, AnItem
<1>9. /\ Distinct(S0) /\ S0 \in Seq(Items) /\ ItemsOf(S0) = {}
  BY DEF Distinct, ItemsOf
<1> HIDE DEF driver, host, port, token, namespace, ssl, verify, C1, C3, C4, C5, C6, C7
<1> HIDE DEF S0
<1>11. S1 \in Seq(Items) /\ Distinct(S1) /\ ItemsOf(S1) = If(C1, driver)
  <2>1. \A x \in ItemsOf(S0) : x.key.word # driver.key.word
    BY <1>9
  <2> QED BY <1>6, <1>8, <1>9, <2>1, WhenItems DEF If
<1> HIDE DEF S1
<1>12. S2 \in Seq(Items) /\ Distinct(S2) /\ ItemsOf(S2) = If(C1, driver) \cup {host}
  <2>1. \A x \in ItemsOf(S1) : x.key.word # host.key.word
    BY <1>8, <1>11 DEF If
  <2> QED BY <1>8, <1>11, <2>1, WhenItems DEF If
<1> HIDE DEF S2
<1>13. /\ S3 \in Seq(Items) /\ Distinct(S3)
       /\ ItemsOf(S3) = If(C1, driver) \cup {host} \cup If(C3, port)
  <2>1. CASE C3
    <3>1. \A x \in ItemsOf(S2) : x.key.word # port.key.word
      BY <1>8, <1>12, <2>1 DEF If
    <3> QED BY <1>7, <1>8, <1>12, <2>1, <3>1, WhenItems DEF If
  <2>2. CASE ~C3
    BY <1>12, <2>2, ConcatEmptySeq DEF If, When
  <2> QED BY <2>1, <2>2
<1> HIDE DEF S3
<1>14. /\ S4 \in Seq(Items) /\ Distinct(S4)
       /\ ItemsOf(S4) = If(C1, driver) \cup {host} \cup If(C3, port) \cup If(C4, token)
  <2>1. \A x \in ItemsOf(S3) : x.key.word # token.key.word
    BY <1>8, <1>13 DEF If
  <2> QED BY <1>6, <1>8, <1>13, <2>1, WhenItems DEF If
<1> HIDE DEF S4
<1>15. /\ S5 \in Seq(Items) /\ Distinct(S5)
       /\ ItemsOf(S5) = If(C1, driver) \cup {host} \cup If(C3, port) \cup If(C4, token)
                          \cup If(C5, namespace)
  <2>1. \A x \in ItemsOf(S4) : x.key.word # namespace.key.word
    BY <1>8, <1>14 DEF If
  <2> QED BY <1>7, <1>8, <1>14, <2>1, WhenItems DEF If
<1> HIDE DEF S5
<1>16. /\ S6 \in Seq(Items) /\ Distinct(S6)
       /\ ItemsOf(S6) = If(C1, driver) \cup {host} \cup If(C3, port) \cup If(C4, token)
                          \cup If(C5, namespace) \cup If(C6, ssl)
  <2>1. \A x \in ItemsOf(S5) : x.key.word # ssl.key.word
    BY <1>8, <1>15 DEF If
  <2> QED BY <1>7, <1>8, <1>15, <2>1, WhenItems DEF If
<1> HIDE DEF S6
<1>17. /\ S7 \in Seq(Items) /\ Distinct(S7)
       /\ ItemsOf(S7) = If(C1, driver) \cup {host} \cup If(C3, port) \cup If(C4, token)
                          \cup If(C5, namespace) \cup If(C6, ssl) \cup If(C7, verify)
  <2>1. \A x \in ItemsOf(S6) : x.key.word # verify.key.word
    BY <1>8, <1>16 DEF If
  <2> QED BY <1>7, <1>8, <1>16, <2>1, WhenItems DEF If
<1>18. FullConnectionString(p) = S7
  <2>1. S1 = When(C1, driver)
    <3>1. When(C1, driver) \in Seq(Items)
      BY <1>8 DEF When
    <3> QED BY <3>1, ConcatEmptySeq DEF S1, S0
  <2> QED BY <2>1 DEF FullConnectionString, S2, S3, S4, S5, S6, S7, When, Numeral,
         driver, host, port, token, namespace, ssl, verify, C1, C3, C4, C5, C6, C7
<1> HIDE DEF S7
<1>19. ItemsOf(S7) = {host} \cup If(C1, driver) \cup If(C3, port) \cup If(C4, token)
                          \cup If(C5, namespace) \cup If(C6, ssl) \cup If(C7, verify)
  BY <1>17
<1> QED BY <1>17, <1>18, <1>19
      DEF driver, host, port, token, namespace, ssl, verify, C1, C3, C4, C5, C6, C7

\* A string that is written and read again says what the parameters said, but for the name
\* of the data source and a port of zero or less.
LEMMA RoundTrip ==
  ASSUME NEW p, ReadShape(p), Parse(FullConnectionString(p)) # Invalid
  PROVE  LET q == Parse(FullConnectionString(p))
         IN  /\ SameServer(q, p) \/ p.port <= 0
             /\ q.host = p.host
             /\ p.port > 0 => EqualParams([q EXCEPT !.dsn = p.dsn], p)
<1> DEFINE s == FullConnectionString(p)
           q == Parse(s)
<1>0. Parse(s) # Invalid
  OBVIOUS
<1>1. /\ s \in Seq(Items) /\ Distinct(s)
      /\ ItemsOf(s) = {Item("host", p.host)}
                  \cup If(NonEmpty(p.driver), Item("driver", p.driver))
                  \cup If(p.port > 0, Item("port", Text(Numeral(p.port))))
                  \cup If(NonEmpty(p.auth_token), Item("auth_token", p.auth_token))
                  \cup If(~EqualText(p.namespace, Text("default")), Item("namespace", p.namespace))
                  \cup If(p.ssl_enabled, Item("ssl_enabled", Text("true")))
                  \cup If(~p.verify_ssl_cert, Item("verify_ssl_cert", Text("false")))
  BY WrittenItems
<1> HIDE DEF s
<1>2. {"driver", "dsn", "host", "port", "auth_token", "namespace", "ssl_enabled", "verify_ssl_cert"}
        = DOMAIN Default
  BY DEF Default
<1>3. \A w \in Words : Text(w) \in Texts /\ Text(w).word = w /\ Clean(Text(w))
  <2>1. ASSUME NEW w \in Words PROVE Text(w) \in Texts /\ Text(w).word = w /\ Clean(Text(w))
    <3>1. ~Text(w).blanks
      BY DEF Text
    <3>2. Text(w) \in Texts /\ Text(w).word = w /\ Text(w).equals = 0
      BY DEF Text, Texts
    <3> QED BY <3>1, <3>2 DEF Clean
  <2> QED BY <2>1
<1>4. /\ \A f \in {"driver", "dsn", "host", "auth_token", "namespace"} : Clean(p[f]) /\ p[f] \in Texts
      /\ Text("true") \in Texts /\ Text("false") \in Texts
      /\ Clean(Text("true")) /\ Clean(Text("false"))
  BY <1>3, WordAssumption DEF ReadShape, Clean
<1>5. ASSUME p.port > 0 PROVE /\ Numeral(p.port) \in DOMAIN Number /\ Number[Numeral(p.port)] = p.port
                              /\ Text(Numeral(p.port)) \in Texts /\ Clean(Text(Numeral(p.port)))
  BY <1>3, <1>5, NumberAssumption DEF ReadShape, Numeral
\* An item of a text that is clean is read as it was written.
<1>6. ASSUME NEW f \in DOMAIN Default, NEW v \in Texts, Clean(v), Item(f, v) \in ItemsOf(s)
      PROVE  q[f] = Convert(f, v)
  <2> DEFINE x == Item(f, v)
  <2>1. x \in Items /\ x.key.word = f /\ x.value = v
    BY AnItem
  <2> HIDE DEF x
  <2>2. ~Malformed(x) /\ q[f] = ValueOf(x)
    BY <1>0, <1>1, <1>6, <2>1, ParseItem DEF x
  <2>3. Trim(Split(x)[2]) = v
    BY <1>6, <2>1, <2>2, ItemValue
  <2>4. KeyOf(x).word = f
    <3>1. Split(x)[1] = x.key
      BY DEF Split
    <3>2. x.key \in Texts
      BY <2>1 DEF Items
    <3> QED BY <2>1, <3>1, <3>2 DEF KeyOf, Trim, Texts
  <2> QED BY <2>2, <2>3, <2>4 DEF ValueOf
<1>7. ASSUME NEW f \in DOMAIN Default, \A x \in ItemsOf(s) : x.key.word # f
      PROVE  q[f] = Default[f]
  BY <1>0, <1>1, <1>7, ParseDefault
\* An item is written only when it is needed.
<1> DEFINE Absent(f) == \A x \in ItemsOf(s) : x.key.word # f
<1>8. /\ ~NonEmpty(p.driver) => Absent("driver")
      /\ ~(p.port > 0) => Absent("port")
      /\ ~NonEmpty(p.auth_token) => Absent("auth_token")
      /\ EqualText(p.namespace, Text("default")) => Absent("namespace")
      /\ ~p.ssl_enabled => Absent("ssl_enabled")
      /\ p.verify_ssl_cert => Absent("verify_ssl_cert")
  <2>1. \A f, v : Item(f, v).key.word = f
    BY DEF Item, Text
  <2>2. \A condition, item : If(condition, item) \subseteq {item}
    BY DEF If
  <2>3. ItemsOf(s) = {Item("host", p.host)}
                  \cup If(NonEmpty(p.driver), Item("driver", p.driver))
                  \cup If(p.port > 0, Item("port", Text(Numeral(p.port))))
                  \cup If(NonEmpty(p.auth_token), Item("auth_token", p.auth_token))
                  \cup If(~EqualText(p.namespace, Text("default")), Item("namespace", p.namespace))
                  \cup If(p.ssl_enabled, Item("ssl_enabled", Text("true")))
                  \cup If(~p.verify_ssl_cert, Item("verify_ssl_cert", Text("false")))
    BY <1>1
  <2>4. ASSUME ~NonEmpty(p.driver) PROVE Absent("driver")
    <3>1. If(NonEmpty(p.driver), Item("driver", p.driver)) = {}
      BY <2>4 DEF If
    <3> QED BY <2>1, <2>2, <2>3, <3>1
  <2>5. ASSUME ~(p.port > 0) PROVE Absent("port")
    <3>1. If(p.port > 0, Item("port", Text(Numeral(p.port)))) = {}
      BY <2>5 DEF If
    <3> QED BY <2>1, <2>2, <2>3, <3>1
  <2>6. ASSUME ~NonEmpty(p.auth_token) PROVE Absent("auth_token")
    <3>1. If(NonEmpty(p.auth_token), Item("auth_token", p.auth_token)) = {}
      BY <2>6 DEF If
    <3> QED BY <2>1, <2>2, <2>3, <3>1
  <2>7. ASSUME EqualText(p.namespace, Text("default")) PROVE Absent("namespace")
    <3>1. If(~EqualText(p.namespace, Text("default")), Item("namespace", p.namespace)) = {}
      BY <2>7 DEF If
    <3> QED BY <2>1, <2>2, <2>3, <3>1
  <2>8. ASSUME ~p.ssl_enabled PROVE Absent("ssl_enabled")
    <3>1. If(p.ssl_enabled, Item("ssl_enabled", Text("true"))) = {}
      BY <2>8 DEF If
    <3> QED BY <2>1, <2>2, <2>3, <3>1
  <2>9. ASSUME p.verify_ssl_cert PROVE Absent("verify_ssl_cert")
    <3>1. If(~p.verify_ssl_cert, Item("verify_ssl_cert", Text("false"))) = {}
      BY <2>9 DEF If
    <3> QED BY <2>1, <2>2, <2>3, <3>1
  <2> QED BY <2>4, <2>5, <2>6, <2>7, <2>8, <2>9
<1>9. \A v : \A f \in {"host", "driver", "auth_token", "namespace"} : Convert(f, v) = v
  BY DEF Convert, Booleans
<1>10. q.host = p.host
  <2>1. q["host"] = Convert("host", p.host)
    BY <1>1, <1>2, <1>4, <1>6
  <2> QED BY <1>9, <2>1
<1>11. \A t : Clean(t) /\ ~NonEmpty(t) => t = Empty
  <2> SUFFICES ASSUME NEW t, Clean(t), ~NonEmpty(t) PROVE t = Empty
    OBVIOUS
  <2>1. t \in [word : Words, capitals : BOOLEAN, blanks : BOOLEAN, equals : Nat] /\ t.equals = 0
    BY DEF Clean, Texts
  <2>2. t.word = NoWord
    BY DEF NonEmpty
  <2>3. t.blanks = FALSE
    BY <2>1 DEF NonEmpty
  <2>4. t.capitals = FALSE
    BY <2>1, <2>2 DEF Clean, Texts
  <2> QED BY <2>1, <2>2, <2>3, <2>4 DEF Empty, Text
<1>12. q.driver = p.driver
  <2>1. CASE NonEmpty(p.driver)
    <3>1. Item("driver", p.driver) \in ItemsOf(s)
      BY <1>1, <2>1 DEF If
    <3>2. q["driver"] = Convert("driver", p.driver)
      BY <1>2, <1>4, <1>6, <3>1
    <3> QED BY <1>9, <3>2
  <2>2. CASE ~NonEmpty(p.driver)
    <3>1. q["driver"] = Default["driver"]
      BY <1>2, <1>7, <1>8, <2>2
    <3>2. p.driver = Empty
      BY <1>4, <1>11, <2>2
    <3> QED BY <3>1, <3>2 DEF Default
  <2> QED BY <2>1, <2>2
<1>13. q.auth_token = p.auth_token
  <2>1. CASE NonEmpty(p.auth_token)
    <3>1. Item("auth_token", p.auth_token) \in ItemsOf(s)
      BY <1>1, <2>1 DEF If
    <3>2. q["auth_token"] = Convert("auth_token", p.auth_token)
      BY <1>2, <1>4, <1>6, <3>1
    <3> QED BY <1>9, <3>2
  <2>2. CASE ~NonEmpty(p.auth_token)
    <3>1. q["auth_token"] = Default["auth_token"]
      BY <1>2, <1>7, <1>8, <2>2
    <3>2. p.auth_token = Empty
      BY <1>4, <1>11, <2>2
    <3> QED BY <3>1, <3>2 DEF Default
  <2> QED BY <2>1, <2>2
<1>14. EqualText(q.namespace, p.namespace)
  <2>1. CASE ~EqualText(p.namespace, Text("default"))
    <3>1. Item("namespace", p.namespace) \in ItemsOf(s)
      BY <1>1, <2>1 DEF If
    <3>2. q["namespace"] = Convert("namespace", p.namespace)
      BY <1>2, <1>4, <1>6, <3>1
    <3> QED BY <1>9, <3>2 DEF EqualText
  <2>2. CASE EqualText(p.namespace, Text("default"))
    <3>1. q["namespace"] = Default["namespace"]
      BY <1>2, <1>7, <1>8, <2>2
    <3>2. q.namespace = Text("default")
      BY <3>1 DEF Default
    <3> QED BY <2>2, <3>2 DEF EqualText
  <2> QED BY <2>1, <2>2
<1>15. Convert("ssl_enabled", Text("true")) = TRUE /\ Convert("verify_ssl_cert", Text("false")) = FALSE
  <2>1. EqualText(Text("true"), Text("true")) /\ EqualText(Text("false"), Text("false"))
    BY DEF EqualText
  <2>2. ~EqualText(Text("false"), Text("true"))
    <3>1. [Text("false") EXCEPT !.capitals = FALSE].word = "false"
      BY DEF Text
    <3>2. [Text("true") EXCEPT !.capitals = FALSE].word = "true"
      BY DEF Text
    <3> QED BY <3>1, <3>2 DEF EqualText
  <2> QED BY <2>1, <2>2 DEF Convert, Booleans
<1>16. p.ssl_enabled \in BOOLEAN /\ p.verify_ssl_cert \in BOOLEAN
  BY DEF ReadShape, Booleans
<1>17. q.ssl_enabled = p.ssl_enabled
  <2>1. CASE p.ssl_enabled = TRUE
    <3>1. Item("ssl_enabled", Text("true")) \in ItemsOf(s)
      BY <1>1, <2>1 DEF If
    <3>2. q["ssl_enabled"] = Convert("ssl_enabled", Text("true"))
      BY <1>2, <1>4, <1>6, <3>1
    <3> QED BY <1>15, <2>1, <3>2
  <2>2. CASE p.ssl_enabled = FALSE
    <3>1. q["ssl_enabled"] = Default["ssl_enabled"]
      BY <1>2, <1>7, <1>8, <2>2
    <3>2. Default["ssl_enabled"] = FALSE
      BY DEF Default
    <3> QED BY <2>2, <3>1, <3>2
  <2> QED BY <1>16, <2>1, <2>2
<1>18. q.verify_ssl_cert = p.verify_ssl_cert
  <2>1. CASE p.verify_ssl_cert = FALSE
    <3>1. Item("verify_ssl_cert", Text("false")) \in ItemsOf(s)
      BY <1>1, <2>1 DEF If
    <3>2. q["verify_ssl_cert"] = Convert("verify_ssl_cert", Text("false"))
      BY <1>2, <1>4, <1>6, <3>1
    <3> QED BY <1>15, <2>1, <3>2
  <2>2. CASE p.verify_ssl_cert = TRUE
    <3>1. q["verify_ssl_cert"] = Default["verify_ssl_cert"]
      BY <1>2, <1>7, <1>8, <2>2
    <3>2. Default["verify_ssl_cert"] = TRUE
      BY DEF Default
    <3> QED BY <2>2, <3>1, <3>2
  <2> QED BY <1>16, <2>1, <2>2
<1>19. ASSUME p.port > 0 PROVE q.port = p.port
  <2> DEFINE t == Text(Numeral(p.port))
  <2>1. Item("port", t) \in ItemsOf(s)
    BY <1>1, <1>19 DEF If
  <2>2. q["port"] = Convert("port", t)
    BY <1>2, <1>5, <1>6, <1>19, <2>1
  <2>3. t.word = Numeral(p.port)
    BY DEF Text
  <2>4. Number[Numeral(p.port)] # Overflow
    BY <1>5, <1>19, NumberAssumption DEF ReadShape
  <2> HIDE DEF t
  <2>5. Convert("port", t) = p.port
    BY <1>5, <1>19, <2>3, <2>4 DEF Convert, Booleans
  <2> QED BY <2>2, <2>5
<1>20. p.port \in Int
  BY DEF ReadShape
<1>21. DOMAIN q = DOMAIN Default
  BY <1>0, <1>1, ParseShape DEF ReadShape
<1> HIDE DEF q
<1>22. ASSUME p.port > 0
       PROVE  EqualParams([q EXCEPT !.dsn = p.dsn], p)
  <2> DEFINE r == [q EXCEPT !.dsn = p.dsn]
  <2>1. /\ r.dsn = p.dsn /\ r.driver = q.driver /\ r.host = q.host /\ r.port = q.port
        /\ r.auth_token = q.auth_token /\ r.namespace = q.namespace
        /\ r["ssl_enabled"] = q["ssl_enabled"] /\ r["verify_ssl_cert"] = q["verify_ssl_cert"]
    BY <1>2, <1>21
  <2>2. DOMAIN r = DOMAIN Default
    BY <1>21
  <2> HIDE DEF r
  <2>3. \A f \in DOMAIN r \ {"host", "namespace"} : r[f] = p[f]
    BY <1>2, <1>12, <1>13, <1>17, <1>18, <1>19, <1>22, <2>1, <2>2
  <2>4. EqualText(r.host, p.host) /\ EqualText(r.namespace, p.namespace)
    BY <1>10, <1>14, <2>1 DEF EqualText
  <2> QED BY <2>3, <2>4 DEF EqualParams, r
<1>23. SameServer(q, p) \/ p.port <= 0
  BY <1>10, <1>19, <1>20 DEF SameServer, EqualText
<1> QED BY <1>10, <1>22, <1>23 DEF q, s

(***************************************************************************)
(* The inductive invariant.                                                *)
(***************************************************************************)
TaskStates == {"none", "queued", "running", "done", "failed"}
Phases == {"free", "allocated", "described", "rating", "used"}

Shape ==
  /\ isOpen \in [Connections -> BOOLEAN]
  /\ isAsync \in [Connections -> BOOLEAN]
  /\ isFunctionsAsync \in [Connections -> BOOLEAN]
  /\ params \in [Connections -> Results \cup {None}]
  /\ exploreClient \in [Connections -> {Client(p) : p \in Results} \cup {None}]
  /\ openTask \in [Connections -> [state : TaskStates, string : DOMAIN Parsed \cup {<< >>}]]
  /\ opening \in [Connections -> SUBSET {"call", "task"}]
  /\ infos \in [Tokens -> [phase : Phases, params : ReadParams \cup {None}, isAsync : BOOLEAN,
                           isFunctionsAsync : BOOLEAN, pool : 0..MaxPoolId]]
  /\ dm \in [Connections -> [state : Answers, string : DirectStrings \cup {<< >>},
                             completion : Completions \cup {"noprompt"},
                             token : Tokens \cup {None}, pool : 0..MaxPoolId]]
  /\ nextId \in 1..(MaxPoolId + 1)

\* The REST client and the parameters of a connection that is open, or about to be, name one
\* server; after an open that failed they may be of two.
Reaches(c) ==
  /\ exploreClient[c] # None => params[c] # None
  /\ isOpen[c] \/ opening[c] # {} =>
       /\ exploreClient[c] # None
       /\ EqualText(exploreClient[c].host, params[c].host)
       /\ exploreClient[c].port = IF params[c].port > 0 THEN params[c].port ELSE 0

\* Who is inside internalOpen, and what the call that holds a token is about.
Threads(c) ==
  /\ "task" \in opening[c] <=> openTask[c].state = "running"
  /\ "call" \in opening[c] <=> dm[c].state = "waiting"
  /\ opening[c] # {} => params[c] # None
  /\ isOpen[c] => params[c] # None

Calling == {"calling", "waiting", "polling"}

Holds(c) ==
  /\ dm[c].token # None =>
       /\ dm[c].state \in Calling \cup {"connected"}
       /\ infos[dm[c].token].phase = "used" /\ infos[dm[c].token].pool = dm[c].pool
  /\ dm[c].token = None /\ dm[c].state \in Calling =>
       dm[c].string \in DirectStrings /\ dm[c].pool = 0

\* One pool for a server and for an ID, and the pool of an info is that of its server.
Pools ==
  /\ \A entry \in pools : entry.id \in 1..(nextId - 1) /\ entry.port \in Int
  /\ PoolPerServer

InfoPool(t) ==
  IF infos[t].phase \in {"rating", "used"}
  THEN /\ infos[t].params \in ReadParams
       /\ \E entry \in pools : entry.id = infos[t].pool /\ SameServer(entry, infos[t].params)
  ELSE infos[t].pool = 0 /\ (infos[t].phase = "described" => infos[t].params \in ReadParams)

\* The task is the one of the call that is repeated, and opens what the call was asked for.
Busy(c) == openTask[c].state \in {"queued", "running", "done"}
Refused(c) ==
  LET string == dm[c].string
      completion == dm[c].completion
  IN  IF Asks(string, completion) THEN Parsed[string] = Invalid
      ELSE completion = "noprompt" /\ string = << >>
Requested(c) == Written[infos[dm[c].token].params]

Tasks(c) ==
  /\ Busy(c) => dm[c].state = "polling" /\ openTask[c].string \in DOMAIN Parsed
  /\ dm[c].state = "polling" =>
       isFunctionsAsync[c] /\ (dm[c].token = None => ~Refused(c))
  /\ openTask[c].state = "done" \/ dm[c].state \in {"connected", "pooled"} <=> isOpen[c]
  /\ openTask[c].state \in {"running", "done"} => params[c] = Parsed[openTask[c].string]
  /\ dm[c].token # None =>
       /\ Busy(c) => openTask[c].string = Requested(c)
       /\ dm[c].state = "waiting" => params[c] = Parsed[Requested(c)]

\* A connection serves the pool it belongs to.
Member(c) ==
  dm[c].state \in {"connected", "pooled"} /\ dm[c].pool # 0 =>
    \E entry \in pools :
      /\ entry.id = dm[c].pool /\ EqualText(entry.host, params[c].host)
      /\ entry.port > 0 => entry.port = params[c].port

Conn(c) == Reaches(c) /\ Threads(c) /\ Holds(c) /\ Tasks(c) /\ Member(c)

ServeInv ==
  /\ Shape /\ Pools
  /\ \A c \in Connections : Conn(c)
  /\ \A t \in Tokens : InfoPool(t)

(***************************************************************************)
(* The parameters that can occur.                                          *)
(***************************************************************************)
LEMMA ReadFacts ==
  ASSUME NEW p \in ReadParams
  PROVE  /\ ReadShape(p) /\ p \in Results /\ p \in AllParams /\ p # None
         /\ Written[p] = FullConnectionString(p) /\ Written[p] \in DOMAIN Parsed
<1>1. PICK s \in Strings : p = Parse(s) /\ Parse(s) # Invalid
  BY DEF ReadParams
<1>2. s \in Seq(Items)
  BY ConnectionAssumption DEF Strings
<1>3. ReadShape(p)
  BY <1>1, <1>2, ParseShape
<1>4. s \in DOMAIN Parsed /\ Parsed[s] = p
  BY <1>1 DEF Parsed
<1>5. p \in Results
  BY <1>1, <1>4 DEF Results
<1>6. p \in AllParams
  BY DEF AllParams
<1>7. Written[p] = FullConnectionString(p) /\ Written[p] \in DOMAIN Parsed
  BY <1>6 DEF Written, Parsed
<1> QED BY <1>3, <1>5, <1>6, <1>7, ConnectionAssumption

LEMMA ResultFacts ==
  ASSUME NEW s \in DOMAIN Parsed, Parsed[s] # Invalid
  PROVE  /\ Parsed[s] \in Results /\ Parsed[s] # None /\ Client(Parsed[s]) # None
         /\ s \in Strings => Parsed[s] \in ReadParams
<1>1. Parsed[s] \in Results
  BY DEF Results
<1>2. s \in Strings => Parsed[s] \in ReadParams
  BY DEF ReadParams, Parsed
<1> QED BY <1>1, <1>2, ConnectionAssumption

\* The parameters of a pooled connection are those of the request.
LEMMA ReopenFacts ==
  ASSUME NEW p \in ReadParams, Parsed[Written[p]] # Invalid
  PROVE  LET q == Parsed[Written[p]]
         IN  /\ EqualText(p.host, q.host)
             /\ p.port > 0 => q.port = p.port
             /\ p.port > 0 => EqualParams([q EXCEPT !.dsn = p.dsn], p)
<1>1. /\ ReadShape(p) /\ Written[p] = FullConnectionString(p)
      /\ Parsed[Written[p]] = Parse(FullConnectionString(p))
  BY ReadFacts DEF Parsed
<1>2. p.port \in Int
  BY <1>1 DEF ReadShape
<1> DEFINE q == Parse(FullConnectionString(p))
<1>3. /\ SameServer(q, p) \/ p.port <= 0
      /\ q.host = p.host
      /\ p.port > 0 => EqualParams([q EXCEPT !.dsn = p.dsn], p)
  BY <1>1, RoundTrip
<1> HIDE DEF q
<1>4. EqualText(p.host, q.host) /\ (p.port > 0 => q.port = p.port)
  BY <1>2, <1>3 DEF SameServer, EqualText
<1> QED BY <1>1, <1>3, <1>4 DEF q

LEMMA CompletedFacts ==
  ASSUME NEW s \in Strings, NEW completion, Asks(s, completion) => Parsed[s] # Invalid,
         NEW chosen \in Completed(s, completion)
  PROVE  chosen \in DOMAIN Parsed
<1>1. CASE Asks(s, completion)
  <2>1. PICK p \in Dialog(Parsed[s]) : chosen = Written[p]
    BY <1>1 DEF Completed
  <2>2. Parsed[s] \in ReadParams
    BY <1>1, ResultFacts DEF Parsed
  <2>3. p \in AllParams
    BY <2>1, <2>2 DEF AllParams
  <2> QED BY <2>1, <2>3 DEF Parsed
<1>2. CASE ~Asks(s, completion)
  BY <1>2 DEF Completed, Parsed
<1> QED BY <1>1, <1>2

(***************************************************************************)
(* What a step leaves alone.                                               *)
(***************************************************************************)
Same(c) ==
  /\ isOpen'[c] = isOpen[c] /\ params'[c] = params[c] /\ exploreClient'[c] = exploreClient[c]
  /\ isAsync'[c] = isAsync[c] /\ isFunctionsAsync'[c] = isFunctionsAsync[c]
  /\ openTask'[c] = openTask[c] /\ opening'[c] = opening[c] /\ dm'[c] = dm[c]

Kept(id) == \A entry \in pools : entry.id = id => entry \in pools'

LEMMA SameConn ==
  ASSUME NEW c \in Connections, Conn(c), Same(c), Kept(dm[c].pool),
         dm[c].token # None => infos'[dm[c].token] = infos[dm[c].token]
  PROVE  Conn(c)'
<1>1. Reaches(c)'
  BY DEF Conn, Reaches, Same
<1>2. Threads(c)'
  BY DEF Conn, Threads, Same
<1>3. Holds(c)'
  BY DEF Conn, Holds, Same
<1>4. Tasks(c)'
  BY DEF Conn, Tasks, Same, Busy, Refused, Requested
<1>5. Member(c)'
  BY DEF Conn, Member, Same, Kept
<1> QED BY <1>1, <1>2, <1>3, <1>4, <1>5 DEF Conn

LEMMA SameInfo ==
  ASSUME NEW t \in Tokens, InfoPool(t), infos'[t] = infos[t], Kept(infos[t].pool)
  PROVE  InfoPool(t)'
BY DEF InfoPool, Kept

\* A step of one connection.
LEMMA ConnStep ==
  ASSUME ServeInv, Shape', UNCHANGED <<infos, pools, nextId>>,
         NEW c \in Connections, \A d \in Connections \ {c} : Same(d), Conn(c)'
  PROVE  ServeInv'
<1>1. \A id : Kept(id)
  BY DEF Kept
<1>2. \A d \in Connections : Conn(d)'
  BY <1>1, SameConn DEF ServeInv
<1>3. \A t \in Tokens : InfoPool(t)'
  BY <1>1, SameInfo DEF ServeInv
<1>4. Pools'
  BY DEF ServeInv, Pools, PoolPerServer
<1> QED BY <1>2, <1>3, <1>4 DEF ServeInv

(***************************************************************************)
(* What the Driver Manager notes.                                          *)
(***************************************************************************)
DmType == [state : Answers, string : DirectStrings \cup {<< >>},
           completion : Completions \cup {"noprompt"},
           token : Tokens \cup {None}, pool : 0..MaxPoolId]

LEMMA AnsweredFacts ==
  ASSUME dm \in [Connections -> DmType], NEW c \in Connections, NEW state \in Answers,
         Answered(c, state)
  PROVE  /\ dm' \in [Connections -> DmType] /\ \A d \in Connections \ {c} : dm'[d] = dm[d]
         /\ dm'[c].state = state /\ dm'[c].string = dm[c].string
         /\ dm'[c].completion = dm[c].completion /\ dm'[c].token = dm[c].token
         /\ dm'[c].pool = dm[c].pool
<1>1. dm[c] \in DmType
  OBVIOUS
<1>2. dm' = [dm EXCEPT ![c] = [dm[c] EXCEPT !.state = state]]
  BY DEF Answered
<1>3. [dm[c] EXCEPT !.state = state] \in DmType
  BY <1>1 DEF DmType
<1> QED BY <1>1, <1>2, <1>3 DEF DmType

LEMMA IdleFacts ==
  /\ Idle \in DmType /\ Idle.state = "allocated" /\ Idle.token = None /\ Idle.pool = 0
BY ConnectionAssumption DEF Idle, DmType, Answers

LEMMA NotConnectedFacts ==
  ASSUME dm \in [Connections -> DmType], NEW c \in Connections, NotConnected(c)
  PROVE  /\ dm' \in [Connections -> DmType] /\ \A d \in Connections \ {c} : dm'[d] = dm[d]
         /\ dm'[c].state = "allocated" /\ dm'[c].token = None /\ dm'[c].pool = 0
BY IdleFacts DEF NotConnected

LEMMA ConnectedFacts ==
  ASSUME dm \in [Connections -> DmType], NEW c \in Connections, Connected(c)
  PROVE  /\ dm' \in [Connections -> DmType] /\ \A d \in Connections \ {c} : dm'[d] = dm[d]
         /\ dm'[c].state = "connected" /\ dm'[c].token = dm[c].token /\ dm'[c].pool = dm[c].pool
<1> DEFINE r == [Idle EXCEPT !.state = "connected", !.token = dm[c].token, !.pool = dm[c].pool]
<1>1. dm[c] \in DmType
  OBVIOUS
<1>2. r \in DmType /\ r.state = "connected" /\ r.token = dm[c].token /\ r.pool = dm[c].pool
  BY <1>1, IdleFacts DEF DmType, Answers, Idle
<1>3. dm' = [dm EXCEPT ![c] = r]
  BY DEF Connected
<1> HIDE DEF r
<1> QED BY <1>2, <1>3

\* A connection opened for a request of a pool serves that pool.
LEMMA OpenedServes ==
  ASSUME ServeInv, NEW c \in Connections, dm[c].token # None, dm[c].state \in Calling,
         params[c] = Parsed[Requested(c)], params[c] # Invalid
  PROVE  \E entry \in pools :
           /\ entry.id = dm[c].pool /\ EqualText(entry.host, params[c].host)
           /\ entry.port > 0 => entry.port = params[c].port
<1> DEFINE t == dm[c].token
<1>1. t \in Tokens /\ infos[t].phase = "used" /\ infos[t].pool = dm[c].pool /\ InfoPool(t)
  BY DEF ServeInv, Shape, Conn, Holds
<1>2. infos[t].params \in ReadParams
  BY <1>1 DEF InfoPool
<1>3. PICK entry \in pools : entry.id = dm[c].pool /\ SameServer(entry, infos[t].params)
  BY <1>1 DEF InfoPool
<1>4. /\ EqualText(infos[t].params.host, params[c].host)
      /\ infos[t].params.port > 0 => params[c].port = infos[t].params.port
  BY <1>2, ReopenFacts DEF Requested
<1> QED BY <1>3, <1>4 DEF SameServer, EqualText

LEMMA StartFacts ==
  ASSUME Shape, NEW c \in Connections, NEW s \in DOMAIN Parsed, ~Fails(s),
         NEW thread \in {"call", "task"}, StartOpen(c, s, thread)
  PROVE  /\ params' \in [Connections -> Results \cup {None}]
         /\ exploreClient' \in [Connections -> {Client(p) : p \in Results} \cup {None}]
         /\ opening' \in [Connections -> SUBSET {"call", "task"}]
         /\ \A d \in Connections \ {c} : params'[d] = params[d] /\ opening'[d] = opening[d]
                                         /\ exploreClient'[d] = exploreClient[d]
         /\ params'[c] = Parsed[s] /\ params'[c] # None /\ params'[c] # Invalid
         /\ opening'[c] = opening[c] \cup {thread}
         /\ Reaches(c)'
<1>1. /\ Parsed[s] \in Results /\ Parsed[s] # None /\ Client(Parsed[s]) # None
      /\ Parsed[s] # Invalid
  BY ResultFacts DEF Fails
<1>2. /\ params' = [params EXCEPT ![c] = Parsed[s]]
      /\ exploreClient' = [exploreClient EXCEPT ![c] = Client(Parsed[s])]
      /\ opening' = [opening EXCEPT ![c] = opening[c] \cup {thread}]
  BY DEF StartOpen
<1>3. /\ params \in [Connections -> Results \cup {None}]
      /\ exploreClient \in [Connections -> {Client(p) : p \in Results} \cup {None}]
      /\ opening \in [Connections -> SUBSET {"call", "task"}]
  BY DEF Shape
<1>4. params'[c] = Parsed[s] /\ exploreClient'[c] = Client(Parsed[s])
  BY <1>2, <1>3
<1>5. Reaches(c)'
  BY <1>1, <1>4 DEF Reaches, EqualText, Client
<1> QED BY <1>1, <1>2, <1>3, <1>5

(***************************************************************************)
(* Opening.                                                                *)
(***************************************************************************)
LEMMA RefusedStep ==
  ASSUME ServeInv, NEW c \in Connections, dm[c].state \in {"calling", "polling"}, ~Busy(c),
         NotConnected(c),
         UNCHANGED <<cvars, infos, pools, nextId>>
  PROVE  ServeInv'
<1>1. dm \in [Connections -> DmType]
  BY DEF ServeInv, Shape, DmType
<1>2. /\ dm' \in [Connections -> DmType] /\ \A d \in Connections \ {c} : dm'[d] = dm[d]
      /\ dm'[c].state = "allocated" /\ dm'[c].token = None /\ dm'[c].pool = 0
  BY <1>1, NotConnectedFacts
<1>3. Shape'
  BY <1>2 DEF ServeInv, Shape, DmType, cvars
<1>4. \A d \in Connections \ {c} : Same(d)
  BY <1>2 DEF Same, cvars
<1>5. Conn(c)
  BY DEF ServeInv
<1>6. Reaches(c)'
  BY <1>5 DEF Conn, Reaches, cvars
<1>7. Threads(c)'
  BY <1>2, <1>5 DEF Conn, Threads, cvars
<1>8. Holds(c)' /\ Member(c)'
  BY <1>2 DEF Holds, Member, Calling
<1>9. Tasks(c)'
  BY <1>2, <1>5 DEF Conn, Tasks, Busy, cvars
<1> QED BY <1>3, <1>4, <1>6, <1>7, <1>8, <1>9, ConnStep DEF Conn

LEMMA OpenWithoutHostFacts ==
  ASSUME Shape, NEW c \in Connections, NEW s \in DOMAIN Parsed, ~Fails(s), OpenWithoutHost(c, s)
  PROVE  /\ params' \in [Connections -> Results \cup {None}]
         /\ \A d \in Connections \ {c} : params'[d] = params[d]
         /\ params'[c] # None
         /\ UNCHANGED <<exploreClient, opening>>
<1>1. Parsed[s] \in Results /\ Parsed[s] # None
  BY ResultFacts DEF Fails
<1> QED BY <1>1 DEF OpenWithoutHost, Shape

LEMMA OpenStep ==
  ASSUME ServeInv, NEW c \in Connections, dm[c].state \in {"calling", "polling"},
         NEW s \in DOMAIN Parsed, dm[c].token # None => s = Requested(c),
         dm[c].token = None => ~Refused(c),
         Open(c, s), ~isFunctionsAsync[c], UNCHANGED <<infos, pools, nextId>>
  PROVE  ServeInv'
<1>1. dm \in [Connections -> DmType] /\ Shape
  BY DEF ServeInv, Shape, DmType
<1>2. Conn(c)
  BY DEF ServeInv
<1>3. dm[c].state = "calling" /\ ~Busy(c)
  BY <1>2 DEF Conn, Tasks
<1>4. CASE Fails(s) /\ NotConnected(c) /\ UNCHANGED cvars
  BY <1>3, <1>4, RefusedStep
<1>6. CASE /\ ~Fails(s)
           /\ OpenWithoutHost(c, s)
           /\ NotConnected(c)
           /\ UNCHANGED <<isOpen, isAsync, isFunctionsAsync, openTask>>
  <2>1. /\ dm' \in [Connections -> DmType] /\ \A d \in Connections \ {c} : dm'[d] = dm[d]
        /\ dm'[c].state = "allocated" /\ dm'[c].token = None /\ dm'[c].pool = 0
    BY <1>1, <1>6, NotConnectedFacts
  <2>2. /\ params' \in [Connections -> Results \cup {None}]
        /\ \A d \in Connections \ {c} : params'[d] = params[d]
        /\ params'[c] # None
        /\ UNCHANGED <<exploreClient, opening>>
    BY <1>1, <1>6, OpenWithoutHostFacts
  <2>3. Shape'
    BY <1>1, <1>6, <2>1, <2>2 DEF Shape, DmType
  <2>4. \A d \in Connections \ {c} : Same(d)
    BY <1>6, <2>1, <2>2 DEF Same
  <2>5. ~isOpen[c] /\ opening[c] = {}
    <3>1. "call" \notin opening[c] /\ "task" \notin opening[c] /\ ~isOpen[c]
      BY <1>2, <1>3 DEF Conn, Threads, Tasks, Busy
    <3>2. opening[c] \subseteq {"call", "task"}
      BY <1>1 DEF Shape
    <3> QED BY <3>1, <3>2
  <2>6. Reaches(c)'
    BY <1>6, <2>2, <2>5 DEF Reaches
  <2>7. Threads(c)'
    BY <1>2, <1>3, <1>6, <2>1, <2>2, <2>5 DEF Conn, Threads
  <2>8. Holds(c)' /\ Member(c)'
    BY <2>1 DEF Holds, Member, Calling
  <2>9. Tasks(c)'
    BY <1>2, <1>3, <1>6, <2>1, <2>5 DEF Conn, Tasks, Busy
  <2> QED BY <2>3, <2>4, <2>6, <2>7, <2>8, <2>9, ConnStep DEF Conn
<1>5. CASE /\ ~Fails(s)
           /\ StartOpen(c, s, "call")
           /\ Answered(c, "waiting")
           /\ UNCHANGED <<isOpen, isAsync, isFunctionsAsync, openTask>>
  <2>1. /\ dm' \in [Connections -> DmType] /\ \A d \in Connections \ {c} : dm'[d] = dm[d]
        /\ dm'[c].state = "waiting" /\ dm'[c].string = dm[c].string
        /\ dm'[c].token = dm[c].token /\ dm'[c].pool = dm[c].pool
    BY <1>1, <1>5, AnsweredFacts DEF Answers
  <2>2. /\ params' \in [Connections -> Results \cup {None}]
        /\ exploreClient' \in [Connections -> {Client(p) : p \in Results} \cup {None}]
        /\ opening' \in [Connections -> SUBSET {"call", "task"}]
        /\ \A d \in Connections \ {c} : params'[d] = params[d] /\ opening'[d] = opening[d]
                                         /\ exploreClient'[d] = exploreClient[d]
        /\ params'[c] = Parsed[s] /\ params'[c] # None /\ params'[c] # Invalid
        /\ opening'[c] = opening[c] \cup {"call"}
        /\ Reaches(c)'
    BY <1>1, <1>5, StartFacts
  <2>3. Shape'
    BY <1>1, <1>5, <2>1, <2>2 DEF Shape, DmType
  <2>4. \A d \in Connections \ {c} : Same(d)
    BY <1>5, <2>1, <2>2 DEF Same
  <2>5. Threads(c)'
    BY <1>2, <1>3, <1>5, <2>1, <2>2 DEF Conn, Threads, Busy
  <2>6. Holds(c)'
    BY <1>2, <1>3, <2>1 DEF Conn, Holds, Calling
  <2>7. Tasks(c)'
    BY <1>2, <1>3, <1>5, <2>1, <2>2 DEF Conn, Tasks, Busy, Requested
  <2>8. Member(c)'
    BY <2>1 DEF Member
  <2> QED BY <2>2, <2>3, <2>4, <2>5, <2>6, <2>7, <2>8, ConnStep DEF Conn
<1> QED BY <1>4, <1>5, <1>6 DEF Open

LEMMA OpenAsyncStep ==
  ASSUME ServeInv, NEW c \in Connections, dm[c].state \in {"calling", "polling"},
         NEW s \in DOMAIN Parsed, dm[c].token # None => s = Requested(c),
         dm[c].token = None => ~Refused(c),
         OpenAsync(c, s), isFunctionsAsync[c], UNCHANGED <<infos, pools, nextId>>
  PROVE  ServeInv'
<1>1. dm \in [Connections -> DmType] /\ Shape
  BY DEF ServeInv, Shape, DmType
<1>2. Conn(c)
  BY DEF ServeInv
<1>3. UNCHANGED <<isOpen, params, exploreClient, isAsync, isFunctionsAsync, opening>>
  BY DEF OpenAsync
<1>4. Reaches(c)'
  BY <1>2, <1>3 DEF Conn, Reaches
<1>5. openTask \in [Connections -> [state : TaskStates, string : DOMAIN Parsed \cup {<< >>}]]
  BY <1>1 DEF Shape
<1>6. CASE /\ openTask[c].state = "none"
           /\ openTask' = [openTask EXCEPT ![c] = [state |-> "queued", string |-> s]]
           /\ Answered(c, "polling")
  <2>1. /\ dm' \in [Connections -> DmType] /\ \A d \in Connections \ {c} : dm'[d] = dm[d]
        /\ dm'[c].state = "polling" /\ dm'[c].string = dm[c].string
        /\ dm'[c].completion = dm[c].completion
        /\ dm'[c].token = dm[c].token /\ dm'[c].pool = dm[c].pool
    BY <1>1, <1>6, AnsweredFacts DEF Answers
  <2>2. /\ openTask' \in [Connections -> [state : TaskStates, string : DOMAIN Parsed \cup {<< >>}]]
        /\ \A d \in Connections \ {c} : openTask'[d] = openTask[d]
        /\ openTask'[c].state = "queued" /\ openTask'[c].string = s
    BY <1>5, <1>6 DEF TaskStates
  <2>3. Shape'
    BY <1>1, <1>3, <2>1, <2>2 DEF Shape, DmType
  <2>4. \A d \in Connections \ {c} : Same(d)
    BY <1>3, <2>1, <2>2 DEF Same
  <2>5. Threads(c)'
    BY <1>2, <1>3, <1>6, <2>1, <2>2 DEF Conn, Threads
  <2>6. Holds(c)'
    BY <1>2, <2>1 DEF Conn, Holds, Calling
  <2>7. Refused(c)' = Refused(c) /\ Requested(c)' = Requested(c)
    BY <2>1 DEF Refused, Requested
  <2>8. Tasks(c)'
    BY <1>2, <1>3, <1>6, <2>1, <2>2, <2>7 DEF Conn, Tasks, Busy
  <2>9. Member(c)'
    BY <2>1 DEF Member
  <2> QED BY <1>4, <2>3, <2>4, <2>5, <2>6, <2>8, <2>9, ConnStep DEF Conn
<1>7. CASE openTask[c].state \in {"queued", "running"} /\ Answered(c, "polling") /\ UNCHANGED openTask
  <2>1. /\ dm' \in [Connections -> DmType] /\ \A d \in Connections \ {c} : dm'[d] = dm[d]
        /\ dm'[c].state = "polling" /\ dm'[c].string = dm[c].string
        /\ dm'[c].completion = dm[c].completion
        /\ dm'[c].token = dm[c].token /\ dm'[c].pool = dm[c].pool
    BY <1>1, <1>7, AnsweredFacts DEF Answers
  <2>3. Shape'
    BY <1>1, <1>3, <1>7, <2>1 DEF Shape, DmType
  <2>4. \A d \in Connections \ {c} : Same(d)
    BY <1>3, <1>7, <2>1 DEF Same
  <2>5. Threads(c)'
    BY <1>2, <1>3, <1>7, <2>1 DEF Conn, Threads
  <2>6. Holds(c)'
    BY <1>2, <2>1 DEF Conn, Holds, Calling
  <2>7. Refused(c)' = Refused(c) /\ Requested(c)' = Requested(c)
    BY <2>1 DEF Refused, Requested
  <2>8. Tasks(c)'
    BY <1>2, <1>3, <1>7, <2>1, <2>7 DEF Conn, Tasks, Busy
  <2>9. Member(c)'
    BY <2>1 DEF Member
  <2> QED BY <1>4, <2>3, <2>4, <2>5, <2>6, <2>8, <2>9, ConnStep DEF Conn
<1>8. CASE /\ openTask[c].state = "done"
           /\ openTask' = [openTask EXCEPT ![c] = NoTask]
           /\ Connected(c)
  <2>1. /\ dm' \in [Connections -> DmType] /\ \A d \in Connections \ {c} : dm'[d] = dm[d]
        /\ dm'[c].state = "connected"
        /\ dm'[c].token = dm[c].token /\ dm'[c].pool = dm[c].pool
    BY <1>1, <1>8, ConnectedFacts
  <2>2. /\ openTask' \in [Connections -> [state : TaskStates, string : DOMAIN Parsed \cup {<< >>}]]
        /\ \A d \in Connections \ {c} : openTask'[d] = openTask[d]
        /\ openTask'[c].state = "none"
    BY <1>5, <1>8 DEF TaskStates, NoTask
  <2>3. Shape'
    BY <1>1, <1>3, <2>1, <2>2 DEF Shape, DmType
  <2>4. \A d \in Connections \ {c} : Same(d)
    BY <1>3, <2>1, <2>2 DEF Same
  <2>5. Threads(c)'
    BY <1>2, <1>3, <1>8, <2>1, <2>2 DEF Conn, Threads
  <2>6. Holds(c)'
    BY <1>2, <2>1 DEF Conn, Holds, Calling
  <2>7. isOpen[c] /\ params[c] # None /\ params[c] # Invalid
    BY <1>1, <1>2, <1>8 DEF Conn, Tasks, Threads, Shape, Results
  <2>8. Tasks(c)'
    BY <1>3, <2>1, <2>2, <2>7 DEF Tasks, Busy
  <2>9. Member(c)'
    <3>1. CASE dm[c].token = None
      BY <1>2, <2>1, <3>1 DEF Conn, Holds, Calling, Member
    <3>2. CASE dm[c].token # None
      <4>1. params[c] = Parsed[Requested(c)]
        BY <1>2, <1>8, <3>2 DEF Conn, Tasks, Busy
      <4>2. \E entry \in pools :
              /\ entry.id = dm[c].pool /\ EqualText(entry.host, params[c].host)
              /\ entry.port > 0 => entry.port = params[c].port
        BY <2>7, <3>2, <4>1, OpenedServes DEF Calling
      <4> QED BY <1>3, <2>1, <4>2 DEF Member
    <3> QED BY <3>1, <3>2
  <2> QED BY <1>4, <2>3, <2>4, <2>5, <2>6, <2>8, <2>9, ConnStep DEF Conn
<1>9. CASE openTask[c].state = "failed" /\ NotConnected(c) /\ UNCHANGED openTask
  <2>1. ~Busy(c) /\ UNCHANGED cvars
    BY <1>3, <1>9 DEF Busy, cvars
  <2> QED BY <1>9, <2>1, RefusedStep
<1> QED BY <1>6, <1>7, <1>8, <1>9 DEF OpenAsync

LEMMA SQLPoolConnectStep ==
  ASSUME ServeInv, NEW t \in Tokens, NEW c \in Connections, SQLPoolConnect(t, c)
  PROVE  ServeInv'
<1>1. /\ dm[c].state \in {"calling", "polling"} /\ dm[c].token = t /\ t # None
      /\ OpenInMode(c, Requested(c)) /\ UNCHANGED <<infos, pools, nextId>>
  BY ConnectionAssumption DEF SQLPoolConnect, Requested
<1>2. Requested(c) \in DOMAIN Parsed
  <2>1. infos[t].phase = "used" /\ InfoPool(t)
    BY <1>1 DEF ServeInv, Conn, Holds
  <2> QED BY <1>1, <2>1, ReadFacts DEF InfoPool, Requested
<1> QED BY <1>1, <1>2, OpenStep, OpenAsyncStep DEF OpenInMode

LEMMA SQLDriverConnectStep ==
  ASSUME ServeInv, ~CancelPolls, NEW c \in Connections, SQLDriverConnect(c)
  PROVE  ServeInv'
<1> DEFINE s == dm[c].string
           completion == dm[c].completion
<1>1. /\ dm[c].state \in {"calling", "polling"} /\ dm[c].token = None
      /\ UNCHANGED <<infos, pools, nextId>>
  BY DEF SQLDriverConnect
<1>2. Conn(c)
  BY DEF ServeInv
<1>3. s \in Strings
  BY <1>1, <1>2 DEF Conn, Holds, Calling, Strings
\* A call that is repeated is not refused, so that a refusal leaves no task.
<1>4. ASSUME Refused(c) \/ dm[c].state = "calling", NotConnected(c), UNCHANGED cvars
      PROVE  ServeInv'
  <2>1. dm[c].state = "calling"
    BY <1>1, <1>2, <1>4 DEF Conn, Tasks
  <2>2. ~Busy(c)
    BY <1>2, <2>1 DEF Conn, Tasks
  <2> QED BY <1>1, <1>4, <2>1, <2>2, RefusedStep
<1>5. CASE Asks(s, completion) /\ Parsed[s] = Invalid /\ NotConnected(c) /\ UNCHANGED cvars
  BY <1>4, <1>5 DEF Refused
<1>6. CASE /\ Asks(s, completion) /\ Parsed[s] # Invalid
           /\ dm[c].state = "calling" \/ CancelPolls
           /\ NotConnected(c) /\ UNCHANGED cvars
  BY <1>4, <1>6
<1>7. CASE /\ ~Asks(s, completion) /\ completion = "noprompt" /\ s = << >>
           /\ NotConnected(c) /\ UNCHANGED cvars
  BY <1>4, <1>7 DEF Refused
<1>8. CASE /\ Asks(s, completion) => Parsed[s] # Invalid
           /\ ~(completion = "noprompt" /\ s = << >>)
           /\ \E chosen \in Completed(s, completion) : OpenInMode(c, chosen)
  <2>1. PICK chosen \in Completed(s, completion) : OpenInMode(c, chosen)
    BY <1>8
  <2>2. chosen \in DOMAIN Parsed
    BY <1>3, <1>8, CompletedFacts
  <2>3. ~Refused(c)
    BY <1>8 DEF Refused
  <2> QED BY <1>1, <2>1, <2>2, <2>3, OpenStep, OpenAsyncStep DEF OpenInMode
<1> QED BY <1>5, <1>6, <1>7, <1>8 DEF SQLDriverConnect

LEMMA RunTaskStep ==
  ASSUME ServeInv, NEW c \in Connections, RunTask(c)
  PROVE  ServeInv'
<1>1. dm \in [Connections -> DmType] /\ Shape /\ UNCHANGED <<infos, pools, nextId, dm>>
  BY DEF ServeInv, Shape, DmType, RunTask
<1>2. Conn(c)
  BY DEF ServeInv
<1>3. openTask \in [Connections -> [state : TaskStates, string : DOMAIN Parsed \cup {<< >>}]]
  BY <1>1 DEF Shape
<1> DEFINE s == openTask[c].string
<1>4. /\ openTask[c].state = "queued" /\ UNCHANGED <<isOpen, isAsync, isFunctionsAsync>>
      /\ dm[c].state = "polling" /\ s \in DOMAIN Parsed
  BY <1>2 DEF RunTask, Conn, Tasks, Busy
<1>5. CASE Fails(s)
  <2>1. /\ openTask' = [openTask EXCEPT ![c].state = "failed"]
        /\ UNCHANGED <<params, exploreClient, opening>>
    BY <1>5 DEF RunTask
  <2>2. /\ openTask' \in [Connections -> [state : TaskStates, string : DOMAIN Parsed \cup {<< >>}]]
        /\ \A d \in Connections \ {c} : openTask'[d] = openTask[d]
        /\ openTask'[c].state = "failed"
    BY <1>3, <2>1 DEF TaskStates
  <2>3. Shape'
    BY <1>1, <1>4, <2>1, <2>2 DEF Shape
  <2>4. \A d \in Connections \ {c} : Same(d)
    BY <1>1, <1>4, <2>1, <2>2 DEF Same
  <2>5. Reaches(c)' /\ Threads(c)' /\ Holds(c)' /\ Member(c)'
    BY <1>1, <1>2, <1>4, <2>1, <2>2 DEF Conn, Reaches, Threads, Holds, Member
  <2>6. Refused(c)' = Refused(c)
    BY <1>1 DEF Refused
  <2>7. Tasks(c)'
    BY <1>1, <1>2, <1>4, <2>1, <2>2, <2>6 DEF Conn, Tasks, Busy
  <2> QED BY <1>1, <2>3, <2>4, <2>5, <2>7, ConnStep DEF Conn
<1>7. CASE ~Fails(s) /\ ~HasHost(s)
  <2>1. /\ openTask' = [openTask EXCEPT ![c].state = "failed"]
        /\ OpenWithoutHost(c, s)
    BY <1>7 DEF RunTask
  <2>2. /\ openTask' \in [Connections -> [state : TaskStates, string : DOMAIN Parsed \cup {<< >>}]]
        /\ \A d \in Connections \ {c} : openTask'[d] = openTask[d]
        /\ openTask'[c].state = "failed"
    BY <1>3, <2>1 DEF TaskStates
  <2>3. /\ params' \in [Connections -> Results \cup {None}]
        /\ \A d \in Connections \ {c} : params'[d] = params[d]
        /\ params'[c] # None
        /\ UNCHANGED <<exploreClient, opening>>
    BY <1>1, <1>4, <1>7, <2>1, OpenWithoutHostFacts
  <2>4. Shape'
    BY <1>1, <1>4, <2>2, <2>3 DEF Shape
  <2>5. \A d \in Connections \ {c} : Same(d)
    BY <1>1, <1>4, <2>2, <2>3 DEF Same
  <2>6. ~isOpen[c] /\ opening[c] = {}
    <3>1. "call" \notin opening[c] /\ "task" \notin opening[c] /\ ~isOpen[c]
      BY <1>2, <1>4 DEF Conn, Threads, Tasks, Busy
    <3>2. opening[c] \subseteq {"call", "task"}
      BY <1>1 DEF Shape
    <3> QED BY <3>1, <3>2
  <2>7. Reaches(c)'
    BY <1>4, <2>3, <2>6 DEF Reaches
  <2>8. Threads(c)' /\ Holds(c)' /\ Member(c)'
    BY <1>1, <1>2, <1>4, <2>2, <2>3, <2>6 DEF Conn, Threads, Holds, Member
  <2>9. Refused(c)' = Refused(c)
    BY <1>1 DEF Refused
  <2>10. Tasks(c)'
    BY <1>1, <1>2, <1>4, <2>2, <2>6, <2>9 DEF Conn, Tasks, Busy
  <2> QED BY <1>1, <2>4, <2>5, <2>7, <2>8, <2>10, ConnStep DEF Conn
<1>6. CASE ~Fails(s) /\ HasHost(s)
  <2>1. /\ openTask' = [openTask EXCEPT ![c].state = "running"]
        /\ StartOpen(c, s, "task")
    BY <1>6 DEF RunTask
  <2>2. /\ openTask' \in [Connections -> [state : TaskStates, string : DOMAIN Parsed \cup {<< >>}]]
        /\ \A d \in Connections \ {c} : openTask'[d] = openTask[d]
        /\ openTask'[c].state = "running" /\ openTask'[c].string = s
    BY <1>3, <2>1 DEF TaskStates
  <2>3. /\ params' \in [Connections -> Results \cup {None}]
        /\ exploreClient' \in [Connections -> {Client(p) : p \in Results} \cup {None}]
        /\ opening' \in [Connections -> SUBSET {"call", "task"}]
        /\ \A d \in Connections \ {c} : params'[d] = params[d] /\ opening'[d] = opening[d]
                                         /\ exploreClient'[d] = exploreClient[d]
        /\ params'[c] = Parsed[s] /\ params'[c] # None /\ params'[c] # Invalid
        /\ opening'[c] = opening[c] \cup {"task"}
        /\ Reaches(c)'
    BY <1>1, <1>4, <1>6, <2>1, StartFacts
  <2>4. Shape'
    BY <1>1, <1>4, <2>2, <2>3 DEF Shape
  <2>5. \A d \in Connections \ {c} : Same(d)
    BY <1>1, <1>4, <2>2, <2>3 DEF Same
  <2>6. Threads(c)' /\ Holds(c)' /\ Member(c)'
    BY <1>1, <1>2, <1>4, <2>2, <2>3 DEF Conn, Threads, Holds, Member
  <2>7. Refused(c)' = Refused(c) /\ Requested(c)' = Requested(c)
    BY <1>1 DEF Refused, Requested
  <2>8. Tasks(c)'
    BY <1>1, <1>2, <1>4, <2>2, <2>3, <2>7 DEF Conn, Tasks, Busy
  <2> QED BY <1>1, <2>3, <2>4, <2>5, <2>6, <2>8, ConnStep DEF Conn
<1> QED BY <1>5, <1>6, <1>7

LEMMA FinishOpenStep ==
  ASSUME ServeInv, NEW c \in Connections, FinishOpen(c)
  PROVE  ServeInv'
<1>1. /\ dm \in [Connections -> DmType] /\ Shape
      /\ UNCHANGED <<params, exploreClient, isAsync, isFunctionsAsync, infos, pools, nextId>>
  BY DEF ServeInv, Shape, DmType, FinishOpen
<1>2. Conn(c)
  BY DEF ServeInv
<1>3. openTask \in [Connections -> [state : TaskStates, string : DOMAIN Parsed \cup {<< >>}]]
  BY <1>1 DEF Shape
<1>4. PICK thread \in opening[c], available \in BOOLEAN :
        /\ opening' = [opening EXCEPT ![c] = opening[c] \ {thread}]
        /\ isOpen' = [isOpen EXCEPT ![c] = isOpen[c] \/ available]
        /\ IF thread = "task"
           THEN /\ openTask' = [openTask EXCEPT ![c].state = IF available THEN "done" ELSE "failed"]
                /\ UNCHANGED dm
           ELSE /\ IF available THEN Connected(c) ELSE NotConnected(c)
                /\ UNCHANGED openTask
  BY DEF FinishOpen
<1>5. /\ opening' \in [Connections -> SUBSET {"call", "task"}]
      /\ isOpen' \in [Connections -> BOOLEAN]
      /\ opening'[c] = opening[c] \ {thread} /\ isOpen'[c] = (isOpen[c] \/ available)
      /\ \A d \in Connections \ {c} : opening'[d] = opening[d] /\ isOpen'[d] = isOpen[d]
  BY <1>1, <1>4 DEF Shape
<1>6. thread \in {"call", "task"} /\ params[c] # None
  BY <1>1, <1>2, <1>4 DEF Shape, Conn, Threads
<1>7. params[c] # Invalid
  BY <1>1, <1>6 DEF Shape, Results
<1>8. Reaches(c)'
  BY <1>1, <1>2 DEF Conn, Reaches
<1>9. CASE thread = "task"
  <2>1. /\ openTask' \in [Connections -> [state : TaskStates, string : DOMAIN Parsed \cup {<< >>}]]
        /\ \A d \in Connections \ {c} : openTask'[d] = openTask[d]
        /\ openTask'[c].state = IF available THEN "done" ELSE "failed"
        /\ openTask'[c].string = openTask[c].string
        /\ UNCHANGED dm
    BY <1>3, <1>4, <1>9 DEF TaskStates
  <2>2. openTask[c].state = "running"
    BY <1>2, <1>4, <1>9 DEF Conn, Threads
  <2>3. Shape'
    BY <1>1, <1>5, <2>1 DEF Shape
  <2>4. \A d \in Connections \ {c} : Same(d)
    BY <1>1, <1>5, <2>1 DEF Same
  <2>5. Threads(c)'
    BY <1>1, <1>2, <1>5, <1>6, <1>9, <2>1 DEF Conn, Threads
  <2>6. Holds(c)' /\ Member(c)'
    BY <1>1, <1>2, <2>1 DEF Conn, Holds, Member
  <2>7. Refused(c)' = Refused(c) /\ Requested(c)' = Requested(c)
    BY <1>1, <2>1 DEF Refused, Requested
  <2>8. Tasks(c)'
    <3>1. dm[c].state = "polling"
      BY <1>2, <2>2 DEF Conn, Tasks, Busy
    <3>2. openTask'[c].state = "done" <=> isOpen'[c]
      BY <1>2, <1>4, <1>5, <2>1, <2>2, <3>1 DEF Conn, Tasks
    <3> QED BY <1>1, <1>2, <2>1, <2>2, <2>7, <3>1, <3>2 DEF Conn, Tasks, Busy
  <2> QED BY <1>1, <1>8, <2>3, <2>4, <2>5, <2>6, <2>8, ConnStep DEF Conn
<1>10. CASE thread = "call"
  <2>1. UNCHANGED openTask /\ dm[c].state = "waiting" /\ ~Busy(c)
    <3>1. dm[c].state = "waiting" /\ thread # "task"
      BY <1>2, <1>4, <1>10 DEF Conn, Threads
    <3>2. ~Busy(c)
      BY <1>2, <3>1 DEF Conn, Tasks
    <3> QED BY <1>4, <3>1, <3>2
  <2>2. "call" \notin opening'[c] /\ ("task" \in opening'[c] <=> "task" \in opening[c])
    BY <1>5, <1>10
  <2>3. CASE available
    <3>1. Connected(c) /\ isOpen'[c]
      BY <1>4, <1>5, <1>10, <2>3
    <3>2. /\ dm' \in [Connections -> DmType] /\ \A d \in Connections \ {c} : dm'[d] = dm[d]
          /\ dm'[c].state = "connected"
          /\ dm'[c].token = dm[c].token /\ dm'[c].pool = dm[c].pool
      BY <1>1, <3>1, ConnectedFacts
    <3>3. Shape'
      BY <1>1, <1>5, <2>1, <3>2 DEF Shape, DmType
    <3>4. \A d \in Connections \ {c} : Same(d)
      BY <1>1, <1>5, <2>1, <3>2 DEF Same
    <3>5. Threads(c)'
      BY <1>1, <1>2, <1>6, <2>1, <2>2, <3>2 DEF Conn, Threads
    <3>6. Holds(c)'
      BY <1>1, <1>2, <3>2 DEF Conn, Holds, Calling
    <3>7. Tasks(c)'
      BY <2>1, <3>1, <3>2 DEF Tasks, Busy
    <3>8. Member(c)'
      <4>1. CASE dm[c].token = None
        BY <1>2, <2>1, <3>2, <4>1 DEF Conn, Holds, Calling, Member
      <4>2. CASE dm[c].token # None
        <5>1. params[c] = Parsed[Requested(c)]
          BY <1>2, <2>1, <4>2 DEF Conn, Tasks
        <5>2. \E entry \in pools :
                /\ entry.id = dm[c].pool /\ EqualText(entry.host, params[c].host)
                /\ entry.port > 0 => entry.port = params[c].port
          BY <1>7, <2>1, <4>2, <5>1, OpenedServes DEF Calling
        <5> QED BY <1>1, <3>2, <5>2 DEF Member
      <4> QED BY <4>1, <4>2
    <3> QED BY <1>1, <1>8, <3>3, <3>4, <3>5, <3>6, <3>7, <3>8, ConnStep DEF Conn
  <2>4. CASE ~available
    <3>1. NotConnected(c)
      BY <1>4, <1>10, <2>4
    <3>2. /\ dm' \in [Connections -> DmType] /\ \A d \in Connections \ {c} : dm'[d] = dm[d]
          /\ dm'[c].state = "allocated" /\ dm'[c].token = None /\ dm'[c].pool = 0
      BY <1>1, <3>1, NotConnectedFacts
    <3>3. Shape'
      BY <1>1, <1>5, <2>1, <3>2 DEF Shape, DmType
    <3>4. \A d \in Connections \ {c} : Same(d)
      BY <1>1, <1>5, <2>1, <3>2 DEF Same
    <3>5. Threads(c)'
      BY <1>1, <1>2, <1>6, <2>1, <2>2, <3>2 DEF Conn, Threads
    <3>6. Holds(c)' /\ Member(c)'
      BY <3>2 DEF Holds, Calling, Member
    <3>7. Tasks(c)'
      BY <1>2, <1>5, <2>1, <2>4, <3>2 DEF Conn, Tasks, Busy
    <3> QED BY <1>1, <1>8, <3>3, <3>4, <3>5, <3>6, <3>7, ConnStep DEF Conn
  <2> QED BY <1>4, <2>3, <2>4
<1> QED BY <1>6, <1>9, <1>10

(***************************************************************************)
(* The other calls of a connection.                                        *)
(***************************************************************************)
\* Nothing runs in a connection that is open and not locked.
LEMMA QuietFacts ==
  ASSUME ServeInv, NEW c \in Connections, Unlocked(c), dm[c].state \in {"connected", "pooled"}
  PROVE  opening[c] = {} /\ ~Busy(c) /\ isOpen[c] /\ params[c] # None /\ exploreClient[c] # None
<1>1. Conn(c) /\ opening[c] \in SUBSET {"call", "task"}
  BY DEF ServeInv, Shape
<1>2. "task" \notin opening[c] /\ "call" \notin opening[c]
  BY <1>1 DEF Unlocked, Conn, Threads
<1>3. opening[c] = {}
  BY <1>1, <1>2
<1>4. ~Busy(c) /\ isOpen[c]
  BY <1>1 DEF Conn, Tasks
<1> QED BY <1>1, <1>3, <1>4 DEF Conn, Threads, Reaches

LEMMA SQLDisconnectStep ==
  ASSUME ServeInv, NEW c \in Connections, SQLDisconnect(c)
  PROVE  ServeInv'
<1>1. /\ dm \in [Connections -> DmType] /\ Shape /\ Conn(c)
      /\ dm[c].state \in {"connected", "pooled"} /\ Unlocked(c)
      /\ UNCHANGED <<isAsync, isFunctionsAsync, openTask, opening, infos, pools, nextId>>
  BY DEF ServeInv, Shape, DmType, SQLDisconnect
<1>2. opening[c] = {} /\ ~Busy(c)
  BY <1>1, QuietFacts
<1>3. /\ dm' \in [Connections -> DmType] /\ \A d \in Connections \ {c} : dm'[d] = dm[d]
      /\ dm'[c].state = "allocated" /\ dm'[c].token = None /\ dm'[c].pool = 0
  BY <1>1, NotConnectedFacts DEF SQLDisconnect, NotConnected
<1>4. /\ params' \in [Connections -> Results \cup {None}]
      /\ exploreClient' \in [Connections -> {Client(p) : p \in Results} \cup {None}]
      /\ isOpen' \in [Connections -> BOOLEAN]
      /\ \A d \in Connections \ {c} : params'[d] = params[d] /\ isOpen'[d] = isOpen[d]
                                       /\ exploreClient'[d] = exploreClient[d]
      /\ params'[c] = None /\ exploreClient'[c] = None /\ ~isOpen'[c]
  BY <1>1 DEF SQLDisconnect, Shape
<1>5. Shape'
  BY <1>1, <1>3, <1>4 DEF Shape, DmType
<1>6. \A d \in Connections \ {c} : Same(d)
  BY <1>1, <1>3, <1>4 DEF Same
<1>7. Reaches(c)' /\ Holds(c)' /\ Member(c)'
  BY <1>1, <1>2, <1>3, <1>4 DEF Reaches, Holds, Calling, Member
<1>8. Threads(c)'
  BY <1>1, <1>2, <1>3, <1>4 DEF Conn, Threads
<1>9. Tasks(c)'
  BY <1>1, <1>2, <1>3, <1>4 DEF Tasks, Busy
<1> QED BY <1>1, <1>5, <1>6, <1>7, <1>8, <1>9, ConnStep DEF Conn

LEMMA SQLSetConnectAttrStep ==
  ASSUME ServeInv, NEW c \in Connections, SQLSetConnectAttr(c)
  PROVE  ServeInv'
<1>1. /\ Shape /\ Conn(c) /\ dm[c].state \in {"connected", "allocated"}
      /\ UNCHANGED <<isOpen, params, exploreClient, openTask, opening, infos, pools, nextId, dm>>
  BY DEF ServeInv, SQLSetConnectAttr
<1>2. /\ isAsync' \in [Connections -> BOOLEAN] /\ isFunctionsAsync' \in [Connections -> BOOLEAN]
      /\ \A d \in Connections \ {c} : isAsync'[d] = isAsync[d]
                                       /\ isFunctionsAsync'[d] = isFunctionsAsync[d]
  BY <1>1 DEF SQLSetConnectAttr, Shape
<1>3. Shape'
  BY <1>1, <1>2 DEF Shape
<1>4. \A d \in Connections \ {c} : Same(d)
  BY <1>1, <1>2 DEF Same
<1>5. Reaches(c)' /\ Threads(c)' /\ Holds(c)' /\ Member(c)'
  BY <1>1 DEF Conn, Reaches, Threads, Holds, Member
<1>6. Tasks(c)'
  BY <1>1 DEF Conn, Tasks, Busy, Requested
<1> QED BY <1>1, <1>3, <1>4, <1>5, <1>6, ConnStep DEF Conn

LEMMA ReturnToPoolStep ==
  ASSUME ServeInv, NEW c \in Connections, ReturnToPool(c)
  PROVE  ServeInv'
<1>1. /\ dm \in [Connections -> DmType] /\ Shape /\ Conn(c)
      /\ dm[c].state = "connected" /\ dm[c].token # None
      /\ UNCHANGED <<cvars, infos, pools, nextId>>
  BY DEF ServeInv, Shape, DmType, ReturnToPool
<1>2. /\ dm' \in [Connections -> DmType] /\ \A d \in Connections \ {c} : dm'[d] = dm[d]
      /\ dm'[c].state = "pooled" /\ dm'[c].token = None /\ dm'[c].pool = dm[c].pool
  <2> DEFINE r == [dm[c] EXCEPT !.state = "pooled", !.token = None]
  <2>1. dm[c] \in DmType
    BY <1>1
  <2>2. r \in DmType /\ r.state = "pooled" /\ r.token = None /\ r.pool = dm[c].pool
    BY <2>1 DEF DmType, Answers
  <2>3. dm' = [dm EXCEPT ![c] = r]
    BY DEF ReturnToPool
  <2> HIDE DEF r
  <2> QED BY <1>1, <2>2, <2>3
<1>3. Shape'
  BY <1>1, <1>2 DEF Shape, DmType, cvars
<1>4. \A d \in Connections \ {c} : Same(d)
  BY <1>1, <1>2 DEF Same, cvars
<1>5. Reaches(c)' /\ Threads(c)' /\ Holds(c)' /\ Member(c)'
  BY <1>1, <1>2 DEF Conn, Reaches, Threads, Holds, Member, Calling, cvars
<1>6. Tasks(c)'
  BY <1>1, <1>2 DEF Conn, Tasks, Busy, cvars
<1> QED BY <1>1, <1>3, <1>4, <1>5, <1>6, ConnStep DEF Conn

(***************************************************************************)
(* Infos and pools.                                                        *)
(***************************************************************************)
InfoType == [phase : Phases, params : ReadParams \cup {None}, isAsync : BOOLEAN,
             isFunctionsAsync : BOOLEAN, pool : 0..MaxPoolId]

\* A step of an info that no connect holds.
LEMMA InfoStep ==
  ASSUME ServeInv, NEW t \in Tokens, \A c \in Connections : dm[c].token # t,
         UNCHANGED <<cvars, dm>>, infos' \in [Tokens -> InfoType],
         \A u \in Tokens \ {t} : infos'[u] = infos[u], InfoPool(t)',
         Pools', nextId' \in 1..(MaxPoolId + 1), \A id : Kept(id)
  PROVE  ServeInv'
<1>1. Shape'
  BY DEF ServeInv, Shape, InfoType, cvars
<1>2. \A c \in Connections : Same(c)
  BY DEF Same, cvars
<1>3. \A c \in Connections : Conn(c)'
  <2> SUFFICES ASSUME NEW c \in Connections PROVE Conn(c)'
    OBVIOUS
  <2>1. dm[c].token # None => dm[c].token \in Tokens \ {t}
    BY DEF ServeInv, Shape
  <2> QED BY <1>2, <2>1, SameConn DEF ServeInv
<1>4. \A u \in Tokens \ {t} : InfoPool(u)'
  BY SameInfo DEF ServeInv
<1> QED BY <1>1, <1>3, <1>4 DEF ServeInv

\* An info that is not in use is held by no connect.
LEMMA NotHeld ==
  ASSUME ServeInv, NEW t \in Tokens, infos[t].phase # "used"
  PROVE  \A c \in Connections : dm[c].token # t
BY ConnectionAssumption DEF ServeInv, Conn, Holds

LEMMA AllocInfoStep ==
  ASSUME ServeInv, NEW t \in Tokens, AllocInfo(t)
  PROVE  ServeInv'
<1>1. infos \in [Tokens -> InfoType] /\ UNCHANGED <<cvars, pools, nextId, dm>>
  BY DEF ServeInv, Shape, InfoType, AllocInfo
<1>2. PICK a \in Memory, f \in Memory :
        infos' = [infos EXCEPT ![t] = [NoInfo EXCEPT !.phase = "allocated", !.isAsync = a,
                                                     !.isFunctionsAsync = f]]
  BY DEF AllocInfo
<1> DEFINE r == [NoInfo EXCEPT !.phase = "allocated", !.isAsync = a, !.isFunctionsAsync = f]
<1>3. r \in InfoType /\ r.phase = "allocated" /\ r.pool = 0
  <2>1. a \in BOOLEAN /\ f \in BOOLEAN /\ 0 \in 0..MaxPoolId
    BY ConnectionAssumption
  <2>2. NoInfo \in InfoType /\ NoInfo.pool = 0
    BY <2>1 DEF NoInfo, InfoType, Phases
  <2> QED BY <2>1, <2>2 DEF InfoType, Phases
<1> HIDE DEF r
<1>4. infos' \in [Tokens -> InfoType] /\ infos'[t] = r /\ \A u \in Tokens \ {t} : infos'[u] = infos[u]
  BY <1>1, <1>2, <1>3 DEF r
<1>5. InfoPool(t)'
  BY <1>3, <1>4 DEF InfoPool
<1>6. \A c \in Connections : dm[c].token # t
  BY NotHeld DEF AllocInfo
<1>7. Pools' /\ nextId' \in 1..(MaxPoolId + 1) /\ \A id : Kept(id)
  BY <1>1 DEF ServeInv, Shape, Pools, PoolPerServer, Kept
<1> QED BY <1>1, <1>4, <1>5, <1>6, <1>7, InfoStep

LEMMA SQLSetConnectAttrForDbcInfoStep ==
  ASSUME ServeInv, NEW t \in Tokens, SQLSetConnectAttrForDbcInfo(t)
  PROVE  ServeInv'
<1>1. infos \in [Tokens -> InfoType] /\ UNCHANGED <<cvars, pools, nextId, dm>> /\ InfoPool(t)
  BY DEF ServeInv, Shape, InfoType, SQLSetConnectAttrForDbcInfo
<1>2. PICK on \in BOOLEAN : \/ infos' = [infos EXCEPT ![t].isAsync = on]
                            \/ infos' = [infos EXCEPT ![t].isFunctionsAsync = on]
  BY DEF SQLSetConnectAttrForDbcInfo
<1>3. /\ infos' \in [Tokens -> InfoType] /\ \A u \in Tokens \ {t} : infos'[u] = infos[u]
      /\ infos'[t].phase = infos[t].phase /\ infos'[t].pool = infos[t].pool
      /\ infos'[t].params = infos[t].params
  BY <1>1, <1>2 DEF InfoType
<1>5. InfoPool(t)'
  BY <1>1, <1>3 DEF InfoPool
<1>6. \A c \in Connections : dm[c].token # t
  BY NotHeld DEF SQLSetConnectAttrForDbcInfo
<1>7. Pools' /\ nextId' \in 1..(MaxPoolId + 1) /\ \A id : Kept(id)
  BY <1>1 DEF ServeInv, Shape, Pools, PoolPerServer, Kept
<1> QED BY <1>1, <1>3, <1>5, <1>6, <1>7, InfoStep

LEMMA SQLSetDriverConnectInfoStep ==
  ASSUME ServeInv, NEW t \in Tokens, SQLSetDriverConnectInfo(t)
  PROVE  ServeInv'
<1>1. /\ infos \in [Tokens -> InfoType] /\ UNCHANGED <<cvars, pools, nextId, dm>> /\ InfoPool(t)
      /\ infos[t].phase = "allocated"
  BY DEF ServeInv, Shape, InfoType, SQLSetDriverConnectInfo
<1>2. PICK s \in PooledStrings :
        /\ Parsed[s] # Invalid
        /\ infos' = [infos EXCEPT ![t].params = Parsed[s], ![t].phase = "described"]
  BY DEF SQLSetDriverConnectInfo
<1>3. Parsed[s] \in ReadParams
  BY <1>2, ResultFacts DEF Strings, Parsed
<1>4. infos' = [infos EXCEPT ![t] = [infos[t] EXCEPT !.params = Parsed[s], !.phase = "described"]]
  BY <1>1, <1>2
<1> DEFINE r == [infos[t] EXCEPT !.params = Parsed[s], !.phase = "described"]
<1>5. r \in InfoType /\ r.phase = "described" /\ r.params = Parsed[s] /\ r.pool = infos[t].pool
  BY <1>1, <1>3 DEF InfoType, Phases
<1> HIDE DEF r
<1>6. infos' \in [Tokens -> InfoType] /\ infos'[t] = r /\ \A u \in Tokens \ {t} : infos'[u] = infos[u]
  BY <1>1, <1>4, <1>5 DEF r
<1>7. InfoPool(t)'
  BY <1>1, <1>3, <1>5, <1>6 DEF InfoPool
<1>8. \A c \in Connections : dm[c].token # t
  BY <1>1, NotHeld
<1>9. Pools' /\ nextId' \in 1..(MaxPoolId + 1) /\ \A id : Kept(id)
  BY <1>1 DEF ServeInv, Shape, Pools, PoolPerServer, Kept
<1> QED BY <1>1, <1>6, <1>7, <1>8, <1>9, InfoStep

LEMMA SQLGetPoolIDStep ==
  ASSUME ServeInv, NEW t \in Tokens, SQLGetPoolID(t)
  PROVE  ServeInv'
<1> DEFINE p == infos[t].params
           found == {entry \in pools : SameServer(entry, p)}
<1>1. /\ infos \in [Tokens -> InfoType] /\ UNCHANGED <<cvars, dm>> /\ InfoPool(t)
      /\ infos[t].phase = "described" /\ p \in ReadParams /\ Pools
      /\ nextId \in 1..(MaxPoolId + 1) /\ MaxPoolId \in Nat
  BY ConnectionAssumption DEF ServeInv, Shape, InfoType, SQLGetPoolID, InfoPool
<1>2. p.port \in Int
  BY <1>1, ReadFacts DEF ReadShape
<1>3. \A c \in Connections : dm[c].token # t
  BY <1>1, NotHeld
<1>4. ASSUME NEW id \in 1..MaxPoolId,
             infos' = [infos EXCEPT ![t].pool = id, ![t].phase = "rating"]
      PROVE  /\ infos' \in [Tokens -> InfoType] /\ \A u \in Tokens \ {t} : infos'[u] = infos[u]
             /\ infos'[t].phase = "rating" /\ infos'[t].pool = id /\ infos'[t].params = p
  <2> DEFINE r == [infos[t] EXCEPT !.pool = id, !.phase = "rating"]
  <2>1. r \in InfoType /\ r.phase = "rating" /\ r.pool = id /\ r.params = p
    <3>1. infos[t] \in InfoType /\ id \in 0..MaxPoolId
      BY <1>1
    <3> QED BY <3>1 DEF InfoType, Phases
  <2>2. infos' = [infos EXCEPT ![t] = r]
    BY <1>1, <1>4
  <2> HIDE DEF r
  <2> QED BY <1>1, <2>1, <2>2
<1>5. CASE found # {}
  <2>1. PICK entry \in found : infos' = [infos EXCEPT ![t].pool = entry.id, ![t].phase = "rating"]
    BY <1>5 DEF SQLGetPoolID
  <2>2. UNCHANGED <<pools, nextId>>
    BY <1>5 DEF SQLGetPoolID
  <2>3. entry.id \in 1..MaxPoolId
    BY <1>1 DEF Pools
  <2>4. /\ infos' \in [Tokens -> InfoType] /\ \A u \in Tokens \ {t} : infos'[u] = infos[u]
        /\ infos'[t].phase = "rating" /\ infos'[t].pool = entry.id /\ infos'[t].params = p
    BY <1>4, <2>1, <2>3
  <2>5. InfoPool(t)'
    BY <1>1, <2>2, <2>4 DEF InfoPool
  <2>6. Pools' /\ \A id : Kept(id)
    BY <1>1, <2>2 DEF Pools, PoolPerServer, Kept
  <2> QED BY <1>1, <1>3, <2>2, <2>4, <2>5, <2>6, InfoStep
<1>6. CASE found = {}
  <2> DEFINE new == [host |-> p.host, port |-> p.port, id |-> nextId]
  <2>1. /\ nextId <= MaxPoolId /\ pools' = pools \cup {new} /\ nextId' = nextId + 1
        /\ infos' = [infos EXCEPT ![t].pool = nextId, ![t].phase = "rating"]
    BY <1>6 DEF SQLGetPoolID
  <2>2. /\ infos' \in [Tokens -> InfoType] /\ \A u \in Tokens \ {t} : infos'[u] = infos[u]
        /\ infos'[t].phase = "rating" /\ infos'[t].pool = nextId /\ infos'[t].params = p
    <3>1. nextId \in 1..MaxPoolId
      BY <1>1, <2>1
    <3> QED BY <1>4, <2>1, <3>1
  <2>3. new.host = p.host /\ new.port = p.port /\ new.id = nextId
    OBVIOUS
  <2> HIDE DEF new
  <2>4. SameServer(new, p)
    BY <2>3 DEF SameServer, EqualText
  <2>5. InfoPool(t)'
    BY <1>1, <2>1, <2>2, <2>3, <2>4 DEF InfoPool
  <2>6. \A entry \in pools : /\ entry.id # new.id
                             /\ ~(EqualText(entry.host, new.host) /\ entry.port = new.port)
                             /\ ~(EqualText(new.host, entry.host) /\ new.port = entry.port)
    <3> SUFFICES ASSUME NEW entry \in pools
                 PROVE  /\ entry.id # new.id
                        /\ ~(EqualText(entry.host, new.host) /\ entry.port = new.port)
                        /\ ~(EqualText(new.host, entry.host) /\ new.port = entry.port)
      OBVIOUS
    <3>1. entry.id \in 1..(nextId - 1) /\ nextId \in Int
      BY <1>1 DEF Pools
    <3>2. ~SameServer(entry, p)
      BY <1>6
    <3>3. entry.id # new.id
      BY <2>3, <3>1
    <3> QED BY <2>3, <3>2, <3>3 DEF SameServer, EqualText
  <2>7. PoolPerServer'
    BY <1>1, <2>1, <2>6 DEF Pools, PoolPerServer
  <2>8. Pools'
    <3>1. \A entry \in pools' : entry.id \in 1..(nextId' - 1) /\ entry.port \in Int
      BY <1>1, <1>2, <2>1, <2>3 DEF Pools
    <3> QED BY <2>7, <3>1 DEF Pools
  <2>9. nextId' \in 1..(MaxPoolId + 1) /\ \A id : Kept(id)
    BY <1>1, <2>1 DEF Kept
  <2> QED BY <1>1, <1>3, <2>2, <2>5, <2>8, <2>9, InfoStep
<1> QED BY <1>5, <1>6

LEMMA FreeInfoStep ==
  ASSUME ServeInv, NEW t \in Tokens, FreeInfo(t)
  PROVE  ServeInv'
<1>1. infos \in [Tokens -> InfoType] /\ UNCHANGED <<cvars, pools, nextId, dm>>
  BY DEF ServeInv, Shape, InfoType, FreeInfo
<1>2. infos' = [infos EXCEPT ![t] = NoInfo]
  BY DEF FreeInfo
<1>3. NoInfo \in InfoType /\ NoInfo.phase = "free" /\ NoInfo.pool = 0
  BY ConnectionAssumption DEF NoInfo, InfoType, Phases
<1>4. infos' \in [Tokens -> InfoType] /\ infos'[t] = NoInfo
      /\ \A u \in Tokens \ {t} : infos'[u] = infos[u]
  BY <1>1, <1>2, <1>3
<1>5. InfoPool(t)'
  BY <1>3, <1>4 DEF InfoPool
<1>6. \A c \in Connections : dm[c].token # t
  BY DEF FreeInfo
<1>7. Pools' /\ nextId' \in 1..(MaxPoolId + 1) /\ \A id : Kept(id)
  BY <1>1 DEF ServeInv, Shape, Pools, PoolPerServer, Kept
<1> QED BY <1>1, <1>4, <1>5, <1>6, <1>7, InfoStep

LEMMA CleanupStep ==
  ASSUME ServeInv, NEW id \in 1..MaxPoolId, SQLCleanupConnectionPoolID(id)
  PROVE  ServeInv'
<1>1. /\ UNCHANGED <<cvars, infos, nextId, dm>> /\ Shape /\ Pools
      /\ \A t \in Tokens : infos[t].pool # id
      /\ \A c \in Connections : dm[c].pool # id
  BY DEF ServeInv, SQLCleanupConnectionPoolID
<1>2. PICK entry \in pools : entry.id = id /\ pools' = pools \ {entry}
  BY DEF SQLCleanupConnectionPoolID
<1>3. \A other : other # id => Kept(other)
  BY <1>2 DEF Kept
<1>4. \A c \in Connections : Same(c)
  BY <1>1 DEF Same, cvars
<1>5. \A c \in Connections : Conn(c)'
  <2> SUFFICES ASSUME NEW c \in Connections PROVE Conn(c)'
    OBVIOUS
  <2>1. Conn(c) /\ Kept(dm[c].pool) /\ infos' = infos
    BY <1>1, <1>3 DEF ServeInv
  <2> QED BY <1>4, <2>1, SameConn
<1>6. \A t \in Tokens : InfoPool(t)'
  BY <1>1, <1>3, SameInfo DEF ServeInv
<1>7. Pools'
  BY <1>1, <1>2 DEF Pools, PoolPerServer
<1>8. Shape'
  BY <1>1 DEF Shape, cvars
<1> QED BY <1>5, <1>6, <1>7, <1>8 DEF ServeInv

\* A connect takes an info, which nobody else holds.
LEMMA TakeStep ==
  ASSUME ServeInv, Shape', NEW t \in Tokens, NEW c \in Connections, infos[t].phase = "rating",
         infos' = [infos EXCEPT ![t].phase = "used"], UNCHANGED <<pools, nextId>>,
         \A d \in Connections \ {c} : Same(d), Conn(c)'
  PROVE  ServeInv'
<1>1. infos \in [Tokens -> InfoType] /\ InfoPool(t) /\ Pools
  BY DEF ServeInv, Shape, InfoType
<1>2. /\ \A u \in Tokens \ {t} : infos'[u] = infos[u]
      /\ infos'[t].phase = "used" /\ infos'[t].pool = infos[t].pool /\ infos'[t].params = infos[t].params
  BY <1>1 DEF InfoType
<1>3. \A id : Kept(id)
  BY DEF Kept
<1>4. \A d \in Connections \ {c} : Conn(d)'
  <2> SUFFICES ASSUME NEW d \in Connections \ {c} PROVE Conn(d)'
    OBVIOUS
  <2>1. dm[d].token # None => dm[d].token \in Tokens \ {t}
    BY NotHeld DEF ServeInv, Shape
  <2> QED BY <1>2, <1>3, <2>1, SameConn DEF ServeInv
<1>5. \A u \in Tokens \ {t} : InfoPool(u)'
  BY <1>2, <1>3, SameInfo DEF ServeInv
<1>6. InfoPool(t)'
  BY <1>1, <1>2 DEF InfoPool
<1>7. Pools'
  BY <1>1 DEF Pools, PoolPerServer
<1> QED BY <1>4, <1>5, <1>6, <1>7 DEF ServeInv

LEMMA BeginStep ==
  ASSUME ServeInv, NEW c \in Connections, Begin(c)
  PROVE  ServeInv'
<1>1. /\ dm \in [Connections -> DmType] /\ Shape /\ Conn(c) /\ dm[c].state = "allocated"
      /\ UNCHANGED <<cvars, pools, nextId>>
  BY DEF ServeInv, Shape, DmType, Begin
<1>2. ~Busy(c)
  BY <1>1 DEF Conn, Tasks
<1>3. Reaches(c)'
  BY <1>1 DEF Conn, Reaches, cvars
<1>4. ASSUME NEW s \in DirectStrings, NEW completion \in Completions, UNCHANGED infos,
             dm' = [dm EXCEPT ![c] = [Idle EXCEPT !.state = "calling", !.string = s,
                                                  !.completion = completion]]
      PROVE  ServeInv'
  <2> DEFINE r == [Idle EXCEPT !.state = "calling", !.string = s, !.completion = completion]
  <2>1. r \in DmType /\ r.state = "calling" /\ r.token = None /\ r.pool = 0 /\ r.string = s
    BY IdleFacts DEF DmType, Answers, Idle
  <2> HIDE DEF r
  <2>2. dm' \in [Connections -> DmType] /\ dm'[c] = r /\ \A d \in Connections \ {c} : dm'[d] = dm[d]
    BY <1>1, <1>4, <2>1 DEF r
  <2>3. Shape'
    BY <1>1, <1>4, <2>2 DEF Shape, DmType, cvars
  <2>4. \A d \in Connections \ {c} : Same(d)
    BY <1>1, <2>2 DEF Same, cvars
  <2>5. Threads(c)' /\ Holds(c)' /\ Member(c)'
    BY <1>1, <2>1, <2>2 DEF Conn, Threads, Holds, Member, Calling, cvars
  <2>6. Tasks(c)'
    BY <1>1, <1>2, <2>1, <2>2 DEF Conn, Tasks, Busy, cvars
  <2> QED BY <1>1, <1>3, <1>4, <2>3, <2>4, <2>5, <2>6, ConnStep DEF Conn
<1>5. ASSUME NEW t \in Tokens, infos[t].phase = "rating",
             infos' = [infos EXCEPT ![t].phase = "used"],
             dm' = [dm EXCEPT ![c] = [Idle EXCEPT !.state = "calling", !.token = t,
                                                  !.pool = infos[t].pool]]
      PROVE  ServeInv'
  <2> DEFINE r == [Idle EXCEPT !.state = "calling", !.token = t, !.pool = infos[t].pool]
  <2>1. infos \in [Tokens -> InfoType] /\ infos[t] \in InfoType /\ t # None
    BY ConnectionAssumption DEF ServeInv, Shape, InfoType
  <2>2. r \in DmType /\ r.state = "calling" /\ r.token = t /\ r.pool = infos[t].pool
    BY <2>1, IdleFacts DEF DmType, InfoType, Answers, Idle
  <2> HIDE DEF r
  <2>3. dm' \in [Connections -> DmType] /\ dm'[c] = r /\ \A d \in Connections \ {c} : dm'[d] = dm[d]
    BY <1>1, <1>5, <2>2 DEF r
  <2>4. infos' \in [Tokens -> InfoType] /\ infos'[t].phase = "used" /\ infos'[t].pool = infos[t].pool
    BY <1>5, <2>1 DEF InfoType, Phases
  <2>5. Shape'
    BY <1>1, <2>3, <2>4 DEF Shape, DmType, InfoType, cvars
  <2>6. \A d \in Connections \ {c} : Same(d)
    BY <1>1, <2>3 DEF Same, cvars
  <2>7. Threads(c)' /\ Holds(c)' /\ Member(c)'
    BY <1>1, <2>1, <2>2, <2>3, <2>4 DEF Conn, Threads, Holds, Member, Calling, cvars
  <2>8. Tasks(c)'
    BY <1>1, <1>2, <2>2, <2>3 DEF Conn, Tasks, Busy, cvars
  <2> QED BY <1>1, <1>3, <1>5, <2>5, <2>6, <2>7, <2>8, TakeStep DEF Conn
<1> QED BY <1>4, <1>5 DEF Begin

LEMMA HandOverFacts ==
  ASSUME ServeInv, NEW t \in Tokens, NEW c \in Connections, infos[t].phase = "rating",
         c \in Candidates(t), HandOver(t, c)
  PROVE  /\ dm' \in [Connections -> DmType] /\ \A d \in Connections \ {c} : dm'[d] = dm[d]
         /\ dm'[c].state = "connected" /\ dm'[c].token = t /\ dm'[c].pool = dm[c].pool
         /\ dm[c].pool = infos[t].pool /\ t # None /\ infos' \in [Tokens -> InfoType]
         /\ infos'[t].phase = "used" /\ infos'[t].pool = infos[t].pool
<1>1. dm \in [Connections -> DmType] /\ infos \in [Tokens -> InfoType]
  BY DEF ServeInv, Shape, DmType, InfoType
<1> DEFINE r == [dm[c] EXCEPT !.state = "connected", !.token = t]
<1>2. dm[c] \in DmType
  BY <1>1
<1>3. r \in DmType /\ r.state = "connected" /\ r.token = t /\ r.pool = dm[c].pool
  BY <1>2 DEF DmType, Answers
<1>4. dm' = [dm EXCEPT ![c] = r]
  BY DEF HandOver
<1> HIDE DEF r
<1>5. infos' \in [Tokens -> InfoType] /\ infos'[t].phase = "used" /\ infos'[t].pool = infos[t].pool
  BY <1>1 DEF HandOver, InfoType, Phases
<1> QED BY <1>1, <1>3, <1>4, <1>5, ConnectionAssumption DEF Candidates

LEMMA ReuseStep ==
  ASSUME ServeInv, NEW t \in Tokens, NEW c \in Connections, Reuse(t, c)
  PROVE  ServeInv'
<1>1. /\ infos[t].phase = "rating" /\ c \in Candidates(t) /\ HandOver(t, c) /\ Conn(c) /\ Shape
      /\ UNCHANGED <<cvars, pools, nextId>> /\ dm[c].state = "pooled"
  BY DEF ServeInv, Reuse, Candidates
<1>2. /\ dm' \in [Connections -> DmType] /\ \A d \in Connections \ {c} : dm'[d] = dm[d]
      /\ dm'[c].state = "connected" /\ dm'[c].token = t /\ dm'[c].pool = dm[c].pool
      /\ dm[c].pool = infos[t].pool /\ t # None /\ infos' \in [Tokens -> InfoType]
      /\ infos'[t].phase = "used" /\ infos'[t].pool = infos[t].pool
  BY <1>1, HandOverFacts
<1>3. Shape'
  BY <1>1, <1>2 DEF Shape, DmType, InfoType, cvars
<1>4. \A d \in Connections \ {c} : Same(d)
  BY <1>1, <1>2 DEF Same, cvars
<1>5. Reaches(c)' /\ Threads(c)' /\ Holds(c)' /\ Member(c)'
  BY <1>1, <1>2 DEF Conn, Reaches, Threads, Holds, Member, Calling, cvars
<1>6. Tasks(c)'
  BY <1>1, <1>2 DEF Conn, Tasks, Busy, cvars
<1> QED BY <1>1, <1>3, <1>4, <1>5, <1>6, TakeStep DEF Conn, HandOver

LEMMA ResetStep ==
  ASSUME ServeInv, NEW t \in Tokens, NEW c \in Connections, Reset(t, c)
  PROVE  ServeInv'
<1>1. /\ infos[t].phase = "rating" /\ c \in Candidates(t) /\ HandOver(t, c) /\ Conn(c) /\ Shape
      /\ UNCHANGED <<isOpen, exploreClient, openTask, opening, pools, nextId>>
      /\ dm[c].state = "pooled" /\ Unlocked(c)
  BY DEF ServeInv, Reset, Candidates, SetInfo
<1>2. /\ dm' \in [Connections -> DmType] /\ \A d \in Connections \ {c} : dm'[d] = dm[d]
      /\ dm'[c].state = "connected" /\ dm'[c].token = t /\ dm'[c].pool = dm[c].pool
      /\ dm[c].pool = infos[t].pool /\ t # None /\ infos' \in [Tokens -> InfoType]
      /\ infos'[t].phase = "used" /\ infos'[t].pool = infos[t].pool
  BY <1>1, HandOverFacts
<1>3. opening[c] = {} /\ ~Busy(c) /\ isOpen[c] /\ params[c] # None /\ exploreClient[c] # None
  BY <1>1, QuietFacts
<1>4. infos[t] \in InfoType /\ infos[t].params \in ReadParams /\ InfoPool(t)
  BY <1>1 DEF ServeInv, Shape, InfoType, InfoPool
<1>5. infos[t].params \in Results /\ infos[t].params # None
  BY <1>4, ReadFacts
<1>6. /\ params' \in [Connections -> Results \cup {None}] /\ params'[c] = infos[t].params
      /\ isAsync' \in [Connections -> BOOLEAN] /\ isFunctionsAsync' \in [Connections -> BOOLEAN]
      /\ \A d \in Connections \ {c} : params'[d] = params[d] /\ isAsync'[d] = isAsync[d]
                                       /\ isFunctionsAsync'[d] = isFunctionsAsync[d]
  <2>1. /\ params' = [params EXCEPT ![c] = infos[t].params]
        /\ isAsync' = [isAsync EXCEPT ![c] = infos[t].isAsync]
        /\ isFunctionsAsync' = [isFunctionsAsync EXCEPT ![c] = infos[t].isFunctionsAsync]
    BY DEF Reset, SetInfo
  <2> QED BY <1>1, <1>4, <1>5, <2>1 DEF Shape, InfoType
<1>7. Shape'
  BY <1>1, <1>2, <1>6 DEF Shape, DmType, InfoType
<1>8. \A d \in Connections \ {c} : Same(d)
  BY <1>1, <1>2, <1>6 DEF Same
<1>9. SameServer(params[c], infos[t].params)
  BY DEF Reset, RateConnection
<1>10. Reaches(c)'
  BY <1>1, <1>3, <1>5, <1>6, <1>9 DEF Conn, Reaches, SameServer, EqualText
<1>11. Threads(c)'
  BY <1>1, <1>2, <1>3, <1>5, <1>6 DEF Conn, Threads
<1>12. Holds(c)'
  BY <1>2 DEF Holds, Calling
<1>13. Tasks(c)'
  BY <1>1, <1>2, <1>3 DEF Tasks, Busy
<1>14. Member(c)'
  <2>1. PICK entry \in pools : entry.id = infos[t].pool /\ SameServer(entry, infos[t].params)
    BY <1>1, <1>4 DEF InfoPool
  <2> QED BY <1>1, <1>2, <1>6, <2>1 DEF Member, SameServer
<1> QED BY <1>1, <1>7, <1>8, <1>10, <1>11, <1>12, <1>13, <1>14, TakeStep DEF Conn, HandOver

(***************************************************************************)
(* Theorems.                                                               *)
(***************************************************************************)
LEMMA InitInv == Init => ServeInv
<1> SUFFICES ASSUME Init PROVE ServeInv
  OBVIOUS
<1>1. /\ NoTask \in [state : TaskStates, string : DOMAIN Parsed \cup {<< >>}]
      /\ NoTask.state = "none"
  BY DEF NoTask, TaskStates
<1>2. NoInfo \in InfoType /\ NoInfo.phase = "free" /\ NoInfo.pool = 0
  BY ConnectionAssumption DEF NoInfo, InfoType, Phases
<1>3. isFunctionsAsync \in [Connections -> BOOLEAN]
  BY ConnectionAssumption DEF Init
<1>4. MaxPoolId \in Nat
  BY ConnectionAssumption
<1>5. Shape
  <2>1. /\ isOpen \in [Connections -> BOOLEAN] /\ isAsync \in [Connections -> BOOLEAN]
        /\ params \in [Connections -> Results \cup {None}]
        /\ exploreClient \in [Connections -> {Client(p) : p \in Results} \cup {None}]
        /\ opening \in [Connections -> SUBSET {"call", "task"}]
        /\ nextId \in 1..(MaxPoolId + 1)
    BY <1>4 DEF Init
  <2>2. openTask \in [Connections -> [state : TaskStates, string : DOMAIN Parsed \cup {<< >>}]]
    BY <1>1 DEF Init
  <2>3. infos \in [Tokens -> InfoType] /\ dm \in [Connections -> DmType]
    BY <1>2, IdleFacts DEF Init
  <2> QED BY <1>3, <2>1, <2>2, <2>3 DEF Shape, InfoType, DmType
<1>6. Pools
  BY DEF Init, Pools, PoolPerServer
<1>7. ASSUME NEW c \in Connections PROVE Conn(c)
  <2>1. /\ ~isOpen[c] /\ params[c] = None /\ exploreClient[c] = None /\ opening[c] = {}
        /\ openTask[c].state = "none" /\ dm[c].state = "allocated" /\ dm[c].token = None
    BY <1>1, IdleFacts DEF Init
  <2> QED BY <2>1 DEF Conn, Reaches, Threads, Holds, Calling, Tasks, Busy, Member
<1>8. ASSUME NEW t \in Tokens PROVE InfoPool(t)
  BY <1>2 DEF Init, InfoPool
<1> QED BY <1>5, <1>6, <1>7, <1>8 DEF ServeInv

LEMMA StutterStep ==
  ASSUME ServeInv, UNCHANGED vars
  PROVE  ServeInv'
<1>1. /\ \A c \in Connections : Same(c)
      /\ \A id : Kept(id)
      /\ UNCHANGED <<infos, pools, nextId>>
  BY DEF vars, Same, Kept
<1>2. \A c \in Connections : Conn(c)'
  BY <1>1, SameConn DEF ServeInv
<1>3. \A t \in Tokens : InfoPool(t)'
  BY <1>1, SameInfo DEF ServeInv
<1>4. Shape' /\ Pools'
  BY DEF ServeInv, Shape, Pools, PoolPerServer, vars
<1> QED BY <1>2, <1>3, <1>4 DEF ServeInv

LEMMA NextStep ==
  ASSUME ServeInv, ~CancelPolls, [Next]_vars
  PROVE  ServeInv'
<1>1. CASE UNCHANGED vars
  BY <1>1, StutterStep
<1>2. ASSUME NEW c \in Connections,
             \/ RunTask(c) \/ FinishOpen(c)
             \/ SQLDriverConnect(c) \/ SQLDisconnect(c) \/ SQLSetConnectAttr(c)
             \/ Begin(c) \/ ReturnToPool(c)
      PROVE  ServeInv'
  BY <1>2, RunTaskStep, FinishOpenStep, SQLDriverConnectStep, SQLDisconnectStep,
     SQLSetConnectAttrStep, BeginStep, ReturnToPoolStep
<1>3. ASSUME NEW t \in Tokens,
             \/ AllocInfo(t) \/ SQLSetConnectAttrForDbcInfo(t) \/ SQLSetDriverConnectInfo(t)
             \/ SQLGetPoolID(t) \/ FreeInfo(t)
      PROVE  ServeInv'
  BY <1>3, AllocInfoStep, SQLSetConnectAttrForDbcInfoStep, SQLSetDriverConnectInfoStep,
     SQLGetPoolIDStep, FreeInfoStep
<1>4. ASSUME NEW t \in Tokens, NEW c \in Connections,
             Reuse(t, c) \/ Reset(t, c) \/ SQLPoolConnect(t, c)
      PROVE  ServeInv'
  BY <1>4, ReuseStep, ResetStep, SQLPoolConnectStep
<1>5. ASSUME NEW id \in 1..MaxPoolId, SQLCleanupConnectionPoolID(id)
      PROVE  ServeInv'
  BY <1>5, CleanupStep
<1> QED BY <1>1, <1>2, <1>3, <1>4, <1>5 DEF Next

LEMMA ServeAlways ==
  ASSUME ~CancelPolls
  PROVE  Spec => []ServeInv
<1>1. ServeInv /\ [Next]_vars => ServeInv'
  BY NextStep
<1> QED BY <1>1, InitInv, PTL DEF Spec

(***************************************************************************)
(* Type correctness: a connection with a REST client has parameters, and a *)
(* thread is inside internalOpen exactly when a call or the task says so   *)
(* (Connection::internalOpen, openAsync, close).  Like the other theorems  *)
(* on connections it is about applications that do not cancel the dialog   *)
(* of a call they repeat.                                                  *)
(***************************************************************************)
THEOREM TypeCorrect ==
  ASSUME ~CancelPolls
  PROVE  Spec => []TypeOK
<1>1. ServeInv => TypeOK
  <2> SUFFICES ASSUME ServeInv PROVE TypeOK
    OBVIOUS
  <2>1. Shape
    BY DEF ServeInv
  <2>2. ASSUME NEW c \in Connections
        PROVE  /\ exploreClient[c] # None => params[c] # None
               /\ openTask[c].state \in {"none", "queued", "running", "done", "failed"}
               /\ opening[c] \subseteq {"call", "task"}
               /\ "task" \in opening[c] <=> openTask[c].state = "running"
               /\ "call" \in opening[c] <=> dm[c].state = "waiting"
               /\ dm[c].state \in Answers
               /\ dm[c].token \in Tokens \cup {None}
               /\ dm[c].pool \in 0..MaxPoolId
    BY <2>1 DEF ServeInv, Conn, Reaches, Threads, Shape, TaskStates
  <2>3. \A t \in Tokens : infos[t].pool \in 0..MaxPoolId
    BY <2>1 DEF Shape
  <2>4. \A entry \in pools : entry.id \in 1..(nextId - 1)
    BY DEF ServeInv, Pools
  <2> QED BY <2>1, <2>2, <2>3, <2>4 DEF TypeOK, Shape
<1> QED BY <1>1, ServeAlways, PTL

(***************************************************************************)
(* An open connection talks to the server its parameters name, whether     *)
(* they came with the connect or from another request of the pool          *)
(* (Connection::setInfo keeps the client, ConnectionInfo::canReuse).       *)
(***************************************************************************)
THEOREM ServerCorrect ==
  ASSUME ~CancelPolls
  PROVE  Spec => []OpenReachesItsServer
<1>1. ServeInv => OpenReachesItsServer
  BY DEF ServeInv, Conn, Reaches, Threads, OpenReachesItsServer
<1> QED BY <1>1, ServeAlways, PTL

\* Pools alone: an ID that is given is smaller than the next one.
GivenOnce ==
  /\ nextId \in Nat \ {0}
  /\ \A entry \in pools : entry.id \in 1..(nextId - 1)
  /\ PoolPerServer

(***************************************************************************)
(* One pool for one server, and one server for a pool ID                   *)
(* (ConnectionPool::getPoolID, cleanup), whatever the applications do.     *)
(***************************************************************************)
THEOREM PoolCorrect == Spec => []PoolPerServer
<1>1. Init => GivenOnce
  BY DEF Init, GivenOnce, PoolPerServer
<1>2. GivenOnce /\ [Next]_vars => GivenOnce'
  <2> SUFFICES ASSUME GivenOnce, [Next]_vars PROVE GivenOnce'
    OBVIOUS
  <2>1. CASE UNCHANGED <<pools, nextId>>
    BY <2>1 DEF GivenOnce, PoolPerServer
  <2>2. ASSUME NEW entry \in pools, pools' = pools \ {entry}, UNCHANGED nextId
        PROVE  GivenOnce'
    BY <2>2 DEF GivenOnce, PoolPerServer
  <2>3. ASSUME NEW p, {entry \in pools : SameServer(entry, p)} = {},
               pools' = pools \cup {[host |-> p.host, port |-> p.port, id |-> nextId]},
               nextId' = nextId + 1
        PROVE  GivenOnce'
    <3> DEFINE new == [host |-> p.host, port |-> p.port, id |-> nextId]
    <3>1. new.host = p.host /\ new.port = p.port /\ new.id = nextId
      OBVIOUS
    <3>2. pools' = pools \cup {new}
      BY <2>3
    <3> HIDE DEF new
    <3>3. ASSUME NEW entry \in pools
          PROVE  /\ entry.id # new.id
                 /\ ~(EqualText(entry.host, new.host) /\ entry.port = new.port)
                 /\ ~(EqualText(new.host, entry.host) /\ new.port = entry.port)
      <4>1. entry.id \in 1..(nextId - 1) /\ nextId \in Nat
        BY DEF GivenOnce
      <4>2. ~SameServer(entry, p)
        BY <2>3
      <4>3. entry.id # new.id
        BY <3>1, <4>1
      <4> QED BY <3>1, <4>2, <4>3 DEF SameServer, EqualText
    <3>4. PoolPerServer'
      BY <3>2, <3>3 DEF GivenOnce, PoolPerServer
    <3>5. nextId' \in Nat \ {0} /\ \A entry \in pools' : entry.id \in 1..(nextId' - 1)
      BY <2>3, <3>1, <3>2 DEF GivenOnce
    <3> QED BY <3>4, <3>5 DEF GivenOnce
  <2>4. ASSUME NEW t \in Tokens, SQLGetPoolID(t) PROVE GivenOnce'
    BY <2>1, <2>3, <2>4 DEF SQLGetPoolID
  <2>5. ASSUME NEW id \in 1..MaxPoolId, SQLCleanupConnectionPoolID(id) PROVE GivenOnce'
    BY <2>2, <2>5 DEF SQLCleanupConnectionPoolID
  <2>6. \/ UNCHANGED <<pools, nextId>>
        \/ \E t \in Tokens : SQLGetPoolID(t)
        \/ \E id \in 1..MaxPoolId : SQLCleanupConnectionPoolID(id)
    BY DEF Next, vars, RunTask, FinishOpen, SQLDriverConnect, SQLDisconnect, SQLSetConnectAttr,
       Begin, ReturnToPool, AllocInfo, SQLSetConnectAttrForDbcInfo, SQLSetDriverConnectInfo,
       FreeInfo, Reuse, Reset, SQLPoolConnect
  <2> QED BY <2>1, <2>4, <2>5, <2>6
<1> QED BY <1>1, <1>2, PTL DEF Spec, GivenOnce

(***************************************************************************)
(* Every connection that a pool keeps can serve a request sent to it: the  *)
(* comparison of getPoolID, that of rateConnection, and the string that    *)
(* SQLPoolConnect opens agree on what a server is.                         *)
(***************************************************************************)
THEOREM PooledCorrect ==
  ASSUME ~CancelPolls
  PROVE  Spec => []PooledServeTheirPool
<1>1. ServeInv => PooledServeTheirPool
  <2> SUFFICES ASSUME ServeInv, NEW t \in Tokens, infos[t].phase = "rating",
                      infos[t].params.port > 0, NEW c \in Candidates(t)
               PROVE  RateConnection(t, c) > 0
    BY DEF PooledServeTheirPool
  <2>1. c \in Connections /\ dm[c].state = "pooled" /\ dm[c].pool = infos[t].pool
    BY DEF Candidates
  <2>2. PICK e1 \in pools : e1.id = infos[t].pool /\ SameServer(e1, infos[t].params)
    BY DEF ServeInv, InfoPool
  <2>3. e1.id # 0
    BY <2>2 DEF ServeInv, Pools
  <2>4. PICK e2 \in pools : /\ e2.id = dm[c].pool /\ EqualText(e2.host, params[c].host)
                            /\ e2.port > 0 => e2.port = params[c].port
    BY <2>1, <2>2, <2>3 DEF ServeInv, Conn, Member
  <2>5. e1 = e2
    BY <2>1, <2>2, <2>4 DEF ServeInv, Pools, PoolPerServer
  <2>6. SameServer(params[c], infos[t].params)
    BY <2>2, <2>4, <2>5 DEF SameServer, EqualText
  <2> QED BY <2>6 DEF RateConnection
<1> QED BY <1>1, ServeAlways, PTL

(***************************************************************************)
(* Handing over.                                                           *)
(***************************************************************************)
AsRequested(c) ==
  HandedOver(c) =>
    LET info == infos[dm'[c].token]
    IN  /\ info.params.port > 0 =>
             EqualParams([params'[c] EXCEPT !.dsn = info.params.dsn], info.params)
        /\ dm[c].state = "pooled" =>
             /\ isAsync'[c] = info.isAsync
             /\ isFunctionsAsync'[c] = info.isFunctionsAsync

LEMMA EqualParamsFacts ==
  ASSUME NEW p \in Results, NEW q
  PROVE  /\ EqualParams(p, q) => EqualParams([p EXCEPT !.dsn = q.dsn], q)
         /\ EqualParams([p EXCEPT !.dsn = p.dsn], p)
<1>1. PICK s \in DOMAIN Parsed : p = Parsed[s] /\ p # Invalid
  BY DEF Results
<1>2. p = Parse(s)
  BY <1>1 DEF Parsed
<1>3. DOMAIN p = DOMAIN Default
  BY <1>1, <1>2 DEF Parse
<1>4. {"dsn", "host", "namespace"} \subseteq DOMAIN p
  BY <1>3 DEF Default
<1>5. ASSUME EqualParams(p, q) PROVE EqualParams([p EXCEPT !.dsn = q.dsn], q)
  <2> DEFINE r == [p EXCEPT !.dsn = q.dsn]
  <2>1. DOMAIN r = DOMAIN p /\ r.host = p.host /\ r.namespace = p.namespace
    BY <1>4
  <2>2. \A f \in DOMAIN r : r[f] = IF f = "dsn" THEN q.dsn ELSE p[f]
    BY <1>4
  <2> HIDE DEF r
  <2>3. EqualParams(r, q)
    BY <1>5, <2>1, <2>2 DEF EqualParams
  <2> QED BY <2>3 DEF r
<1>6. EqualParams(p, p)
  BY DEF EqualParams, EqualText
<1>7. [p EXCEPT !.dsn = p.dsn] = p
  <2>1. p = [f \in DOMAIN p |-> p[f]]
    BY <1>1, <1>2 DEF Parse
  <2> QED BY <2>1
<1> QED BY <1>5, <1>6, <1>7

\* A connection that was opened for a request has its parameters.
LEMMA OpenedAsRequested ==
  ASSUME ServeInv, NEW c \in Connections, dm[c].token # None, dm[c].state \in Calling,
         params[c] = Parsed[Requested(c)], params[c] # Invalid,
         params'[c] = params[c], dm'[c].token = dm[c].token
  PROVE  AsRequested(c)
<1> DEFINE t == dm[c].token
           p == infos[t].params
<1>1. p \in ReadParams
  BY DEF ServeInv, Shape, Conn, Holds, InfoPool
<1>2. p.port > 0 => EqualParams([params[c] EXCEPT !.dsn = p.dsn], p)
  BY <1>1, ReopenFacts DEF Requested
<1> QED BY <1>2 DEF AsRequested, Calling

LEMMA OthersAsRequested ==
  ASSUME NEW c, dm'[c].state = "connected" => dm[c].state = "connected"
  PROVE  AsRequested(c)
BY DEF AsRequested, HandedOver

LEMMA FinishAsRequested ==
  ASSUME ServeInv, NEW d \in Connections, FinishOpen(d), NEW c \in Connections
  PROVE  AsRequested(c)
<1>1. dm \in [Connections -> DmType] /\ params' = params /\ Shape /\ Conn(d)
  BY DEF ServeInv, Shape, DmType, FinishOpen
<1>2. CASE UNCHANGED dm
  BY <1>2, OthersAsRequested
<1>3. CASE NotConnected(d)
  <2>1. dm'[c].state = "connected" => dm[c].state = "connected"
    BY <1>1, <1>3, NotConnectedFacts
  <2> QED BY <2>1, OthersAsRequested
<1>4. CASE Connected(d) /\ "call" \in opening[d]
  <2>1. /\ \A e \in Connections \ {d} : dm'[e] = dm[e]
        /\ dm'[d].token = dm[d].token
    BY <1>1, <1>4, ConnectedFacts
  <2>2. CASE c # d
    BY <2>1, <2>2, OthersAsRequested
  <2>3. CASE c = d /\ dm[c].token = None
    BY <2>1, <2>3 DEF AsRequested, HandedOver
  <2>4. CASE c = d /\ dm[c].token # None
    <3>1. /\ dm[c].state = "waiting" /\ params[c] = Parsed[Requested(c)] /\ params[c] # None
      BY <1>1, <1>4, <2>4 DEF Conn, Threads, Tasks
    <3>2. params[c] # Invalid
      BY <1>1, <3>1 DEF Shape, Results
    <3> QED BY <1>1, <2>1, <2>4, <3>1, <3>2, OpenedAsRequested DEF Calling
  <2> QED BY <2>2, <2>3, <2>4
<1>5. "call" \in opening[d] \/ UNCHANGED dm
  BY <1>1 DEF FinishOpen, Shape
<1>6. UNCHANGED dm \/ NotConnected(d) \/ Connected(d)
  BY DEF FinishOpen
<1> QED BY <1>2, <1>3, <1>4, <1>5, <1>6

LEMMA OpenAsRequested ==
  ASSUME ServeInv, NEW d \in Connections, dm[d].state \in {"calling", "polling"}, NEW s,
         OpenInMode(d, s), NEW c \in Connections
  PROVE  AsRequested(c)
<1>1. dm \in [Connections -> DmType] /\ Shape /\ Conn(d)
  BY DEF ServeInv, Shape, DmType
<1>2. ASSUME NEW state \in {"waiting", "polling"}, Answered(d, state) PROVE AsRequested(c)
  <2>1. dm'[c].state = "connected" => dm[c].state = "connected"
    BY <1>1, <1>2, AnsweredFacts DEF Answers
  <2> QED BY <2>1, OthersAsRequested
<1>3. CASE NotConnected(d)
  <2>1. dm'[c].state = "connected" => dm[c].state = "connected"
    BY <1>1, <1>3, NotConnectedFacts
  <2> QED BY <2>1, OthersAsRequested
<1>4. CASE Connected(d) /\ openTask[d].state = "done" /\ UNCHANGED params
  <2>1. /\ \A e \in Connections \ {d} : dm'[e] = dm[e]
        /\ dm'[d].token = dm[d].token
    BY <1>1, <1>4, ConnectedFacts
  <2>2. CASE c # d
    BY <2>1, <2>2, OthersAsRequested
  <2>3. CASE c = d /\ dm[c].token = None
    BY <2>1, <2>3 DEF AsRequested, HandedOver
  <2>4. CASE c = d /\ dm[c].token # None
    <3>1. isOpen[c] /\ params[c] = Parsed[Requested(c)]
      BY <1>1, <1>4, <2>4 DEF Conn, Tasks, Busy
    <3>2. params[c] # Invalid
      BY <1>1, <2>4, <3>1 DEF Shape, Results, Conn, Threads
    <3> QED BY <1>4, <2>1, <2>4, <3>1, <3>2, OpenedAsRequested DEF Calling
  <2> QED BY <2>2, <2>3, <2>4
<1> QED BY <1>2, <1>3, <1>4 DEF OpenInMode, Open, OpenAsync

LEMMA ReuseAsRequested ==
  ASSUME ServeInv, NEW t \in Tokens, NEW d \in Connections, Reuse(t, d), NEW c \in Connections
  PROVE  AsRequested(c)
<1>1. /\ infos[t].phase = "rating" /\ d \in Candidates(t) /\ HandOver(t, d) /\ Shape /\ Conn(d)
      /\ UNCHANGED cvars /\ dm[d].state = "pooled"
  BY DEF ServeInv, Reuse, Candidates
<1>2. /\ \A e \in Connections \ {d} : dm'[e] = dm[e]
      /\ dm'[d].token = t
  BY <1>1, HandOverFacts
<1>3. CASE c # d
  BY <1>2, <1>3, OthersAsRequested
<1>4. CASE c = d
  <2>1. PerfectlyMatch(t, d)
    BY DEF Reuse, RateConnection
  <2>2. params[d] \in Results
    BY <1>1 DEF Shape, Conn, Tasks, Threads
  <2>3. EqualParams([params[d] EXCEPT !.dsn = infos[t].params.dsn], infos[t].params)
    BY <2>1, <2>2, EqualParamsFacts DEF PerfectlyMatch
  <2> QED BY <1>1, <1>2, <1>4, <2>1, <2>3 DEF AsRequested, PerfectlyMatch, cvars
<1> QED BY <1>3, <1>4

LEMMA ResetAsRequested ==
  ASSUME ServeInv, NEW t \in Tokens, NEW d \in Connections, Reset(t, d), NEW c \in Connections
  PROVE  AsRequested(c)
<1>1. /\ infos[t].phase = "rating" /\ d \in Candidates(t) /\ HandOver(t, d) /\ Shape
  BY DEF ServeInv, Reset
<1>2. /\ \A e \in Connections \ {d} : dm'[e] = dm[e]
      /\ dm'[d].token = t
  BY <1>1, HandOverFacts
<1>3. CASE c # d
  BY <1>2, <1>3, OthersAsRequested
<1>4. CASE c = d
  <2>1. /\ params'[d] = infos[t].params /\ isAsync'[d] = infos[t].isAsync
        /\ isFunctionsAsync'[d] = infos[t].isFunctionsAsync
    BY <1>1 DEF Reset, SetInfo, Shape
  <2>2. infos[t].params \in Results
    BY <1>1, ReadFacts DEF ServeInv, InfoPool
  <2>3. EqualParams([params'[d] EXCEPT !.dsn = infos[t].params.dsn], infos[t].params)
    BY <2>1, <2>2, EqualParamsFacts
  <2> QED BY <1>2, <1>4, <2>1, <2>3 DEF AsRequested
<1> QED BY <1>3, <1>4

LEMMA StepAsRequested ==
  ASSUME ServeInv, Next, NEW c \in Connections
  PROVE  AsRequested(c)
<1>1. dm \in [Connections -> DmType]
  BY DEF ServeInv, Shape, DmType
<1>2. CASE UNCHANGED dm
  BY <1>2, OthersAsRequested
<1>3. ASSUME NEW d \in Connections, SQLDriverConnect(d) PROVE AsRequested(c)
  <2>1. dm[d].state \in {"calling", "polling"} /\ (NotConnected(d) \/ \E s : OpenInMode(d, s))
    BY <1>3 DEF SQLDriverConnect
  <2>2. CASE NotConnected(d)
    <3>1. dm'[c].state = "connected" => dm[c].state = "connected"
      BY <1>1, <2>2, NotConnectedFacts
    <3> QED BY <3>1, OthersAsRequested
  <2> QED BY <2>1, <2>2, OpenAsRequested
<1>4. ASSUME NEW d \in Connections, SQLDisconnect(d) PROVE AsRequested(c)
  <2>1. dm'[c].state = "connected" => dm[c].state = "connected"
    BY <1>1, <1>4, NotConnectedFacts DEF SQLDisconnect, NotConnected
  <2> QED BY <2>1, OthersAsRequested
<1>5. ASSUME NEW d \in Connections, Begin(d) PROVE AsRequested(c)
  <2>1. \A e \in Connections \ {d} : dm'[e] = dm[e]
    BY <1>1, <1>5 DEF Begin
  <2>2. dm'[d].state = "calling"
    BY <1>1, <1>5 DEF Begin, Idle
  <2>3. dm'[c].state = "connected" => dm[c].state = "connected"
    BY <2>1, <2>2
  <2> QED BY <2>3, OthersAsRequested
<1>6. ASSUME NEW d \in Connections, ReturnToPool(d) PROVE AsRequested(c)
  <2>1. dm[d].state = "connected" /\ \A e \in Connections \ {d} : dm'[e] = dm[e]
    BY <1>1, <1>6 DEF ReturnToPool
  <2> QED BY <2>1, OthersAsRequested
<1>7. ASSUME NEW d \in Connections,
             \/ RunTask(d) \/ FinishOpen(d)
             \/ SQLDriverConnect(d) \/ SQLDisconnect(d) \/ SQLSetConnectAttr(d)
             \/ Begin(d) \/ ReturnToPool(d)
      PROVE  AsRequested(c)
  BY <1>2, <1>3, <1>4, <1>5, <1>6, <1>7, FinishAsRequested DEF RunTask, SQLSetConnectAttr
<1>8. ASSUME NEW t \in Tokens,
             \/ AllocInfo(t) \/ SQLSetConnectAttrForDbcInfo(t) \/ SQLSetDriverConnectInfo(t)
             \/ SQLGetPoolID(t) \/ FreeInfo(t)
      PROVE  AsRequested(c)
  BY <1>2, <1>8 DEF AllocInfo, SQLSetConnectAttrForDbcInfo, SQLSetDriverConnectInfo,
     SQLGetPoolID, FreeInfo
<1>9. ASSUME NEW t \in Tokens, NEW d \in Connections, SQLPoolConnect(t, d) PROVE AsRequested(c)
  BY <1>9, OpenAsRequested DEF SQLPoolConnect
<1>10. ASSUME NEW id \in 1..MaxPoolId, SQLCleanupConnectionPoolID(id) PROVE AsRequested(c)
  BY <1>2, <1>10 DEF SQLCleanupConnectionPoolID
<1> QED BY <1>7, <1>8, <1>9, <1>10, ReuseAsRequested, ResetAsRequested DEF Next

(***************************************************************************)
(* However a request of a pool is served - by a connection as it is, by    *)
(* one that setInfo changes, or by a new one, opened by SQLPoolConnect     *)
(* from a string that is written and read again - the application gets     *)
(* the parameters it asked for, and of a connection that was used before   *)
(* the modes as well.                                                      *)
(***************************************************************************)
THEOREM HandOverCorrect ==
  ASSUME ~CancelPolls
  PROVE  Spec => HandedOverAsRequested
<1>1. ServeInv /\ [Next]_vars => [\A c \in Connections : AsRequested(c)]_vars
  BY StepAsRequested
<1>2. ServeInv /\ [Next]_vars =>
        [\A c \in Connections : HandedOver(c) =>
           LET info == infos[dm'[c].token]
           IN  /\ info.params.port > 0 =>
                    EqualParams([params'[c] EXCEPT !.dsn = info.params.dsn], info.params)
               /\ dm[c].state = "pooled" =>
                    /\ isAsync'[c] = info.isAsync
                    /\ isFunctionsAsync'[c] = info.isFunctionsAsync]_vars
  BY <1>1 DEF AsRequested
<1> QED BY <1>2, ServeAlways, PTL DEF Spec, HandedOverAsRequested
=============================================================================
