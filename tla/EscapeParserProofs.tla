------------------------- MODULE EscapeParserProofs -------------------------
(***************************************************************************)
(* Theorems about EscapeParser, for any queries: the openings on the stack *)
(* of the scan are the escapes that are open in the text it rewrites, and  *)
(* a query built as QueriesNested says is translated to what it means or   *)
(* refused, and refused only when it means nothing or is beyond the parser.*)
(*                                                                         *)
(* What a text of many tokens does to the scan is shown by induction on a  *)
(* set of positions, which has a least element that is missing.  What a    *)
(* nested query does is shown for a set of terms that is closed under the  *)
(* operators queries are built with, and holds every query therefore.      *)
(***************************************************************************)
EXTENDS EscapeParser, SequenceTheorems, WellFoundedInduction, TLAPS

-----------------------------------------------------------------------------
(***************************************************************************)
(* Positions.                                                              *)
(***************************************************************************)
LEMMA LeastNumber ==
  ASSUME NEW S \in SUBSET Nat, S # {}
  PROVE  \E x \in S : \A y \in S : x <= y
<1> DEFINE R == OpToRel(<, Nat)
<1>1. IsWellFoundedOn(R, Nat)
  BY NatLessThanWellFounded
<1>2. PICK x \in S : \A y \in S : ~(<<y, x>> \in R)
  <2> HIDE DEF R
  <2> QED BY <1>1, WFMin
<1>3. \A y \in S : x <= y
  <2> SUFFICES ASSUME NEW y \in S, y < x PROVE FALSE
    OBVIOUS
  <2>1. <<y, x>> \in R
    BY DEF OpToRel
  <2> QED BY <1>2, <2>1
<1> QED BY <1>3

LEMMA Induction ==
  ASSUME NEW S \in SUBSET Nat, 0 \in S, \A n \in S : n + 1 \in S
  PROVE  S = Nat
<1> SUFFICES ASSUME Nat \ S # {} PROVE FALSE
  OBVIOUS
<1>1. PICK x \in Nat \ S : \A y \in Nat \ S : x <= y
  BY LeastNumber
<1>2. x - 1 \in Nat /\ x - 1 \in S
  BY <1>1
<1> QED BY <1>1, <1>2

-----------------------------------------------------------------------------
(***************************************************************************)
(* The quotes of a text.                                                   *)
(***************************************************************************)
LEMMA QuoteAfterExists ==
  ASSUME NEW s
  PROVE  \A m \in Nat : \E f : f = [n \in 0..m |-> IF n = 0 THEN NoQuote
                                                  ELSE Quoting(f[n - 1], s[n])]
<1> DEFINE After(f, m) == [n \in 0..m |-> IF n = 0 THEN NoQuote ELSE Quoting(f[n - 1], s[n])]
           S == {m \in Nat : \E f : f = After(f, m)}
<1>1. 0 \in S
  <2> DEFINE f == [n \in 0..0 |-> NoQuote]
  <2>1. f = After(f, 0)
    OBVIOUS
  <2> QED BY <2>1
<1>2. ASSUME NEW m \in S PROVE m + 1 \in S
  <2>1. m \in Nat /\ m + 1 \in Nat
    OBVIOUS
  <2>2. PICK f : f = After(f, m)
    OBVIOUS
  <2> DEFINE g == After(f, m + 1)
  <2>3. \A n \in 0..m : g[n] = f[n]
    <3> TAKE n \in 0..m
    <3>1. f[n] = After(f, m)[n]
      BY <2>2
    <3> QED BY <2>1, <3>1
  <2>4. \A n \in 0..(m + 1) : g[n] = After(g, m + 1)[n]
    <3> TAKE n \in 0..(m + 1)
    <3>1. n # 0 => n - 1 \in 0..m
      BY <2>1
    <3>2. n # 0 => g[n - 1] = f[n - 1]
      BY <2>3, <3>1
    <3> HIDE <2>3
    <3> QED BY <3>2
  <2>5. g = After(g, m + 1)
    BY <2>4
  <2> HIDE DEF g
  <2> QED BY <2>1, <2>5
<1>3. S = Nat
  <2> HIDE DEF S
  <2> QED BY <1>1, <1>2, Induction DEF S
<1> QED BY <1>3

LEMMA QuoteAfterFacts ==
  ASSUME NEW s \in Seq(Tokens)
  PROVE  /\ QuoteAfter(s)[0] = NoQuote
         /\ \A n \in 1..Len(s) : QuoteAfter(s)[n] = Quoting(QuoteAfter(s)[n - 1], s[n])
         /\ \A n \in 0..Len(s) : QuoteAfter(s)[n] \in Quotes \cup {NoQuote}
<1> DEFINE f == QuoteAfter(s)
<1>1. Len(s) \in Nat
  BY LenProperties
<1>2. f = [n \in 0..Len(s) |-> IF n = 0 THEN NoQuote ELSE Quoting(f[n - 1], s[n])]
  BY <1>1, QuoteAfterExists DEF QuoteAfter
<1> HIDE DEF f
<1>3. f[0] = NoQuote
  BY <1>1, <1>2
<1>4. \A n \in 1..Len(s) : f[n] = Quoting(f[n - 1], s[n])
  BY <1>1, <1>2
<1>5. \A n \in 0..Len(s) : f[n] \in Quotes \cup {NoQuote}
  <2> DEFINE S == {n \in Nat : n <= Len(s) => f[n] \in Quotes \cup {NoQuote}}
  <2>1. 0 \in S
    BY <1>3
  <2>2. ASSUME NEW n \in S PROVE n + 1 \in S
    <3>1. CASE n + 1 <= Len(s)
      <4>1. f[n] \in Quotes \cup {NoQuote}
        BY <1>1, <3>1
      <4>2. f[n + 1] = Quoting(f[n], s[n + 1])
        BY <1>1, <1>4, <3>1
      <4> QED BY <4>1, <4>2 DEF Quoting
    <3> QED BY <1>1, <3>1
  <2>3. S = Nat
    <3> HIDE DEF S
    <3> QED BY <2>1, <2>2, Induction DEF S
  <2> QED BY <1>1, <2>3
<1> QED BY <1>3, <1>4, <1>5 DEF f

\* A text that stands in another, from a place outside a literal, has the quotes it has there.
LEMMA Shift ==
  ASSUME NEW s \in Seq(Tokens), NEW t \in Seq(Tokens), NEW p \in 0..Len(s), NEW m \in 0..Len(t),
         p + m <= Len(s), QuoteAfter(s)[p] = NoQuote, \A k \in 1..m : s[p + k] = t[k]
  PROVE  \A n \in 0..m : QuoteAfter(s)[p + n] = QuoteAfter(t)[n]
<1> DEFINE S == {n \in Nat : n <= m => QuoteAfter(s)[p + n] = QuoteAfter(t)[n]}
<1>1. Len(s) \in Nat /\ Len(t) \in Nat
  BY LenProperties
<1>2. 0 \in S
  BY <1>1, QuoteAfterFacts
<1>3. ASSUME NEW n \in S PROVE n + 1 \in S
  <2>1. CASE n + 1 <= m
    <3>1. QuoteAfter(s)[p + n] = QuoteAfter(t)[n]
      BY <1>1, <2>1
    <3>2. s[p + n + 1] = t[n + 1]
      BY <1>1, <2>1
    <3>3. QuoteAfter(s)[p + n + 1] = Quoting(QuoteAfter(s)[p + n], s[p + n + 1])
      BY <1>1, <2>1, QuoteAfterFacts
    <3>4. QuoteAfter(t)[n + 1] = Quoting(QuoteAfter(t)[n], t[n + 1])
      BY <1>1, <2>1, QuoteAfterFacts
    <3> QED BY <3>1, <3>2, <3>3, <3>4
  <2> QED BY <1>1, <2>1
<1>4. S = Nat
  <2> HIDE DEF S
  <2> QED BY <1>2, <1>3, Induction DEF S
<1>5. ASSUME NEW n \in 0..m PROVE QuoteAfter(s)[p + n] = QuoteAfter(t)[n]
  <2>1. n \in Nat /\ n <= m
    OBVIOUS
  <2>2. n \in S
    <3> HIDE DEF S
    <3> QED BY <1>4, <2>1
  <2> QED BY <2>1, <2>2
<1> QED BY <1>5

\* Texts that agree have the same quotes as far as they agree.
LEMMA Agree ==
  ASSUME NEW s \in Seq(Tokens), NEW t \in Seq(Tokens), NEW m \in 0..Len(t), m <= Len(s),
         \A k \in 1..m : s[k] = t[k]
  PROVE  \A n \in 0..m : QuoteAfter(s)[n] = QuoteAfter(t)[n]
<1>1. Len(s) \in Nat /\ Len(t) \in Nat
  BY LenProperties
<1>2. QuoteAfter(s)[0] = NoQuote
  BY QuoteAfterFacts
<1>3. 0 \in 0..Len(s) /\ 0 + m <= Len(s) /\ \A k \in 1..m : s[0 + k] = t[k]
  BY <1>1
<1>4. \A n \in 0..m : QuoteAfter(s)[0 + n] = QuoteAfter(t)[n]
  BY <1>2, <1>3, Shift
<1> QED BY <1>1, <1>4

-----------------------------------------------------------------------------
(***************************************************************************)
(* Texts without escapes, which end outside a literal.                     *)
(***************************************************************************)
LEMMA EmptyPlain == << >> \in PlainTexts /\ Clean(<< >>) /\ QuoteAfter(<< >>)[0] = NoQuote
<1>1. << >> \in Seq(Tokens) /\ Len(<< >>) = 0
  OBVIOUS
<1>2. QuoteAfter(<< >>)[0] = NoQuote
  BY <1>1, QuoteAfterFacts
<1>3. Clean(<< >>)
  BY <1>1 DEF Clean
<1> QED BY <1>1, <1>2, <1>3 DEF PlainTexts

LEMMA AppendFacts ==
  ASSUME NEW s \in Seq(Tokens), NEW t \in Tokens
  PROVE  LET u == Append(s, t)
             q == QuoteAfter(s)[Len(s)]
         IN  /\ u \in Seq(Tokens) /\ Len(u) = Len(s) + 1
             /\ QuoteAfter(u)[Len(u)] = Quoting(q, t)
             /\ Clean(s) /\ (t \in Escapes => q # NoQuote) => Clean(u)
<1> DEFINE u == Append(s, t)
           q == QuoteAfter(s)[Len(s)]
<1>1. /\ Len(s) \in Nat /\ u \in Seq(Tokens) /\ Len(u) = Len(s) + 1
      /\ \A k \in 1..Len(s) : u[k] = s[k]
      /\ u[Len(s) + 1] = t
  BY LenProperties, AppendProperties
<1> HIDE DEF u
<1>2. \A n \in 0..Len(s) : QuoteAfter(u)[n] = QuoteAfter(s)[n]
  BY <1>1, Agree
<1>3. QuoteAfter(u)[Len(u)] = Quoting(q, t)
  <2>1. QuoteAfter(u)[Len(u)] = Quoting(QuoteAfter(u)[Len(u) - 1], u[Len(u)])
    BY <1>1, QuoteAfterFacts
  <2> QED BY <1>1, <1>2, <2>1
<1>4. ASSUME Clean(s), t \in Escapes => q # NoQuote PROVE Clean(u)
  <2> SUFFICES ASSUME NEW k \in 1..Len(u), u[k] \in Escapes PROVE QuoteAfter(u)[k - 1] # NoQuote
    BY DEF Clean
  <2>1. CASE k <= Len(s)
    BY <1>1, <1>2, <1>4, <2>1 DEF Clean
  <2>2. CASE k = Len(s) + 1
    BY <1>1, <1>2, <1>4, <2>2
  <2> QED BY <1>1, <2>1, <2>2
<1> QED BY <1>1, <1>3, <1>4 DEF u

LEMMA PlainConcat ==
  ASSUME NEW a \in PlainTexts, NEW b \in PlainTexts
  PROVE  a \o b \in PlainTexts
<1> DEFINE u == a \o b
<1>1. a \in Seq(Tokens) /\ b \in Seq(Tokens)
  BY DEF PlainTexts
<1>2. /\ Len(a) \in Nat /\ Len(b) \in Nat /\ u \in Seq(Tokens) /\ Len(u) = Len(a) + Len(b)
      /\ \A k \in 1..Len(a) : u[k] = a[k]
      /\ \A k \in 1..Len(b) : u[Len(a) + k] = b[k]
  BY <1>1, LenProperties, ConcatProperties
<1> HIDE DEF u
<1>3. \A n \in 0..Len(a) : QuoteAfter(u)[n] = QuoteAfter(a)[n]
  <2>1. Len(a) \in 0..Len(a) /\ Len(a) <= Len(u)
    BY <1>2
  <2> QED BY <1>1, <1>2, <2>1, Agree
<1>4. QuoteAfter(u)[Len(a)] = NoQuote
  BY <1>2, <1>3 DEF PlainTexts
<1>5. \A n \in 0..Len(b) : QuoteAfter(u)[Len(a) + n] = QuoteAfter(b)[n]
  <2>1. Len(a) \in 0..Len(u) /\ Len(b) \in 0..Len(b) /\ Len(a) + Len(b) <= Len(u)
    BY <1>2
  <2> QED BY <1>1, <1>2, <1>4, <2>1, Shift
<1>6. Clean(u)
  <2> SUFFICES ASSUME NEW k \in 1..Len(u), u[k] \in Escapes PROVE QuoteAfter(u)[k - 1] # NoQuote
    BY DEF Clean
  <2>1. CASE k <= Len(a)
    BY <1>2, <1>3, <2>1 DEF Clean, PlainTexts
  <2>2. CASE k > Len(a)
    <3> DEFINE j == k - Len(a)
    <3>1. j \in 1..Len(b) /\ k = Len(a) + j /\ k - 1 = Len(a) + (j - 1) /\ j - 1 \in 0..Len(b)
      BY <1>2, <2>2
    <3>2. b[j] \in Escapes
      BY <1>2, <3>1
    <3>3. QuoteAfter(b)[j - 1] # NoQuote
      BY <3>1, <3>2 DEF Clean, PlainTexts
    <3> QED BY <1>5, <3>1, <3>3
  <2> QED BY <1>2, <2>1, <2>2
<1>7. QuoteAfter(u)[Len(u)] = NoQuote
  BY <1>2, <1>5 DEF PlainTexts
<1> QED BY <1>2, <1>6, <1>7 DEF u, PlainTexts

\* Tokens that are neither a quote nor an escape.
Inert == Tokens \ (Quotes \cup Escapes)

LEMMA InertPlain ==
  ASSUME NEW s \in Seq(Inert)
  PROVE  s \in PlainTexts
<1> DEFINE S == {n \in Nat : n <= Len(s) => QuoteAfter(s)[n] = NoQuote}
<1>1. s \in Seq(Tokens) /\ Len(s) \in Nat /\ \A k \in 1..Len(s) : s[k] \in Inert
  BY LenProperties, SeqMonotonic DEF Inert
<1>2. 0 \in S
  BY <1>1, QuoteAfterFacts
<1>3. ASSUME NEW n \in S PROVE n + 1 \in S
  <2>1. CASE n + 1 <= Len(s)
    <3>1. QuoteAfter(s)[n] = NoQuote
      BY <1>1, <2>1
    <3>2. QuoteAfter(s)[n + 1] = Quoting(QuoteAfter(s)[n], s[n + 1])
      BY <1>1, <2>1, QuoteAfterFacts
    <3>3. s[n + 1] \notin Quotes
      BY <1>1, <2>1 DEF Inert
    <3> QED BY <3>1, <3>2, <3>3 DEF Quoting
  <2> QED BY <1>1, <2>1
<1>4. S = Nat
  <2> HIDE DEF S
  <2> QED BY <1>2, <1>3, Induction DEF S
<1>5. QuoteAfter(s)[Len(s)] = NoQuote
  BY <1>1, <1>4
<1>6. Clean(s)
  BY <1>1 DEF Clean, Inert
<1> QED BY <1>1, <1>5, <1>6 DEF PlainTexts

\* A part of a text between two places outside a literal.
LEMMA PartPlain ==
  ASSUME NEW s \in Seq(Tokens), NEW p \in 0..Len(s), NEW q \in p..Len(s),
         QuoteAfter(s)[p] = NoQuote, QuoteAfter(s)[q] = NoQuote,
         \A k \in (p + 1)..q : s[k] \in Escapes => QuoteAfter(s)[k - 1] # NoQuote
  PROVE  SubSeq(s, p + 1, q) \in PlainTexts
<1> DEFINE t == SubSeq(s, p + 1, q)
<1>1. Len(s) \in Nat /\ \A k \in 1..Len(s) : s[k] \in Tokens
  BY LenProperties
<1>2. /\ t \in Seq(Tokens) /\ Len(t) = q - p
      /\ \A k \in 1..(q - p) : t[k] = s[p + k]
  <2>1. p + 1 \in Int /\ q \in Int /\ \A k \in (p + 1)..q : s[k] \in Tokens
    BY <1>1
  <2>2. /\ t \in Seq(Tokens) /\ Len(t) = (IF p + 1 <= q THEN q - (p + 1) + 1 ELSE 0)
        /\ \A k \in 1..(q - (p + 1) + 1) : t[k] = s[(p + 1) + k - 1]
    <3> HIDE DEF t
    <3> QED BY <2>1, SubSeqProperties DEF t
  <2> HIDE DEF t
  <2> QED BY <1>1, <2>2
<1> HIDE DEF t
<1>3. \A n \in 0..(q - p) : QuoteAfter(s)[p + n] = QuoteAfter(t)[n]
  <2>1. q - p \in 0..Len(t) /\ p + (q - p) <= Len(s)
    BY <1>1, <1>2
  <2>2. \A k \in 1..(q - p) : s[p + k] = t[k]
    BY <1>2
  <2> QED BY <1>2, <2>1, <2>2, Shift
<1>4. QuoteAfter(t)[Len(t)] = NoQuote
  BY <1>1, <1>2, <1>3
<1>5. Clean(t)
  <2> SUFFICES ASSUME NEW k \in 1..Len(t), t[k] \in Escapes PROVE QuoteAfter(t)[k - 1] # NoQuote
    BY DEF Clean
  <2>1. /\ p + k \in (p + 1)..q /\ s[p + k] \in Escapes
        /\ k - 1 \in 0..(q - p) /\ p + (k - 1) = (p + k) - 1
    BY <1>1, <1>2
  <2> QED BY <1>3, <2>1
<1> QED BY <1>2, <1>4, <1>5 DEF t, PlainTexts

-----------------------------------------------------------------------------
(***************************************************************************)
(* The arguments of a plain text are plain.                                *)
(***************************************************************************)
ArgumentStates ==
  [args : Seq(PlainTexts), buffer : Seq(Tokens), quote : Quotes \cup {NoQuote}, depth : Int,
   failed : BOOLEAN]

\* The state after n tokens of a text.
ReadSoFar(r, tokens, n) ==
  /\ r \in ArgumentStates
  /\ Clean(r.buffer)
  /\ r.quote = QuoteAfter(r.buffer)[Len(r.buffer)]
  /\ r.quote = QuoteAfter(tokens)[n]

LEMMA NextArgumentFacts ==
  ASSUME NEW tokens \in PlainTexts, NEW n \in 1..Len(tokens), NEW r, ReadSoFar(r, tokens, n - 1)
  PROVE  ReadSoFar(NextArgument(r, tokens[n]), tokens, n)
<1> DEFINE t == tokens[n]
           u == NextArgument(r, t)
<1>1. /\ tokens \in Seq(Tokens) /\ Len(tokens) \in Nat /\ t \in Tokens
      /\ QuoteAfter(tokens)[n] = Quoting(r.quote, t)
      /\ t \in Escapes => r.quote # NoQuote
  <2>1. tokens \in Seq(Tokens) /\ Len(tokens) \in Nat /\ t \in Tokens
    BY LenProperties DEF PlainTexts
  <2>2. QuoteAfter(tokens)[n] = Quoting(r.quote, t)
    BY <2>1, QuoteAfterFacts DEF ReadSoFar
  <2>3. t \in Escapes => r.quote # NoQuote
    BY DEF ReadSoFar, PlainTexts, Clean
  <2> QED BY <2>1, <2>2, <2>3
<1>2. /\ r \in ArgumentStates /\ r.args \in Seq(PlainTexts) /\ r.buffer \in Seq(Tokens)
      /\ Clean(r.buffer) /\ r.quote = QuoteAfter(r.buffer)[Len(r.buffer)]
      /\ r.depth \in Int /\ r.failed \in BOOLEAN /\ r.quote \in Quotes \cup {NoQuote}
  BY DEF ReadSoFar, ArgumentStates
<1> HIDE DEF t
<1>3. CASE r.quote = NoQuote /\ t = ","
  <2>1. u = [r EXCEPT !.args = Append(@, r.buffer), !.buffer = << >>]
    BY <1>3 DEF NextArgument
  <2>2. r.buffer \in PlainTexts
    BY <1>2, <1>3 DEF PlainTexts
  <2>3. Append(r.args, r.buffer) \in Seq(PlainTexts)
    BY <1>2, <2>2, AppendProperties
  <2> DEFINE args == Append(r.args, r.buffer)
             empty == << >>
  <2>4. empty \in Seq(Tokens)
    OBVIOUS
  <2>5. u = [r EXCEPT !.args = args, !.buffer = empty]
    BY <2>1
  <2>6. u \in ArgumentStates /\ u.buffer = << >> /\ u.quote = r.quote
    <3>1. args \in Seq(PlainTexts)
      BY <2>3
    <3> HIDE DEF args, empty, u
    <3>2. u \in ArgumentStates /\ u.buffer = empty /\ u.quote = r.quote
      BY <1>2, <2>4, <2>5, <3>1 DEF ArgumentStates
    <3> QED BY <3>2 DEF empty
  <2>7. Quoting(r.quote, t) = NoQuote
    BY <1>3 DEF Quoting, Quotes
  <2>8. Len(u.buffer) = 0
    BY <2>6
  <2>9. Clean(u.buffer) /\ QuoteAfter(u.buffer)[Len(u.buffer)] = NoQuote
    BY <2>6, <2>8, EmptyPlain
  <2>10. u.quote = NoQuote /\ QuoteAfter(tokens)[n] = NoQuote
    BY <1>1, <1>3, <2>6, <2>7
  <2> HIDE DEF u
  <2>11. ReadSoFar(u, tokens, n)
    BY <2>6, <2>9, <2>10 DEF ReadSoFar
  <2> QED BY <2>11 DEF u, t
<1>4. CASE ~(r.quote = NoQuote /\ t = ",")
  <2> DEFINE depth == IF r.quote # NoQuote THEN r.depth
                      ELSE IF t = "(" THEN r.depth + 1
                      ELSE IF t = ")" /\ r.depth > 0 THEN r.depth - 1 ELSE r.depth
             failed == r.failed \/ (r.quote = NoQuote /\ t = ")" /\ r.depth = 0)
             after == Quoting(r.quote, t)
             buffer == Append(r.buffer, t)
  <2>1. u = [r EXCEPT !.buffer = buffer, !.quote = after, !.depth = depth, !.failed = failed]
    BY <1>4, Zenon DEF NextArgument
  <2>2. depth \in Int
    BY <1>2
  <2>3. failed \in BOOLEAN
    OBVIOUS
  <2>4. /\ buffer \in Seq(Tokens) /\ Clean(buffer)
        /\ QuoteAfter(buffer)[Len(buffer)] = after
    BY <1>1, <1>2, AppendFacts
  <2>5. after \in Quotes \cup {NoQuote}
    BY <1>2 DEF Quoting
  <2> HIDE DEF buffer, after, depth, failed
  <2>6. u \in ArgumentStates
    BY <1>2, <2>1, <2>2, <2>3, <2>4, <2>5 DEF ArgumentStates
  <2>7. u.buffer = buffer /\ u.quote = after
    BY <1>2, <2>1 DEF ArgumentStates
  <2>8. QuoteAfter(tokens)[n] = after
    BY <1>1 DEF after
  <2> HIDE DEF u
  <2>9. ReadSoFar(u, tokens, n)
    BY <2>4, <2>6, <2>7, <2>8 DEF ReadSoFar
  <2> QED BY <2>9 DEF u, t
<1> QED BY <1>3, <1>4 DEF t

LEMMA ReadArgumentsFacts ==
  ASSUME NEW tokens \in PlainTexts
  PROVE  ReadSoFar(ReadArguments(tokens), tokens, Len(tokens))
<1> DEFINE Reads(f, m) == [n \in 0..m |-> IF n = 0 THEN StartArguments
                                          ELSE NextArgument(f[n - 1], tokens[n])]
           S == {m \in Nat : \E f : f = Reads(f, m)}
           f == CHOOSE f : f = Reads(f, Len(tokens))
<1>1. tokens \in Seq(Tokens) /\ Len(tokens) \in Nat
  BY LenProperties DEF PlainTexts
<1>2. 0 \in S
  <2> DEFINE g == [n \in 0..0 |-> StartArguments]
  <2>1. g = Reads(g, 0)
    OBVIOUS
  <2> QED BY <2>1
<1>3. ASSUME NEW m \in S PROVE m + 1 \in S
  <2>1. m \in Nat /\ m + 1 \in Nat
    OBVIOUS
  <2>2. PICK h : h = Reads(h, m)
    OBVIOUS
  <2> DEFINE g == Reads(h, m + 1)
  <2>3. \A n \in 0..m : g[n] = h[n]
    <3> TAKE n \in 0..m
    <3>1. h[n] = Reads(h, m)[n]
      BY <2>2
    <3> QED BY <2>1, <3>1
  <2>4. \A n \in 0..(m + 1) : g[n] = Reads(g, m + 1)[n]
    <3> TAKE n \in 0..(m + 1)
    <3>1. n # 0 => n - 1 \in 0..m
      BY <2>1
    <3>2. n # 0 => g[n - 1] = h[n - 1]
      BY <2>3, <3>1
    <3> HIDE <2>3
    <3> QED BY <3>2
  <2>5. g = Reads(g, m + 1)
    BY <2>4
  <2> HIDE DEF g
  <2> QED BY <2>1, <2>5
<1>4. S = Nat
  <2> HIDE DEF S
  <2> QED BY <1>2, <1>3, Induction DEF S
<1>5. f = Reads(f, Len(tokens))
  BY <1>1, <1>4
<1>6. ReadArguments(tokens) = f[Len(tokens)]
  BY Zenon DEF ReadArguments
<1> HIDE DEF f
<1> DEFINE T == {n \in Nat : n <= Len(tokens) => ReadSoFar(f[n], tokens, n)}
<1>7. 0 \in T
  <2>1. f[0] = StartArguments
    BY <1>1, <1>5
  <2>2. << >> \in Seq(PlainTexts) /\ << >> \in Seq(Tokens) /\ Len(<< >>) = 0
    OBVIOUS
  <2>3. StartArguments \in ArgumentStates
    BY <2>2 DEF StartArguments, ArgumentStates
  <2>4. StartArguments.buffer = << >> /\ StartArguments.quote = NoQuote
    BY DEF StartArguments
  <2>5. QuoteAfter(tokens)[0] = NoQuote
    BY <1>1, QuoteAfterFacts
  <2> QED BY <2>1, <2>2, <2>3, <2>4, <2>5, EmptyPlain DEF ReadSoFar
<1>8. ASSUME NEW n \in T PROVE n + 1 \in T
  <2>1. CASE n + 1 <= Len(tokens)
    <3>1. n \in Nat /\ n + 1 \in 1..Len(tokens) /\ n + 1 - 1 = n /\ n + 1 \in 0..Len(tokens)
      BY <1>1, <2>1
    <3>2. ReadSoFar(f[n], tokens, n)
      BY <1>1, <2>1
    <3>3. f[n + 1] = NextArgument(f[n], tokens[n + 1])
      BY <1>5, <3>1
    <3>4. ReadSoFar(f[n + 1], tokens, n + 1)
      BY <3>1, <3>2, <3>3, NextArgumentFacts
    <3> QED BY <3>1, <3>4
  <2> QED BY <1>1, <2>1
<1>9. T = Nat
  <2> HIDE DEF T
  <2> QED BY <1>7, <1>8, Induction DEF T
<1> QED BY <1>1, <1>6, <1>9

LEMMA ArgumentsPlain ==
  ASSUME NEW tokens \in PlainTexts
  PROVE  Arguments(tokens).list \in Seq(PlainTexts)
<1> DEFINE last == ReadArguments(tokens)
<1>1. /\ last.args \in Seq(PlainTexts) /\ last.buffer \in Seq(Tokens) /\ Clean(last.buffer)
      /\ QuoteAfter(last.buffer)[Len(last.buffer)] = NoQuote
  BY ReadArgumentsFacts DEF ReadSoFar, ArgumentStates, PlainTexts
<1>2. last.buffer \in PlainTexts
  BY <1>1 DEF PlainTexts
<1>3. Append(last.args, last.buffer) \in Seq(PlainTexts)
  BY <1>1, <1>2, AppendProperties
<1>4. Arguments(tokens).list = IF last.buffer = << >> THEN last.args
                               ELSE Append(last.args, last.buffer)
  BY DEF Arguments
<1> QED BY <1>1, <1>3, <1>4

-----------------------------------------------------------------------------
(***************************************************************************)
(* What resolveFunction writes is plain.                                   *)
(***************************************************************************)
LEMMA TokenFacts ==
  /\ Templates \cup {FixedMeaning[t] : t \in Fixed} \subseteq Inert
  /\ NoQuote \notin Quotes /\ Quotes \cap Escapes = {}
<1>1. NoQuote \notin Quotes
  BY Zenon DEF NoQuote, Quotes
<1>2. Quotes \cap Escapes = {}
  BY DEF Quotes, Escapes, Fixed, NotSupported
<1>3. ASSUME NEW t \in Templates PROVE t \in Inert
  <2>1. t \in Tokens
    BY TokensAssumption
  <2>2. t \notin Quotes
    BY DEF Templates, PassedOn, Quotes
  <2>3. t \notin Escapes
    BY DEF Templates, PassedOn, Escapes, Fixed, NotSupported
  <2> QED BY <2>1, <2>2, <2>3 DEF Inert
<1>4. ASSUME NEW t \in Fixed PROVE FixedMeaning[t] \in Inert
  <2>1. FixedMeaning[t] \in Tokens
    BY TokensAssumption
  <2>2. FixedMeaning[t] \in {"DATE", "TIMESTAMP"}
    BY DEF FixedMeaning
  <2> QED BY <2>1, <2>2 DEF Inert, Quotes, Escapes, Fixed, NotSupported
<1> QED BY <1>1, <1>2, <1>3, <1>4

LEMMA FirstFacts ==
  ASSUME NEW s \in Seq(Tokens), \E k \in DOMAIN s : s[k] = "("
  PROVE  /\ FirstParenthesis(s) \in 1..Len(s)
         /\ s[FirstParenthesis(s)] = "("
<1> DEFINE S == {k \in 1..Len(s) : s[k] = "("}
<1>1. DOMAIN s = 1..Len(s) /\ Len(s) \in Nat
  BY LenProperties
<1>2. S \subseteq Nat /\ S # {}
  BY <1>1
<1>3. PICK k \in S : \A j \in S : k <= j
  <2> HIDE DEF S
  <2> QED BY <1>2, LeastNumber
<1>4. k \in DOMAIN s /\ s[k] = "(" /\ \A j \in 1..(k - 1) : s[j] # "("
  BY <1>1, <1>3
<1>5. /\ FirstParenthesis(s) \in DOMAIN s
      /\ s[FirstParenthesis(s)] = "(" /\ \A j \in 1..(FirstParenthesis(s) - 1) : s[j] # "("
  <2> HIDE DEF S
  <2> QED BY <1>4 DEF FirstParenthesis
<1> QED BY <1>1, <1>5

\* The functions that can be resolved.
Known == PassedOn \cup {"mod", "replace", "cot", "now", "atan2", "left"}

LEMMA KnownPlain == \A name \in Known : name \notin Quotes \cup Escapes
<1>1. \A name \in Known : name \notin Quotes
  BY DEF Known, PassedOn, Quotes
<1>2. \A name \in Known : name \notin Fixed
  BY DEF Known, PassedOn, Fixed
<1>3. \A name \in Known : name \notin NotSupported
  BY DEF Known, PassedOn, NotSupported
<1>4. \A name \in Known : name \notin {"{fn", "}"}
  BY DEF Known, PassedOn
<1> QED BY <1>1, <1>2, <1>3, <1>4 DEF Escapes

LEMMA ResolvablePosition ==
  ASSUME NEW s \in Seq(Tokens), Resolvable(s)
  PROVE  /\ Len(s) >= 5 /\ s[2] = Name(s) /\ Name(s) \in Known /\ s[3] = "("
         /\ s[Len(s) - 1] = ")" /\ ArgumentText(s) = SubSeq(s, 4, Len(s) - 2)
         /\ Name(s) \in {"atan2", "left"} => Len(Arguments(ArgumentText(s)).list) = 2
<1>1. Name(s) \in Known
  BY DEF Resolvable, Known
<1>2. FirstParenthesis(s) = 3 /\ Name(s) = s[2]
  BY <1>1 DEF Name, Known, PassedOn
<1>3. /\ \E k \in DOMAIN s : s[k] = "("
      /\ FirstParenthesis(s) < Len(s) - 1 /\ s[Len(s) - 1] = ")"
  BY DEF Resolvable, Matches
<1>4. s[3] = "("
  BY <1>2, <1>3, FirstFacts
<1>5. Len(s) >= 5
  BY <1>2, <1>3, LenProperties
<1>6. ArgumentText(s) = SubSeq(s, 4, Len(s) - 2)
  BY <1>2 DEF ArgumentText
<1>7. Name(s) \in {"atan2", "left"} => Len(Arguments(ArgumentText(s)).list) = 2
  BY DEF Resolvable, PassedOn
<1> QED BY <1>1, <1>2, <1>3, <1>4, <1>5, <1>6, <1>7

LEMMA ResolvedPlain ==
  ASSUME NEW s \in Seq(Tokens), Resolvable(s), ArgumentText(s) \in PlainTexts
  PROVE  Resolved(s) \in PlainTexts
<1> DEFINE name == Name(s)
           text == ArgumentText(s)
           args == Arguments(text).list
<1>1. name \in Known /\ (name \in {"atan2", "left"} => Len(args) = 2)
  BY ResolvablePosition
<1>2. args \in Seq(PlainTexts)
  BY ArgumentsPlain
<1>3. name \in {"atan2", "left"} => args[1] \in PlainTexts /\ args[2] \in PlainTexts
  BY <1>1, <1>2, LenProperties
<1>4. Resolved(s) = Template(name, text, args)
  BY DEF Resolved
<1> HIDE DEF name, text, args
<1>5. Templates \subseteq Inert
  BY TokenFacts
<1>6. ASSUME NEW t \in Templates PROVE <<t>> \in PlainTexts
  <2>1. <<t>> \in Seq(Inert)
    BY <1>5
  <2> QED BY <2>1, InertPlain
<1>7. ASSUME NEW t \in Templates, NEW u \in Templates PROVE <<t, u>> \in PlainTexts
  <2>1. <<t, u>> \in Seq(Inert)
    BY <1>5
  <2> QED BY <2>1, InertPlain
<1>8. ASSUME NEW t \in Templates, NEW u \in Templates, NEW v \in Templates
      PROVE  <<t, u, v>> \in PlainTexts
  <2>1. <<t, u, v>> \in Seq(Inert)
    BY <1>5
  <2> QED BY <2>1, InertPlain
<1>9. CASE name \in PassedOn
  <2>1. Template(name, text, args) = <<name, "(">> \o text \o <<")">>
    BY <1>9 DEF Template, PassedOn
  <2>2. name \in Templates /\ "(" \in Templates /\ ")" \in Templates
    BY <1>9 DEF Templates
  <2>3. <<name, "(">> \in PlainTexts /\ <<")">> \in PlainTexts /\ text \in PlainTexts
    BY <1>6, <1>7, <2>2 DEF text
  <2> QED BY <1>4, <2>1, <2>3, PlainConcat
<1>10. CASE name = "mod"
  <2>1. Template(name, text, args) = <<"pmod", "(">> \o text \o <<")">>
    BY <1>10 DEF Template, PassedOn
  <2>2. {"pmod", "(", ")"} \subseteq Templates
    BY DEF Templates
  <2>3. <<"pmod", "(">> \in PlainTexts /\ <<")">> \in PlainTexts /\ text \in PlainTexts
    BY <1>6, <1>7, <2>2 DEF text
  <2> QED BY <1>4, <2>1, <2>3, PlainConcat
<1>11. CASE name = "replace"
  <2>1. Template(name, text, args) = <<"translate", "(">> \o text \o <<")">>
    BY <1>11 DEF Template, PassedOn
  <2>2. {"translate", "(", ")"} \subseteq Templates
    BY DEF Templates
  <2>3. <<"translate", "(">> \in PlainTexts /\ <<")">> \in PlainTexts /\ text \in PlainTexts
    BY <1>6, <1>7, <2>2 DEF text
  <2> QED BY <1>4, <2>1, <2>3, PlainConcat
<1>12. CASE name = "cot"
  <2>1. Template(name, text, args) = <<"CAST(1.0/tan", "(">> \o text \o <<")", "as DOUBLE)">>
    BY <1>12 DEF Template, PassedOn
  <2>2. {"CAST(1.0/tan", "(", ")", "as DOUBLE)"} \subseteq Templates
    BY DEF Templates
  <2>3. /\ <<"CAST(1.0/tan", "(">> \in PlainTexts /\ <<")", "as DOUBLE)">> \in PlainTexts
        /\ text \in PlainTexts
    BY <1>7, <2>2 DEF text
  <2> QED BY <1>4, <2>1, <2>3, PlainConcat
<1>13. CASE name = "now"
  <2>1. Template(name, text, args) = <<"from_unixtime(unix_timestamp())">>
    BY <1>13 DEF Template, PassedOn
  <2>2. "from_unixtime(unix_timestamp())" \in Templates
    BY DEF Templates
  <2> QED BY <1>4, <1>6, <2>1, <2>2
<1>14. CASE name = "atan2"
  <2>1. Template(name, text, args) =
          <<"atan", "(", "(">> \o args[2] \o <<")", "/", "(">> \o args[1] \o <<")", ")">>
    BY <1>14 DEF Template, PassedOn
  <2>2. {"atan", "(", ")", "/"} \subseteq Templates
    BY DEF Templates
  <2>3. <<"atan", "(", "(">> \in PlainTexts /\ <<")", "/", "(">> \in PlainTexts
    BY <1>8, <2>2
  <2>4. <<")", ")">> \in PlainTexts
    BY <1>7, <2>2
  <2>5. <<"atan", "(", "(">> \o args[2] \in PlainTexts
    BY <1>3, <1>14, <2>3, PlainConcat
  <2>6. <<"atan", "(", "(">> \o args[2] \o <<")", "/", "(">> \in PlainTexts
    BY <2>3, <2>5, PlainConcat
  <2>7. <<"atan", "(", "(">> \o args[2] \o <<")", "/", "(">> \o args[1] \in PlainTexts
    BY <1>3, <1>14, <2>6, PlainConcat
  <2> QED BY <1>4, <2>1, <2>4, <2>7, PlainConcat
<1>15. CASE name = "left"
  <2>1. Template(name, text, args) =
          <<"substr", "(">> \o args[1] \o <<",", "0", ",">> \o args[2] \o <<")">>
    BY <1>15 DEF Template, PassedOn
  <2>2. {"substr", "(", ")", ",", "0"} \subseteq Templates
    BY DEF Templates
  <2>3. <<",", "0", ",">> \in PlainTexts
    BY <1>8, <2>2
  <2>4. <<"substr", "(">> \in PlainTexts /\ <<")">> \in PlainTexts
    BY <1>6, <1>7, <2>2
  <2>5. <<"substr", "(">> \o args[1] \in PlainTexts
    BY <1>3, <1>15, <2>4, PlainConcat
  <2>6. <<"substr", "(">> \o args[1] \o <<",", "0", ",">> \in PlainTexts
    BY <2>3, <2>5, PlainConcat
  <2>7. <<"substr", "(">> \o args[1] \o <<",", "0", ",">> \o args[2] \in PlainTexts
    BY <1>3, <1>15, <2>6, PlainConcat
  <2> QED BY <1>4, <2>1, <2>4, <2>7, PlainConcat
<1> QED BY <1>1, <1>9, <1>10, <1>11, <1>12, <1>13, <1>14, <1>15 DEF Known

-----------------------------------------------------------------------------
(***************************************************************************)
(* The inductive invariant: the scan knows the quote it is in, and the     *)
(* openings are the escapes outside literals among the tokens before it.   *)
(***************************************************************************)
Texts ==
  /\ source \in Queries
  /\ result \in Seq(Tokens)
  /\ i \in 1..(Len(result) + 1)
  /\ quote \in Quotes \cup {NoQuote}
  /\ fnOpenings \in Seq(Nat)
  /\ status \in {"scanning", "done", "failed"}

OpenIn(text, n) == {k \in 1..n : text[k] \in Escapes /\ QuoteAfter(text)[k - 1] = NoQuote}
Increasing(s) == \A m, n \in DOMAIN s : m < n => s[m] < s[n]
Elements(s) == {s[n] : n \in DOMAIN s}

Scan ==
  /\ quote = QuoteAfter(result)[i - 1]
  /\ Increasing(fnOpenings)
  /\ Elements(fnOpenings) = OpenIn(result, i - 1)

ScanInv == Texts /\ (status = "scanning" => Scan)

LEMMA InitInv == Init => ScanInv
<1> SUFFICES ASSUME Init PROVE ScanInv
  OBVIOUS
<1>1. /\ source \in Queries /\ result \in Seq(Tokens) /\ Len(result) \in Nat
      /\ i = 1 /\ quote = NoQuote /\ fnOpenings = << >> /\ status = "scanning"
  BY TokensAssumption, LenProperties DEF Init
<1>2. Texts
  BY <1>1 DEF Texts
<1>3. quote = QuoteAfter(result)[i - 1]
  BY <1>1, QuoteAfterFacts
<1>4. Elements(fnOpenings) = {} /\ Increasing(fnOpenings)
  BY <1>1 DEF Elements, Increasing
<1>5. OpenIn(result, i - 1) = {}
  BY <1>1 DEF OpenIn
<1> QED BY <1>2, <1>3, <1>4, <1>5 DEF ScanInv, Scan

\* The scan goes on by a token of the text.
LEMMA OpenInNext ==
  ASSUME Texts, i <= Len(result)
  PROVE  OpenIn(result, i) = OpenIn(result, i - 1) \cup
           (IF result[i] \in Escapes /\ QuoteAfter(result)[i - 1] = NoQuote THEN {i} ELSE {})
<1>1. i \in Nat /\ i >= 1 /\ 1..i = 1..(i - 1) \cup {i}
  BY LenProperties DEF Texts
<1> QED BY <1>1 DEF OpenIn

LEMMA MoveStep ==
  ASSUME ScanInv, Scanning, result' = result, i' = i + 1, source' = source, status' = status,
         quote' = Quoting(quote, Here), fnOpenings' = fnOpenings,
         Here \in Escapes => quote # NoQuote
  PROVE  ScanInv'
<1>1. /\ Texts /\ Scan /\ i <= Len(result) /\ Len(result) \in Nat /\ i \in 1..Len(result)
      /\ i' - 1 = i
  BY LenProperties DEF ScanInv, Texts, Scanning
<1>2. quote' = QuoteAfter(result)[i]
  BY <1>1, QuoteAfterFacts DEF Scan, Here, Texts
<1>3. OpenIn(result, i) = OpenIn(result, i - 1)
  BY <1>1, OpenInNext DEF Scan, Here
<1>4. quote' \in Quotes \cup {NoQuote}
  BY <1>1 DEF Quoting, Texts
<1>5. Texts'
  BY <1>1, <1>4 DEF Texts
<1>6. Scan'
  <2>1. quote' = QuoteAfter(result')[i' - 1]
    BY <1>1, <1>2
  <2>2. Increasing(fnOpenings')
    BY <1>1 DEF Scan
  <2>3. Elements(fnOpenings') = OpenIn(result', i' - 1)
    BY <1>1, <1>3 DEF Scan
  <2> QED BY <2>1, <2>2, <2>3 DEF Scan, Increasing, Elements, OpenIn
<1> QED BY <1>5, <1>6 DEF ScanInv

LEMMA InLiteralStep == ScanInv /\ InLiteral => ScanInv'
<1> SUFFICES ASSUME ScanInv, InLiteral PROVE ScanInv'
  OBVIOUS
<1>1. /\ Scanning /\ quote # NoQuote /\ result' = result /\ i' = i + 1 /\ source' = source
      /\ status' = status /\ fnOpenings' = fnOpenings
      /\ quote' = IF Here = quote THEN NoQuote ELSE quote
  BY DEF InLiteral
<1>2. quote' = Quoting(quote, Here)
  BY <1>1 DEF Quoting
<1> QED BY <1>1, <1>2, MoveStep

LEMMA EnterLiteralStep == ScanInv /\ EnterLiteral => ScanInv'
<1> SUFFICES ASSUME ScanInv, EnterLiteral PROVE ScanInv'
  OBVIOUS
<1>1. /\ Scanning /\ quote = NoQuote /\ Here \in Quotes /\ result' = result /\ i' = i + 1
      /\ source' = source /\ status' = status /\ fnOpenings' = fnOpenings /\ quote' = Here
  BY DEF EnterLiteral, Outside
<1>2. quote' = Quoting(quote, Here)
  BY <1>1 DEF Quoting
<1>3. Here \notin Escapes
  BY <1>1, TokenFacts
<1> QED BY <1>1, <1>2, <1>3, MoveStep

LEMMA CopyStep == ScanInv /\ Copy => ScanInv'
<1> SUFFICES ASSUME ScanInv, Copy PROVE ScanInv'
  OBVIOUS
<1>1. /\ Scanning /\ quote = NoQuote /\ Here \notin Quotes \cup Escapes /\ result' = result
      /\ i' = i + 1 /\ source' = source /\ status' = status /\ fnOpenings' = fnOpenings
      /\ quote' = quote
  BY DEF Copy, Outside
<1>2. quote' = Quoting(quote, Here)
  BY <1>1 DEF Quoting
<1> QED BY <1>1, <1>2, MoveStep

LEMMA OpenFunctionStep == ScanInv /\ OpenFunction => ScanInv'
<1> SUFFICES ASSUME ScanInv, OpenFunction PROVE ScanInv'
  OBVIOUS
<1>1. /\ Scanning /\ quote = NoQuote /\ Here = "{fn" /\ result' = result /\ i' = i + 1
      /\ source' = source /\ status' = status /\ fnOpenings' = Append(fnOpenings, i)
      /\ quote' = quote
  BY DEF OpenFunction, Outside
<1> DEFINE opened == Append(fnOpenings, i)
<1>2. /\ Texts /\ Scan /\ Len(result) \in Nat /\ i \in 1..Len(result) /\ i' - 1 = i
  <2>1. Scanning /\ i' = i + 1
    BY <1>1
  <2> QED BY <2>1, LenProperties DEF ScanInv, Texts, Scanning
<1>3. Here \in Escapes /\ Here \notin Quotes
  BY <1>1 DEF Escapes, Quotes
<1>4. quote' = QuoteAfter(result')[i' - 1]
  <2>1. QuoteAfter(result)[i] = Quoting(QuoteAfter(result)[i - 1], result[i])
    BY <1>2, QuoteAfterFacts DEF Texts
  <2>2. Quoting(NoQuote, Here) = NoQuote
    BY <1>3 DEF Quoting
  <2> QED BY <1>1, <1>2, <2>1, <2>2 DEF Scan, Here
<1>5. OpenIn(result, i) = OpenIn(result, i - 1) \cup {i}
  <2>1. result[i] \in Escapes /\ QuoteAfter(result)[i - 1] = NoQuote
    BY <1>1, <1>2, <1>3 DEF Scan, Here
  <2>2. i <= Len(result)
    BY <1>2
  <2> QED BY <1>2, <2>1, <2>2, OpenInNext
<1> DEFINE n == Len(fnOpenings)
<1>6. /\ n \in Nat /\ fnOpenings' \in Seq(Nat) /\ DOMAIN fnOpenings = 1..n
      /\ DOMAIN fnOpenings' = 1..n \cup {n + 1}
      /\ \A k \in 1..n : fnOpenings'[k] = fnOpenings[k]
      /\ fnOpenings'[n + 1] = i
  <2>1. fnOpenings \in Seq(Nat) /\ i \in Nat
    BY <1>2 DEF Texts
  <2>2. /\ opened \in Seq(Nat) /\ Len(opened) = n + 1 /\ n \in Nat
        /\ \A k \in 1..n : opened[k] = fnOpenings[k]
        /\ opened[n + 1] = i
    BY <2>1, AppendProperties, LenProperties
  <2>3. DOMAIN fnOpenings = 1..n /\ DOMAIN opened = 1..(n + 1)
    BY <2>1, <2>2, LenProperties
  <2>4. fnOpenings' = opened
    BY <1>1
  <2> HIDE DEF opened
  <2> QED BY <2>2, <2>3, <2>4
<1>7. Elements(fnOpenings') = Elements(fnOpenings) \cup {i}
  BY <1>6 DEF Elements
<1>8. \A k \in 1..n : fnOpenings[k] < i
  <2> TAKE k \in 1..n
  <2>1. fnOpenings[k] \in OpenIn(result, i - 1)
    BY <1>2, <1>6 DEF Scan, Elements
  <2> QED BY <1>2, <2>1 DEF OpenIn
<1>9. Increasing(fnOpenings')
  BY <1>2, <1>6, <1>8 DEF Increasing, Scan
<1>10. Texts'
  <2>1. /\ source' = source /\ result' = result /\ quote' = quote /\ status' = status
        /\ i' = i + 1
    BY <1>1
  <2> QED BY <1>2, <1>6, <2>1 DEF Texts
<1>11. Elements(fnOpenings') = OpenIn(result', i' - 1)
  BY <1>1, <1>2, <1>5, <1>7 DEF Scan
<1>12. Scan'
  BY <1>4, <1>9, <1>11 DEF Scan, Increasing, Elements, OpenIn
<1> QED BY <1>10, <1>12 DEF ScanInv

\* A part of the text before the scan is replaced, and its openings are gone.
LEMMA RewriteStep ==
  ASSUME ScanInv, Outside, NEW p \in 1..i, NEW text \in PlainTexts,
         QuoteAfter(result)[p - 1] = NoQuote,
         result' = Replace(p, i, text), i' = p + Len(text), source' = source, status' = status,
         quote' = quote, fnOpenings' \in Seq(Nat), Increasing(fnOpenings'),
         Elements(fnOpenings') = OpenIn(result, p - 1)
  PROVE  ScanInv'
<1> DEFINE before == SubSeq(result, 1, p - 1)
           after == SubSeq(result, i + 1, Len(result))
<1>1. /\ Texts /\ Scan /\ Len(result) \in Nat /\ i \in 1..Len(result) /\ quote = NoQuote
      /\ result \in Seq(Tokens) /\ \A k \in 1..Len(result) : result[k] \in Tokens
  BY LenProperties DEF ScanInv, Texts, Scanning, Outside
<1>2. text \in Seq(Tokens) /\ Len(text) \in Nat
  BY LenProperties DEF PlainTexts
<1>3. /\ before \in Seq(Tokens) /\ Len(before) = p - 1
      /\ \A k \in 1..(p - 1) : before[k] = result[k]
  <2>1. 1 \in Int /\ p - 1 \in Int /\ \A k \in 1..(p - 1) : result[k] \in Tokens
    BY <1>1
  <2>2. /\ before \in Seq(Tokens) /\ Len(before) = (IF 1 <= p - 1 THEN (p - 1) - 1 + 1 ELSE 0)
        /\ \A k \in 1..((p - 1) - 1 + 1) : before[k] = result[1 + k - 1]
    <3> HIDE DEF before
    <3> QED BY <2>1, SubSeqProperties DEF before
  <2> HIDE DEF before
  <2> QED BY <2>2
<1>4. after \in Seq(Tokens) /\ Len(after) \in Nat
  <2>1. i + 1 \in Int /\ Len(result) \in Int /\ \A k \in (i + 1)..Len(result) : result[k] \in Tokens
    BY <1>1
  <2> HIDE DEF after
  <2> QED BY <2>1, SubSeqProperties, LenProperties DEF after
<1>5. result' = before \o text \o after
  BY DEF Replace
<1> HIDE DEF before, after
<1> DEFINE start == before \o text
<1>6. /\ start \in Seq(Tokens) /\ Len(start) = (p - 1) + Len(text)
      /\ \A k \in 1..(p - 1) : start[k] = result[k]
      /\ \A k \in 1..Len(text) : start[(p - 1) + k] = text[k]
  <2>1. /\ start \in Seq(Tokens) /\ Len(start) = Len(before) + Len(text)
        /\ \A k \in 1..(Len(before) + Len(text)) :
             start[k] = IF k <= Len(before) THEN before[k] ELSE text[k - Len(before)]
    BY <1>2, <1>3, ConcatProperties
  <2> HIDE DEF start
  <2>2. p \in Nat /\ p >= 1 /\ Len(text) \in Nat /\ Len(before) = p - 1
    BY <1>1, <1>2, <1>3
  <2>3. ASSUME NEW k \in 1..(p - 1) PROVE start[k] = result[k]
    <3>1. k \in 1..(Len(before) + Len(text)) /\ k <= Len(before)
      BY <2>2
    <3>2. start[k] = before[k]
      BY <2>1, <3>1
    <3> QED BY <1>3, <3>2
  <2>4. ASSUME NEW k \in 1..Len(text) PROVE start[(p - 1) + k] = text[k]
    <3>1. /\ (p - 1) + k \in 1..(Len(before) + Len(text)) /\ ~((p - 1) + k <= Len(before))
          /\ (p - 1) + k - Len(before) = k
      BY <2>2
    <3> DEFINE m == (p - 1) + k
    <3> HIDE DEF m
    <3>2. m \in 1..(Len(before) + Len(text)) /\ ~(m <= Len(before)) /\ m - Len(before) = k
      BY <3>1 DEF m
    <3>3. start[m] = text[m - Len(before)]
      BY <2>1, <3>2
    <3> QED BY <3>2, <3>3 DEF m
  <2> QED BY <1>3, <2>1, <2>3, <2>4
<1>7. result' = start \o after
  BY <1>5
<1> HIDE DEF start
<1>8. /\ result' \in Seq(Tokens) /\ Len(result') = (p - 1) + Len(text) + Len(after)
      /\ \A k \in 1..(p - 1) : result'[k] = result[k]
      /\ \A k \in 1..Len(text) : result'[(p - 1) + k] = text[k]
  <2>1. start \in Seq(Tokens) /\ after \in Seq(Tokens)
    BY <1>4, <1>6
  <2>2. /\ result' \in Seq(Tokens) /\ Len(result') = Len(start) + Len(after)
        /\ \A k \in 1..(Len(start) + Len(after)) :
             result'[k] = IF k <= Len(start) THEN start[k] ELSE after[k - Len(start)]
    BY <2>1, <1>7, ConcatProperties
  <2>3. Len(start) \in Nat /\ Len(after) \in Nat
    BY <1>4, <1>6, LenProperties
  <2>4. ASSUME NEW k \in 1..Len(start) PROVE result'[k] = start[k]
    <3>1. k \in 1..(Len(start) + Len(after)) /\ k <= Len(start)
      BY <2>3
    <3> QED BY <2>2, <3>1
  <2>5. \A k \in 1..(p - 1) : result'[k] = result[k]
    BY <1>2, <1>6, <2>4
  <2>6. ASSUME NEW k \in 1..Len(text) PROVE result'[(p - 1) + k] = text[k]
    <3>1. (p - 1) + k \in 1..Len(start)
      BY <1>2, <1>6
    <3> QED BY <1>6, <2>4, <3>1
  <2> QED BY <1>6, <2>2, <2>5, <2>6
<1>9. \A n \in 0..(p - 1) : QuoteAfter(result')[n] = QuoteAfter(result)[n]
  <2>1. p - 1 \in 0..Len(result) /\ p - 1 <= Len(result')
    BY <1>1, <1>2, <1>4, <1>8
  <2> QED BY <1>1, <1>8, <2>1, Agree
<1>10. \A n \in 0..Len(text) : QuoteAfter(result')[(p - 1) + n] = QuoteAfter(text)[n]
  <2>1. QuoteAfter(result')[p - 1] = NoQuote
    BY <1>9
  <2>2. p - 1 \in 0..Len(result') /\ Len(text) \in 0..Len(text) /\ (p - 1) + Len(text) <= Len(result')
    BY <1>1, <1>2, <1>4, <1>8
  <2> QED BY <1>2, <1>8, <2>1, <2>2, Shift
<1>11. i' - 1 = (p - 1) + Len(text) /\ i' \in 1..(Len(result') + 1)
  BY <1>1, <1>2, <1>4, <1>8
<1>12. quote' = QuoteAfter(result')[i' - 1]
  BY <1>1, <1>2, <1>10, <1>11 DEF PlainTexts
<1>13. OpenIn(result', i' - 1) = OpenIn(result, p - 1)
  <2>1. \A k \in 1..(p - 1) : k \in OpenIn(result', i' - 1) <=> k \in OpenIn(result, p - 1)
    <3> TAKE k \in 1..(p - 1)
    <3>1. k \in 1..(i' - 1) /\ k - 1 \in 0..(p - 1)
      BY <1>1, <1>2, <1>4, <1>11
    <3>2. result'[k] = result[k] /\ QuoteAfter(result')[k - 1] = QuoteAfter(result)[k - 1]
      BY <1>8, <1>9, <3>1
    <3> QED BY <3>1, <3>2 DEF OpenIn
  <2>2. \A j \in 1..Len(text) : (p - 1) + j \notin OpenIn(result', i' - 1)
    <3> TAKE j \in 1..Len(text)
    <3>1. /\ result'[(p - 1) + j] = text[j] /\ j - 1 \in 0..Len(text)
          /\ (p - 1) + j - 1 = (p - 1) + (j - 1)
      <4>1. result'[(p - 1) + j] = text[j]
        BY <1>8
      <4>2. Len(text) \in Nat /\ p \in Int /\ j \in Int
        BY <1>2
      <4>3. j - 1 \in 0..Len(text) /\ (p - 1) + j - 1 = (p - 1) + (j - 1)
        BY <4>2
      <4> QED BY <4>1, <4>3
    <3>2. QuoteAfter(result')[(p - 1) + j - 1] = QuoteAfter(text)[j - 1]
      BY <1>10, <3>1
    <3>3. text[j] \in Escapes => QuoteAfter(text)[j - 1] # NoQuote
      BY DEF PlainTexts, Clean
    <3> QED BY <3>1, <3>2, <3>3 DEF OpenIn
  <2>3. \A k \in OpenIn(result', i' - 1) : k \in 1..(p - 1)
    <3> TAKE k \in OpenIn(result', i' - 1)
    <3>1. k \in 1..((p - 1) + Len(text))
      BY <1>11 DEF OpenIn
    <3>2. CASE k > p - 1
      <4>1. k - (p - 1) \in 1..Len(text) /\ (p - 1) + (k - (p - 1)) = k
        BY <1>2, <3>1, <3>2
      <4> QED BY <2>2, <4>1
    <3> QED BY <1>1, <1>2, <3>1, <3>2
  <2>4. \A k \in OpenIn(result, p - 1) : k \in 1..(p - 1)
    BY DEF OpenIn
  <2> QED BY <2>1, <2>3, <2>4
<1>14. Texts'
  BY <1>1, <1>8, <1>11 DEF Texts
<1>15. Elements(fnOpenings') = OpenIn(result', i' - 1)
  BY <1>13
<1>16. Scan'
  BY <1>12, <1>15 DEF Scan, Increasing, Elements, OpenIn
<1> QED BY <1>14, <1>16 DEF ScanInv

LEMMA ResolveFixedStep == ScanInv /\ ResolveFixed => ScanInv'
<1> SUFFICES ASSUME ScanInv, ResolveFixed PROVE ScanInv'
  OBVIOUS
<1> DEFINE text == <<FixedMeaning[Here]>>
<1>1. /\ Outside /\ Here \in Fixed /\ result' = [result EXCEPT ![i] = FixedMeaning[Here]]
      /\ i' = i + 1 /\ source' = source /\ status' = status /\ fnOpenings' = fnOpenings
      /\ quote' = quote
  BY DEF ResolveFixed
<1>2. /\ Texts /\ Scan /\ Len(result) \in Nat /\ i \in 1..Len(result) /\ quote = NoQuote
      /\ result \in Seq(Tokens) /\ fnOpenings \in Seq(Nat)
  <2>1. Outside
    BY <1>1
  <2> QED BY <2>1, LenProperties DEF ScanInv, Texts, Scanning, Outside
<1>3. /\ Len(result) \in Nat /\ i \in Nat /\ i >= 1 /\ i <= Len(result)
      /\ i - 1 \in 0..(i - 1)
  BY <1>2
<1>4. FixedMeaning[Here] \in Inert
  BY <1>1, TokenFacts
<1>5. result' \in Seq(Tokens) /\ Len(result') = Len(result)
      /\ (\A k \in 1..Len(result) : result'[k] = IF k = i THEN FixedMeaning[Here] ELSE result[k])
  BY <1>1, <1>2, <1>4, ExceptSeq DEF Inert
<1>6. \A n \in 0..(i - 1) : QuoteAfter(result')[n] = QuoteAfter(result)[n]
  <2>1. i - 1 \in 0..Len(result) /\ i - 1 <= Len(result)
    BY <1>3
  <2>2. ASSUME NEW k \in 1..(i - 1) PROVE result'[k] = result[k]
    <3>1. k \in 1..Len(result) /\ k # i
      BY <1>3
    <3> QED BY <1>5, <3>1
  <2>3. i - 1 <= Len(result')
    BY <1>5, <2>1
  <2> QED BY <1>2, <1>5, <2>1, <2>2, <2>3, Agree
<1>7. QuoteAfter(result')[i - 1] = NoQuote
  <2>1. QuoteAfter(result)[i - 1] = NoQuote
    BY <1>2 DEF Scan
  <2> QED BY <1>6, <1>3, <2>1
<1>8. QuoteAfter(result')[i] = NoQuote
  <2>1. QuoteAfter(result')[i] = Quoting(QuoteAfter(result')[i - 1], result'[i])
    BY <1>2, <1>5, QuoteAfterFacts
  <2>2. result'[i] \notin Quotes
    BY <1>2, <1>4, <1>5 DEF Inert
  <2> QED BY <1>7, <2>1, <2>2 DEF Quoting
<1>9. OpenIn(result', i) = OpenIn(result, i - 1)
  <2>1. ASSUME NEW k \in 1..(i - 1)
        PROVE  k \in OpenIn(result', i) <=> k \in OpenIn(result, i - 1)
    <3>1. k \in 1..i /\ k \in 1..Len(result) /\ k # i /\ k - 1 \in 0..(i - 1)
      BY <1>3
    <3>2. result'[k] = result[k] /\ QuoteAfter(result')[k - 1] = QuoteAfter(result)[k - 1]
      BY <1>5, <1>6, <3>1
    <3> QED BY <3>1, <3>2 DEF OpenIn
  <2>2. i \notin OpenIn(result', i)
    BY <1>2, <1>4, <1>5 DEF OpenIn, Inert
  <2>3. OpenIn(result', i) \subseteq 1..i /\ OpenIn(result, i - 1) \subseteq 1..(i - 1)
    BY DEF OpenIn
  <2>4. 1..i = 1..(i - 1) \cup {i}
    BY <1>2
  <2> QED BY <2>1, <2>2, <2>3, <2>4
<1>10. i' - 1 = i /\ i' \in 1..(Len(result') + 1)
  BY <1>1, <1>2, <1>5
<1>11. Texts'
  <2>1. source' = source /\ quote' = quote /\ status' = status /\ fnOpenings' = fnOpenings
    BY <1>1
  <2> QED BY <1>2, <1>5, <1>10, <2>1 DEF Texts
<1>12. quote' = QuoteAfter(result')[i' - 1]
  <2>1. quote' = NoQuote
    BY <1>1, <1>2
  <2> QED BY <1>8, <1>10, <2>1
<1>13. fnOpenings' = fnOpenings
  BY <1>1
<1>14. Elements(fnOpenings') = OpenIn(result', i' - 1) /\ Increasing(fnOpenings')
  BY <1>2, <1>9, <1>10, <1>13 DEF Scan
<1>15. Scan'
  BY <1>12, <1>14 DEF Scan, Increasing, Elements, OpenIn
<1> QED BY <1>11, <1>15 DEF ScanInv

LEMMA ResolveFunctionStep == ScanInv /\ ResolveFunction => ScanInv'
<1> SUFFICES ASSUME ScanInv, ResolveFunction PROVE ScanInv'
  OBVIOUS
<1> DEFINE n == Len(fnOpenings)
           p == fnOpenings[n]
           rest == SubSeq(fnOpenings, 1, n - 1)
           text == Resolved(Function)
<1>1. /\ Outside /\ Here = "}" /\ fnOpenings # << >> /\ Resolvable(Function)
      /\ result' = Replace(p, i, text) /\ i' = p + Len(text)
      /\ source' = source /\ status' = status /\ quote' = quote
  BY DEF ResolveFunction
<1>2. fnOpenings' = rest
  BY DEF ResolveFunction
<1>3. /\ Texts /\ Scan /\ Len(result) \in Nat /\ i \in 1..Len(result) /\ quote = NoQuote
      /\ result \in Seq(Tokens) /\ \A k \in 1..Len(result) : result[k] \in Tokens
  <2>1. Outside
    BY <1>1
  <2> QED BY <2>1, LenProperties DEF ScanInv, Texts, Scanning, Outside
<1>4. /\ fnOpenings \in Seq(Nat) /\ n \in Nat /\ n >= 1 /\ DOMAIN fnOpenings = 1..n
      /\ \A k \in 1..n : fnOpenings[k] \in Nat
  <2>1. fnOpenings \in Seq(Nat) /\ fnOpenings # << >>
    BY <1>1, <1>3 DEF Texts
  <2>2. n \in Nat /\ DOMAIN fnOpenings = 1..n /\ \A k \in 1..n : fnOpenings[k] \in Nat
    BY <2>1, LenProperties
  <2>3. n # 0
    BY <2>1
  <2> QED BY <2>1, <2>2, <2>3
<1>5. i \in Nat /\ i >= 1 /\ i <= Len(result) /\ Len(result) \in Nat
  BY <1>3
<1> HIDE DEF text
\* The opening that is closed.
<1>6. p \in 1..(i - 1) /\ result[p] \in Escapes /\ QuoteAfter(result)[p - 1] = NoQuote
  <2>1. p \in Elements(fnOpenings)
    BY <1>4 DEF Elements
  <2>2. p \in OpenIn(result, i - 1)
    BY <1>3, <2>1 DEF Scan
  <2> QED BY <2>2 DEF OpenIn
<1> HIDE DEF n
<1>7. n \in Nat /\ n >= 1 /\ 1..n = 1..(n - 1) \cup {n}
  BY <1>4
<1>8. ASSUME NEW k \in 1..(n - 1) PROVE fnOpenings[k] < p
  <2>1. k \in DOMAIN fnOpenings /\ n \in DOMAIN fnOpenings /\ k < n
    BY <1>4, <1>7
  <2>2. Increasing(fnOpenings)
    BY <1>3 DEF Scan
  <2> QED BY <2>1, <2>2 DEF Increasing
<1>9. p \in Nat /\ p >= 1 /\ p <= i - 1
  BY <1>6, <1>5
<1>10. \A k \in (p + 1)..(i - 1) : result[k] \in Escapes => QuoteAfter(result)[k - 1] # NoQuote
  <2> SUFFICES ASSUME NEW k \in (p + 1)..(i - 1), result[k] \in Escapes,
                      QuoteAfter(result)[k - 1] = NoQuote
               PROVE  FALSE
    OBVIOUS
  <2>1. k \in Elements(fnOpenings)
    <3>1. k \in 1..(i - 1)
      BY <1>3, <1>6
    <3> QED BY <1>3, <3>1 DEF Scan, OpenIn
  <2>2. PICK j \in 1..n : k = fnOpenings[j]
    BY <1>4, <2>1 DEF Elements
  <2>3. j = n \/ j \in 1..(n - 1)
    BY <1>7
  <2>4. fnOpenings[j] > p
    BY <1>9, <2>2
  <2>5. CASE j = n
    BY <1>9, <2>4, <2>5
  <2>6. CASE j \in 1..(n - 1)
    <3>1. fnOpenings[j] < p /\ fnOpenings[j] \in Nat
      BY <1>4, <1>8, <2>6
    <3> QED BY <1>9, <2>4, <3>1
  <2> QED BY <2>3, <2>5, <2>6
<1>11. p \in Int /\ \A k \in 1..(i - 1) : k \in Int
  BY <1>9, <1>5
\* The function and its arguments.
<1> HIDE DEF p
<1> DEFINE s == Function
<1>12. /\ s \in Seq(Tokens) /\ Len(s) = i - p + 1
      /\ \A k \in 1..(i - p + 1) : s[k] = result[p + k - 1]
  <2>1. p \in Int /\ i \in Int /\ p <= i /\ \A k \in p..i : result[k] \in Tokens
    BY <1>3, <1>6
  <2>2. s = SubSeq(result, p, i)
    BY DEF Function, p, n
  <2> HIDE DEF s
  <2> QED BY <2>1, <2>2, SubSeqProperties
<1> HIDE DEF s
<1>13. Resolvable(s)
  BY <1>1 DEF s
<1>14. /\ Len(s) >= 5 /\ s[2] \in Known /\ s[3] = "(" /\ s[Len(s) - 1] = ")"
       /\ ArgumentText(s) = SubSeq(s, 4, Len(s) - 2)
  BY <1>12, <1>13, ResolvablePosition
<1>15. /\ i >= p + 4 /\ result[p + 1] = s[2] /\ result[p + 2] = "(" /\ result[i - 1] = ")"
  <2>1. i >= p + 4 /\ p \in Nat /\ i \in Nat
    BY <1>12, <1>14, <1>5, <1>9
  <2>2. 2 \in 1..(i - p + 1) /\ 3 \in 1..(i - p + 1) /\ i - p \in 1..(i - p + 1) /\ Len(s) - 1 = i - p
    BY <1>12, <2>1
  <2>3. s[2] = result[p + 2 - 1] /\ s[3] = result[p + 3 - 1] /\ s[i - p] = result[p + (i - p) - 1]
    BY <1>12, <2>2
  <2>4. p + 2 - 1 = p + 1 /\ p + 3 - 1 = p + 2 /\ p + (i - p) - 1 = i - 1
    BY <2>1
  <2> QED BY <1>14, <2>1, <2>2, <2>3, <2>4
<1>16. QuoteAfter(result)[p + 2] = NoQuote
  <2>1. /\ QuoteAfter(result)[p] = Quoting(QuoteAfter(result)[p - 1], result[p])
        /\ QuoteAfter(result)[p + 1] = Quoting(QuoteAfter(result)[p], result[p + 1])
        /\ QuoteAfter(result)[p + 2] = Quoting(QuoteAfter(result)[p + 1], result[p + 2])
    <3>1. p \in 1..Len(result) /\ p + 1 \in 1..Len(result) /\ p + 2 \in 1..Len(result)
          /\ p + 1 - 1 = p /\ p + 2 - 1 = p + 1
      BY <1>15, <1>5, <1>9
    <3> QED BY <1>3, <3>1, QuoteAfterFacts
  <2>2. result[p] \notin Quotes
    BY <1>6, TokenFacts
  <2>3. result[p + 1] \notin Quotes
    BY <1>14, <1>15, KnownPlain
  <2>4. result[p + 2] \notin Quotes
    BY <1>15 DEF Quotes
  <2> QED BY <1>6, <2>1, <2>2, <2>3, <2>4 DEF Quoting
<1>17. QuoteAfter(result)[i - 2] = NoQuote
  <2>1. QuoteAfter(result)[i - 1] = Quoting(QuoteAfter(result)[i - 2], result[i - 1])
    <3>1. i - 1 \in 1..Len(result) /\ (i - 1) - 1 = i - 2
      BY <1>3, <1>6, <1>15
    <3> QED BY <1>3, <3>1, QuoteAfterFacts
  <2>2. QuoteAfter(result)[i - 1] = NoQuote
    BY <1>3 DEF Scan
  <2>3. QuoteAfter(result)[i - 2] \in Quotes \cup {NoQuote}
    <3>1. i - 2 \in 0..Len(result)
      BY <1>3, <1>6, <1>15
    <3> QED BY <1>3, <3>1, QuoteAfterFacts
  <2>4. \A q \in Quotes : Quoting(q, ")") = q
    BY DEF Quoting, Quotes
  <2> QED BY <1>15, <2>1, <2>2, <2>3, <2>4, TokenFacts
<1>18. ArgumentText(s) \in PlainTexts
  <2>1. SubSeq(result, (p + 2) + 1, i - 2) \in PlainTexts
    <3>1. p + 2 \in 0..Len(result) /\ i - 2 \in (p + 2)..Len(result)
          /\ \A k \in ((p + 2) + 1)..(i - 2) : k \in (p + 1)..(i - 1)
      BY <1>15, <1>5, <1>9
    <3> QED BY <1>3, <1>10, <1>16, <1>17, <3>1, PartPlain
  <2> DEFINE x == SubSeq(s, 4, Len(s) - 2)
             y == SubSeq(result, (p + 2) + 1, i - 2)
  <2>2. /\ x \in Seq(Tokens) /\ Len(x) = i - p - 4
        /\ \A k \in 1..(i - p - 4) : x[k] = result[p + 2 + k]
    <3>1. /\ \A k \in 4..(Len(s) - 2) : s[k] \in Tokens
          /\ 4 \in Int /\ Len(s) - 2 \in Int /\ Len(s) - 2 = i - p - 1
      <4>1. Len(s) \in Nat /\ \A k \in 1..Len(s) : s[k] \in Tokens
        BY <1>12, LenProperties
      <4>2. Len(s) = i - p + 1
        BY <1>12
      <4> QED BY <1>5, <1>9, <4>1, <4>2
    <3>2. /\ x \in Seq(Tokens)
          /\ Len(x) = (IF 4 <= Len(s) - 2 THEN (Len(s) - 2) - 4 + 1 ELSE 0)
          /\ \A k \in 1..((Len(s) - 2) - 4 + 1) : x[k] = s[4 + k - 1]
      <4> HIDE DEF x
      <4> QED BY <3>1, SubSeqProperties DEF x
    <3> HIDE DEF x
    <3>3. Len(x) = i - p - 4
      BY <1>15, <1>5, <1>9, <3>1, <3>2
    <3>4. ASSUME NEW k \in 1..(i - p - 4) PROVE x[k] = result[p + 2 + k]
      <4>1. k \in 1..((Len(s) - 2) - 4 + 1) /\ 4 + k - 1 \in 1..(i - p + 1)
            /\ p + (4 + k - 1) - 1 = p + 2 + k
        BY <1>15, <1>5, <1>9, <3>1
      <4> QED BY <1>12, <3>2, <4>1
    <3> QED BY <3>2, <3>3, <3>4
  <2>3. /\ y \in Seq(Tokens) /\ Len(y) = i - p - 4
        /\ \A k \in 1..(i - p - 4) : y[k] = result[p + 2 + k]
    <3>1. /\ \A k \in ((p + 2) + 1)..(i - 2) : result[k] \in Tokens
          /\ (p + 2) + 1 \in Int /\ i - 2 \in Int
      BY <1>3, <1>6, <1>15
    <3>2. /\ y \in Seq(Tokens)
          /\ Len(y) = (IF (p + 2) + 1 <= i - 2 THEN (i - 2) - ((p + 2) + 1) + 1 ELSE 0)
          /\ \A k \in 1..((i - 2) - ((p + 2) + 1) + 1) : y[k] = result[((p + 2) + 1) + k - 1]
      <4> HIDE DEF y
      <4> QED BY <3>1, SubSeqProperties DEF y
    <3> HIDE DEF y
    <3>3. Len(y) = i - p - 4
      BY <1>15, <1>5, <1>9, <3>2
    <3>4. ASSUME NEW k \in 1..(i - p - 4) PROVE y[k] = result[p + 2 + k]
      <4>1. k \in 1..((i - 2) - ((p + 2) + 1) + 1) /\ ((p + 2) + 1) + k - 1 = p + 2 + k
        BY <1>15, <1>5, <1>9
      <4> QED BY <3>2, <4>1
    <3> QED BY <3>2, <3>3, <3>4
  <2>4. x = y
    <3> HIDE DEF x, y
    <3>1. Len(x) = Len(y) /\ \A k \in 1..Len(x) : x[k] = y[k]
      BY <2>2, <2>3
    <3> QED BY <2>2, <2>3, <3>1, SeqEqual
  <2> QED BY <1>14, <2>1, <2>4
<1>19. text \in PlainTexts
  BY <1>12, <1>13, <1>18, ResolvedPlain DEF text, s
\* The openings that are left.
<1>20. /\ rest \in Seq(Nat) /\ DOMAIN rest = 1..(n - 1)
       /\ \A k \in 1..(n - 1) : rest[k] = fnOpenings[k]
  <2>1. 1 \in Int /\ n - 1 \in Int /\ \A k \in 1..(n - 1) : fnOpenings[k] \in Nat
    BY <1>4
  <2>2. /\ rest \in Seq(Nat) /\ Len(rest) = (IF 1 <= n - 1 THEN (n - 1) - 1 + 1 ELSE 0)
        /\ \A k \in 1..((n - 1) - 1 + 1) : rest[k] = fnOpenings[1 + k - 1]
    <3> HIDE DEF rest
    <3> QED BY <2>1, SubSeqProperties DEF rest
  <2> HIDE DEF rest
  <2>3. Len(rest) = n - 1
    BY <1>7, <2>2
  <2>4. DOMAIN rest = 1..(n - 1)
    BY <2>2, <2>3, LenProperties
  <2>5. ASSUME NEW k \in 1..(n - 1) PROVE rest[k] = fnOpenings[k]
    <3>1. k \in 1..((n - 1) - 1 + 1) /\ 1 + k - 1 = k
      BY <1>7
    <3> QED BY <2>2, <3>1
  <2> QED BY <2>2, <2>4, <2>5
<1> HIDE DEF rest
<1>21. Increasing(rest)
  <2>1. Increasing(fnOpenings)
    BY <1>3 DEF Scan
  <2>2. \A k \in 1..(n - 1) : k \in DOMAIN fnOpenings
    BY <1>4, <1>7
  <2> QED BY <1>20, <2>1, <2>2 DEF Increasing
<1>22. Elements(rest) = OpenIn(result, p - 1)
  <2>1. Elements(rest) = {fnOpenings[k] : k \in 1..(n - 1)}
    BY <1>20 DEF Elements
  <2>2. \A k \in 1..(n - 1) : fnOpenings[k] \in OpenIn(result, p - 1)
    <3> TAKE k \in 1..(n - 1)
    <3>1. fnOpenings[k] \in OpenIn(result, i - 1) /\ fnOpenings[k] < p
      <4>1. k \in DOMAIN fnOpenings
        BY <1>4, <1>7
      <4> QED BY <1>3, <1>8, <4>1 DEF Scan, Elements
    <3> QED BY <1>5, <1>9, <3>1 DEF OpenIn
  <2>3. \A x \in OpenIn(result, p - 1) : \E k \in 1..(n - 1) : x = fnOpenings[k]
    <3> TAKE x \in OpenIn(result, p - 1)
    <3>1. x \in OpenIn(result, i - 1) /\ x < p
      BY <1>5, <1>9 DEF OpenIn
    <3>2. PICK k \in 1..n : x = fnOpenings[k]
      BY <1>3, <1>4, <3>1 DEF Scan, Elements
    <3>3. k # n
      BY <1>9, <3>1, <3>2 DEF p
    <3> QED BY <1>7, <3>2, <3>3
  <2> QED BY <2>1, <2>2, <2>3
<1>23. p \in 1..i
  BY <1>3, <1>6
<1> HIDE DEF p
<1> QED
  BY <1>1, <1>2, <1>6, <1>19, <1>20, <1>21, <1>22, <1>23, RewriteStep

LEMMA EndStep == ScanInv /\ (Fail \/ Finish) => ScanInv'
<1> SUFFICES ASSUME ScanInv, Fail \/ Finish PROVE ScanInv'
  OBVIOUS
<1>1. /\ status' \in {"done", "failed"} /\ source' = source /\ result' = result /\ i' = i
      /\ quote' = quote /\ fnOpenings' = fnOpenings
  BY DEF Fail, Finish
<1>2. Texts'
  BY <1>1 DEF ScanInv, Texts
<1> QED BY <1>1, <1>2 DEF ScanInv

LEMMA StutterStep == ScanInv /\ UNCHANGED vars => ScanInv'
BY DEF ScanInv, Texts, Scan, Increasing, Elements, OpenIn, vars

LEMMA ScanAlways == Spec => []ScanInv
<1>1. ScanInv /\ [Next]_vars => ScanInv'
  BY InLiteralStep, EnterLiteralStep, ResolveFixedStep, OpenFunctionStep, ResolveFunctionStep,
     CopyStep, EndStep, StutterStep DEF Next
<1> QED BY <1>1, InitInv, PTL DEF Spec

-----------------------------------------------------------------------------
(***************************************************************************)
(* The position of the scan stays in the text, however much the resolved   *)
(* functions shorten or lengthen it (ODBCEscapeSequenceParser::toString).  *)
(***************************************************************************)
THEOREM TypeCorrect == Spec => []TypeOK
<1>1. ScanInv => TypeOK
  BY TokensAssumption DEF ScanInv, Texts, TypeOK
<1> QED BY <1>1, ScanAlways, PTL

(***************************************************************************)
(* For any query: the stack holds, in order, the positions of the escapes  *)
(* outside literals in the text before the scan, although that text is     *)
(* rewritten under it; all the others have been resolved                   *)
(* (ODBCEscapeSequenceParser::resolveFunction).                            *)
(***************************************************************************)
THEOREM OpeningsCorrect == Spec => []OpeningsMatch
<1>1. ScanInv => OpeningsMatch
  BY DEF ScanInv, Scan, OpeningsMatch, Increasing, Elements, OpenIn
<1> QED BY <1>1, ScanAlways, PTL

-----------------------------------------------------------------------------
(***************************************************************************)
(* Runs of the scan.  A configuration is what the scan keeps of a query;   *)
(* Step is what Next does to it.                                           *)
(***************************************************************************)
Conf(text, n, q, openings, st) ==
  [text |-> text, i |-> n, quote |-> q, openings |-> openings, status |-> st]

LastFunction(c) == SubSeq(c.text, c.openings[Len(c.openings)], c.i)

Step(c) ==
  LET t == c.text[c.i]
      p == c.openings[Len(c.openings)]
      moved(q) == Conf(c.text, c.i + 1, q, c.openings, c.status)
  IN  IF c.status # "scanning" THEN c
      ELSE IF c.i > Len(c.text) THEN Conf(c.text, c.i, c.quote, c.openings, "done")
      ELSE IF c.quote # NoQuote \/ t \notin Escapes THEN moved(Quoting(c.quote, t))
      ELSE IF t \in Fixed
           THEN Conf([c.text EXCEPT ![c.i] = FixedMeaning[t]], c.i + 1, NoQuote, c.openings,
                     "scanning")
      ELSE IF t = "{fn"
           THEN Conf(c.text, c.i + 1, NoQuote, Append(c.openings, c.i), "scanning")
      ELSE IF t = "}" /\ c.openings # << >> /\ Resolvable(LastFunction(c))
           THEN Conf(SubSeq(c.text, 1, p - 1) \o Resolved(LastFunction(c))
                       \o SubSeq(c.text, c.i + 1, Len(c.text)),
                     p + Len(Resolved(LastFunction(c))), NoQuote,
                     SubSeq(c.openings, 1, Len(c.openings) - 1), "scanning")
      ELSE Conf(c.text, c.i, NoQuote, c.openings, "failed")

\* The outcome a meaning allows.
Allows(m, c) ==
  /\ c.status = "done" => c.text = m
  /\ c.status = "failed" => m = Refused

\* A run from c ends, if it does, with what m allows: a set the run does not
\* leave holds no other end.
Yields(c, m) == \E S : c \in S /\ \A d \in S : Step(d) \in S /\ Allows(m, d)

Now == Conf(result, i, quote, fnOpenings, status)

\* The branches of a step.
Opening == "{fn"
Closing == "}"

Resolves(text, n, o) ==
  text[n] = Closing /\ o # << >> /\ Resolvable(SubSeq(text, o[Len(o)], n))

LEMMA StepToken ==
  ASSUME NEW text \in Seq(Tokens), NEW n \in 1..Len(text), NEW q, NEW o,
         NEW c, c = Conf(text, n, q, o, "scanning")
  PROVE  /\ c.text = text /\ c.i = n /\ c.quote = q /\ c.openings = o /\ c.status = "scanning"
         /\ ~(c.i > Len(c.text)) /\ LastFunction(c) = SubSeq(text, o[Len(o)], n)
<1>1. /\ c.text = text /\ c.i = n /\ c.quote = q /\ c.openings = o /\ c.status = "scanning"
  BY DEF Conf
<1>2. ~(n > Len(text))
  BY LenProperties
<1> QED BY <1>1, <1>2 DEF LastFunction

LEMMA StepMove ==
  ASSUME NEW text \in Seq(Tokens), NEW n \in 1..Len(text), NEW q, NEW o,
         q # NoQuote \/ text[n] \notin Escapes
  PROVE  Step(Conf(text, n, q, o, "scanning"))
           = Conf(text, n + 1, Quoting(q, text[n]), o, "scanning")
<1> DEFINE c == Conf(text, n, q, o, "scanning")
<1>0. /\ c.text = text /\ c.i = n /\ c.quote = q /\ c.openings = o /\ c.status = "scanning"
      /\ ~(c.i > Len(c.text)) /\ LastFunction(c) = SubSeq(text, o[Len(o)], n)
  BY StepToken
<1> HIDE DEF c
<1>1. Step(c) = Conf(text, n + 1, Quoting(q, text[n]), o, "scanning")
  BY <1>0, Zenon DEF Step
<1> QED BY <1>1 DEF c

LEMMA StepFixed ==
  ASSUME NEW text \in Seq(Tokens), NEW n \in 1..Len(text), NEW o, text[n] \in Fixed
  PROVE  Step(Conf(text, n, NoQuote, o, "scanning"))
           = Conf([text EXCEPT ![n] = FixedMeaning[text[n]]], n + 1, NoQuote, o, "scanning")
<1> DEFINE c == Conf(text, n, NoQuote, o, "scanning")
<1>1. text[n] \in Escapes
  BY DEF Escapes
<1>0. /\ c.text = text /\ c.i = n /\ c.quote = NoQuote /\ c.openings = o /\ c.status = "scanning"
      /\ ~(c.i > Len(c.text)) /\ LastFunction(c) = SubSeq(text, o[Len(o)], n)
  BY StepToken
<1> HIDE DEF c
<1>2. Step(c) = Conf([text EXCEPT ![n] = FixedMeaning[text[n]]], n + 1, NoQuote, o, "scanning")
  BY <1>1, <1>0, Zenon DEF Step
<1> QED BY <1>2 DEF c

LEMMA StepOpen ==
  ASSUME NEW text \in Seq(Tokens), NEW n \in 1..Len(text), NEW o, text[n] = Opening
  PROVE  Step(Conf(text, n, NoQuote, o, "scanning"))
           = Conf(text, n + 1, NoQuote, Append(o, n), "scanning")
<1> DEFINE c == Conf(text, n, NoQuote, o, "scanning")
<1>1. Opening \in Escapes /\ Opening \notin Fixed /\ Opening = "{fn"
  BY Zenon DEF Opening, Escapes, Fixed
<1>0. /\ c.text = text /\ c.i = n /\ c.quote = NoQuote /\ c.openings = o /\ c.status = "scanning"
      /\ ~(c.i > Len(c.text)) /\ LastFunction(c) = SubSeq(text, o[Len(o)], n)
  BY StepToken
<1> HIDE DEF c
<1>2. Step(c) = Conf(text, n + 1, NoQuote, Append(o, n), "scanning")
  BY <1>1, <1>0, Zenon DEF Step
<1> QED BY <1>2 DEF c

LEMMA StepResolve ==
  ASSUME NEW text \in Seq(Tokens), NEW n \in 1..Len(text), NEW o, Resolves(text, n, o),
         NEW p, p = o[Len(o)], NEW new, new = Resolved(SubSeq(text, p, n))
  PROVE  Step(Conf(text, n, NoQuote, o, "scanning"))
           = Conf(SubSeq(text, 1, p - 1) \o new \o SubSeq(text, n + 1, Len(text)),
                  p + Len(new), NoQuote, SubSeq(o, 1, Len(o) - 1), "scanning")
<1> DEFINE c == Conf(text, n, NoQuote, o, "scanning")
<1>1. Closing \in Escapes /\ Closing \notin Fixed /\ Closing # "{fn" /\ Closing = "}"
  BY Zenon DEF Closing, Escapes, Fixed
<1>0. /\ c.text = text /\ c.i = n /\ c.quote = NoQuote /\ c.openings = o /\ c.status = "scanning"
      /\ ~(c.i > Len(c.text)) /\ LastFunction(c) = SubSeq(text, o[Len(o)], n)
  BY StepToken
<1> HIDE DEF c
<1>2. Step(c) = Conf(SubSeq(text, 1, p - 1) \o new \o SubSeq(text, n + 1, Len(text)),
                     p + Len(new), NoQuote, SubSeq(o, 1, Len(o) - 1), "scanning")
  BY <1>1, <1>0, Zenon DEF Step, Resolves
<1> QED BY <1>2 DEF c

LEMMA StepFail ==
  ASSUME NEW text \in Seq(Tokens), NEW n \in 1..Len(text), NEW o,
         text[n] \in NotSupported \cup {Closing}, ~Resolves(text, n, o)
  PROVE  Step(Conf(text, n, NoQuote, o, "scanning")) = Conf(text, n, NoQuote, o, "failed")
<1> DEFINE c == Conf(text, n, NoQuote, o, "scanning")
<1>1. text[n] \in Escapes /\ text[n] \notin Fixed /\ text[n] # "{fn" /\ Closing = "}"
  BY Zenon DEF Closing, Escapes, Fixed, NotSupported
<1>0. /\ c.text = text /\ c.i = n /\ c.quote = NoQuote /\ c.openings = o /\ c.status = "scanning"
      /\ ~(c.i > Len(c.text)) /\ LastFunction(c) = SubSeq(text, o[Len(o)], n)
  BY StepToken
<1> HIDE DEF c
<1>2. Step(c) = Conf(text, n, NoQuote, o, "failed")
  BY <1>1, <1>0, Zenon DEF Step, Resolves
<1> QED BY <1>2 DEF c

LEMMA NextIsStep ==
  ASSUME Texts, [Next]_vars
  PROVE  source' = source /\ Now' \in {Now, Step(Now)}
<1>1. result \in Seq(Tokens) /\ i \in Nat /\ i >= 1 /\ Len(result) \in Nat
  BY LenProperties DEF Texts
<1>2. Now' = Conf(result', i', quote', fnOpenings', status')
  BY DEF Now
<1>3. ASSUME Scanning
      PROVE  i \in 1..Len(result) /\ Now = Conf(result, i, quote, fnOpenings, "scanning")
  BY <1>1, <1>3 DEF Scanning, Now
<1>4. CASE InLiteral
  <2>1. /\ Scanning /\ quote # NoQuote /\ result' = result /\ i' = i + 1 /\ source' = source
        /\ status' = "scanning" /\ fnOpenings' = fnOpenings
        /\ quote' = Quoting(quote, Here)
    BY <1>4 DEF InLiteral, Quoting, Scanning
  <2> QED BY <1>1, <1>2, <1>3, <2>1, StepMove DEF Here
<1>5. CASE EnterLiteral \/ Copy
  <2>1. /\ Scanning /\ quote = NoQuote /\ Here \notin Escapes /\ result' = result /\ i' = i + 1
        /\ source' = source /\ status' = "scanning" /\ fnOpenings' = fnOpenings
        /\ quote' = Quoting(quote, Here)
    BY <1>5, TokenFacts DEF EnterLiteral, Copy, Outside, Quoting, Scanning
  <2> QED BY <1>1, <1>2, <1>3, <2>1, StepMove DEF Here
<1>6. CASE ResolveFixed
  <2>1. /\ Scanning /\ quote = NoQuote /\ Here \in Fixed
        /\ result' = [result EXCEPT ![i] = FixedMeaning[Here]] /\ i' = i + 1
        /\ source' = source /\ status' = "scanning" /\ fnOpenings' = fnOpenings
        /\ quote' = NoQuote
    BY <1>6 DEF ResolveFixed, Outside, Scanning
  <2> QED BY <1>1, <1>2, <1>3, <2>1, StepFixed DEF Here
<1>7. CASE OpenFunction
  <2>1. /\ Scanning /\ quote = NoQuote /\ Here = "{fn" /\ result' = result /\ i' = i + 1
        /\ source' = source /\ status' = "scanning" /\ fnOpenings' = Append(fnOpenings, i)
        /\ quote' = NoQuote
    BY <1>7 DEF OpenFunction, Outside, Scanning
  <2> QED BY <1>1, <1>2, <1>3, <2>1, StepOpen DEF Here, Opening
<1>8. CASE ResolveFunction
  <2>1. /\ Scanning /\ quote = NoQuote /\ Here = "}"
        /\ fnOpenings # << >> /\ Resolvable(Function)
        /\ result' = Replace(fnOpenings[Len(fnOpenings)], i, Resolved(Function))
        /\ i' = fnOpenings[Len(fnOpenings)] + Len(Resolved(Function))
        /\ fnOpenings' = SubSeq(fnOpenings, 1, Len(fnOpenings) - 1)
        /\ source' = source /\ status' = "scanning" /\ quote' = NoQuote
    BY <1>8 DEF ResolveFunction, Outside, Scanning
  <2>2. Step(Now) = Now'
    BY <1>1, <1>2, <1>3, <2>1, StepResolve DEF Here, Function, Replace, Resolves, Closing
  <2> QED BY <2>1, <2>2
<1>9. CASE Fail
  <2>1. /\ Scanning /\ quote = NoQuote /\ status' = "failed" /\ source' = source
        /\ result' = result /\ i' = i /\ quote' = NoQuote /\ fnOpenings' = fnOpenings
        /\ Here \in NotSupported \cup {"}"}
        /\ ~(Here = "}" /\ fnOpenings # << >> /\ Resolvable(Function))
    BY <1>9 DEF Fail, Outside, NotSupported
  <2>2. Step(Now) = Now'
    BY <1>1, <1>2, <1>3, <2>1, StepFail DEF Here, Function, Resolves, Closing
  <2> QED BY <2>1, <2>2
<1>10. CASE Finish
  <2>1. /\ status = "scanning" /\ i > Len(result) /\ status' = "done" /\ source' = source
        /\ result' = result /\ i' = i /\ quote' = quote /\ fnOpenings' = fnOpenings
    BY <1>10 DEF Finish
  <2>2. /\ Now.text = result /\ Now.i = i /\ Now.quote = quote /\ Now.openings = fnOpenings
        /\ Now.status = status
    BY DEF Now, Conf
  <2> QED BY <1>2, <2>1, <2>2 DEF Step
<1>11. CASE UNCHANGED vars
  BY <1>2, <1>11 DEF vars, Now
<1> QED BY <1>4, <1>5, <1>6, <1>7, <1>8, <1>9, <1>10, <1>11 DEF Next

\* Only a step of the scan changes what a run yields.
LEMMA YieldsBack ==
  ASSUME NEW c, NEW m, c.status = "scanning", Yields(Step(c), m)
  PROVE  Yields(c, m)
<1>1. PICK S : Step(c) \in S /\ \A d \in S : Step(d) \in S /\ Allows(m, d)
  BY DEF Yields
<1>2. Allows(m, c)
  BY DEF Allows
<1>3. c \in S \cup {c} /\ \A d \in S \cup {c} : Step(d) \in S \cup {c} /\ Allows(m, d)
  BY <1>1, <1>2
<1> QED BY <1>3 DEF Yields

LEMMA YieldsForth ==
  ASSUME NEW c, NEW m, Yields(c, m)
  PROVE  Yields(Step(c), m) /\ Allows(m, c)
BY DEF Yields

\* The ends of a run.
LEMMA YieldsEnd ==
  ASSUME NEW text, NEW n, NEW q, NEW o
  PROVE  /\ Yields(Conf(text, n, q, o, "failed"), Refused)
         /\ Yields(Conf(text, n, q, o, "done"), text)
<1>1. ASSUME NEW c, NEW m, Step(c) = c, Allows(m, c)
      PROVE  Yields(c, m)
  <2> DEFINE S == {c}
  <2>1. c \in S /\ \A d \in S : Step(d) \in S /\ Allows(m, d)
    BY <1>1
  <2> HIDE DEF S
  <2> QED BY <2>1 DEF Yields
<1>2. \A st \in {"failed", "done"} :
        Step(Conf(text, n, q, o, st)) = Conf(text, n, q, o, st)
  BY DEF Step, Conf
<1>3. /\ Allows(Refused, Conf(text, n, q, o, "failed"))
      /\ Allows(text, Conf(text, n, q, o, "done"))
  BY DEF Allows, Conf
<1> QED BY <1>1, <1>2, <1>3

-----------------------------------------------------------------------------
\* The parts of a text.
LEMMA Parts ==
  ASSUME NEW a \in Seq(Tokens), NEW b \in Seq(Tokens), NEW c \in Seq(Tokens),
         NEW s, s = a \o b \o c
  PROVE  /\ s \in Seq(Tokens) /\ Len(s) = Len(a) + Len(b) + Len(c)
         /\ s = a \o (b \o c)
         /\ Len(a) \in Nat /\ Len(b) \in Nat /\ Len(c) \in Nat
         /\ \A k \in 1..Len(a) : s[k] = a[k]
         /\ \A k \in 1..Len(b) : s[Len(a) + k] = b[k]
         /\ \A k \in 1..Len(c) : s[Len(a) + Len(b) + k] = c[k]
<1> DEFINE ab == a \o b
<1>1. Len(a) \in Nat /\ Len(b) \in Nat /\ Len(c) \in Nat
  BY LenProperties
<1>2. /\ ab \in Seq(Tokens) /\ Len(ab) = Len(a) + Len(b)
      /\ \A k \in 1..Len(a) + Len(b) : ab[k] = IF k <= Len(a) THEN a[k] ELSE b[k - Len(a)]
  BY ConcatProperties
<1>3. s = a \o (b \o c)
  BY ConcatAssociative
<1>4. s = ab \o c
  OBVIOUS
<1> HIDE DEF ab
<1>5. /\ s \in Seq(Tokens) /\ Len(s) = Len(ab) + Len(c)
      /\ \A k \in 1..Len(ab) + Len(c) : s[k] = IF k <= Len(ab) THEN ab[k] ELSE c[k - Len(ab)]
  <2>1. ab \in Seq(Tokens)
    BY <1>2
  <2>2. /\ ab \o c \in Seq(Tokens) /\ Len(ab \o c) = Len(ab) + Len(c)
        /\ \A k \in 1..Len(ab) + Len(c) :
             (ab \o c)[k] = IF k <= Len(ab) THEN ab[k] ELSE c[k - Len(ab)]
    BY ONLY <2>1, c \in Seq(Tokens), ConcatProperties
  <2> QED BY <1>4, <2>2
<1>6. ASSUME NEW k \in 1..Len(a) PROVE s[k] = a[k]
  BY <1>1, <1>2, <1>5
<1>7. ASSUME NEW k \in 1..Len(b) PROVE s[Len(a) + k] = b[k]
  <2>1. Len(a) + k \in 1..Len(ab) + Len(c) /\ Len(a) + k <= Len(ab) /\ ~(Len(a) + k <= Len(a))
        /\ Len(a) + k \in 1..Len(a) + Len(b) /\ (Len(a) + k) - Len(a) = k
    BY <1>1, <1>2
  <2> QED BY <1>2, <1>5, <2>1
<1>8. ASSUME NEW k \in 1..Len(c) PROVE s[Len(a) + Len(b) + k] = c[k]
  <2>1. Len(a) + Len(b) + k \in 1..Len(ab) + Len(c) /\ ~(Len(a) + Len(b) + k <= Len(ab))
        /\ (Len(a) + Len(b) + k) - Len(ab) = k
    BY <1>1, <1>2
  <2> QED BY <1>5, <2>1
<1> QED BY <1>1, <1>2, <1>3, <1>5, <1>6, <1>7, <1>8

LEMMA PartsCut ==
  ASSUME NEW a \in Seq(Tokens), NEW b \in Seq(Tokens), NEW c \in Seq(Tokens),
         NEW s, s = a \o b \o c
  PROVE  /\ SubSeq(s, 1, Len(a)) = a
         /\ SubSeq(s, Len(a) + 1, Len(a) + Len(b)) = b
         /\ SubSeq(s, Len(a) + Len(b) + 1, Len(s)) = c
<1>1. /\ s \in Seq(Tokens) /\ Len(s) = Len(a) + Len(b) + Len(c)
      /\ Len(a) \in Nat /\ Len(b) \in Nat /\ Len(c) \in Nat
      /\ \A k \in 1..Len(a) : s[k] = a[k]
      /\ \A k \in 1..Len(b) : s[Len(a) + k] = b[k]
      /\ \A k \in 1..Len(c) : s[Len(a) + Len(b) + k] = c[k]
  BY Parts
<1>2. \A k \in 1..Len(s) : s[k] \in Tokens
  BY <1>1, LenProperties
<1>3. ASSUME NEW p \in Nat, NEW t \in Seq(Tokens), p + Len(t) <= Len(s),
             \A k \in 1..Len(t) : s[p + k] = t[k], NEW q, q = p + Len(t)
      PROVE  SubSeq(s, p + 1, q) = t
  <2> DEFINE u == SubSeq(s, p + 1, q)
  <2>1. Len(t) \in Nat /\ Len(s) \in Nat
    BY <1>1, LenProperties
  <2>2. p + 1 \in Int /\ q \in Int /\ \A k \in (p + 1)..q : s[k] \in Tokens
    BY <1>2, <1>3, <2>1
  <2>3. /\ u \in Seq(Tokens) /\ Len(u) = (IF p + 1 <= q THEN q - (p + 1) + 1 ELSE 0)
        /\ \A k \in 1..(q - (p + 1) + 1) : u[k] = s[(p + 1) + k - 1]
    <3> HIDE DEF u
    <3> QED BY ONLY <2>2, SubSeqProperties DEF u
  <2> HIDE DEF u
  <2>4. Len(u) = Len(t)
    BY <1>3, <2>1, <2>3
  <2>5. ASSUME NEW k \in 1..Len(u) PROVE u[k] = t[k]
    <3>1. k \in 1..(q - (p + 1) + 1) /\ (p + 1) + k - 1 = p + k /\ k \in 1..Len(t)
      BY <1>3, <2>1, <2>4
    <3> QED BY <1>3, <2>3, <3>1
  <2>6. u = t
    BY <2>3, <2>4, <2>5, SeqEqual
  <2> QED BY <2>6 DEF u
<1>4. SubSeq(s, 0 + 1, Len(a)) = a
  BY <1>1, <1>3
<1>5. SubSeq(s, Len(a) + 1, Len(a) + Len(b)) = b
  BY <1>1, <1>3
<1>6. SubSeq(s, (Len(a) + Len(b)) + 1, Len(s)) = c
  BY <1>1, <1>3
<1> QED BY <1>4, <1>5, <1>6

-----------------------------------------------------------------------------
\* The scan between two parts of a text, outside a literal.
Between(before, after, openings) ==
  Conf(before \o after, Len(before) + 1, NoQuote, openings, "scanning")

\* It passes what has no escapes,
LEMMA PassPlain ==
  ASSUME NEW before \in Seq(Tokens), NEW s \in PlainTexts, NEW after \in Seq(Tokens), NEW o,
         NEW m, Yields(Between(before \o s, after, o), m)
  PROVE  Yields(Between(before, s \o after, o), m)
<1> DEFINE text == before \o s \o after
           At(n) == Conf(text, Len(before) + n + 1, QuoteAfter(s)[n], o, "scanning")
           S == {n \in Nat : n <= Len(s) => (Yields(At(n), m) => Yields(At(0), m))}
<1>1. s \in Seq(Tokens)
  BY DEF PlainTexts
<1>2. /\ text \in Seq(Tokens) /\ Len(text) = Len(before) + Len(s) + Len(after)
      /\ text = before \o (s \o after)
      /\ Len(before) \in Nat /\ Len(s) \in Nat /\ Len(after) \in Nat
      /\ \A k \in 1..Len(s) : text[Len(before) + k] = s[k]
  BY <1>1, Parts
<1>3. QuoteAfter(s)[0] = NoQuote /\ QuoteAfter(s)[Len(s)] = NoQuote
  BY <1>1, QuoteAfterFacts DEF PlainTexts
<1>4. Len(before \o s) = Len(before) + Len(s)
  BY <1>1, ConcatProperties
<1>5. At(Len(s)) = Between(before \o s, after, o) /\ At(0) = Between(before, s \o after, o)
  BY <1>2, <1>3, <1>4 DEF Between
<1> HIDE DEF text
<1>6. 0 \in S
  OBVIOUS
<1>7. ASSUME NEW n \in S PROVE n + 1 \in S
  <2> SUFFICES ASSUME n + 1 <= Len(s), Yields(At(n + 1), m) PROVE Yields(At(0), m)
    OBVIOUS
  <2>1. /\ n \in Nat /\ n + 1 \in 1..Len(s) /\ Len(before) + n + 1 \in 1..Len(text)
        /\ Len(before) + n + 1 = Len(before) + (n + 1)
        /\ (Len(before) + n + 1) + 1 = Len(before) + (n + 1) + 1 /\ (n + 1) - 1 = n
    BY <1>2
  <2>2. text[Len(before) + n + 1] = s[n + 1]
    BY <1>2, <2>1
  <2>3. QuoteAfter(s)[n + 1] = Quoting(QuoteAfter(s)[n], s[n + 1])
    BY <1>1, <2>1, QuoteAfterFacts
  <2>4. QuoteAfter(s)[n] # NoQuote \/ s[n + 1] \notin Escapes
    BY <2>1 DEF PlainTexts, Clean
  <2>5. Step(At(n)) = At(n + 1)
    <3> DEFINE k == Len(before) + n + 1
               q == QuoteAfter(s)[n]
    <3>1. k \in 1..Len(text) /\ (q # NoQuote \/ text[k] \notin Escapes)
      BY <2>1, <2>2, <2>4
    <3>2. At(n) = Conf(text, k, q, o, "scanning")
      OBVIOUS
    <3>3. At(n + 1) = Conf(text, k + 1, Quoting(q, text[k]), o, "scanning")
      BY <2>1, <2>2, <2>3
    <3> HIDE DEF k, q, At
    <3>4. Step(Conf(text, k, q, o, "scanning")) = Conf(text, k + 1, Quoting(q, text[k]), o, "scanning")
      BY <1>2, <3>1, StepMove
    <3> QED BY <3>2, <3>3, <3>4
  <2>6. At(n).status = "scanning"
    BY DEF Conf
  <2>7. Yields(Step(At(n)), m)
    BY <2>5
  <2>8. Yields(At(n), m)
    <3> HIDE DEF At
    <3> QED BY <2>6, <2>7, YieldsBack
  <2> HIDE DEF At
  <2> QED BY <1>2, <2>1, <2>8
<1>8. S = Nat
  <2> HIDE DEF S
  <2> QED BY <1>6, <1>7, Induction DEF S
<1> HIDE DEF At
<1> QED BY <1>2, <1>5, <1>8

LEMMA OneToken ==
  ASSUME NEW before \in Seq(Tokens), NEW t \in Tokens, NEW after \in Seq(Tokens),
         NEW text, text = before \o (<<t>> \o after), NEW n, n = Len(before) + 1
  PROVE  /\ text \in Seq(Tokens) /\ n \in 1..Len(text) /\ text[n] = t /\ text = before \o <<t>> \o after
         /\ Len(before \o <<t>>) = n /\ Len(text) = n + Len(after)
<1>1. <<t>> \in Seq(Tokens) /\ Len(<<t>>) = 1 /\ <<t>>[1] = t
  OBVIOUS
<1>2. text = before \o <<t>> \o after
  BY <1>1, ConcatAssociative
<1>3. Len(before \o <<t>>) = Len(before) + 1
  BY <1>1, ConcatProperties
<1>4. /\ text \in Seq(Tokens) /\ Len(text) = Len(before) + Len(<<t>>) + Len(after)
      /\ Len(before) \in Nat /\ Len(after) \in Nat
      /\ \A k \in 1..Len(<<t>>) : text[Len(before) + k] = <<t>>[k]
  BY <1>1, <1>2, Parts
<1>5. text[Len(before) + 1] = t
  BY <1>1, <1>4
<1> QED BY <1>1, <1>2, <1>3, <1>4, <1>5

\* replaces a date or a timestamp,
LEMMA PassFixed ==
  ASSUME NEW before \in Seq(Tokens), NEW t \in Fixed \cap Tokens, NEW after \in Seq(Tokens),
         NEW o, NEW m, Yields(Between(before \o <<FixedMeaning[t]>>, after, o), m)
  PROVE  Yields(Between(before, <<t>> \o after, o), m)
<1> DEFINE text == before \o (<<t>> \o after)
           n == Len(before) + 1
           u == FixedMeaning[t]
           new == before \o (<<u>> \o after)
<1>1. u \in Tokens
  BY TokensAssumption
<1>2. /\ text \in Seq(Tokens) /\ n \in 1..Len(text) /\ text[n] = t /\ Len(text) = n + Len(after)
      /\ text = before \o <<t>> \o after
  BY OneToken
<1>3. /\ new \in Seq(Tokens) /\ new[n] = u /\ Len(new) = n + Len(after)
      /\ new = before \o <<u>> \o after /\ Len(before \o <<u>>) = n
  BY <1>1, OneToken
<1>4. [text EXCEPT ![n] = u] = new
  <2> DEFINE w == [text EXCEPT ![n] = u]
  <2>1. /\ w \in Seq(Tokens) /\ Len(w) = Len(text)
        /\ \A j \in 1..Len(text) : w[j] = IF j = n THEN u ELSE text[j]
    <3>1. text \in Seq(Tokens) /\ n \in 1..Len(text) /\ u \in Tokens
      BY <1>1, <1>2
    <3> HIDE DEF text, n, u
    <3> QED BY ONLY <3>1, ExceptSeq
  <2>2. /\ Len(before) \in Nat /\ Len(after) \in Nat /\ Len(<<t>>) = 1 /\ Len(<<u>>) = 1
        /\ <<t>> \in Seq(Tokens) /\ <<u>> \in Seq(Tokens)
    BY <1>1, LenProperties
  <2>3. /\ \A k \in 1..Len(before) : text[k] = before[k] /\ new[k] = before[k]
        /\ \A k \in 1..Len(after) : /\ text[Len(before) + Len(<<t>>) + k] = after[k]
                                    /\ new[Len(before) + Len(<<u>>) + k] = after[k]
    BY <1>2, <1>3, <2>2, Parts
  <2> HIDE DEF text, new, u, w
  <2>4. ASSUME NEW j \in 1..Len(w) PROVE w[j] = new[j]
    <3>1. CASE j = n
      BY <1>3, <2>1, <3>1
    <3>2. CASE j < n
      <4>1. j \in 1..Len(before) /\ j # n /\ j \in 1..Len(text)
        BY <1>2, <2>1, <2>2, <3>2
      <4> QED BY <2>1, <2>3, <4>1
    <3>3. CASE j > n
      <4>1. j - n \in 1..Len(after) /\ Len(before) + 1 + (j - n) = j /\ j # n /\ j \in 1..Len(text)
        BY <1>2, <2>1, <2>2, <3>3
      <4>2. text[j] = after[j - n] /\ new[j] = after[j - n]
        BY <2>2, <2>3, <4>1
      <4> QED BY <2>1, <4>1, <4>2
    <3> QED BY <2>1, <2>2, <1>2, <3>1, <3>2, <3>3
  <2>5. Len(w) = Len(new)
    BY <1>2, <1>3, <2>1
  <2>6. w = new
    BY <1>3, <2>1, <2>4, <2>5, SeqEqual
  <2> QED BY <2>6 DEF w
<1>5. Step(Between(before, <<t>> \o after, o)) = Between(before \o <<u>>, after, o)
  <2>1. Between(before, <<t>> \o after, o) = Conf(text, n, NoQuote, o, "scanning")
    BY DEF Between
  <2>2. Between(before \o <<u>>, after, o) = Conf(new, n + 1, NoQuote, o, "scanning")
    BY <1>3 DEF Between
  <2>3. u = FixedMeaning[text[n]] /\ text[n] \in Fixed
    BY <1>2
  <2>4. text \in Seq(Tokens) /\ n \in 1..Len(text)
    BY <1>2
  <2> HIDE DEF text, n, u, new
  <2>5. Step(Conf(text, n, NoQuote, o, "scanning"))
          = Conf([text EXCEPT ![n] = FixedMeaning[text[n]]], n + 1, NoQuote, o, "scanning")
    BY ONLY <2>3, <2>4, StepFixed
  <2> QED BY <1>4, <2>1, <2>2, <2>3, <2>5
<1>6. Between(before, <<t>> \o after, o).status = "scanning"
  BY DEF Between, Conf
<1> QED BY <1>5, <1>6, YieldsBack

\* and remembers where a function opens.
LEMMA PassOpen ==
  ASSUME NEW before \in Seq(Tokens), NEW after \in Seq(Tokens), Opening \in Tokens, NEW o, NEW m,
         Yields(Between(before \o <<Opening>>, after, Append(o, Len(before) + 1)), m)
  PROVE  Yields(Between(before, <<Opening>> \o after, o), m)
<1> DEFINE text == before \o (<<Opening>> \o after)
           n == Len(before) + 1
<1>1. /\ text \in Seq(Tokens) /\ n \in 1..Len(text) /\ text[n] = Opening
      /\ text = before \o <<Opening>> \o after /\ Len(before \o <<Opening>>) = n
  BY OneToken
<1>2. Step(Between(before, <<Opening>> \o after, o))
        = Between(before \o <<Opening>>, after, Append(o, n))
  BY <1>1, StepOpen DEF Between
<1>3. Between(before, <<Opening>> \o after, o).status = "scanning"
  BY DEF Between, Conf
<1> QED BY <1>2, <1>3, YieldsBack

LEMMA Pushed ==
  ASSUME NEW S, NEW s \in Seq(S), NEW e \in S, NEW t, t = Append(s, e)
  PROVE  t # << >> /\ t[Len(t)] = e /\ SubSeq(t, 1, Len(t) - 1) = s
<1>1. /\ t \in Seq(S) /\ t # << >> /\ Len(t) = Len(s) + 1 /\ t[Len(s) + 1] = e
      /\ \A k \in 1..Len(s) : t[k] = s[k]
  BY AppendProperties
<1>2. Len(s) \in Nat /\ Len(t) - 1 = Len(s)
  BY <1>1, LenProperties
<1> DEFINE w == SubSeq(t, 1, Len(s))
<1>3. 1 \in Int /\ Len(s) \in Int /\ \A k \in 1..Len(s) : t[k] \in S
  BY <1>1, <1>2, LenProperties
<1>4. /\ w \in Seq(S) /\ Len(w) = (IF 1 <= Len(s) THEN Len(s) - 1 + 1 ELSE 0)
      /\ \A k \in 1..(Len(s) - 1 + 1) : w[k] = t[1 + k - 1]
  <2> HIDE DEF w
  <2> QED BY ONLY <1>3, SubSeqProperties DEF w
<1> HIDE DEF w
<1>5. Len(w) = Len(s) /\ \A k \in 1..Len(w) : w[k] = s[k]
  BY <1>1, <1>2, <1>4
<1>6. w = s
  BY <1>4, <1>5, SeqEqual
<1> QED BY <1>1, <1>2, <1>6 DEF w

\* At the end of a function, its text is replaced
Closes(before, closed, after, o, c, m) ==
  /\ ~Resolvable(closed) => Yields(c, Refused)
  /\ Resolvable(closed) /\ Resolved(closed) \in Seq(Tokens)
         /\ Yields(Between(before \o Resolved(closed), after, o), m)
       => Yields(c, m)

LEMMA PassClose ==
  ASSUME NEW before \in Seq(Tokens), NEW function \in Seq(Tokens), NEW after \in Seq(Tokens),
         Closing \in Tokens, NEW o \in Seq(Nat), NEW m,
         NEW closed, closed = function \o <<Closing>>,
         NEW c, c = Between(before \o function, <<Closing>> \o after, Append(o, Len(before) + 1))
  PROVE  Closes(before, closed, after, o, c, m)
<1> DEFINE text == (before \o function) \o (<<Closing>> \o after)
           n == Len(before \o function) + 1
           p == Len(before) + 1
           open == Append(o, p)
           new == Resolved(closed)
<1>1. before \o function \in Seq(Tokens) /\ Len(before \o function) = Len(before) + Len(function)
      /\ Len(before) \in Nat /\ Len(function) \in Nat
  BY ConcatProperties, LenProperties
<1>2. /\ text \in Seq(Tokens) /\ n \in 1..Len(text) /\ text[n] = Closing
      /\ text = (before \o function) \o <<Closing>> \o after
      /\ SubSeq(text, n + 1, Len(text)) = after
  <2> DEFINE start == before \o function
             s == start \o (<<Closing>> \o after)
             k == Len(start) + 1
  <2>1. start \in Seq(Tokens) /\ Len(start) \in Nat
    BY <1>1
  <2> HIDE DEF start
  <2>2. /\ s \in Seq(Tokens) /\ k \in 1..Len(s) /\ s[k] = Closing
        /\ s = start \o <<Closing>> \o after
    BY ONLY <2>1, Closing \in Tokens, after \in Seq(Tokens), OneToken, SMTT(40)
  <2>3. <<Closing>> \in Seq(Tokens) /\ Len(<<Closing>>) = 1
    OBVIOUS
  <2> HIDE DEF s
  <2>4. SubSeq(s, Len(start) + Len(<<Closing>>) + 1, Len(s)) = after
    BY <2>1, <2>2, <2>3, PartsCut
  <2>5. Len(start) + Len(<<Closing>>) + 1 = k + 1
    BY <2>1, <2>3
  <2>6. SubSeq(s, k + 1, Len(s)) = after
    BY <2>4, <2>5
  <2> QED BY <2>2, <2>6 DEF start, s
<1>3. closed \in Seq(Tokens) /\ Len(closed) = Len(function) + 1
  <2>1. <<Closing>> \in Seq(Tokens) /\ Len(<<Closing>>) = 1
    OBVIOUS
  <2> QED BY <2>1, ConcatProperties
<1>4. text = before \o closed \o after
  <2>1. <<Closing>> \in Seq(Tokens)
    OBVIOUS
  <2>2. (before \o function) \o <<Closing>> = before \o closed
    BY <2>1, ConcatAssociative
  <2> QED BY <1>2, <2>2
<1>5. SubSeq(text, 1, p - 1) = before /\ SubSeq(text, p, n) = closed
  <2>1. SubSeq(text, 1, Len(before)) = before
        /\ SubSeq(text, Len(before) + 1, Len(before) + Len(closed)) = closed
    <3>1. /\ before \in Seq(Tokens) /\ closed \in Seq(Tokens) /\ after \in Seq(Tokens)
          /\ text = before \o closed \o after
      BY <1>3, <1>4
    <3> HIDE DEF text
    <3> QED BY ONLY <3>1, PartsCut
  <2>2. p - 1 = Len(before) /\ n = Len(before) + Len(closed)
    BY <1>1, <1>3
  <2> QED BY <2>1, <2>2
<1>6. /\ open # << >> /\ open[Len(open)] = p /\ SubSeq(open, 1, Len(open) - 1) = o
  <2>1. p \in Nat
    BY <1>1
  <2> HIDE DEF p
  <2> QED BY <2>1, Pushed
<1>7. c = Conf(text, n, NoQuote, open, "scanning")
  BY DEF Between
<1>8. c.status = "scanning"
  BY <1>7 DEF Conf
<1>9. Resolves(text, n, open) <=> Resolvable(closed)
  BY <1>2, <1>5, <1>6 DEF Resolves
<1> HIDE DEF text, n, open
<1>10. ASSUME ~Resolvable(closed) PROVE Yields(c, Refused)
  <2>1. Step(c) = Conf(text, n, NoQuote, open, "failed")
    BY <1>2, <1>7, <1>9, <1>10, StepFail
  <2>2. Yields(Step(c), Refused)
    BY <2>1, YieldsEnd
  <2> QED BY <1>8, <2>2, YieldsBack
<1>11. ASSUME Resolvable(closed), new \in Seq(Tokens), Yields(Between(before \o new, after, o), m)
       PROVE  Yields(c, m)
  <2>1. Step(c) = Conf(SubSeq(text, 1, p - 1) \o new \o SubSeq(text, n + 1, Len(text)),
                       p + Len(new), NoQuote, SubSeq(open, 1, Len(open) - 1), "scanning")
    <3>1. Resolves(text, n, open) /\ p = open[Len(open)] /\ new = Resolved(SubSeq(text, p, n))
      BY <1>5, <1>6, <1>9, <1>11
    <3>2. text \in Seq(Tokens) /\ n \in 1..Len(text)
      BY <1>2
    <3> HIDE DEF p, new
    <3> QED BY ONLY <1>7, <3>1, <3>2, StepResolve
  <2>2. Len(before \o new) + 1 = p + Len(new)
    BY <1>1, <1>11, ConcatProperties, LenProperties
  <2>3. Step(c) = Between(before \o new, after, o)
    BY <1>2, <1>5, <1>6, <2>1, <2>2 DEF Between
  <2> QED BY <1>8, <1>11, <2>3, YieldsBack
<1> QED BY <1>10, <1>11 DEF Closes

\* and at the end of the text the scan is done.
LEMMA PassEnd ==
  ASSUME NEW text \in Seq(Tokens), NEW o
  PROVE  Yields(Between(text, << >>, o), text)
<1> DEFINE c == Conf(text, Len(text) + 1, NoQuote, o, "scanning")
<1>1. /\ c.text = text /\ c.i = Len(text) + 1 /\ c.quote = NoQuote /\ c.openings = o
      /\ c.status = "scanning"
  BY DEF Conf
<1>2. Len(text) + 1 > Len(text)
  BY LenProperties
<1>3. Between(text, << >>, o) = c
  BY ConcatEmptySeq DEF Between
<1> HIDE DEF c
<1>4. Step(c) = Conf(text, Len(text) + 1, NoQuote, o, "done")
  BY <1>1, <1>2, Zenon DEF Step
<1>5. Yields(Step(c), text)
  BY <1>4, YieldsEnd
<1> QED BY <1>1, <1>3, <1>5, YieldsBack

-----------------------------------------------------------------------------
(***************************************************************************)
(* What the scan makes of a term, wherever it stands.                      *)
(***************************************************************************)
Terms == [text : Seq(Tokens), meaning : Seq(Tokens) \cup {Refused}, beyond : BOOLEAN,
          commas : BOOLEAN]

\* The parser refuses a term that means nothing, and one that is beyond it.
Answer(t) == IF t.beyond THEN Refused ELSE t.meaning

LEMMA AnswerFacts ==
  ASSUME NEW t \in Terms
  PROVE  /\ Answer(t) \in Seq(Tokens) \cup {Refused}
         /\ Answer(t) # Refused <=> ~t.beyond /\ t.meaning # Refused
         /\ Answer(t) # Refused => Answer(t) = t.meaning
BY DEF Terms, Answer

Translated(t) ==
  \A before, after \in Seq(Tokens), o \in Seq(Nat) : \A m :
    IF Answer(t) = Refused THEN Yields(Between(before, t.text \o after, o), Refused)
    ELSE Yields(Between(before \o Answer(t), after, o), m)
           => Yields(Between(before, t.text \o after, o), m)

LEMMA TranslatedPlain ==
  ASSUME NEW t, t.text \in PlainTexts, Answer(t) = t.text
  PROVE  Translated(t)
<1>1. t.text \in Seq(Tokens) /\ Answer(t) # Refused
  BY TokensAssumption DEF PlainTexts
<1>2. ASSUME NEW before \in Seq(Tokens), NEW after \in Seq(Tokens), NEW o \in Seq(Nat), NEW m,
             Yields(Between(before \o t.text, after, o), m)
      PROVE  Yields(Between(before, t.text \o after, o), m)
  BY <1>2, PassPlain
<1> QED BY <1>1, <1>2 DEF Translated

LEMMA ConcatFields ==
  ASSUME NEW a \in Terms, NEW b \in Terms
  PROVE  /\ Concat(a, b) \in Terms
         /\ Concat(a, b).text = a.text \o b.text
         /\ Concat(a, b).commas = (a.commas \/ b.commas)
         /\ Answer(a) = Refused \/ Answer(b) = Refused => Answer(Concat(a, b)) = Refused
         /\ Answer(a) # Refused /\ Answer(b) # Refused
              => /\ Answer(Concat(a, b)) = Answer(a) \o Answer(b)
                 /\ Answer(Concat(a, b)) # Refused
<1>1. /\ a.text \in Seq(Tokens) /\ b.text \in Seq(Tokens)
      /\ a.meaning \in Seq(Tokens) \cup {Refused} /\ b.meaning \in Seq(Tokens) \cup {Refused}
      /\ a.beyond \in BOOLEAN /\ b.beyond \in BOOLEAN
      /\ a.commas \in BOOLEAN /\ b.commas \in BOOLEAN
  BY DEF Terms
<1>2. a.text \o b.text \in Seq(Tokens)
  BY <1>1, ConcatProperties
<1>3. /\ Concat(a, b).text = a.text \o b.text
      /\ Concat(a, b).commas = (a.commas \/ b.commas)
      /\ Concat(a, b).beyond = (a.beyond \/ b.beyond)
      /\ Concat(a, b).meaning
           = IF Refused \in {a.meaning, b.meaning} THEN Refused ELSE a.meaning \o b.meaning
  BY Zenon DEF Concat
<1>4. ASSUME a.meaning # Refused, b.meaning # Refused
      PROVE  a.meaning \o b.meaning \in Seq(Tokens) /\ a.meaning \o b.meaning # Refused
  <2>1. a.meaning \in Seq(Tokens) /\ b.meaning \in Seq(Tokens)
    BY <1>1, <1>4
  <2>2. a.meaning \o b.meaning \in Seq(Tokens)
    BY <2>1, ConcatProperties
  <2> QED BY <2>2, TokensAssumption
<1> DEFINE meaning == IF Refused \in {a.meaning, b.meaning} THEN Refused
                      ELSE a.meaning \o b.meaning
<1>5. meaning \in Seq(Tokens) \cup {Refused}
  BY <1>4
<1>6. (a.commas \/ b.commas) \in BOOLEAN /\ (a.beyond \/ b.beyond) \in BOOLEAN
  OBVIOUS
<1>7. Concat(a, b) \in Terms
  BY <1>2, <1>5, <1>6 DEF Terms, Concat
<1>8. Answer(a) = Refused \/ Answer(b) = Refused => Answer(Concat(a, b)) = Refused
  BY <1>3, Zenon DEF Answer
<1>9. ASSUME Answer(a) # Refused, Answer(b) # Refused
      PROVE  /\ Answer(Concat(a, b)) = Answer(a) \o Answer(b)
             /\ Answer(Concat(a, b)) # Refused
  <2>1. /\ ~a.beyond /\ a.meaning # Refused /\ Answer(a) = a.meaning
        /\ ~b.beyond /\ b.meaning # Refused /\ Answer(b) = b.meaning
    BY <1>9, AnswerFacts
  <2>2. ~Concat(a, b).beyond /\ Concat(a, b).meaning = a.meaning \o b.meaning
    BY <1>3, <2>1
  <2>3. Answer(Concat(a, b)) = Concat(a, b).meaning
    BY <2>2, Zenon DEF Answer
  <2> QED BY <1>4, <2>1, <2>2, <2>3
<1> QED BY <1>3, <1>7, <1>8, <1>9

LEMMA ConcatRefused ==
  ASSUME NEW a, NEW b, a.meaning = Refused \/ b.meaning = Refused
  PROVE  Concat(a, b).meaning = Refused
BY Zenon DEF Concat

Regroups(x, y, z) == (x \o y) \o z = x \o (y \o z)

LEMMA Regrouping == \A x, y, z \in Seq(Tokens) : Regroups(x, y, z)
BY ConcatAssociative DEF Regroups

LEMMA TranslatedConcat ==
  ASSUME NEW a \in Terms, NEW b \in Terms, Translated(a), Translated(b)
  PROVE  Translated(Concat(a, b))
<1> DEFINE t == Concat(a, b)
<1>1. /\ t.text = a.text \o b.text
      /\ Answer(a) = Refused \/ Answer(b) = Refused => Answer(t) = Refused
      /\ Answer(a) # Refused /\ Answer(b) # Refused
           => Answer(t) = Answer(a) \o Answer(b) /\ Answer(t) # Refused
  BY ConcatFields
<1>2. /\ a.text \in Seq(Tokens) /\ b.text \in Seq(Tokens)
      /\ Answer(a) # Refused => Answer(a) \in Seq(Tokens)
      /\ Answer(b) # Refused => Answer(b) \in Seq(Tokens)
  BY AnswerFacts DEF Terms
<1> SUFFICES ASSUME NEW before \in Seq(Tokens), NEW after \in Seq(Tokens), NEW o \in Seq(Nat), NEW m
    PROVE  IF Answer(t) = Refused THEN Yields(Between(before, t.text \o after, o), Refused)
           ELSE Yields(Between(before \o Answer(t), after, o), m)
                  => Yields(Between(before, t.text \o after, o), m)
  BY DEF Translated
<1> HIDE DEF t
<1>3. t.text \o after = a.text \o (b.text \o after)
  <2>1. a.text \in Seq(Tokens) /\ b.text \in Seq(Tokens) /\ after \in Seq(Tokens)
    BY <1>2
  <2>2. Regroups(a.text, b.text, after)
    BY <2>1, Regrouping
  <2> QED BY <1>1, <2>2 DEF Regroups
<1>4. b.text \o after \in Seq(Tokens)
  BY <1>2, ConcatProperties
<1>5. CASE Answer(a) = Refused
  <2>1. Yields(Between(before, a.text \o (b.text \o after), o), Refused)
    BY <1>4, <1>5 DEF Translated
  <2> QED BY <1>1, <1>3, <1>5, <2>1
<1>6. CASE Answer(a) # Refused
  <2>1. before \o Answer(a) \in Seq(Tokens)
    BY <1>2, <1>6, ConcatProperties
  <2>2. \A n : Yields(Between(before \o Answer(a), b.text \o after, o), n)
                 => Yields(Between(before, a.text \o (b.text \o after), o), n)
    BY <1>4, <1>6 DEF Translated
  <2>3. CASE Answer(b) = Refused
    <3>1. Yields(Between(before \o Answer(a), b.text \o after, o), Refused)
      BY <2>1, <2>3 DEF Translated
    <3> QED BY <1>1, <1>3, <2>2, <2>3, <3>1
  <2>4. CASE Answer(b) # Refused
    <3>1. Answer(t) = Answer(a) \o Answer(b) /\ Answer(t) # Refused
      BY <1>1, <1>6, <2>4
    <3>2. before \o Answer(t) = (before \o Answer(a)) \o Answer(b)
      <4>1. before \in Seq(Tokens) /\ Answer(a) \in Seq(Tokens) /\ Answer(b) \in Seq(Tokens)
        BY <1>2, <1>6, <2>4
      <4>2. Regroups(before, Answer(a), Answer(b))
        BY <4>1, Regrouping
      <4> QED BY <3>1, <4>2 DEF Regroups
    <3>3. Yields(Between((before \o Answer(a)) \o Answer(b), after, o), m)
            => Yields(Between(before \o Answer(a), b.text \o after, o), m)
      BY <2>1, <2>4 DEF Translated
    <3> QED BY <1>3, <2>2, <3>1, <3>2, <3>3
  <2> QED BY <2>3, <2>4
<1> QED BY <1>5, <1>6

LEMMA TranslatedFixed ==
  ASSUME NEW f \in Fixed, f \in Tokens
  PROVE  Translated(FixedEscape(f)) /\ FixedEscape(f) \in Terms
<1> DEFINE t == FixedEscape(f)
           u == FixedMeaning[f]
<1>1. u \in Tokens
  BY TokensAssumption
<1> HIDE DEF u
<1>2. <<u>> \in Seq(Tokens) /\ <<f>> \in Seq(Tokens) /\ <<u>> # Refused
  <2>1. <<u>> \in Seq(Tokens)
    BY ONLY <1>1
  <2>2. <<f>> \in Seq(Tokens)
    BY ONLY f \in Tokens
  <2>3. Refused \notin Seq(Tokens)
    BY TokensAssumption
  <2> QED BY <2>1, <2>2, <2>3
<1>3. /\ t.text = <<f>> /\ Answer(t) = <<u>>
      /\ t = [text |-> <<f>>, meaning |-> <<u>>, beyond |-> FALSE, commas |-> FALSE]
  BY DEF FixedEscape, u, Answer
<1>4. t \in Terms
  BY <1>2, <1>3 DEF Terms
<1>5. ASSUME NEW before \in Seq(Tokens), NEW after \in Seq(Tokens), NEW o \in Seq(Nat), NEW m,
             Yields(Between(before \o <<u>>, after, o), m)
      PROVE  Yields(Between(before, <<f>> \o after, o), m)
  BY <1>5, PassFixed DEF u
<1> HIDE DEF t
<1>6. Translated(t)
  BY <1>2, <1>3, <1>5 DEF Translated
<1> QED BY <1>4, <1>6 DEF t

LEMMA LeafFields ==
  ASSUME NEW s \in Seq(Tokens)
  PROVE  Leaf(s) \in Terms /\ Leaf(s).text = s /\ Answer(Leaf(s)) = s /\ Leaf(s).commas = FALSE
BY DEF Leaf, Terms, Answer

LEMMA TokenPlain ==
  ASSUME NEW t \in Inert
  PROVE  <<t>> \in PlainTexts /\ <<t>> \in Seq(Tokens)
<1>1. <<t>> \in Seq(Inert)
  OBVIOUS
<1>2. <<t>> \in PlainTexts
  BY <1>1, InertPlain
<1> QED BY <1>2 DEF PlainTexts

LEMMA PunctuationInert == {"(", ")", ","} \subseteq Inert
BY TokenFacts DEF Templates

LEMMA CommaFields ==
  /\ Comma \in Terms /\ Comma.text = <<",">> /\ Answer(Comma) = <<",">> /\ Comma.commas = TRUE
  /\ Translated(Comma)
<1>1. <<",">> \in PlainTexts /\ <<",">> \in Seq(Tokens)
  BY PunctuationInert, TokenPlain
<1>2. Comma.text = <<",">> /\ Answer(Comma) = <<",">> /\ Comma.commas = TRUE
  BY DEF Comma, Answer
<1>3. Comma \in Terms
  BY <1>1 DEF Comma, Terms
<1>4. Translated(Comma)
  BY <1>1, <1>2, TranslatedPlain
<1> QED BY <1>2, <1>3, <1>4

LEMMA ParenthesizedFacts ==
  ASSUME NEW t \in Terms, Translated(t)
  PROVE  /\ Parenthesized(t) \in Terms /\ Translated(Parenthesized(t))
         /\ Parenthesized(t).commas = t.commas
         /\ Answer(t) = Refused => Answer(Parenthesized(t)) = Refused
         /\ Answer(t) # Refused
              => /\ Answer(Parenthesized(t)) = <<"(">> \o Answer(t) \o <<")">>
                 /\ Answer(Parenthesized(t)) # Refused
<1> DEFINE a == Leaf(<<"(">>)
           b == Leaf(<<")">>)
           u == Concat(Concat(a, t), b)
           p == Parenthesized(t)
<1>1. /\ <<"(">> \in PlainTexts /\ <<"(">> \in Seq(Tokens)
      /\ <<")">> \in PlainTexts /\ <<")">> \in Seq(Tokens)
  BY PunctuationInert, TokenPlain
<1>2. /\ a \in Terms /\ a.text = <<"(">> /\ Answer(a) = <<"(">> /\ a.commas = FALSE
      /\ b \in Terms /\ b.text = <<")">> /\ Answer(b) = <<")">> /\ b.commas = FALSE
  BY <1>1, LeafFields
<1>3. Answer(a) # Refused /\ Answer(b) # Refused /\ Translated(a) /\ Translated(b)
  BY <1>1, <1>2, TranslatedPlain, TokensAssumption
<1> HIDE DEF a, b
<1>4. /\ u \in Terms /\ Translated(u) /\ u.text = a.text \o t.text \o b.text
      /\ u.commas = t.commas
      /\ Answer(t) = Refused => Answer(u) = Refused
      /\ Answer(t) # Refused
           => Answer(u) = Answer(a) \o Answer(t) \o Answer(b) /\ Answer(u) # Refused
  <2> DEFINE v == Concat(a, t)
  <2>1. /\ v \in Terms /\ v.text = a.text \o t.text /\ v.commas = (a.commas \/ t.commas)
        /\ Answer(t) = Refused => Answer(v) = Refused
        /\ Answer(t) # Refused => Answer(v) = Answer(a) \o Answer(t) /\ Answer(v) # Refused
        /\ Translated(v)
    BY <1>2, <1>3, ConcatFields, TranslatedConcat
  <2> HIDE DEF v
  <2>2. /\ Concat(v, b) \in Terms /\ Concat(v, b).text = v.text \o b.text
        /\ Concat(v, b).commas = (v.commas \/ b.commas)
        /\ Answer(v) = Refused => Answer(Concat(v, b)) = Refused
        /\ Answer(v) # Refused => /\ Answer(Concat(v, b)) = Answer(v) \o Answer(b)
                                  /\ Answer(Concat(v, b)) # Refused
        /\ Translated(Concat(v, b))
    BY <1>2, <1>3, <2>1, ConcatFields, TranslatedConcat
  <2>3. t.commas \in BOOLEAN
    BY DEF Terms
  <2>4. u = Concat(v, b)
    BY DEF v
  <2> HIDE DEF u
  <2> QED BY <1>2, <2>1, <2>2, <2>3, <2>4
<1>5. /\ u.beyond = t.beyond
      /\ u.meaning = IF t.meaning = Refused THEN Refused ELSE <<"(">> \o t.meaning \o <<")">>
  <2>1. t.beyond \in BOOLEAN /\ t.meaning \in Seq(Tokens) \cup {Refused}
    BY DEF Terms
  <2>2. /\ a.meaning = <<"(">> /\ a.beyond = FALSE /\ a.meaning # Refused
        /\ b.meaning = <<")">> /\ b.beyond = FALSE /\ b.meaning # Refused
    BY <1>1, TokensAssumption DEF a, b, Leaf
  <2> DEFINE v == Concat(a, t)
  <2>3. /\ v.beyond = t.beyond
        /\ v.meaning = IF t.meaning = Refused THEN Refused ELSE a.meaning \o t.meaning
    BY <2>1, <2>2 DEF Concat
  <2>4. t.meaning # Refused => a.meaning \o t.meaning # Refused
    <3>1. t.meaning # Refused => a.meaning \o t.meaning \in Seq(Tokens)
      BY <1>1, <2>1, <2>2, ConcatProperties
    <3> QED BY <3>1, TokensAssumption
  <2> HIDE DEF v
  <2>5. /\ u.beyond = (v.beyond \/ b.beyond)
        /\ u.meaning
             = IF Refused \in {v.meaning, b.meaning} THEN Refused ELSE v.meaning \o b.meaning
    BY DEF Concat, v
  <2> HIDE DEF u
  <2> QED BY <2>1, <2>2, <2>3, <2>4, <2>5
<1> HIDE DEF u
<1>6. p = u
  <2>1. p = [text |-> u.text, meaning |-> u.meaning, beyond |-> u.beyond, commas |-> u.commas]
    BY <1>2, <1>4, <1>5 DEF Parenthesized
  <2>2. u = [text |-> u.text, meaning |-> u.meaning, beyond |-> u.beyond, commas |-> u.commas]
    BY <1>4 DEF Terms
  <2> QED BY <2>1, <2>2
<1> HIDE DEF p
<1>7. p \in Terms /\ Translated(p) /\ p.commas = t.commas
      /\ (Answer(t) = Refused => Answer(p) = Refused)
      /\ (Answer(t) # Refused
            => Answer(p) = <<"(">> \o Answer(t) \o <<")">> /\ Answer(p) # Refused)
  BY <1>2, <1>4, <1>6
<1> QED BY <1>7 DEF p

-----------------------------------------------------------------------------
(***************************************************************************)
(* The states of ArgumentsParser on the way through a text.                *)
(***************************************************************************)
Reading(s, tokens) ==
  LET read[n \in 0..Len(tokens)] ==
        IF n = 0 THEN s ELSE NextArgument(read[n - 1], tokens[n])
  IN  read

ReadFrom(s, tokens) == Reading(s, tokens)[Len(tokens)]

LEMMA ReadingFacts ==
  ASSUME NEW s, NEW tokens \in Seq(Tokens)
  PROVE  /\ Reading(s, tokens)[0] = s
         /\ \A n \in 1..Len(tokens) :
              Reading(s, tokens)[n] = NextArgument(Reading(s, tokens)[n - 1], tokens[n])
<1> DEFINE Reads(f, m) == [n \in 0..m |-> IF n = 0 THEN s ELSE NextArgument(f[n - 1], tokens[n])]
           S == {m \in Nat : \E f : f = Reads(f, m)}
           f == CHOOSE f : f = Reads(f, Len(tokens))
<1>1. Len(tokens) \in Nat
  BY LenProperties
<1>2. 0 \in S
  <2> DEFINE g == [n \in 0..0 |-> s]
  <2>1. g = Reads(g, 0)
    OBVIOUS
  <2> QED BY <2>1
<1>3. ASSUME NEW m \in S PROVE m + 1 \in S
  <2>1. m \in Nat /\ m + 1 \in Nat
    OBVIOUS
  <2>2. PICK h : h = Reads(h, m)
    OBVIOUS
  <2> DEFINE g == Reads(h, m + 1)
  <2>3. \A n \in 0..m : g[n] = h[n]
    <3> TAKE n \in 0..m
    <3>1. h[n] = Reads(h, m)[n]
      BY <2>2
    <3> QED BY <2>1, <3>1
  <2>4. \A n \in 0..(m + 1) : g[n] = Reads(g, m + 1)[n]
    <3> TAKE n \in 0..(m + 1)
    <3>1. n # 0 => n - 1 \in 0..m
      BY <2>1
    <3>2. n # 0 => g[n - 1] = h[n - 1]
      BY <2>3, <3>1
    <3> HIDE <2>3
    <3> QED BY <3>2
  <2>5. g = Reads(g, m + 1)
    BY <2>4
  <2> HIDE DEF g
  <2> QED BY <2>1, <2>5
<1>4. S = Nat
  <2> HIDE DEF S
  <2> QED BY <1>2, <1>3, Induction DEF S
<1>5. f = Reads(f, Len(tokens))
  BY <1>1, <1>4
<1>6. Reading(s, tokens) = f
  BY Zenon DEF Reading
<1> HIDE DEF f
<1>7. f[0] = s
  BY <1>1, <1>5
<1>8. \A n \in 1..Len(tokens) : f[n] = NextArgument(f[n - 1], tokens[n])
  BY <1>1, <1>5
<1> QED BY <1>6, <1>7, <1>8

LEMMA ReadArgumentsFrom == \A tokens : ReadArguments(tokens) = ReadFrom(StartArguments, tokens)
BY Zenon DEF ReadArguments, ReadFrom, Reading

LEMMA ReadConcat ==
  ASSUME NEW s, NEW a \in Seq(Tokens), NEW b \in Seq(Tokens)
  PROVE  ReadFrom(s, a \o b) = ReadFrom(ReadFrom(s, a), b)
<1> DEFINE ab == a \o b
           f == Reading(s, ab)
           g == Reading(s, a)
           h == Reading(ReadFrom(s, a), b)
<1>1. /\ ab \in Seq(Tokens) /\ Len(ab) = Len(a) + Len(b) /\ Len(a) \in Nat /\ Len(b) \in Nat
      /\ \A k \in 1..Len(a) : ab[k] = a[k]
      /\ \A k \in 1..Len(b) : ab[Len(a) + k] = b[k]
  BY LenProperties, ConcatProperties
<1> HIDE DEF ab
<1>2. f[0] = s /\ \A n \in 1..Len(ab) : f[n] = NextArgument(f[n - 1], ab[n])
  BY <1>1, ReadingFacts
<1>3. g[0] = s /\ \A n \in 1..Len(a) : g[n] = NextArgument(g[n - 1], a[n])
  BY ReadingFacts
<1>4. h[0] = g[Len(a)] /\ \A n \in 1..Len(b) : h[n] = NextArgument(h[n - 1], b[n])
  BY ReadingFacts DEF ReadFrom
<1>5. f[Len(ab)] = ReadFrom(s, ab) /\ h[Len(b)] = ReadFrom(ReadFrom(s, a), b)
  BY DEF ReadFrom
<1> HIDE DEF f, g, h
<1> DEFINE S == {n \in Nat : n <= Len(a) => f[n] = g[n]}
           T == {n \in Nat : n <= Len(b) => f[Len(a) + n] = h[n]}
<1>6. 0 \in S
  BY <1>2, <1>3
<1>7. ASSUME NEW n \in S PROVE n + 1 \in S
  <2>1. CASE n + 1 <= Len(a)
    <3>1. n + 1 \in 1..Len(a) /\ n + 1 \in 1..Len(ab) /\ (n + 1) - 1 = n /\ f[n] = g[n]
      BY <1>1, <2>1
    <3>2. f[n + 1] = NextArgument(f[n], a[n + 1]) /\ g[n + 1] = NextArgument(g[n], a[n + 1])
      BY <1>1, <1>2, <1>3, <3>1
    <3> QED BY <3>1, <3>2
  <2> QED BY <1>1, <2>1
<1>8. S = Nat
  <2> HIDE DEF S
  <2> QED BY <1>6, <1>7, Induction DEF S
<1>9. f[Len(a)] = g[Len(a)]
  BY <1>1, <1>8
<1>10. 0 \in T
  BY <1>1, <1>4, <1>9
<1>11. ASSUME NEW n \in T PROVE n + 1 \in T
  <2>1. CASE n + 1 <= Len(b)
    <3>1. n + 1 \in 1..Len(b) /\ Len(a) + (n + 1) \in 1..Len(ab) /\ (n + 1) - 1 = n
          /\ (Len(a) + (n + 1)) - 1 = Len(a) + n /\ f[Len(a) + n] = h[n]
      BY <1>1, <2>1
    <3>2. ab[Len(a) + (n + 1)] = b[n + 1]
      BY <1>1, <3>1
    <3>3. f[Len(a) + (n + 1)] = NextArgument(f[Len(a) + n], b[n + 1])
      BY <1>2, <3>1, <3>2
    <3>4. h[n + 1] = NextArgument(h[n], b[n + 1])
      BY <1>4, <3>1
    <3> QED BY <3>1, <3>3, <3>4
  <2> QED BY <1>1, <2>1
<1>12. T = Nat
  <2> HIDE DEF T
  <2> QED BY <1>10, <1>11, Induction DEF T
<1>13. f[Len(a) + Len(b)] = h[Len(b)]
  <2>1. Len(b) \in T
    <3> HIDE DEF T
    <3> QED BY <1>1, <1>12
  <2> QED BY <1>1, <2>1
<1> QED BY <1>1, <1>5, <1>13 DEF ab

LEMMA ReadToken ==
  ASSUME NEW s, NEW t \in Tokens
  PROVE  ReadFrom(s, <<t>>) = NextArgument(s, t)
<1> DEFINE u == <<t>>
<1>1. u \in Seq(Tokens) /\ Len(u) = 1 /\ u[1] = t
  OBVIOUS
<1> HIDE DEF u
<1>2. /\ Reading(s, u)[0] = s
      /\ \A n \in 1..1 : Reading(s, u)[n] = NextArgument(Reading(s, u)[n - 1], u[n])
  BY <1>1, ReadingFacts
<1>3. 1 \in 1..1 /\ 1 - 1 = 0
  OBVIOUS
<1>4. Reading(s, u)[1] = NextArgument(s, t)
  BY <1>1, <1>2, <1>3
<1> QED BY <1>1, <1>4 DEF ReadFrom, u

LEMMA ReadEmpty == ASSUME NEW s PROVE ReadFrom(s, << >>) = s
<1>1. << >> \in Seq(Tokens) /\ Len(<< >>) = 0
  OBVIOUS
<1> QED BY <1>1, ReadingFacts DEF ReadFrom

-----------------------------------------------------------------------------
State(args, buffer, q, depth, failed) ==
  [args |-> args, buffer |-> buffer, quote |-> q, depth |-> depth, failed |-> failed]

\* The states outside a literal.
Idle == [args : Seq(Seq(Tokens)), buffer : Seq(Tokens), quote : {NoQuote}, depth : Nat,
         failed : BOOLEAN]

LEMMA IdleState ==
  ASSUME NEW s \in Idle
  PROVE  /\ s = State(s.args, s.buffer, NoQuote, s.depth, s.failed)
         /\ s.args \in Seq(Seq(Tokens)) /\ s.buffer \in Seq(Tokens) /\ s.depth \in Nat
         /\ s.failed \in BOOLEAN
BY DEF Idle, State

LEMMA StateIdle ==
  ASSUME NEW args \in Seq(Seq(Tokens)), NEW buffer \in Seq(Tokens), NEW depth \in Nat,
         NEW failed \in BOOLEAN, NEW s, s = State(args, buffer, NoQuote, depth, failed)
  PROVE  /\ s \in Idle /\ s.args = args /\ s.buffer = buffer /\ s.depth = depth
         /\ s.failed = failed
BY DEF Idle, State

\* A token that only goes into the argument.
Ordinary(q, t) == q # NoQuote \/ t \notin {",", "(", ")"}

LEMMA NextPlain ==
  ASSUME NEW args, NEW buffer, NEW q, NEW depth, NEW failed \in BOOLEAN, NEW t,
         Ordinary(q, t)
  PROVE  NextArgument(State(args, buffer, q, depth, failed), t)
           = State(args, Append(buffer, t), Quoting(q, t), depth, failed)
<1> DEFINE s == State(args, buffer, q, depth, failed)
           d == IF s.quote # NoQuote THEN s.depth
                ELSE IF t = "(" THEN s.depth + 1
                ELSE IF t = ")" /\ s.depth > 0 THEN s.depth - 1 ELSE s.depth
           g == s.failed \/ (s.quote = NoQuote /\ t = ")" /\ s.depth = 0)
<1>1. /\ s.args = args /\ s.buffer = buffer /\ s.quote = q /\ s.depth = depth /\ s.failed = failed
      /\ s = [args |-> args, buffer |-> buffer, quote |-> q, depth |-> depth, failed |-> failed]
  BY DEF State
<1> HIDE DEF s
<1>2. d = depth
  BY <1>1 DEF Ordinary
<1>3. g = failed
  BY <1>1 DEF Ordinary
<1>4. NextArgument(s, t)
        = [s EXCEPT !.buffer = Append(s.buffer, t), !.quote = Quoting(s.quote, t),
                    !.depth = d, !.failed = g]
  BY <1>1, Zenon DEF NextArgument, Ordinary
<1> HIDE DEF d, g
<1> DEFINE b == Append(buffer, t)
           w == Quoting(q, t)
<1>5. NextArgument(s, t) = [s EXCEPT !.buffer = b, !.quote = w, !.depth = depth, !.failed = failed]
  BY <1>1, <1>2, <1>3, <1>4
<1> HIDE DEF b, w
<1>6. NextArgument(s, t) = State(args, b, w, depth, failed)
  BY <1>1, <1>5 DEF State
<1> QED BY <1>6 DEF s, b, w

LEMMA NoQuoteTokens == \A t \in {",", "(", ")"} : Quoting(NoQuote, t) = NoQuote
BY TokenFacts, PunctuationInert DEF Quoting, Inert

LEMMA NextComma ==
  ASSUME NEW args, NEW buffer, NEW depth, NEW failed
  PROVE  NextArgument(State(args, buffer, NoQuote, depth, failed), ",")
           = State(Append(args, buffer), << >>, NoQuote, depth, failed)
<1> DEFINE s == State(args, buffer, NoQuote, depth, failed)
           a == Append(args, buffer)
           b == << >>
<1>1. /\ s.args = args /\ s.buffer = buffer /\ s.quote = NoQuote /\ s.depth = depth
      /\ s.failed = failed
      /\ s = [args |-> args, buffer |-> buffer, quote |-> NoQuote, depth |-> depth,
              failed |-> failed]
  BY DEF State
<1> HIDE DEF s
<1>2. NextArgument(s, ",") = [s EXCEPT !.args = Append(s.args, s.buffer), !.buffer = << >>]
  BY <1>1, Zenon DEF NextArgument
<1>3. NextArgument(s, ",") = [s EXCEPT !.args = a, !.buffer = b]
  BY <1>1, <1>2
<1> HIDE DEF a, b
<1>4. NextArgument(s, ",") = State(a, b, NoQuote, depth, failed)
  BY <1>1, <1>3 DEF State
<1> QED BY <1>4 DEF s, a, b

LEMMA NextParenthesis ==
  ASSUME NEW args, NEW buffer, NEW depth \in Nat, NEW failed \in BOOLEAN,
         NEW t \in {"(", ")"}, NEW after, after = IF t = "(" THEN depth + 1 ELSE depth - 1,
         t = ")" => depth > 0
  PROVE  NextArgument(State(args, buffer, NoQuote, depth, failed), t)
           = State(args, Append(buffer, t), NoQuote, after, failed)
<1> DEFINE s == State(args, buffer, NoQuote, depth, failed)
           d == IF s.quote # NoQuote THEN s.depth
                ELSE IF t = "(" THEN s.depth + 1
                ELSE IF t = ")" /\ s.depth > 0 THEN s.depth - 1 ELSE s.depth
           g == s.failed \/ (s.quote = NoQuote /\ t = ")" /\ s.depth = 0)
           b == Append(buffer, t)
<1>1. /\ s.args = args /\ s.buffer = buffer /\ s.quote = NoQuote /\ s.depth = depth
      /\ s.failed = failed
      /\ s = [args |-> args, buffer |-> buffer, quote |-> NoQuote, depth |-> depth,
              failed |-> failed]
  BY DEF State
<1> HIDE DEF s
<1>2. d = after
  BY <1>1
<1>3. g = failed
  BY <1>1
<1>4. t # "," /\ Quoting(s.quote, t) = NoQuote
  BY <1>1, NoQuoteTokens
<1>5. NextArgument(s, t)
        = [s EXCEPT !.buffer = Append(s.buffer, t), !.quote = Quoting(s.quote, t),
                    !.depth = d, !.failed = g]
  BY <1>1, <1>4, Zenon DEF NextArgument
<1> HIDE DEF d, g
<1>6. NextArgument(s, t)
        = [s EXCEPT !.buffer = b, !.quote = NoQuote, !.depth = after, !.failed = failed]
  BY <1>1, <1>2, <1>3, <1>4, <1>5
<1> HIDE DEF b
<1>7. NextArgument(s, t) = State(args, b, NoQuote, after, failed)
  BY <1>1, <1>6 DEF State
<1> QED BY <1>7 DEF s, b

-----------------------------------------------------------------------------
(***************************************************************************)
(* A text ArgumentsParser reads over: it ends outside a literal and leaves *)
(* some parentheses open.  Without commas it is added to the argument that *)
(* is being read, with commas an argument ends in it.                      *)
(***************************************************************************)
Reads(r, s, text, commas, open) ==
  /\ r \in Idle /\ r.depth = s.depth + open /\ r.failed = s.failed
  /\ IF commas THEN Len(r.args) > Len(s.args)
     ELSE r.args = s.args /\ r.buffer = s.buffer \o text

Neutral(text, commas, open) ==
  \A s \in Idle : Reads(ReadFrom(s, text), s, text, commas, open)

\* A text that does not end with a comma.
Solid(text) == \A s \in Idle : ReadFrom(s, text).buffer # << >>

LEMMA ReadsLonger ==
  ASSUME NEW s \in Idle, NEW r, NEW text, NEW commas \in BOOLEAN, NEW open,
         Reads(r, s, text, commas, open)
  PROVE  /\ r \in Idle /\ Len(r.args) \in Nat /\ Len(s.args) \in Nat
         /\ Len(r.args) >= Len(s.args)
<1>1. r \in Idle
  BY DEF Reads
<1>2. Len(r.args) \in Nat /\ Len(s.args) \in Nat
  BY <1>1, IdleState, LenProperties
<1> QED BY <1>1, <1>2 DEF Reads

LEMMA NeutralEmpty == Neutral(<< >>, FALSE, 0)
<1>1. ASSUME NEW s \in Idle PROVE s.buffer \o << >> = s.buffer /\ s.depth + 0 = s.depth
  BY IdleState, ConcatEmptySeq
<1> QED BY <1>1, ReadEmpty DEF Neutral, Reads

LEMMA NeutralConcat ==
  ASSUME NEW a \in Seq(Tokens), NEW b \in Seq(Tokens), NEW c \in BOOLEAN, NEW d \in BOOLEAN,
         NEW k \in Nat, NEW l \in Nat, Neutral(a, c, k), Neutral(b, d, l)
  PROVE  Neutral(a \o b, c \/ d, k + l) /\ (Solid(b) => Solid(a \o b))
<1>1. ASSUME NEW s \in Idle
      PROVE  /\ Reads(ReadFrom(s, a \o b), s, a \o b, c \/ d, k + l)
             /\ Solid(b) => ReadFrom(s, a \o b).buffer # << >>
  <2> DEFINE r == ReadFrom(s, a)
             u == ReadFrom(r, b)
  <2>1. ReadFrom(s, a \o b) = u
    BY ReadConcat
  <2>2. Reads(r, s, a, c, k)
    BY DEF Neutral
  <2>3. r \in Idle /\ Len(r.args) \in Nat /\ Len(s.args) \in Nat /\ Len(r.args) >= Len(s.args)
    BY <2>2, ReadsLonger
  <2>4. Reads(u, r, b, d, l)
    BY <2>3 DEF Neutral
  <2>5. u \in Idle /\ Len(u.args) \in Nat /\ Len(u.args) >= Len(r.args)
    BY <2>3, <2>4, ReadsLonger
  <2>6. Solid(b) => u.buffer # << >>
    BY <2>3 DEF Solid
  <2> HIDE DEF r, u
  <2>7. u.depth = s.depth + (k + l) /\ u.failed = s.failed
    BY <2>2, <2>4, IdleState DEF Reads
  <2>8. CASE c \/ d
    <3>1. Len(u.args) > Len(s.args)
      BY <2>2, <2>3, <2>4, <2>5, <2>8 DEF Reads
    <3> QED BY <2>1, <2>5, <2>6, <2>7, <2>8, <3>1 DEF Reads
  <2>9. CASE ~(c \/ d)
    <3>1. /\ r.args = s.args /\ r.buffer = s.buffer \o a
          /\ u.args = r.args /\ u.buffer = r.buffer \o b
      BY <2>2, <2>4, <2>9 DEF Reads
    <3>2. s.buffer \in Seq(Tokens)
      BY IdleState
    <3>3. u.buffer = s.buffer \o (a \o b)
      <4>1. Regroups(s.buffer, a, b)
        BY <3>2, Regrouping
      <4> QED BY <3>1, <4>1 DEF Regroups
    <3> QED BY <2>1, <2>5, <2>6, <2>7, <2>9, <3>1, <3>3 DEF Reads
  <2> QED BY <2>8, <2>9
<1> QED BY <1>1 DEF Neutral, Solid

\* A comma ends an argument.
LEMMA ReadComma ==
  ASSUME NEW s \in Idle, NEW r, r = ReadFrom(s, Comma.text)
  PROVE  /\ r \in Idle /\ r.args = Append(s.args, s.buffer) /\ r.buffer = << >>
         /\ r.depth = s.depth /\ r.failed = s.failed
         /\ Len(r.args) = Len(s.args) + 1 /\ Len(s.args) \in Nat
<1> DEFINE args == Append(s.args, s.buffer)
           buffer == << >>
<1>1. "," \in Tokens
  BY PunctuationInert DEF Inert
<1>2. r = State(args, buffer, NoQuote, s.depth, s.failed)
  <2>1. NextArgument(State(s.args, s.buffer, NoQuote, s.depth, s.failed), ",")
          = State(Append(s.args, s.buffer), << >>, NoQuote, s.depth, s.failed)
    <3> DEFINE x == s.args
               y == s.buffer
               z == s.depth
               w == s.failed
    <3> HIDE DEF x, y, z, w
    <3>1. NextArgument(State(x, y, NoQuote, z, w), ",") = State(Append(x, y), << >>, NoQuote, z, w)
      BY NextComma, ZenonT(30)
    <3> QED BY <3>1 DEF x, y, z, w
  <2>2. r = NextArgument(s, ",")
    BY <1>1, ReadToken, CommaFields
  <2> QED BY <2>1, <2>2, IdleState
<1>3. /\ args \in Seq(Seq(Tokens)) /\ buffer \in Seq(Tokens)
      /\ Len(args) = Len(s.args) + 1 /\ Len(s.args) \in Nat
  BY ONLY s \in Idle, IdleState, AppendProperties, LenProperties
<1>4. s.depth \in Nat /\ s.failed \in BOOLEAN
  BY IdleState
<1> HIDE DEF args, buffer
<1>5. r \in Idle /\ r.args = args /\ r.buffer = buffer /\ r.depth = s.depth /\ r.failed = s.failed
  BY ONLY <1>2, <1>3, <1>4, StateIdle
<1> QED BY <1>3, <1>5 DEF args, buffer

LEMMA NeutralComma == Neutral(Comma.text, TRUE, 0)
<1> SUFFICES ASSUME NEW s \in Idle
             PROVE  Reads(ReadFrom(s, Comma.text), s, Comma.text, TRUE, 0)
  BY DEF Neutral
<1> DEFINE r == ReadFrom(s, Comma.text)
<1>1. /\ r \in Idle /\ r.depth = s.depth /\ r.failed = s.failed
      /\ Len(r.args) = Len(s.args) + 1 /\ Len(s.args) \in Nat
  BY ReadComma
<1> HIDE DEF r
<1>2. Len(r.args) > Len(s.args) /\ r.depth = s.depth + 0
  BY <1>1, IdleState
<1>3. Reads(r, s, Comma.text, TRUE, 0)
  BY <1>1, <1>2 DEF Reads
<1> QED BY <1>3 DEF r

\* A parenthesis.
LEMMA ReadParenthesis ==
  ASSUME NEW s \in Idle, NEW t \in {"(", ")"}, t = ")" => s.depth > 0,
         NEW depth, depth = IF t = "(" THEN s.depth + 1 ELSE s.depth - 1,
         NEW r, r = ReadFrom(s, <<t>>)
  PROVE  /\ r \in Idle /\ r.args = s.args /\ r.buffer = s.buffer \o <<t>> /\ r.buffer # << >>
         /\ r.depth = depth /\ r.failed = s.failed
<1>1. t \in Tokens
  BY PunctuationInert DEF Inert
<1>2. /\ s = State(s.args, s.buffer, NoQuote, s.depth, s.failed)
      /\ s.args \in Seq(Seq(Tokens)) /\ s.buffer \in Seq(Tokens) /\ s.depth \in Nat
      /\ s.failed \in BOOLEAN
  BY IdleState
<1> DEFINE b == Append(s.buffer, t)
<1>3. r = State(s.args, b, NoQuote, depth, s.failed)
  BY <1>1, <1>2, ReadToken, NextParenthesis
<1>4. b \in Seq(Tokens) /\ b = s.buffer \o <<t>> /\ b # << >>
  BY <1>1, <1>2, AppendProperties, AppendIsConcat
<1>5. depth \in Nat
  BY <1>2
<1> HIDE DEF b
<1>6. r \in Idle /\ r.args = s.args /\ r.buffer = b /\ r.depth = depth /\ r.failed = s.failed
  <2>1. s.args \in Seq(Seq(Tokens)) /\ b \in Seq(Tokens) /\ s.failed \in BOOLEAN
    BY <1>2, <1>4
  <2> QED BY ONLY <1>3, <1>5, <2>1, StateIdle
<1> QED BY <1>4, <1>6

LEMMA NeutralOpening == Neutral(<<"(">>, FALSE, 1) /\ Solid(<<"(">>)
<1>1. ASSUME NEW s \in Idle
      PROVE  Reads(ReadFrom(s, <<"(">>), s, <<"(">>, FALSE, 1) /\ ReadFrom(s, <<"(">>).buffer # << >>
  BY ReadParenthesis DEF Reads
<1> QED BY <1>1 DEF Neutral, Solid

LEMMA NeutralClosing ==
  ASSUME NEW a \in Seq(Tokens), NEW c \in BOOLEAN, NEW k \in Nat, Neutral(a, c, k + 1)
  PROVE  Neutral(a \o <<")">>, c, k) /\ Solid(a \o <<")">>)
<1>1. <<")">> \in Seq(Tokens)
  BY PunctuationInert, TokenPlain
<1>2. ASSUME NEW s \in Idle
      PROVE  /\ Reads(ReadFrom(s, a \o <<")">>), s, a \o <<")">>, c, k)
             /\ ReadFrom(s, a \o <<")">>).buffer # << >>
  <2> DEFINE r == ReadFrom(s, a)
             u == ReadFrom(r, <<")">>)
  <2>1. ReadFrom(s, a \o <<")">>) = u
    BY <1>1, ReadConcat
  <2>2. Reads(r, s, a, c, k + 1)
    BY DEF Neutral
  <2>3. r \in Idle /\ s.depth \in Nat /\ r.depth = s.depth + (k + 1)
    BY <2>2, IdleState DEF Reads
  <2>4. r.depth > 0 /\ r.depth - 1 = s.depth + k
    BY <2>3
  <2> HIDE DEF r
  <2>5. /\ u \in Idle /\ u.args = r.args /\ u.buffer = r.buffer \o <<")">> /\ u.buffer # << >>
        /\ u.depth = s.depth + k /\ u.failed = r.failed
    BY <2>3, <2>4, ReadParenthesis
  <2> HIDE DEF u
  <2>6. CASE c
    BY <2>1, <2>2, <2>5, <2>6 DEF Reads
  <2>7. CASE ~c
    <3>1. r.args = s.args /\ r.buffer = s.buffer \o a
      BY <2>2, <2>7 DEF Reads
    <3>2. s.buffer \in Seq(Tokens)
      BY IdleState
    <3>3. Regroups(s.buffer, a, <<")">>)
      BY <1>1, <3>2, Regrouping
    <3>4. u.buffer = s.buffer \o (a \o <<")">>)
      BY <2>5, <3>1, <3>3 DEF Regroups
    <3> QED BY <2>1, <2>2, <2>5, <2>7, <3>1, <3>4 DEF Reads
  <2> QED BY <2>6, <2>7
<1> QED BY <1>2 DEF Neutral, Solid

-----------------------------------------------------------------------------
LEMMA LeafPlain == LeafTexts \subseteq PlainTexts
BY DEF LeafTexts, PlainTexts, Clean

LEMMA NeutralLeaf ==
  ASSUME NEW u \in LeafTexts
  PROVE  Neutral(u, FALSE, 0) /\ Solid(u)
<1>1. /\ u \in Seq(Tokens) /\ u # << >> /\ QuoteAfter(u)[Len(u)] = NoQuote
      /\ \A k \in 1..Len(u) :
           QuoteAfter(u)[k - 1] = NoQuote => u[k] \notin {",", "(", ")"}
  BY DEF LeafTexts
<1>2. Len(u) \in Nat /\ \A k \in 1..Len(u) : u[k] \in Tokens
  BY <1>1, LenProperties
<1>3. ASSUME NEW s \in Idle
      PROVE  Reads(ReadFrom(s, u), s, u, FALSE, 0) /\ ReadFrom(s, u).buffer # << >>
  <2> DEFINE f == Reading(s, u)
             b(n) == s.buffer \o SubSeq(u, 1, n)
             Within(n) == State(s.args, b(n), QuoteAfter(u)[n], s.depth, s.failed)
             S == {n \in Nat : n <= Len(u) => f[n] = Within(n)}
  <2>1. /\ s = State(s.args, s.buffer, NoQuote, s.depth, s.failed)
        /\ s.args \in Seq(Seq(Tokens)) /\ s.buffer \in Seq(Tokens) /\ s.depth \in Nat
        /\ s.failed \in BOOLEAN
    BY IdleState
  <2>2. f[0] = s /\ \A n \in 1..Len(u) : f[n] = NextArgument(f[n - 1], u[n])
    <3>1. u \in Seq(Tokens)
      BY <1>1
    <3> QED BY ONLY <3>1, ReadingFacts
  <2> HIDE DEF f
  <2>3. 0 \in S
    <3>1. SubSeq(u, 1, 0) = << >>
      BY SubSeqEmpty
    <3>2. b(0) = s.buffer
      BY <2>1, <3>1, ConcatEmptySeq
    <3>3. QuoteAfter(u)[0] = NoQuote
      BY <1>1, QuoteAfterFacts
    <3> HIDE DEF b
    <3>4. Within(0) = s
      BY <2>1, <3>2, <3>3
    <3> QED BY <2>2, <3>4
  <2>4. ASSUME NEW n \in S, n + 1 <= Len(u) PROVE f[n + 1] = Within(n + 1)
    <3>1. n \in Nat /\ n + 1 \in 1..Len(u) /\ (n + 1) - 1 = n /\ f[n] = Within(n)
      BY <1>2, <2>4
    <3>2. f[n + 1] = NextArgument(Within(n), u[n + 1])
      <4> HIDE DEF Within
      <4> QED BY <2>2, <3>1
    <3>3. Ordinary(QuoteAfter(u)[n], u[n + 1])
      BY <1>1, <3>1 DEF Ordinary
    <3>4. QuoteAfter(u)[n + 1] = Quoting(QuoteAfter(u)[n], u[n + 1])
      BY <1>1, <3>1, QuoteAfterFacts
    <3>5. Append(b(n), u[n + 1]) = b(n + 1)
      <4> DEFINE part == SubSeq(u, 1, n)
                 t == u[n + 1]
      <4>1. t \in Tokens /\ <<t>> \in Seq(Tokens)
        BY <1>2, <3>1
      <4>2. 1 \in Int /\ n \in Int /\ \A k \in 1..n : u[k] \in Tokens
        BY <1>2, <3>1
      <4>3. part \in Seq(Tokens)
        BY <4>2, SubSeqProperties
      <4>4. SubSeq(u, 1, n + 1) = part \o <<t>>
        <5>1. 1 \in 1..Len(u) /\ n + 1 \in 1..Len(u)
          BY <1>2, <3>1
        <5>2. SubSeq(u, 1, n + 1) = SubSeq(u, 1, (n + 1) - 1) \o <<u[n + 1]>>
          BY <1>1, <5>1, SubSeqRecursiveSecond
        <5> QED BY <3>1, <5>2
      <4> HIDE DEF part, t
      <4>5. s.buffer \o part \in Seq(Tokens)
        BY <2>1, <4>3, ConcatProperties
      <4>6. Append(s.buffer \o part, t) = (s.buffer \o part) \o <<t>>
        BY <4>1, <4>5, AppendIsConcat
      <4>7. Regroups(s.buffer, part, <<t>>)
        BY <2>1, <4>1, <4>3, Regrouping
      <4> QED BY <4>4, <4>6, <4>7 DEF Regroups, part, t
    <3> HIDE DEF b
    <3>6. NextArgument(Within(n), u[n + 1])
            = State(s.args, Append(b(n), u[n + 1]), Quoting(QuoteAfter(u)[n], u[n + 1]),
                    s.depth, s.failed)
      <4> DEFINE q == QuoteAfter(u)[n]
                 t == u[n + 1]
                 args == s.args
                 d == s.depth
                 g == s.failed
                 e == b(n)
      <4>1. g \in BOOLEAN /\ Ordinary(q, t)
        BY <2>1, <3>3
      <4> HIDE DEF q, t, args, d, g, e
      <4>2. NextArgument(State(args, e, q, d, g), t) = State(args, Append(e, t), Quoting(q, t), d, g)
        BY ONLY <4>1, NextPlain
      <4> QED BY <4>2 DEF q, t, args, d, g, e
    <3> QED BY <3>2, <3>4, <3>5, <3>6
  <2>5. \A n \in S : n + 1 \in S
    <3> HIDE DEF Within
    <3> QED BY <2>4
  <2>6. S = Nat
    <3> HIDE DEF S
    <3> QED BY <2>3, <2>5, Induction DEF S
  <2>7. f[Len(u)] = Within(Len(u))
    <3> HIDE DEF Within
    <3> QED BY <1>2, <2>6
  <2>8. b(Len(u)) = s.buffer \o u
    BY <1>1, SubSeqFull
  <2> DEFINE e == s.buffer \o u
             r == ReadFrom(s, u)
  <2>9. r = State(s.args, e, NoQuote, s.depth, s.failed)
    <3> HIDE DEF b
    <3> QED BY <1>1, <2>7, <2>8 DEF ReadFrom, f
  <2>10. e \in Seq(Tokens) /\ e # << >>
    <3>1. e \in Seq(Tokens) /\ Len(e) = Len(s.buffer) + Len(u)
      BY <1>1, <2>1, ConcatProperties
    <3>2. Len(s.buffer) \in Nat /\ Len(u) > 0
      <4>1. Len(u) \in Nat \ {0}
        BY <1>1, EmptySeq
      <4> QED BY <2>1, <4>1, LenProperties
    <3> QED BY <1>2, <3>1, <3>2
  <2> HIDE DEF e, r
  <2>11. /\ r \in Idle /\ r.args = s.args /\ r.buffer = e /\ r.depth = s.depth
         /\ r.failed = s.failed
    BY ONLY <2>1, <2>9, <2>10, StateIdle
  <2>12. r.depth = s.depth + 0
    BY <2>1, <2>11
  <2> QED BY <2>10, <2>11, <2>12 DEF Reads, e, r
<1> QED BY <1>3 DEF Neutral, Solid

-----------------------------------------------------------------------------
(***************************************************************************)
(* The terms a query is built from.                                        *)
(***************************************************************************)
LEMMA WordLeaf ==
  ASSUME NEW w \in Words
  PROVE  /\ <<w>> \in LeafTexts /\ <<w>> \in Seq(Tokens) /\ w \in Tokens /\ w \in Inert
         /\ Neutral(<<w>>, FALSE, 0) /\ Solid(<<w>>)
<1>1. w \in Inert /\ w \in Tokens /\ w \notin Escapes \cup {",", "(", ")"}
  BY DEF Words, Inert
<1> DEFINE u == <<w>>
<1>2. u \in PlainTexts /\ u \in Seq(Tokens)
  BY <1>1, TokenPlain
<1>3. u # << >> /\ Len(u) = 1 /\ u[1] = w
  OBVIOUS
<1> HIDE DEF u
<1>4. QuoteAfter(u)[Len(u)] = NoQuote
  BY <1>2 DEF PlainTexts
<1>5. \A k \in 1..Len(u) : u[k] \notin Escapes \cup {",", "(", ")"}
  <2> TAKE k \in 1..Len(u)
  <2>1. k = 1
    BY <1>3
  <2> QED BY <1>1, <1>3, <2>1
<1>6. u \in LeafTexts
  BY <1>2, <1>3, <1>4, <1>5 DEF LeafTexts
<1>7. Neutral(u, FALSE, 0) /\ Solid(u)
  BY <1>6, NeutralLeaf
<1> QED BY <1>1, <1>2, <1>6, <1>7 DEF u

\* What the scan and ArgumentsParser make of it; Good terms do not end with a comma.
Fine(t) ==
  /\ t \in Terms /\ Translated(t)
  /\ Answer(t) # Refused => Neutral(Answer(t), t.commas, 0)

Good(t) == Fine(t) /\ (Answer(t) # Refused => Solid(Answer(t)))

LEMMA FineConcat ==
  ASSUME NEW a, NEW b, Fine(a), Fine(b)
  PROVE  Fine(Concat(a, b)) /\ (Good(b) => Good(Concat(a, b)))
<1> DEFINE t == Concat(a, b)
<1>1. /\ a \in Terms /\ b \in Terms /\ Translated(a) /\ Translated(b)
      /\ Answer(a) # Refused => Neutral(Answer(a), a.commas, 0)
      /\ Answer(b) # Refused => Neutral(Answer(b), b.commas, 0)
  BY DEF Fine
<1>2. /\ t \in Terms /\ t.commas = (a.commas \/ b.commas)
      /\ Answer(a) = Refused \/ Answer(b) = Refused => Answer(t) = Refused
      /\ Answer(a) # Refused /\ Answer(b) # Refused => Answer(t) = Answer(a) \o Answer(b)
  BY <1>1, ConcatFields
<1>3. Translated(t)
  BY <1>1, TranslatedConcat
<1> HIDE DEF t
<1>4. ASSUME Answer(t) # Refused
      PROVE  Neutral(Answer(t), t.commas, 0) /\ (Good(b) => Solid(Answer(t)))
  <2>1. Answer(a) # Refused /\ Answer(b) # Refused /\ Answer(t) = Answer(a) \o Answer(b)
    BY <1>2, <1>4
  <2>2. /\ Answer(a) \in Seq(Tokens) /\ Answer(b) \in Seq(Tokens)
        /\ a.commas \in BOOLEAN /\ b.commas \in BOOLEAN
    BY <1>1, <2>1, AnswerFacts DEF Terms
  <2>3. Neutral(Answer(a), a.commas, 0) /\ Neutral(Answer(b), b.commas, 0)
    BY <1>1, <2>1
  <2> DEFINE m == Answer(a)
             n == Answer(b)
             c == a.commas
             d == b.commas
  <2> HIDE DEF m, n, c, d
  <2>4. /\ m \in Seq(Tokens) /\ n \in Seq(Tokens) /\ c \in BOOLEAN /\ d \in BOOLEAN
        /\ Neutral(m, c, 0) /\ Neutral(n, d, 0) /\ 0 \in Nat
    BY <2>2, <2>3 DEF m, n, c, d
  <2>5. Neutral(m \o n, c \/ d, 0 + 0) /\ (Solid(n) => Solid(m \o n))
    BY <2>4, NeutralConcat
  <2>6. Neutral(m \o n, c \/ d, 0)
    BY <2>5
  <2>7. Good(b) => Solid(n)
    BY <2>1 DEF Good, n
  <2> QED BY <1>2, <2>1, <2>5, <2>6, <2>7 DEF m, n, c, d
<1> QED BY <1>2, <1>3, <1>4 DEF Fine, Good, t

LEMMA GoodParenthesized ==
  ASSUME NEW t, Fine(t)
  PROVE  Good(Parenthesized(t))
<1> DEFINE p == Parenthesized(t)
<1>1. t \in Terms /\ Translated(t) /\ (Answer(t) # Refused => Neutral(Answer(t), t.commas, 0))
  BY DEF Fine
<1>2. /\ p \in Terms /\ Translated(p) /\ p.commas = t.commas
      /\ Answer(t) = Refused => Answer(p) = Refused
      /\ Answer(t) # Refused => Answer(p) = <<"(">> \o Answer(t) \o <<")">>
  BY <1>1, ParenthesizedFacts
<1> HIDE DEF p
<1>3. ASSUME Answer(p) # Refused
      PROVE  Neutral(Answer(p), p.commas, 0) /\ Solid(Answer(p))
  <2> DEFINE m == Answer(t)
             c == t.commas
             s == <<"(">> \o m
  <2>1. Answer(t) # Refused /\ Answer(p) = <<"(">> \o m \o <<")">> /\ p.commas = c
    BY <1>2, <1>3
  <2>2. m \in Seq(Tokens) /\ c \in BOOLEAN /\ Neutral(m, c, 0)
    BY <1>1, <2>1, AnswerFacts DEF Terms
  <2> HIDE DEF m, c
  <2>3. <<"(">> \in Seq(Tokens)
    BY PunctuationInert, TokenPlain
  <2>4. s \in Seq(Tokens)
    BY <2>2, <2>3, ConcatProperties
  <2>5. Neutral(s, FALSE \/ c, 1 + 0)
    BY <2>2, <2>3, NeutralOpening, NeutralConcat
  <2>6. Neutral(s, c, 0 + 1)
    BY <2>2, <2>5
  <2> HIDE DEF s
  <2>7. Neutral(s \o <<")">>, c, 0) /\ Solid(s \o <<")">>)
    BY <2>2, <2>4, <2>6, NeutralClosing
  <2> QED BY <2>1, <2>7 DEF s
<1>4. Good(p)
  BY <1>2, <1>3 DEF Good, Fine
<1> QED BY <1>4 DEF p

LEMMA GoodLeaf ==
  ASSUME NEW s \in LeafTexts
  PROVE  Good(Leaf(s))
<1>1. s \in Seq(Tokens) /\ s \in PlainTexts
  BY LeafPlain DEF LeafTexts
<1>2. Leaf(s) \in Terms /\ Leaf(s).text = s /\ Answer(Leaf(s)) = s /\ Leaf(s).commas = FALSE
  BY <1>1, LeafFields
<1>3. Translated(Leaf(s))
  BY <1>1, <1>2, TranslatedPlain
<1>4. Neutral(s, FALSE, 0) /\ Solid(s)
  BY NeutralLeaf
<1> QED BY <1>2, <1>3, <1>4 DEF Good, Fine

LEMMA FineEmpty == Fine(Leaf(<< >>))
<1> DEFINE s == << >>
<1>1. s \in Seq(Tokens) /\ s \in PlainTexts
  BY EmptyPlain
<1>2. Neutral(s, FALSE, 0)
  BY NeutralEmpty
<1> HIDE DEF s
<1>3. Leaf(s) \in Terms /\ Leaf(s).text = s /\ Answer(Leaf(s)) = s /\ Leaf(s).commas = FALSE
  BY <1>1, LeafFields
<1>4. Translated(Leaf(s))
  BY <1>1, <1>3, TranslatedPlain
<1>5. Fine(Leaf(s))
  BY <1>2, <1>3, <1>4 DEF Fine
<1> QED BY <1>5 DEF s

LEMMA FineComma == Fine(Comma)
BY CommaFields, NeutralComma DEF Fine

LEMMA GoodFixed ==
  ASSUME NEW f \in Fixed, f \in Tokens
  PROVE  Good(FixedEscape(f))
<1> DEFINE u == FixedMeaning[f]
<1>1. u \in Words
  <2>1. u \in Inert
    BY TokenFacts
  <2>2. u \notin {"(", ")", ","}
    BY DEF Fixed, FixedMeaning
  <2> HIDE DEF u
  <2> QED BY <2>1, <2>2 DEF Words, Inert
<1>2. Neutral(<<u>>, FALSE, 0) /\ Solid(<<u>>)
  BY <1>1, WordLeaf
<1>3. Answer(FixedEscape(f)) = <<u>> /\ FixedEscape(f).commas = FALSE
  BY DEF FixedEscape, Answer
<1>4. Translated(FixedEscape(f)) /\ FixedEscape(f) \in Terms
  BY TranslatedFixed
<1> HIDE DEF u
<1> QED BY <1>2, <1>3, <1>4 DEF Good, Fine

\* Arguments with commas between them.
LEMMA JoinedFacts ==
  ASSUME NEW args, Len(args) \in Nat, \A k \in 1..Len(args) : Good(args[k])
  PROVE  /\ Fine(Joined(args))
         /\ Len(args) = 2 => Joined(args) = Concat(Concat(args[1], Comma), args[2])
<1> DEFINE At(f, n) == IF n = 0 THEN Leaf(<< >>) ELSE IF n = 1 THEN args[1]
                       ELSE Concat(Concat(f[n - 1], Comma), args[n])
           Joins(f, m) == [n \in 0..m |-> At(f, n)]
           S == {m \in Nat : \E f : f = Joins(f, m)}
           f == CHOOSE f : f = Joins(f, Len(args))
<1>1. 0 \in S
  <2> DEFINE g == [n \in 0..0 |-> Leaf(<< >>)]
  <2>1. g = Joins(g, 0)
    OBVIOUS
  <2> QED BY <2>1
<1>2. ASSUME NEW m \in S PROVE m + 1 \in S
  <2>1. m \in Nat /\ m + 1 \in Nat
    OBVIOUS
  <2>2. PICK h : h = Joins(h, m)
    OBVIOUS
  <2> DEFINE g == Joins(h, m + 1)
  <2>3. \A n \in 0..m : g[n] = h[n]
    <3> TAKE n \in 0..m
    <3>1. h[n] = Joins(h, m)[n]
      BY <2>2
    <3> QED BY <2>1, <3>1
  <2>4. \A n \in 0..(m + 1) : g[n] = Joins(g, m + 1)[n]
    <3> TAKE n \in 0..(m + 1)
    <3>1. n # 0 => n - 1 \in 0..m
      BY <2>1
    <3>2. n # 0 => g[n - 1] = h[n - 1]
      BY <2>3, <3>1
    <3> HIDE <2>3
    <3> QED BY <3>2
  <2>5. g = Joins(g, m + 1)
    <3> HIDE DEF At
    <3> QED BY <2>4
  <2> HIDE DEF g
  <2> QED BY <2>1, <2>5
<1>3. S = Nat
  <2> HIDE DEF S
  <2> QED BY <1>1, <1>2, Induction DEF S
<1>4. f = Joins(f, Len(args))
  BY <1>3
<1>5. Joined(args) = f[Len(args)]
  BY Zenon DEF Joined
<1> HIDE DEF f
<1>6. /\ f[0] = Leaf(<< >>)
      /\ 1 <= Len(args) => f[1] = args[1]
      /\ \A n \in 2..Len(args) : f[n] = Concat(Concat(f[n - 1], Comma), args[n])
  BY <1>4
<1> DEFINE T == {n \in Nat : n <= Len(args) => Fine(f[n])}
<1>7. 0 \in T
  BY <1>6, FineEmpty
<1>8. ASSUME NEW n \in T, n + 1 <= Len(args) PROVE Fine(f[n + 1])
  <2>1. n \in Nat /\ n + 1 \in 1..Len(args) /\ (n + 1) - 1 = n /\ Fine(f[n])
    BY <1>8
  <2>2. Good(args[n + 1]) /\ Fine(args[n + 1])
    BY <2>1 DEF Good
  <2>3. CASE n = 0
    BY <1>6, <2>1, <2>2, <2>3
  <2>4. CASE n # 0
    <3>1. f[n + 1] = Concat(Concat(f[n], Comma), args[n + 1])
      BY <1>6, <2>1, <2>4
    <3>2. Fine(Concat(f[n], Comma))
      BY <2>1, FineComma, FineConcat
    <3> QED BY <2>2, <3>1, <3>2, FineConcat
  <2> QED BY <2>3, <2>4
<1>9. \A n \in T : n + 1 \in T
  BY <1>8
<1>10. T = Nat
  <2> HIDE DEF T
  <2> QED BY <1>7, <1>9, Induction DEF T
<1>11. Fine(f[Len(args)])
  BY <1>10
<1>12. Len(args) = 2 => f[Len(args)] = Concat(Concat(args[1], Comma), args[2])
  BY <1>6
<1> QED BY <1>5, <1>11, <1>12

-----------------------------------------------------------------------------
(***************************************************************************)
(* The translations of the functions, one token at a time.                 *)
(***************************************************************************)
Runs(text, commas, open) == text \in Seq(Tokens) /\ Neutral(text, commas, open)

LEMMA Tuples ==
  \A t, u, v \in Tokens : <<t, u>> = <<t>> \o <<u>> /\ <<t, u, v>> = <<t>> \o <<u>> \o <<v>>
<1> TAKE t, u, v \in Tokens
<1>1. <<t>> \in Seq(Tokens) /\ <<u>> \in Seq(Tokens) /\ <<v>> \in Seq(Tokens)
  OBVIOUS
<1>2. <<t, u>> = <<t>> \o <<u>>
  <2> DEFINE s == <<t>> \o <<u>>
  <2>1. s \in Seq(Tokens) /\ Len(s) = 2 /\ s[1] = t /\ s[2] = u
    OBVIOUS
  <2>2. <<t, u>> \in Seq(Tokens) /\ Len(<<t, u>>) = 2 /\ <<t, u>>[1] = t /\ <<t, u>>[2] = u
    OBVIOUS
  <2> DEFINE r == <<t, u>>
  <2> HIDE DEF s, r
  <2>3. r \in Seq(Tokens) /\ Len(r) = Len(s) /\ Len(s) = 2 /\ r[1] = s[1] /\ r[2] = s[2]
    BY <2>1, <2>2 DEF r
  <2>4. \A k \in 1..Len(r) : r[k] = s[k]
    BY <2>3
  <2>5. r = s
    BY <2>1, <2>3, <2>4, SeqEqual
  <2> QED BY <2>5 DEF r, s
<1>3. <<t, u, v>> = <<t, u>> \o <<v>>
  OBVIOUS
<1> QED BY <1>2, <1>3

LEMMA RunsText ==
  ASSUME NEW a, NEW c \in BOOLEAN, NEW k \in Nat, Runs(a, c, k),
         NEW b, NEW d \in BOOLEAN, Runs(b, d, 0)
  PROVE  Runs(a \o b, c \/ d, k) /\ (Solid(b) => Solid(a \o b))
<1>1. a \in Seq(Tokens) /\ b \in Seq(Tokens) /\ Neutral(a, c, k) /\ Neutral(b, d, 0) /\ 0 \in Nat
  BY DEF Runs
<1>2. Neutral(a \o b, c \/ d, k + 0) /\ (Solid(b) => Solid(a \o b))
  BY <1>1, NeutralConcat
<1>3. k + 0 = k
  OBVIOUS
<1>4. a \o b \in Seq(Tokens)
  BY <1>1, ConcatProperties
<1> QED BY <1>2, <1>3, <1>4 DEF Runs

LEMMA RunsWord ==
  ASSUME NEW a, NEW c \in BOOLEAN, NEW k \in Nat, Runs(a, c, k), NEW w \in Words
  PROVE  Runs(a \o <<w>>, c, k) /\ Solid(a \o <<w>>)
<1>1. Runs(<<w>>, FALSE, 0) /\ Solid(<<w>>)
  BY WordLeaf DEF Runs
<1>2. Runs(a \o <<w>>, c \/ FALSE, k) /\ Solid(a \o <<w>>)
  BY <1>1, RunsText
<1>3. (c \/ FALSE) = c
  OBVIOUS
<1> QED BY <1>2, <1>3

LEMMA RunsComma ==
  ASSUME NEW a, NEW c \in BOOLEAN, NEW k \in Nat, Runs(a, c, k)
  PROVE  Runs(a \o <<",">>, TRUE, k)
<1>1. Runs(<<",">>, TRUE, 0)
  BY CommaFields, NeutralComma DEF Runs, Terms
<1>2. Runs(a \o <<",">>, c \/ TRUE, k)
  BY <1>1, RunsText
<1> QED BY <1>2

LEMMA RunsOpening ==
  ASSUME NEW a, NEW c \in BOOLEAN, NEW k \in Nat, Runs(a, c, k)
  PROVE  Runs(a \o <<"(">>, c, k + 1)
<1>1. a \in Seq(Tokens) /\ <<"(">> \in Seq(Tokens) /\ Neutral(a, c, k) /\ 1 \in Nat
      /\ Neutral(<<"(">>, FALSE, 1)
  BY PunctuationInert, TokenPlain, NeutralOpening DEF Runs
<1>2. Neutral(a \o <<"(">>, c \/ FALSE, k + 1)
  BY <1>1, NeutralConcat
<1>3. a \o <<"(">> \in Seq(Tokens)
  BY <1>1, ConcatProperties
<1> QED BY <1>2, <1>3 DEF Runs

LEMMA RunsClosing ==
  ASSUME NEW a, NEW c \in BOOLEAN, NEW k \in Nat, Runs(a, c, k + 1)
  PROVE  Runs(a \o <<")">>, c, k) /\ Solid(a \o <<")">>)
<1>1. a \in Seq(Tokens) /\ <<")">> \in Seq(Tokens) /\ Neutral(a, c, k + 1)
  BY PunctuationInert, TokenPlain DEF Runs
<1>2. Neutral(a \o <<")">>, c, k) /\ Solid(a \o <<")">>)
  BY <1>1, NeutralClosing
<1>3. a \o <<")">> \in Seq(Tokens)
  BY <1>1, ConcatProperties
<1> QED BY <1>2, <1>3 DEF Runs

\* The words of the templates.
LEMMA TemplateWords ==
  /\ PassedOn \cup {"pmod", "translate", "CAST(1.0/tan", "as DOUBLE)", "atan", "substr", "0", "/",
                    "from_unixtime(unix_timestamp())"} \subseteq Words
  /\ {"(", ")", ","} \subseteq Tokens
<1>1. Templates \subseteq Inert
  BY TokenFacts
<1>2. ASSUME NEW w \in PassedOn \cup {"pmod", "translate", "CAST(1.0/tan", "as DOUBLE)", "atan",
                                      "substr", "0", "/", "from_unixtime(unix_timestamp())"}
      PROVE  w \in Words
  <2>1. w \in Templates
    BY DEF Templates
  <2>2. w \notin {"(", ")", ","}
    BY DEF PassedOn
  <2> QED BY <1>1, <2>1, <2>2 DEF Words, Inert
<1>3. {"(", ")", ","} \subseteq Tokens
  BY TokensAssumption DEF Templates
<1> QED BY <1>2, <1>3

LEMMA CallRuns ==
  ASSUME NEW f \in Words, NEW j, NEW c \in BOOLEAN, Runs(j, c, 0)
  PROVE  Runs(<<f, "(">> \o j \o <<")">>, c, 0) /\ Solid(<<f, "(">> \o j \o <<")">>)
<1> DEFINE a == <<f>> \o <<"(">>
<1>1. <<f, "(">> = a
  BY WordLeaf, TemplateWords, Tuples
<1>2. Runs(<<f>>, FALSE, 0)
  BY WordLeaf DEF Runs
<1>3. Runs(a, FALSE, 0 + 1)
  BY <1>2, RunsOpening
<1>4. 0 + 1 \in Nat
  OBVIOUS
<1> HIDE DEF a
<1>5. Runs(a \o j, FALSE \/ c, 0 + 1)
  BY <1>3, <1>4, RunsText
<1>6. (FALSE \/ c) = c
  OBVIOUS
<1>7. Runs(a \o j \o <<")">>, c, 0) /\ Solid(a \o j \o <<")">>)
  BY <1>5, <1>6, RunsClosing
<1> QED BY <1>1, <1>7

LEMMA CotRuns ==
  ASSUME NEW a, NEW c \in BOOLEAN, Runs(a, c, 0)
  PROVE  Runs(a \o <<"as DOUBLE)">>, c, 0) /\ Solid(a \o <<"as DOUBLE)">>)
BY TemplateWords, RunsWord

LEMMA NowRuns ==
  Runs(<<"from_unixtime(unix_timestamp())">>, FALSE, 0)
  /\ Solid(<<"from_unixtime(unix_timestamp())">>)
BY TemplateWords, WordLeaf DEF Runs

LEMMA Atan2Runs ==
  ASSUME NEW a, NEW b, Runs(a, FALSE, 0), Runs(b, FALSE, 0), NEW s,
         s = <<"atan", "(", "(">> \o b \o <<")", "/", "(">> \o a \o <<")", ")">>
  PROVE  Runs(s, FALSE, 0) /\ Solid(s)
<1>1. /\ "atan" \in Words /\ "/" \in Words /\ "atan" \in Tokens /\ "/" \in Tokens
      /\ "(" \in Tokens /\ ")" \in Tokens
  BY TemplateWords, WordLeaf
<1> DEFINE a1 == <<"atan">>
           a2 == a1 \o <<"(">>
           a3 == a2 \o <<"(">>
           a4 == a3 \o b
           a5 == a4 \o <<")">>
           a6 == a5 \o <<"/">>
           a7 == a6 \o <<"(">>
           a8 == a7 \o a
           a9 == a8 \o <<")">>
<1>2. 0 \in Nat /\ 1 \in Nat /\ 2 \in Nat /\ 0 + 1 = 1 /\ 1 + 1 = 2 /\ FALSE \in BOOLEAN
      /\ (FALSE \/ FALSE) = FALSE
  OBVIOUS
<1>3. Runs(a1, FALSE, 0)
  BY <1>1, WordLeaf DEF Runs
<1>4. Runs(a2, FALSE, 0 + 1)
  <2> HIDE DEF a1
  <2> QED BY <1>2, <1>3, RunsOpening
<1>5. Runs(a3, FALSE, 1 + 1)
  <2> HIDE DEF a2
  <2> QED BY <1>2, <1>4, RunsOpening
<1>6. Runs(a4, FALSE \/ FALSE, 2)
  <2> HIDE DEF a3
  <2> QED BY <1>2, <1>5, RunsText
<1>7. Runs(a5, FALSE, 1)
  <2> HIDE DEF a4
  <2> QED BY <1>2, <1>6, RunsClosing
<1>8. Runs(a6, FALSE, 1)
  <2> HIDE DEF a5
  <2> QED BY <1>1, <1>2, <1>7, RunsWord
<1>9. Runs(a7, FALSE, 1 + 1)
  <2> HIDE DEF a6
  <2> QED BY <1>2, <1>8, RunsOpening
<1>10. Runs(a8, FALSE \/ FALSE, 2)
  <2> HIDE DEF a7
  <2> QED BY <1>2, <1>9, RunsText
<1>11. Runs(a9, FALSE, 1)
  <2> HIDE DEF a8
  <2> QED BY <1>2, <1>10, RunsClosing
<1>12. Runs(a9 \o <<")">>, FALSE, 0) /\ Solid(a9 \o <<")">>)
  <2> HIDE DEF a9
  <2> QED BY <1>2, <1>11, RunsClosing
<1>13. s = a9 \o <<")">>
  <2>1. /\ <<"atan", "(", "(">> = <<"atan">> \o <<"(">> \o <<"(">>
        /\ <<")", "/", "(">> = <<")">> \o <<"/">> \o <<"(">> /\ <<")", ")">> = <<")">> \o <<")">>
    BY <1>1, Tuples
  <2>2. a3 = <<"atan", "(", "(">>
    BY <2>1
  <2>3. a4 \in Seq(Tokens) /\ a8 \in Seq(Tokens)
    BY <1>6, <1>10 DEF Runs
  <2>4. <<")">> \in Seq(Tokens) /\ <<"/">> \in Seq(Tokens) /\ <<"(">> \in Seq(Tokens)
    BY <1>1
  <2>5. a7 = a4 \o <<")", "/", "(">>
    <3> DEFINE x == <<")">>
               y == <<"/">>
               z == <<"(">>
    <3>1. a4 \in Seq(Tokens) /\ x \in Seq(Tokens) /\ y \in Seq(Tokens) /\ z \in Seq(Tokens)
          /\ x \o y \in Seq(Tokens)
      BY <2>3, <2>4, ConcatProperties
    <3>2. a7 = a4 \o x \o y \o z /\ <<")", "/", "(">> = x \o y \o z
      BY <2>1
    <3> HIDE DEF a4, a7, x, y, z
    <3>3. Regroups(a4, x, y) /\ Regroups(a4, x \o y, z)
      BY <3>1, Regrouping
    <3> QED BY <3>2, <3>3 DEF Regroups
  <2>6. a9 \o <<")">> = a8 \o <<")", ")">>
    <3> DEFINE x == <<")">>
    <3>1. a8 \in Seq(Tokens) /\ x \in Seq(Tokens)
      BY <2>3, <2>4
    <3>2. a9 = a8 \o x /\ <<")", ")">> = x \o x
      BY <2>1
    <3> HIDE DEF a8, a9, x
    <3>3. Regroups(a8, x, x)
      BY <3>1, Regrouping
    <3> QED BY <3>2, <3>3 DEF Regroups, x
  <2>7. s = a3 \o b \o <<")", "/", "(">> \o a \o <<")", ")">>
    BY <2>2
  <2> HIDE DEF a3, a9
  <2>8. s = a4 \o <<")", "/", "(">> \o a \o <<")", ")">>
    BY <2>7
  <2>9. s = a7 \o a \o <<")", ")">>
    BY <2>5, <2>8
  <2> QED BY <2>6, <2>9
<1> QED BY <1>12, <1>13

LEMMA LeftRuns ==
  ASSUME NEW a, NEW b, Runs(a, FALSE, 0), Runs(b, FALSE, 0), NEW s,
         s = <<"substr", "(">> \o a \o <<",", "0", ",">> \o b \o <<")">>
  PROVE  Runs(s, TRUE, 0) /\ Solid(s)
<1>1. /\ "substr" \in Words /\ "0" \in Words /\ "substr" \in Tokens /\ "0" \in Tokens
      /\ "(" \in Tokens /\ "," \in Tokens
  BY TemplateWords, WordLeaf
<1>2. /\ 0 \in Nat /\ 1 \in Nat /\ 0 + 1 = 1 /\ FALSE \in BOOLEAN /\ TRUE \in BOOLEAN
      /\ (FALSE \/ FALSE) = FALSE /\ (TRUE \/ FALSE) = TRUE
  BY ONLY SMT
<1> DEFINE a1 == <<"substr">>
           a2 == a1 \o <<"(">>
           a3 == a2 \o a
           a4 == a3 \o <<",">>
           a5 == a4 \o <<"0">>
           a6 == a5 \o <<",">>
           a7 == a6 \o b
<1>3. Runs(a1, FALSE, 0)
  BY <1>1, WordLeaf DEF Runs
<1>4. Runs(a2, FALSE, 0 + 1)
  <2> HIDE DEF a1
  <2> QED BY <1>2, <1>3, RunsOpening
<1>5. Runs(a3, FALSE \/ FALSE, 1)
  <2> HIDE DEF a2
  <2> QED BY <1>2, <1>4, RunsText
<1>6. Runs(a4, TRUE, 1)
  <2> HIDE DEF a3
  <2> QED BY <1>2, <1>5, RunsComma
<1>7. Runs(a5, TRUE, 1)
  <2> HIDE DEF a4
  <2> QED BY <1>1, <1>2, <1>6, RunsWord
<1>8. Runs(a6, TRUE, 1)
  <2> HIDE DEF a5
  <2> QED BY <1>2, <1>7, RunsComma
<1>9. Runs(a7, TRUE \/ FALSE, 1)
  <2> HIDE DEF a6
  <2> QED BY <1>2, <1>8, RunsText
<1>10. Runs(a7 \o <<")">>, TRUE, 0) /\ Solid(a7 \o <<")">>)
  <2> HIDE DEF a7
  <2> QED BY <1>2, <1>9, RunsClosing
<1>11. s = a7 \o <<")">>
  <2>1. <<"substr", "(">> = <<"substr">> \o <<"(">>
        /\ <<",", "0", ",">> = <<",">> \o <<"0">> \o <<",">>
    BY <1>1, Tuples
  <2>2. a2 = <<"substr", "(">>
    BY <2>1
  <2>3. a3 \in Seq(Tokens)
    BY <1>5 DEF Runs
  <2>4. a6 = a3 \o <<",", "0", ",">>
    <3> DEFINE x == <<",">>
               y == <<"0">>
    <3>1. /\ a3 \in Seq(Tokens) /\ x \in Seq(Tokens) /\ y \in Seq(Tokens)
          /\ x \o y \in Seq(Tokens)
      <4>1. x \in Seq(Tokens) /\ y \in Seq(Tokens)
        BY TemplateWords, WordLeaf, PunctuationInert, TokenPlain
      <4> HIDE DEF x, y
      <4> QED BY <2>3, <4>1, ConcatProperties
    <3>2. a6 = a3 \o x \o y \o x /\ <<",", "0", ",">> = x \o y \o x
      BY <2>1
    <3> HIDE DEF a3, a6, x, y
    <3>3. Regroups(a3, x, y) /\ Regroups(a3, x \o y, x)
      BY <3>1, Regrouping
    <3> QED BY <3>2, <3>3 DEF Regroups
  <2>5. s = a2 \o a \o <<",", "0", ",">> \o b \o <<")">>
    BY <2>2
  <2> HIDE DEF a2
  <2>6. s = a3 \o <<",", "0", ",">> \o b \o <<")">>
    BY <2>5
  <2> QED BY <2>4, <2>6
<1> QED BY <1>10, <1>11

-----------------------------------------------------------------------------
(***************************************************************************)
(* What resolveFunction sees of a function: its name and arguments.        *)
(***************************************************************************)
EscapeText(name, arguments) == <<Opening, name, "(">> \o arguments \o <<")", Closing>>

LEMMA ClosedFacts ==
  ASSUME NEW name \in Words, NEW j \in Seq(Tokens), Opening \in Tokens, Closing \in Tokens,
         NEW s, s = EscapeText(name, j)
  PROVE  (Matches(s) <=> ~Broken(j)) /\ Name(s) = name /\ ArgumentText(s) = j
<1> DEFINE a == <<Opening, name, "(">>
           c == <<")", Closing>>
<1>1. name \in Tokens /\ name \in Inert /\ name \notin {"(", ")"}
  BY WordLeaf DEF Words
<1>2. Opening # "("
  BY Zenon DEF Opening
<1>3. "(" \in Tokens /\ ")" \in Tokens
  BY TemplateWords
<1>4. /\ a \in Seq(Tokens) /\ Len(a) = 3 /\ a[1] = Opening /\ a[2] = name /\ a[3] = "("
      /\ c \in Seq(Tokens) /\ Len(c) = 2 /\ c[1] = ")"
  BY <1>1, <1>3
<1> HIDE DEF a, c
<1>5. s = a \o j \o c
  BY DEF a, c, EscapeText
<1>6. /\ s \in Seq(Tokens) /\ Len(s) = Len(a) + Len(j) + Len(c) /\ Len(j) \in Nat
      /\ \A k \in 1..Len(a) : s[k] = a[k]
      /\ \A k \in 1..Len(c) : s[Len(a) + Len(j) + k] = c[k]
  <2>1. a \in Seq(Tokens) /\ j \in Seq(Tokens) /\ c \in Seq(Tokens) /\ s = a \o j \o c
    BY <1>4, <1>5
  <2> QED BY ONLY <2>1, Parts
<1>7. SubSeq(s, Len(a) + 1, Len(a) + Len(j)) = j
  <2>1. a \in Seq(Tokens) /\ j \in Seq(Tokens) /\ c \in Seq(Tokens) /\ s = a \o j \o c
    BY <1>4, <1>5
  <2> QED BY ONLY <2>1, PartsCut
<1>8. /\ Len(s) = 5 + Len(j) /\ s[1] = Opening /\ s[2] = name /\ s[3] = "("
      /\ DOMAIN s = 1..Len(s)
  BY <1>4, <1>6, LenProperties
<1>9. s[Len(s) - 1] = ")"
  <2>1. Len(a) + Len(j) + 1 = Len(s) - 1 /\ 1 \in 1..Len(c)
    BY <1>4, <1>6
  <2> QED BY <1>4, <1>6, <2>1
<1>10. FirstParenthesis(s) = 3
  <2>1. 3 \in DOMAIN s /\ \A k \in DOMAIN s : k < 3 => k = 1 \/ k = 2
    BY <1>6, <1>8
  <2>2. s[1] # "(" /\ s[2] # "("
    BY <1>1, <1>2, <1>8
  <2>3. \A k \in DOMAIN s : (s[k] = "(" /\ \A j_1 \in 1..(k - 1) : s[j_1] # "(") <=> k = 3
    <3> TAKE k \in DOMAIN s
    <3>1. k \in 1..Len(s) /\ Len(s) \in Nat
      BY <1>6, <1>8
    <3>2. CASE k = 3
      <4>1. \A n \in 1..(k - 1) : n = 1 \/ n = 2
        BY <3>2
      <4> QED BY <1>8, <2>2, <3>2, <4>1
    <3>3. CASE k < 3
      BY <2>1, <2>2, <3>3
    <3>4. CASE k > 3
      <4>1. 3 \in 1..(k - 1)
        BY <3>1, <3>4
      <4> QED BY <1>8, <3>4, <4>1
    <3> QED BY <3>1, <3>2, <3>3, <3>4
  <2>4. FirstParenthesis(s) = CHOOSE k \in DOMAIN s : k = 3
    BY <2>3, Zenon DEF FirstParenthesis
  <2> QED BY <2>1, <2>4
<1>11. Name(s) = name
  BY <1>8, <1>10 DEF Name
<1>12. ArgumentText(s) = j
  <2>1. FirstParenthesis(s) + 1 = Len(a) + 1 /\ Len(s) - 2 = Len(a) + Len(j)
    BY <1>4, <1>6, <1>10
  <2> QED BY <1>7, <2>1 DEF ArgumentText
<1>13. Matches(s) <=> ~Broken(j)
  <2>1. FirstParenthesis(s) > 2 /\ FirstParenthesis(s) < Len(s) - 1 /\ 3 \in DOMAIN s
    BY <1>6, <1>8, <1>10
  <2> QED BY <1>8, <1>9, <1>12, <2>1 DEF Matches
<1> QED BY <1>11, <1>12, <1>13

LEMMA Pair ==
  ASSUME NEW S, NEW t \in S, NEW u \in S
  PROVE  Append(Append(<< >>, t), u) = <<t, u>>
<1> DEFINE s == Append(Append(<< >>, t), u)
           r == <<t, u>>
<1>1. s \in Seq(S) /\ Len(s) = 2 /\ s[1] = t /\ s[2] = u
  OBVIOUS
<1>2. r \in Seq(S) /\ Len(r) = 2 /\ r[1] = t /\ r[2] = u
  OBVIOUS
<1> HIDE DEF s, r
<1>3. \A k \in 1..Len(s) : s[k] = r[k]
  BY <1>1, <1>2
<1>4. s = r
  BY <1>1, <1>2, <1>3, SeqEqual
<1> QED BY <1>4 DEF s, r

\* Two arguments are found, unless one of them has a comma of its own.
Splits(text, a, b, c, d) ==
  /\ Arguments(text).failed = FALSE
  /\ c \/ d => Len(Arguments(text).list) # 2
  /\ ~(c \/ d) => Arguments(text).list = <<a, b>>

LEMMA DividedArguments ==
  ASSUME NEW a, NEW c \in BOOLEAN, Runs(a, c, 0), NEW b, NEW d \in BOOLEAN, Runs(b, d, 0),
         Solid(b), NEW j, j = a \o Comma.text \o b
  PROVE  Splits(j, a, b, c, d)
<1> DEFINE e == Comma.text
           r0 == StartArguments
           r1 == ReadFrom(r0, a)
           r2 == ReadFrom(r1, e)
           r3 == ReadFrom(r2, b)
<1>1. /\ a \in Seq(Tokens) /\ b \in Seq(Tokens) /\ e \in Seq(Tokens) /\ a \o e \in Seq(Tokens)
      /\ Neutral(a, c, 0) /\ Neutral(b, d, 0)
  <2>1. e \in Seq(Tokens)
    BY CommaFields DEF Terms
  <2> HIDE DEF e
  <2> QED BY <2>1, ConcatProperties DEF Runs
<1>2. ReadArguments(j) = r3
  <2>1. ReadArguments(j) = ReadFrom(r0, j)
    BY ReadArgumentsFrom
  <2>2. j = (a \o e) \o b
    OBVIOUS
  <2>3. a \in Seq(Tokens) /\ e \in Seq(Tokens) /\ b \in Seq(Tokens) /\ a \o e \in Seq(Tokens)
    BY <1>1
  <2> HIDE DEF e, r0
  <2>4. ReadFrom(r0, (a \o e) \o b) = ReadFrom(ReadFrom(r0, a \o e), b)
    BY ONLY <2>3, ReadConcat
  <2>5. ReadFrom(r0, a \o e) = ReadFrom(ReadFrom(r0, a), e)
    BY ONLY <2>3, ReadConcat
  <2> QED BY <2>1, <2>2, <2>4, <2>5
<1>3. /\ r0 \in Idle /\ r0.args = << >> /\ r0.buffer = << >> /\ r0.depth = 0
      /\ r0.failed = FALSE
  <2> DEFINE args == << >>
             buffer == << >>
             failed == FALSE
  <2>1. r0 = State(args, buffer, NoQuote, 0, failed)
    BY DEF State, StartArguments
  <2>2. args \in Seq(Seq(Tokens)) /\ buffer \in Seq(Tokens) /\ 0 \in Nat /\ failed \in BOOLEAN
    BY ONLY SMT
  <2> HIDE DEF args, buffer, failed, r0
  <2>3. r0 \in Idle /\ r0.args = args /\ r0.buffer = buffer /\ r0.depth = 0 /\ r0.failed = failed
    BY ONLY <2>1, <2>2, StateIdle
  <2> QED BY <2>3 DEF args, buffer, failed
<1> HIDE DEF e, r0
<1>4. Reads(r1, r0, a, c, 0)
  BY <1>1, <1>3 DEF Neutral
<1> HIDE DEF r1
<1>5. /\ r1 \in Idle /\ r1.failed = FALSE
      /\ c => Len(r1.args) > 0
      /\ ~c => r1.args = << >> /\ r1.buffer = a
  <2>1. /\ r1 \in Idle /\ r1.failed = FALSE
        /\ c => Len(r1.args) > Len(r0.args)
        /\ ~c => r1.args = << >> /\ r1.buffer = r0.buffer \o a
    BY <1>3, <1>4 DEF Reads
  <2>2. r0.buffer \o a = a
    BY <1>1, <1>3, ConcatEmptySeq
  <2>3. Len(r0.args) = 0
    BY <1>3
  <2> QED BY <2>1, <2>2, <2>3
<1>6. /\ r2 \in Idle /\ r2.failed = FALSE /\ r2.buffer = << >>
      /\ r2.args = Append(r1.args, r1.buffer)
      /\ Len(r2.args) = Len(r1.args) + 1 /\ Len(r1.args) \in Nat
  BY <1>5, ReadComma DEF e
<1>7. Reads(r3, r2, b, d, 0) /\ r3.buffer # << >>
  BY <1>1, <1>6 DEF Neutral, Solid
<1> HIDE DEF r2, r3
<1>8. /\ r3 \in Idle /\ r3.failed = FALSE
      /\ d => Len(r3.args) > Len(r2.args)
      /\ ~d => r3.args = r2.args /\ r3.buffer = b
  <2>1. r2.buffer \o b = b
    BY <1>1, <1>6, ConcatEmptySeq
  <2> QED BY <1>6, <1>7, <2>1 DEF Reads
<1>9. r3.args \in Seq(Seq(Tokens)) /\ r3.buffer \in Seq(Tokens) /\ Len(r3.args) \in Nat
  BY <1>8, IdleState, LenProperties
<1> DEFINE list == Append(r3.args, r3.buffer)
<1>10. Arguments(j).failed = FALSE /\ Arguments(j).list = list
  BY <1>2, <1>7, <1>8 DEF Arguments
<1>11. Len(list) = Len(r3.args) + 1
  BY <1>9, AppendProperties
<1>12. ASSUME c \/ d PROVE Len(list) # 2
  <2> HIDE DEF list
  <2>1. CASE c
    <3>1. Len(r1.args) > 0 /\ Len(r3.args) >= Len(r2.args)
      BY <1>5, <1>6, <1>8, <1>9, <2>1
    <3> QED BY <1>6, <1>9, <1>11, <3>1
  <2>2. CASE d
    <3>1. Len(r3.args) > Len(r2.args)
      BY <1>8, <2>2
    <3> QED BY <1>6, <1>9, <1>11, <3>1
  <2> QED BY <1>12, <2>1, <2>2
<1>13. ASSUME ~(c \/ d) PROVE list = <<a, b>>
  <2>1. list = Append(Append(<< >>, a), b)
    BY <1>5, <1>6, <1>8, <1>13
  <2>2. a \in Seq(Tokens) /\ b \in Seq(Tokens)
    BY <1>1
  <2> QED BY ONLY <2>1, <2>2, Pair
<1> QED BY <1>10, <1>12, <1>13 DEF Splits

-----------------------------------------------------------------------------
(***************************************************************************)
(* The scan of an escape: its parts, and then the function.                *)
(***************************************************************************)
Body(name, arguments) == <<name>> \o (<<"(">> \o arguments \o <<")">>)

LEMMA EscapeParts ==
  ASSUME NEW name \in Words, NEW x \in Seq(Tokens), Opening \in Tokens, Closing \in Tokens
  PROVE  /\ Body(name, x) \in Seq(Tokens) /\ EscapeText(name, x) \in Seq(Tokens)
         /\ EscapeText(name, x) = (<<Opening>> \o Body(name, x)) \o <<Closing>>
         /\ \A after \in Seq(Tokens) :
              EscapeText(name, x) \o after
                = <<Opening>> \o (Body(name, x) \o (<<Closing>> \o after))
<1> DEFINE p == <<Opening>>
           n == <<name>>
           l == <<"(">>
           r == <<")">>
           q == <<Closing>>
           b == Body(name, x)
           e == EscapeText(name, x)
<1>1. name \in Tokens /\ "(" \in Tokens /\ ")" \in Tokens
  BY WordLeaf, TemplateWords
<1>2. /\ p \in Seq(Tokens) /\ n \in Seq(Tokens) /\ l \in Seq(Tokens) /\ r \in Seq(Tokens)
      /\ q \in Seq(Tokens)
  BY <1>1
<1>3. e = (((p \o n) \o l) \o x) \o (r \o q)
  BY <1>1, Tuples DEF EscapeText
<1>4. b = n \o ((l \o x) \o r)
  BY DEF Body
<1> DEFINE u == n \o l
           v == l \o x
           w == v \o r
           y == n \o v
           g == p \o y
           h == p \o b
<1> HIDE DEF p, n, l, r, q, b, e
<1>5. u \in Seq(Tokens) /\ v \in Seq(Tokens) /\ w \in Seq(Tokens)
  BY <1>2, ConcatProperties
<1> HIDE DEF v
<1>6. y \in Seq(Tokens) /\ b \in Seq(Tokens)
  BY <1>2, <1>4, <1>5, ConcatProperties DEF v
<1>7. u \o x = y
  <2>1. Regroups(n, l, x)
    BY <1>2, Regrouping
  <2> QED BY <2>1 DEF v, Regroups
<1>8. y \o r = b
  <2>1. Regroups(n, v, r)
    BY <1>2, <1>5, Regrouping
  <2> QED BY <1>4, <2>1 DEF v, Regroups
<1> HIDE DEF w, y
<1>9. g \in Seq(Tokens) /\ h \in Seq(Tokens)
  BY <1>2, <1>6, ConcatProperties
<1>10. Regroups(p, n, l) /\ Regroups(p, u, x) /\ Regroups(p, y, r) /\ Regroups(g, r, q)
  BY <1>2, <1>5, <1>6, <1>9, Regrouping
<1>11. e = h \o q
  <2>1. ((p \o n) \o l) \o x = g
    BY <1>7, <1>10 DEF Regroups
  <2>2. g \o r = h
    BY <1>8, <1>10 DEF Regroups
  <2> HIDE DEF g, h
  <2> QED BY <1>3, <1>10, <2>1, <2>2 DEF Regroups
<1>12. e \in Seq(Tokens)
  BY <1>2, <1>9, <1>11, ConcatProperties
<1>13. ASSUME NEW after \in Seq(Tokens) PROVE e \o after = p \o (b \o (q \o after))
  <2>1. q \o after \in Seq(Tokens)
    BY <1>2, ConcatProperties
  <2>2. Regroups(p, b, q \o after) /\ Regroups(h, q, after)
    BY <1>2, <1>6, <1>9, <2>1, Regrouping
  <2> QED BY <1>11, <2>2 DEF Regroups
<1> QED BY <1>6, <1>11, <1>12, <1>13 DEF p, q, b, e

LEMMA BodyTranslated ==
  ASSUME NEW name \in Words, NEW t, Fine(t)
  PROVE  /\ t \in Terms
         /\ \A before, after \in Seq(Tokens), o \in Seq(Nat) : \A m :
              IF Answer(t) = Refused
              THEN Yields(Between(before, Body(name, t.text) \o after, o), Refused)
              ELSE Yields(Between(before \o Body(name, Answer(t)), after, o), m)
                     => Yields(Between(before, Body(name, t.text) \o after, o), m)
<1> DEFINE a == Leaf(<<name>>)
           p == Parenthesized(t)
           c == Concat(a, p)
<1>1. t \in Terms /\ Translated(t)
  BY DEF Fine
<1>2. /\ p \in Terms /\ Translated(p)
      /\ Answer(t) = Refused => Answer(p) = Refused
      /\ Answer(t) # Refused
           => Answer(p) = <<"(">> \o Answer(t) \o <<")">> /\ Answer(p) # Refused
  BY <1>1, ParenthesizedFacts
<1>3. p.text = <<"(">> \o t.text \o <<")">>
  BY DEF Parenthesized
<1>4. a \in Terms /\ Translated(a) /\ a.text = <<name>> /\ Answer(a) = <<name>>
  BY WordLeaf, GoodLeaf, LeafFields DEF Good, Fine
<1>5. Answer(a) # Refused
  BY <1>4, WordLeaf, TokensAssumption
<1> HIDE DEF a, p
<1>6. /\ c.text = a.text \o p.text
      /\ Answer(t) = Refused => Answer(c) = Refused
      /\ Answer(t) # Refused => Answer(c) = Answer(a) \o Answer(p) /\ Answer(c) # Refused
  BY <1>2, <1>4, <1>5, ConcatFields
<1>7. Translated(c)
  BY <1>2, <1>4, TranslatedConcat
<1> HIDE DEF c
<1>8. /\ c.text = Body(name, t.text)
      /\ Answer(t) # Refused => Answer(c) = Body(name, Answer(t))
  BY <1>2, <1>3, <1>4, <1>6 DEF Body
<1> QED BY <1>1, <1>6, <1>7, <1>8, Zenon DEF Translated

LEMMA EscapeScan ==
  ASSUME NEW name \in Words, Opening \in Tokens, Closing \in Tokens, NEW j, Fine(j),
         NEW closed, closed = EscapeText(name, Answer(j)),
         NEW t \in Terms, t.text = EscapeText(name, j.text),
         Answer(j) = Refused => Answer(t) = Refused,
         Answer(j) # Refused /\ ~Resolvable(closed) => Answer(t) = Refused,
         Answer(j) # Refused /\ Resolvable(closed)
           => Answer(t) = Resolved(closed) /\ Resolved(closed) \in Seq(Tokens)
  PROVE  Translated(t)
<1> SUFFICES ASSUME NEW before \in Seq(Tokens), NEW after \in Seq(Tokens), NEW o \in Seq(Nat), NEW m
    PROVE  IF Answer(t) = Refused THEN Yields(Between(before, t.text \o after, o), Refused)
           ELSE Yields(Between(before \o Answer(t), after, o), m)
                  => Yields(Between(before, t.text \o after, o), m)
  BY DEF Translated
<1> DEFINE start == before \o <<Opening>>
           rest == <<Closing>> \o after
           open == Append(o, Len(before) + 1)
           body == Body(name, j.text)
<1>1. j.text \in Seq(Tokens) /\ (Answer(j) # Refused => Answer(j) \in Seq(Tokens))
  BY BodyTranslated, AnswerFacts DEF Terms
<1>2. /\ body \in Seq(Tokens)
      /\ t.text \o after = <<Opening>> \o (body \o rest)
  <2> DEFINE x == j.text
  <2>1. name \in Words /\ x \in Seq(Tokens) /\ Opening \in Tokens /\ Closing \in Tokens
    BY <1>1
  <2> HIDE DEF x
  <2>2. /\ Body(name, x) \in Seq(Tokens)
        /\ EscapeText(name, x) \o after = <<Opening>> \o (Body(name, x) \o (<<Closing>> \o after))
    BY ONLY <2>1, after \in Seq(Tokens), EscapeParts
  <2> QED BY <2>2 DEF x
<1>3. <<Opening>> \in Seq(Tokens) /\ <<Closing>> \in Seq(Tokens) /\ Len(before) + 1 \in Nat
  BY LenProperties
<1>4. start \in Seq(Tokens) /\ rest \in Seq(Tokens) /\ body \o rest \in Seq(Tokens)
      /\ open \in Seq(Nat)
  BY <1>2, <1>3, ConcatProperties, AppendProperties
<1> HIDE DEF body
<1>5. ASSUME NEW n, Yields(Between(start, body \o rest, open), n)
      PROVE  Yields(Between(before, t.text \o after, o), n)
  BY <1>2, <1>4, <1>5, PassOpen
<1>6. CASE Answer(j) = Refused
  <2>1. Yields(Between(start, body \o rest, open), Refused)
    BY <1>4, <1>6, BodyTranslated DEF body
  <2> QED BY <1>5, <1>6, <2>1
<1>7. CASE Answer(j) # Refused
  <2> DEFINE within == Body(name, Answer(j))
             function == <<Opening>> \o within
             c == Between(before \o function, rest, open)
  <2>1. /\ within \in Seq(Tokens) /\ closed = function \o <<Closing>>
    BY <1>1, <1>7, EscapeParts
  <2>2. function \in Seq(Tokens)
    BY <1>3, <2>1, ConcatProperties
  <2>3. start \o within = before \o function
    <3> HIDE DEF within
    <3>1. Regroups(before, <<Opening>>, within)
      BY <1>3, <2>1, Regrouping
    <3> QED BY <3>1 DEF Regroups
  <2>4. ASSUME NEW n, Yields(c, n) PROVE Yields(Between(before, t.text \o after, o), n)
    <3>1. Yields(Between(start \o within, rest, open), n)
      BY <2>3, <2>4
    <3> HIDE DEF start, rest, open, within
    <3>2. Yields(Between(start, body \o rest, open), n)
      BY <1>4, <1>7, <3>1, BodyTranslated DEF body, within
    <3> QED BY <1>5, <3>2 DEF start, rest, open, within
  <2> HIDE DEF function
  <2>5. /\ ~Resolvable(closed) => Yields(c, Refused)
        /\ Resolvable(closed) /\ Resolved(closed) \in Seq(Tokens)
               /\ Yields(Between(before \o Resolved(closed), after, o), m)
             => Yields(c, m)
    <3> HIDE DEF start, rest, body, within
    <3>1. /\ before \in Seq(Tokens) /\ function \in Seq(Tokens) /\ after \in Seq(Tokens)
          /\ Closing \in Tokens /\ o \in Seq(Nat) /\ closed = function \o <<Closing>>
          /\ c = Between(before \o function, <<Closing>> \o after, Append(o, Len(before) + 1))
      BY <2>1, <2>2 DEF rest
    <3> HIDE DEF c, open
    <3>2. Closes(before, closed, after, o, c, m)
      BY ONLY <3>1, PassClose
    <3> QED BY <3>2 DEF Closes
  <2> HIDE DEF c
  <2>6. CASE ~Resolvable(closed)
    BY <1>7, <2>4, <2>5, <2>6
  <2>7. CASE Resolvable(closed)
    <3>1. Answer(t) = Resolved(closed) /\ Resolved(closed) \in Seq(Tokens)
      BY <1>7, <2>7
    <3>2. Answer(t) # Refused
      BY <3>1, TokensAssumption
    <3> QED BY <2>4, <2>5, <2>7, <3>1, <3>2
  <2> QED BY <2>6, <2>7
<1> QED BY <1>6, <1>7

-----------------------------------------------------------------------------
(***************************************************************************)
(* What an escape means is what resolveFunction writes.                    *)
(***************************************************************************)
LEMMA TupleTokens ==
  \A t, u, v \in Tokens :
    <<t>> \in Seq(Tokens) /\ <<t, u>> \in Seq(Tokens) /\ <<t, u, v>> \in Seq(Tokens)
OBVIOUS

LEMMA TemplateRuns ==
  ASSUME NEW name \in Known, NEW x, NEW c \in BOOLEAN, Runs(x, c, 0), NEW list,
         name \in Divided => Runs(list[1], FALSE, 0) /\ Runs(list[2], FALSE, 0),
         name = "left" => c
  PROVE  /\ Runs(Template(name, x, list), name \notin {"atan2", "now"} /\ c, 0)
         /\ Solid(Template(name, x, list))
<1> DEFINE d == name \notin {"atan2", "now"} /\ c
           t == Template(name, x, list)
<1>1. CASE name \in PassedOn
  <2>1. t = <<name, "(">> \o x \o <<")">>
    BY <1>1 DEF Template, PassedOn
  <2>2. d = c
    BY <1>1 DEF PassedOn
  <2>3. name \in Words
    BY <1>1, TemplateWords
  <2> QED BY <2>1, <2>2, <2>3, CallRuns
<1>2. CASE name = "mod"
  <2>1. t = <<"pmod", "(">> \o x \o <<")">> /\ d = c
    BY <1>2 DEF Template, PassedOn
  <2> QED BY <2>1, TemplateWords, CallRuns
<1>3. CASE name = "replace"
  <2>1. t = <<"translate", "(">> \o x \o <<")">> /\ d = c
    BY <1>3 DEF Template, PassedOn
  <2> QED BY <2>1, TemplateWords, CallRuns
<1>4. CASE name = "cot"
  <2> DEFINE w == <<"CAST(1.0/tan", "(">> \o x
             r == <<")">>
             q == <<"as DOUBLE)">>
             call == w \o r
  <2>1. t = w \o <<")", "as DOUBLE)">> /\ d = c
    BY <1>4 DEF Template, PassedOn
  <2>2. <<")", "as DOUBLE)">> = r \o q
    BY TemplateWords, WordLeaf, Tuples
  <2>3. <<"CAST(1.0/tan", "(">> \in Seq(Tokens) /\ r \in Seq(Tokens) /\ q \in Seq(Tokens)
    <3>1. {"CAST(1.0/tan", "(", ")", "as DOUBLE)"} \subseteq Tokens
      BY TemplateWords, WordLeaf
    <3> QED BY <3>1, TupleTokens
  <2>4. w \in Seq(Tokens)
    BY <2>3, ConcatProperties DEF Runs
  <2>5. Runs(call, c, 0) /\ Solid(call)
    BY TemplateWords, CallRuns
  <2>6. t = call \o q
    <3> HIDE DEF w, r, q, t
    <3>1. Regroups(w, r, q)
      BY <2>3, <2>4, Regrouping
    <3> QED BY <2>1, <2>2, <3>1 DEF Regroups
  <2> HIDE DEF call
  <2>7. Runs(call \o q, c, 0) /\ Solid(call \o q)
    BY <2>5, CotRuns
  <2> QED BY <2>1, <2>6, <2>7
<1>5. CASE name = "now"
  <2>1. t = <<"from_unixtime(unix_timestamp())">> /\ d = FALSE
    BY <1>5 DEF Template, PassedOn
  <2> QED BY <2>1, NowRuns
<1>6. CASE name = "atan2"
  <2>1. t = <<"atan", "(", "(">> \o list[2] \o <<")", "/", "(">> \o list[1] \o <<")", ")">>
        /\ d = FALSE
    BY <1>6 DEF Template, PassedOn
  <2>2. Runs(list[1], FALSE, 0) /\ Runs(list[2], FALSE, 0)
    BY <1>6 DEF Divided
  <2> QED BY <2>1, <2>2, Atan2Runs
<1>7. CASE name = "left"
  <2>1. t = <<"substr", "(">> \o list[1] \o <<",", "0", ",">> \o list[2] \o <<")">>
        /\ d = TRUE
    BY <1>7 DEF Template, PassedOn
  <2>2. Runs(list[1], FALSE, 0) /\ Runs(list[2], FALSE, 0)
    BY <1>7 DEF Divided
  <2> QED BY <2>1, <2>2, LeftRuns
<1> QED BY <1>1, <1>2, <1>3, <1>4, <1>5, <1>6, <1>7 DEF Known

LEMMA MeaningTemplate ==
  ASSUME NEW name \in Known, NEW args, NEW x \in Seq(Tokens), x = Joined(args).meaning,
         NEW list,
         name \in Divided
           => /\ 1 \in DOMAIN args /\ 2 \in DOMAIN args
              /\ list[1] = args[1].meaning /\ list[2] = args[2].meaning
  PROVE  Meaning(name, args) = Template(name, x, list)
<1> DEFINE m == [k \in DOMAIN args |-> args[k].meaning]
           call(f) == <<f, "(">> \o x \o <<")">>
           t == Template(name, x, list)
           u == Meaning(name, args)
<1>1. x # Refused
  BY TokensAssumption
<1>2. u = CASE name \in PassedOn -> call(name)
            [] name = "mod" -> call("pmod")
            [] name = "replace" -> call("translate")
            [] name = "cot" -> call("CAST(1.0/tan") \o <<"as DOUBLE)">>
            [] name = "now" -> <<"from_unixtime(unix_timestamp())">>
            [] name = "atan2" ->
                 <<"atan", "(", "(">> \o m[2] \o <<")", "/", "(">> \o m[1] \o <<")", ")">>
            [] name = "left" -> <<"substr", "(">> \o m[1] \o <<",", "0", ",">> \o m[2] \o <<")">>
            [] OTHER -> Refused
  BY <1>1, Zenon DEF Meaning
<1> HIDE DEF m, u
<1>3. CASE name \in PassedOn
  <2>1. t = <<name, "(">> \o x \o <<")">>
    BY <1>3 DEF Template, PassedOn
  <2>2. u = <<name, "(">> \o x \o <<")">>
    BY <1>2, <1>3 DEF PassedOn
  <2> QED BY <2>1, <2>2 DEF u
<1>4. CASE name = "mod"
  <2>1. t = <<"pmod", "(">> \o x \o <<")">>
    BY <1>4 DEF Template, PassedOn
  <2>2. u = <<"pmod", "(">> \o x \o <<")">>
    BY <1>2, <1>4 DEF PassedOn
  <2> QED BY <2>1, <2>2 DEF u
<1>5. CASE name = "replace"
  <2>1. t = <<"translate", "(">> \o x \o <<")">>
    BY <1>5 DEF Template, PassedOn
  <2>2. u = <<"translate", "(">> \o x \o <<")">>
    BY <1>2, <1>5 DEF PassedOn
  <2> QED BY <2>1, <2>2 DEF u
<1>6. CASE name = "cot"
  <2> DEFINE w == <<"CAST(1.0/tan", "(">> \o x
             r == <<")">>
             q == <<"as DOUBLE)">>
  <2>1. t = w \o <<")", "as DOUBLE)">>
    BY <1>6 DEF Template, PassedOn
  <2>2. u = (w \o r) \o q
    BY <1>2, <1>6 DEF PassedOn
  <2>3. <<")", "as DOUBLE)">> = r \o q
    BY TemplateWords, WordLeaf, Tuples
  <2>4. <<"CAST(1.0/tan", "(">> \in Seq(Tokens) /\ r \in Seq(Tokens) /\ q \in Seq(Tokens)
    <3>1. {"CAST(1.0/tan", "(", ")", "as DOUBLE)"} \subseteq Tokens
      BY TemplateWords, WordLeaf
    <3> QED BY <3>1, TupleTokens
  <2>5. w \in Seq(Tokens)
    BY <2>4, ConcatProperties
  <2> HIDE DEF w, r, q, t
  <2>6. Regroups(w, r, q)
    BY <2>4, <2>5, Regrouping
  <2> QED BY <2>1, <2>2, <2>3, <2>6 DEF Regroups, t, u
<1>7. CASE name = "now"
  <2>1. t = <<"from_unixtime(unix_timestamp())">>
    BY <1>7 DEF Template, PassedOn
  <2>2. u = <<"from_unixtime(unix_timestamp())">>
    BY <1>2, <1>7 DEF PassedOn
  <2> QED BY <2>1, <2>2 DEF u
<1>8. name \in Divided => m[1] = list[1] /\ m[2] = list[2]
  BY DEF m
<1>9. CASE name = "atan2"
  <2>1. t = <<"atan", "(", "(">> \o list[2] \o <<")", "/", "(">> \o list[1] \o <<")", ")">>
    BY <1>9 DEF Template, PassedOn
  <2>2. u = <<"atan", "(", "(">> \o m[2] \o <<")", "/", "(">> \o m[1] \o <<")", ")">>
    BY <1>2, <1>9 DEF PassedOn
  <2>3. m[1] = list[1] /\ m[2] = list[2]
    BY <1>8, <1>9 DEF Divided
  <2> QED BY <2>1, <2>2, <2>3 DEF u
<1>10. CASE name = "left"
  <2>1. t = <<"substr", "(">> \o list[1] \o <<",", "0", ",">> \o list[2] \o <<")">>
    BY <1>10 DEF Template, PassedOn
  <2>2. u = <<"substr", "(">> \o m[1] \o <<",", "0", ",">> \o m[2] \o <<")">>
    BY <1>2, <1>10 DEF PassedOn
  <2>3. m[1] = list[1] /\ m[2] = list[2]
    BY <1>8, <1>10 DEF Divided
  <2> QED BY <2>1, <2>2, <2>3 DEF u
<1> QED BY <1>3, <1>4, <1>5, <1>6, <1>7, <1>9, <1>10 DEF Known

LEMMA TemplateText ==
  ASSUME NEW name \in Known, NEW x \in Seq(Tokens), NEW list,
         name \in Divided => list[1] \in Seq(Tokens) /\ list[2] \in Seq(Tokens)
  PROVE  Template(name, x, list) \in Seq(Tokens)
<1> DEFINE t == Template(name, x, list)
<1>1. ASSUME NEW a \in Seq(Tokens), NEW b \in Seq(Tokens), NEW c \in Seq(Tokens)
      PROVE  a \o b \o c \in Seq(Tokens)
  BY ConcatProperties
<1>2. CASE name \in PassedOn \cup {"mod", "replace", "cot"}
  <2>1. ASSUME NEW f \in Tokens, NEW c \in Seq(Tokens) PROVE <<f, "(">> \o x \o c \in Seq(Tokens)
    <3>1. <<f, "(">> \in Seq(Tokens)
      BY TemplateWords, TupleTokens
    <3> QED BY <1>1, <3>1
  <2>2. <<")">> \in Seq(Tokens) /\ <<")", "as DOUBLE)">> \in Seq(Tokens)
    BY TemplateWords, WordLeaf, TupleTokens
  <2>3. {"pmod", "translate", "CAST(1.0/tan"} \subseteq Tokens /\ PassedOn \subseteq Tokens
    BY TemplateWords, WordLeaf
  <2>4. CASE name \in PassedOn
    <3>1. t = <<name, "(">> \o x \o <<")">>
      BY <2>4 DEF Template, PassedOn
    <3> QED BY <2>1, <2>2, <2>3, <2>4, <3>1
  <2>5. CASE name = "mod"
    <3>1. t = <<"pmod", "(">> \o x \o <<")">>
      BY <2>5 DEF Template, PassedOn
    <3> QED BY <2>1, <2>2, <2>3, <3>1
  <2>6. CASE name = "replace"
    <3>1. t = <<"translate", "(">> \o x \o <<")">>
      BY <2>6 DEF Template, PassedOn
    <3> QED BY <2>1, <2>2, <2>3, <3>1
  <2>7. CASE name = "cot"
    <3>1. t = <<"CAST(1.0/tan", "(">> \o x \o <<")", "as DOUBLE)">>
      BY <2>7 DEF Template, PassedOn
    <3> QED BY <2>1, <2>2, <2>3, <3>1
  <2> QED BY <1>2, <2>4, <2>5, <2>6, <2>7
<1>3. CASE name = "now"
  <2>1. t = <<"from_unixtime(unix_timestamp())">>
    BY <1>3 DEF Template, PassedOn
  <2> QED BY <2>1, TemplateWords, WordLeaf
<1>4. CASE name \in Divided
  <2> DEFINE u == list[1]
             v == list[2]
  <2>1. u \in Seq(Tokens) /\ v \in Seq(Tokens)
    BY <1>4
  <2> HIDE DEF u, v
  <2>2. CASE name = "atan2"
    <3> DEFINE a == <<"atan", "(", "(">>
               b == <<")", "/", "(">>
               c == <<")", ")">>
    <3>1. t = a \o v \o b \o u \o c
      BY <2>2 DEF Template, PassedOn, u, v
    <3>2. a \in Seq(Tokens) /\ b \in Seq(Tokens) /\ c \in Seq(Tokens)
      <4>1. {"atan", "(", ")", "/"} \subseteq Tokens
        BY TemplateWords, WordLeaf
      <4> QED BY ONLY <4>1, TupleTokens
    <3> HIDE DEF a, b, c
    <3>3. a \o v \o b \in Seq(Tokens)
      BY <1>1, <2>1, <3>2
    <3> QED BY <1>1, <2>1, <3>1, <3>2, <3>3
  <2>3. CASE name = "left"
    <3> DEFINE a == <<"substr", "(">>
               b == <<",", "0", ",">>
               c == <<")">>
    <3>1. t = a \o u \o b \o v \o c
      BY <2>3 DEF Template, PassedOn, u, v
    <3>2. a \in Seq(Tokens) /\ b \in Seq(Tokens) /\ c \in Seq(Tokens)
      <4>1. {"substr", "(", ")", ",", "0"} \subseteq Tokens
        BY TemplateWords, WordLeaf
      <4> QED BY ONLY <4>1, TupleTokens
    <3> HIDE DEF a, b, c
    <3>3. a \o u \o b \in Seq(Tokens)
      BY <1>1, <2>1, <3>2
    <3> QED BY <1>1, <2>1, <3>1, <3>2, <3>3
  <2> QED BY <1>4, <2>2, <2>3 DEF Divided
<1> QED BY <1>2, <1>3, <1>4 DEF Known, Divided

LEMMA MeaningRefused ==
  ASSUME NEW name, NEW args, name \notin Known \/ Joined(args).meaning = Refused
  PROVE  Meaning(name, args) = Refused
<1>1. CASE Joined(args).meaning = Refused
  BY <1>1, Zenon DEF Meaning
<1>2. CASE name \notin Known
  BY <1>2 DEF Meaning, Known, PassedOn
<1> QED BY <1>1, <1>2

LEMMA MeaningText ==
  ASSUME NEW name, NEW args, NEW x, x = Joined(args).meaning, x \in Seq(Tokens) \cup {Refused},
         name \in Divided /\ x # Refused
           => /\ 1 \in DOMAIN args /\ args[1].meaning \in Seq(Tokens)
              /\ 2 \in DOMAIN args /\ args[2].meaning \in Seq(Tokens)
  PROVE  Meaning(name, args) \in Seq(Tokens) \cup {Refused}
<1>1. CASE name \notin Known \/ x = Refused
  BY <1>1, MeaningRefused
<1>2. CASE name \in Known /\ x # Refused
  <2> DEFINE list == <<args[1].meaning, args[2].meaning>>
  <2>1. /\ name \in Known /\ x \in Seq(Tokens) /\ x = Joined(args).meaning
        /\ list[1] = args[1].meaning /\ list[2] = args[2].meaning
        /\ name \in Divided => /\ 1 \in DOMAIN args /\ list[1] \in Seq(Tokens)
                               /\ 2 \in DOMAIN args /\ list[2] \in Seq(Tokens)
    BY <1>2
  <2> HIDE DEF list
  <2>2. Meaning(name, args) = Template(name, x, list)
    BY <2>1, MeaningTemplate
  <2>3. Template(name, x, list) \in Seq(Tokens)
    BY <2>1, TemplateText
  <2> QED BY <2>2, <2>3
<1> QED BY <1>1, <1>2

\* When it is not refused, the function can be resolved.
LEMMA KnownResolvable ==
  ASSUME NEW s, NEW name, Matches(s), Name(s) = name
  PROVE  /\ name \notin Known => ~Resolvable(s)
         /\ name \in Known \ Divided => Resolvable(s)
         /\ name \in Divided
              => (Resolvable(s) <=> /\ Arguments(ArgumentText(s)).failed = FALSE
                                    /\ Len(Arguments(ArgumentText(s)).list) = 2)
<1>1. Resolvable(s) <=> \/ name \in PassedOn \cup {"mod", "replace", "cot", "now"}
                        \/ /\ name \in {"atan2", "left"}
                           /\ ~Arguments(ArgumentText(s)).failed
                           /\ Len(Arguments(ArgumentText(s)).list) = 2
  BY DEF Resolvable
<1>2. Divided = {"atan2", "left"}
  BY DEF Divided
<1>3. name \in Known \ Divided <=> name \in PassedOn \cup {"mod", "replace", "cot", "now"}
  BY <1>2 DEF Known, PassedOn
<1>4. name \notin Known => name \notin PassedOn \cup {"mod", "replace", "cot", "now"}
                           /\ name \notin {"atan2", "left"}
  BY DEF Known
<1> QED BY <1>1, <1>2, <1>3, <1>4

-----------------------------------------------------------------------------
LEMMA EscapeFields ==
  ASSUME NEW name, NEW args
  PROVE  /\ Escape(name, args).text = EscapeText(name, Joined(args).text)
         /\ Escape(name, args).meaning = Meaning(name, args)
         /\ Escape(name, args).beyond = (Joined(args).beyond \/ CallBeyond(name, args))
         /\ Escape(name, args).commas = (name \notin {"atan2", "now"} /\ Joined(args).commas)
         /\ Escape(name, args) = [text |-> EscapeText(name, Joined(args).text),
                                  meaning |-> Meaning(name, args),
                                  beyond |-> Joined(args).beyond \/ CallBeyond(name, args),
                                  commas |-> name \notin {"atan2", "now"} /\ Joined(args).commas]
<1>1. Escape(name, args) = [text |-> EscapeText(name, Joined(args).text),
                            meaning |-> Meaning(name, args),
                            beyond |-> Joined(args).beyond \/ CallBeyond(name, args),
                            commas |-> name \notin {"atan2", "now"} /\ Joined(args).commas]
  BY Zenon DEF Escape, EscapeText, Opening, Closing
<1> QED BY <1>1

Goods == {t \in Terms : Good(t)}

LEMMA GoodEscape ==
  ASSUME NEW name \in Words, Opening \in Tokens, Closing \in Tokens,
         NEW args \in Seq(Goods), name \in Divided => Len(args) = 2
  PROVE  Good(Escape(name, args)) /\ Escape(name, args) \in Terms
<1> DEFINE j == Joined(args)
           x == Answer(j)
           t == Escape(name, args)
           closed == EscapeText(name, x)
           list == Arguments(x).list
           failed == Arguments(x).failed
           d == name \notin {"atan2", "now"} /\ j.commas
<1>1. /\ Len(args) \in Nat /\ DOMAIN args = 1..Len(args)
      /\ \A k \in 1..Len(args) : Good(args[k]) /\ args[k] \in Terms
  BY LenProperties DEF Goods
<1>2. /\ Fine(j)
      /\ Len(args) = 2 => j = Concat(Concat(args[1], Comma), args[2])
  BY <1>1, JoinedFacts
<1>3. /\ j \in Terms /\ j.text \in Seq(Tokens) /\ j.commas \in BOOLEAN
      /\ x \in Seq(Tokens) \cup {Refused}
      /\ j.meaning \in Seq(Tokens) \cup {Refused} /\ j.beyond \in BOOLEAN
      /\ x # Refused => Runs(x, j.commas, 0) /\ ~j.beyond /\ j.meaning = x
      /\ x = Refused => j.beyond \/ j.meaning = Refused
  BY <1>2, AnswerFacts DEF Fine, Terms, Runs
<1>4. /\ t.text = EscapeText(name, j.text) /\ t.meaning = Meaning(name, args) /\ t.commas = d
      /\ t.beyond = (j.beyond \/ CallBeyond(name, args))
      /\ t = [text |-> EscapeText(name, j.text), meaning |-> Meaning(name, args),
              beyond |-> j.beyond \/ CallBeyond(name, args), commas |-> d]
  BY EscapeFields
<1>5. t.meaning \in Seq(Tokens) \cup {Refused}
  <2> DEFINE y == j.meaning
  <2>1. y = Joined(args).meaning /\ y \in Seq(Tokens) \cup {Refused}
    BY <1>3
  <2>2. ASSUME name \in Divided, y # Refused
        PROVE  /\ 1 \in DOMAIN args /\ args[1].meaning \in Seq(Tokens)
               /\ 2 \in DOMAIN args /\ args[2].meaning \in Seq(Tokens)
    <3> DEFINE a == args[1]
               b == args[2]
    <3>1. /\ 1 \in DOMAIN args /\ 2 \in DOMAIN args /\ a \in Terms /\ b \in Terms
          /\ j = Concat(Concat(a, Comma), b)
      BY <1>1, <1>2, <2>2
    <3> HIDE DEF a, b, j
    <3>2. a.meaning # Refused /\ b.meaning # Refused
      BY <2>2, <3>1, ConcatRefused
    <3>3. a.meaning \in Seq(Tokens) /\ b.meaning \in Seq(Tokens)
      BY <3>1, <3>2 DEF Terms
    <3> QED BY <3>1, <3>3 DEF a, b
  <2> HIDE DEF y
  <2>3. Meaning(name, args) \in Seq(Tokens) \cup {Refused}
    BY <2>1, <2>2, MeaningText
  <2> QED BY <1>4, <2>3
<1> HIDE DEF j, x, t, closed, d
<1>6. /\ EscapeText(name, j.text) \in Seq(Tokens) /\ d \in BOOLEAN
      /\ (j.beyond \/ CallBeyond(name, args)) \in BOOLEAN
  BY <1>3, EscapeParts DEF d
\* It is enough to know what it means and what the scan resolves.
<1>7. ASSUME x # Refused /\ Resolvable(closed)
               => /\ Answer(t) = Resolved(closed)
                  /\ Runs(Resolved(closed), d, 0) /\ Solid(Resolved(closed)),
             x = Refused \/ ~Resolvable(closed) => Answer(t) = Refused
      PROVE  Good(t) /\ t \in Terms
  <2>1. Answer(t) # Refused => Neutral(Answer(t), d, 0) /\ Solid(Answer(t))
    BY <1>7 DEF Runs
  <2>2. t = [text |-> t.text, meaning |-> t.meaning, beyond |-> t.beyond, commas |-> t.commas]
    BY <1>4
  <2>3. t \in Terms
    <3>1. t.text \in Seq(Tokens) /\ t.beyond \in BOOLEAN /\ t.commas \in BOOLEAN
      BY <1>4, <1>6
    <3> QED BY <1>5, <2>2, <3>1 DEF Terms
  <2>4. /\ x = Refused => Answer(t) = Refused
        /\ x # Refused /\ ~Resolvable(closed) => Answer(t) = Refused
        /\ x # Refused /\ Resolvable(closed)
             => Answer(t) = Resolved(closed) /\ Resolved(closed) \in Seq(Tokens)
    BY <1>7 DEF Runs
  <2>5. Translated(t)
    <3>1. closed = EscapeText(name, Answer(j))
      BY DEF closed, x
    <3> QED BY <1>2, <1>4, <2>3, <2>4, <3>1, EscapeScan DEF x
  <2> QED BY <1>4, <2>1, <2>3, <2>5 DEF Good, Fine
<1>8. ASSUME x # Refused
      PROVE  /\ x \in Seq(Tokens) /\ (Matches(closed) <=> ~Broken(x)) /\ Name(closed) = name
             /\ Resolved(closed) = Template(name, x, list)
             /\ ~Broken(x) =>
                  /\ name \notin Known => ~Resolvable(closed)
                  /\ name \in Known \ Divided => Resolvable(closed)
                  /\ name \in Divided => (Resolvable(closed) <=> failed = FALSE /\ Len(list) = 2)
  <2>1. x \in Seq(Tokens)
    BY <1>3, <1>8
  <2>2. (Matches(closed) <=> ~Broken(x)) /\ Name(closed) = name /\ ArgumentText(closed) = x
    BY <2>1, ClosedFacts DEF closed
  <2>3. Resolved(closed) = Template(name, x, list)
    BY <2>2 DEF Resolved
  <2> QED BY <2>1, <2>2, <2>3, KnownResolvable
<1>9. /\ t.beyond \/ t.meaning = Refused => Answer(t) = Refused
      /\ ~t.beyond => Answer(t) = t.meaning
  BY DEF Answer
<1> HIDE DEF list, failed
<1>10. CASE x = Refused
  <2>1. Answer(t) = Refused
    BY <1>3, <1>4, <1>9, <1>10, MeaningRefused DEF j
  <2> QED BY <1>7, <1>10, <2>1 DEF t
<1>11. CASE x # Refused /\ Broken(x)
  <2>1. CallBeyond(name, args)
    BY <1>3, <1>11 DEF CallBeyond, j
  <2>2. ~Resolvable(closed)
    BY <1>8, <1>11 DEF Resolvable
  <2> QED BY <1>4, <1>7, <1>9, <1>11, <2>1, <2>2 DEF t
<1>12. CASE x # Refused /\ ~Broken(x) /\ name \notin Known
  <2>1. Answer(t) = Refused
    BY <1>4, <1>9, <1>12, MeaningRefused
  <2> QED BY <1>7, <1>8, <1>12, <2>1 DEF t
<1>13. ASSUME x # Refused, ~Broken(x), name \in Divided => \A k \in DOMAIN args : ~args[k].commas
       PROVE  Answer(t) = Meaning(name, args) /\ x = Joined(args).meaning
  <2>1. ~CallBeyond(name, args)
    BY <1>3, <1>13 DEF CallBeyond, j
  <2> QED BY <1>3, <1>4, <1>9, <1>13, <2>1 DEF j
<1>14. CASE x # Refused /\ ~Broken(x) /\ name \in Known \ Divided
  <2>1. name \in Known /\ name \notin Divided
    BY <1>14
  <2>2. Answer(t) = Meaning(name, args) /\ x = Joined(args).meaning
    BY <1>13, <1>14
  <2>3. Meaning(name, args) = Template(name, x, list)
    BY <1>8, <1>14, <2>1, <2>2, MeaningTemplate
  <2>4. name # "left"
    BY <1>14 DEF Divided
  <2>5. Runs(Template(name, x, list), d, 0) /\ Solid(Template(name, x, list))
    BY <1>3, <1>14, <2>1, <2>4, TemplateRuns DEF d
  <2> QED BY <1>7, <1>8, <1>14, <2>2, <2>3, <2>5 DEF t
<1>15. CASE x # Refused /\ ~Broken(x) /\ name \in Divided
  <2> DEFINE a == args[1]
             b == args[2]
  <2>1. name \in Known
    BY <1>15 DEF Divided, Known
  <2>2. /\ 1 \in DOMAIN args /\ 2 \in DOMAIN args /\ DOMAIN args = {1, 2}
        /\ j = Concat(Concat(a, Comma), b)
        /\ Good(a) /\ Good(b) /\ a \in Terms /\ b \in Terms
    BY <1>1, <1>2, <1>15
  <2> HIDE DEF a, b
  <2>3. /\ Answer(a) # Refused /\ Answer(b) # Refused
        /\ x = Answer(a) \o Comma.text \o Answer(b)
        /\ j.commas = TRUE
    <3> DEFINE l == Concat(a, Comma)
    <3>1. /\ Comma \in Terms /\ Answer(Comma) # Refused /\ Comma.commas = TRUE
          /\ Answer(Comma) = Comma.text
      BY CommaFields, TokensAssumption DEF Terms
    <3>2. /\ l \in Terms /\ l.commas = (a.commas \/ Comma.commas)
          /\ Answer(a) = Refused => Answer(l) = Refused
          /\ Answer(a) # Refused => Answer(l) = Answer(a) \o Answer(Comma) /\ Answer(l) # Refused
      BY <2>2, <3>1, ConcatFields
    <3> HIDE DEF l
    <3>3. /\ Concat(l, b).commas = (l.commas \/ b.commas)
          /\ Answer(l) = Refused \/ Answer(b) = Refused => Answer(Concat(l, b)) = Refused
          /\ Answer(l) # Refused /\ Answer(b) # Refused
               => Answer(Concat(l, b)) = Answer(l) \o Answer(b)
      BY <2>2, <3>2, ConcatFields
    <3>4. j = Concat(l, b)
      BY <2>2 DEF l
    <3>5. Answer(a) # Refused /\ Answer(b) # Refused /\ x = Answer(l) \o Answer(b)
      BY <1>15, <3>2, <3>3, <3>4 DEF x
    <3> QED BY <3>1, <3>2, <3>3, <3>4, <3>5
  <2>4. /\ a.commas \in BOOLEAN /\ b.commas \in BOOLEAN
        /\ Runs(Answer(a), a.commas, 0) /\ Runs(Answer(b), b.commas, 0) /\ Solid(Answer(b))
    BY <2>2, <2>3, AnswerFacts DEF Good, Fine, Terms, Runs
  <2>5. /\ failed = FALSE
        /\ a.commas \/ b.commas => Len(list) # 2
        /\ ~(a.commas \/ b.commas) => list = <<Answer(a), Answer(b)>>
    <3> DEFINE m == Answer(a)
               n == Answer(b)
               c == a.commas
               e == b.commas
    <3>1. /\ c \in BOOLEAN /\ e \in BOOLEAN /\ Runs(m, c, 0) /\ Runs(n, e, 0) /\ Solid(n)
          /\ x = m \o Comma.text \o n
      BY <2>3, <2>4
    <3> HIDE DEF m, n, c, e
    <3>2. Splits(x, m, n, c, e)
      BY ONLY <3>1, DividedArguments
    <3> QED BY <3>2 DEF Splits, failed, list, m, n, c, e
  <2>6. CASE a.commas \/ b.commas
    <3>1. CallBeyond(name, args)
      BY <1>15, <2>2, <2>6 DEF CallBeyond, a, b
    <3>2. Answer(t) = Refused
      BY <1>4, <1>9, <3>1
    <3> QED BY <1>7, <1>8, <1>15, <2>5, <2>6, <3>2 DEF t
  <2>7. CASE ~(a.commas \/ b.commas)
    <3>1. list = <<Answer(a), Answer(b)>> /\ Len(list) = 2 /\ list[1] = Answer(a)
          /\ list[2] = Answer(b)
      BY <2>5, <2>7
    <3>2. Answer(t) = Meaning(name, args) /\ x = Joined(args).meaning
      <4>1. \A k \in DOMAIN args : ~args[k].commas
        BY <2>2, <2>7 DEF a, b
      <4> QED BY <1>13, <1>15, <4>1
    <3>3. Meaning(name, args) = Template(name, x, list)
      <4>1. Answer(a) = a.meaning /\ Answer(b) = b.meaning
        BY <2>2, <2>3, AnswerFacts
      <4>2. list[1] = args[1].meaning /\ list[2] = args[2].meaning
        BY <3>1, <4>1 DEF a, b
      <4>3. x \in Seq(Tokens)
        BY <1>8, <1>15
      <4> QED BY <2>1, <2>2, <3>2, <4>2, <4>3, MeaningTemplate
    <3>4. a.commas = FALSE /\ b.commas = FALSE
      BY <2>4, <2>7
    <3>5. Runs(list[1], FALSE, 0) /\ Runs(list[2], FALSE, 0)
      BY <2>4, <3>1, <3>4
    <3>6. Runs(Template(name, x, list), d, 0) /\ Solid(Template(name, x, list))
      BY <1>3, <1>15, <2>1, <2>3, <3>5, TemplateRuns DEF d
    <3> QED BY <1>7, <1>8, <1>15, <2>5, <3>1, <3>2, <3>3, <3>6 DEF t
  <2> QED BY <2>6, <2>7
<1> QED BY <1>10, <1>11, <1>12, <1>14, <1>15 DEF t

-----------------------------------------------------------------------------
(***************************************************************************)
(* Queries of any length and depth.                                        *)
(***************************************************************************)
\* The queries are there: what is built from queries with the operators of EscapeParser is a
\* query, so that QueriesNested holds of the instance that is model-checked.
LEMMA TermsGrow ==
  /\ \A s \in LeafTexts : IsTerm(Leaf(s))
  /\ \A t \in Fixed \cap Tokens : IsTerm(FixedEscape(t))
  /\ \A a, b : IsTerm(a) /\ IsTerm(b) => IsTerm(Concat(a, b))
<1>1. \A s \in LeafTexts : IsTerm(Leaf(s))
  BY Zenon DEF IsTerm, ClosedTerms
<1>2. \A t \in Fixed \cap Tokens : IsTerm(FixedEscape(t))
  BY Zenon DEF IsTerm, ClosedTerms
<1>3. \A a, b : IsTerm(a) /\ IsTerm(b) => IsTerm(Concat(a, b))
  BY Zenon DEF IsTerm, ClosedTerms
<1> QED BY <1>1, <1>2, <1>3

LEMMA ArgumentsGrow ==
  ASSUME NEW n \in Nat, NEW args, args = [k \in 1..n |-> args[k]],
         \A k \in 1..n : IsTerm(args[k])
  PROVE  /\ IsTerm(Parenthesized(Joined(args)))
         /\ \A name \in Words :
              {Opening, Closing} \subseteq Tokens /\ (name \in Divided => n = 2)
                => IsTerm(Escape(name, args))
<1>1. ASSUME NEW T, ClosedTerms(T) PROVE args \in Seq(T) /\ Len(args) = n
  <2>1. \A k \in 1..n : args[k] \in T
    BY <1>1, Zenon DEF IsTerm
  <2> QED BY <2>1
<1>2. IsTerm(Parenthesized(Joined(args)))
  <2> SUFFICES ASSUME NEW T, ClosedTerms(T) PROVE Parenthesized(Joined(args)) \in T
    BY Zenon DEF IsTerm
  <2>1. args \in Seq(T)
    BY <1>1
  <2> QED BY <2>1, Zenon DEF ClosedTerms
<1>3. ASSUME NEW name \in Words, {Opening, Closing} \subseteq Tokens, name \in Divided => n = 2
      PROVE  IsTerm(Escape(name, args))
  <2> SUFFICES ASSUME NEW T, ClosedTerms(T) PROVE Escape(name, args) \in T
    BY Zenon DEF IsTerm
  <2>1. args \in Seq(T) /\ (name \in Divided => Len(args) = 2)
    BY <1>1, <1>3
  <2>2. {"{fn", "}"} \subseteq Tokens
    BY <1>3, Zenon DEF Opening, Closing
  <2> QED BY <1>3, <2>1, <2>2, Zenon DEF ClosedTerms
<1> QED BY <1>2, <1>3

LEMMA QueriesGrow ==
  ASSUME NEW a \in LeafTexts, NEW t, IsTerm(t), NEW b \in LeafTexts
  PROVE  IsQuery(Query(Concat(Concat(Leaf(a), t), Leaf(b))))
<1>1. IsTerm(Concat(Concat(Leaf(a), t), Leaf(b)))
  BY TermsGrow
<1>2. \A T : ClosedTexts(T) => Concat(Concat(Leaf(a), t), Leaf(b)) \in T
  BY <1>1, Zenon DEF ClosedTexts
<1> QED BY <1>2, Zenon DEF IsQuery

LEMMA GoodsClosed == ClosedTerms(Goods)
<1>1. \A s \in LeafTexts : Leaf(s) \in Goods
  <2> TAKE s \in LeafTexts
  <2>1. Good(Leaf(s))
    BY GoodLeaf
  <2> QED BY <2>1 DEF Goods, Good, Fine
<1>2. \A t \in Fixed \cap Tokens : FixedEscape(t) \in Goods
  <2> TAKE t \in Fixed \cap Tokens
  <2>1. Good(FixedEscape(t))
    BY GoodFixed
  <2> QED BY <2>1 DEF Goods, Good, Fine
<1>3. \A a, b \in Goods : Concat(a, b) \in Goods
  <2> TAKE a, b \in Goods
  <2>1. Good(Concat(a, b))
    BY FineConcat DEF Goods, Good
  <2> QED BY <2>1 DEF Goods, Good, Fine
<1>4. \A args \in Seq(Goods) : Parenthesized(Joined(args)) \in Goods
  <2> TAKE args \in Seq(Goods)
  <2>1. Len(args) \in Nat /\ \A k \in 1..Len(args) : Good(args[k])
    BY LenProperties DEF Goods
  <2>2. Good(Parenthesized(Joined(args)))
    BY <2>1, JoinedFacts, GoodParenthesized
  <2> QED BY <2>2 DEF Goods, Good, Fine
<1>5. Opening \in Tokens /\ Closing \in Tokens =>
        \A name \in Words, args \in Seq(Goods) :
          (name \in Divided => Len(args) = 2) => Escape(name, args) \in Goods
  BY GoodEscape DEF Goods
<1>6. {"{fn", "}"} \subseteq Tokens => Opening \in Tokens /\ Closing \in Tokens
  BY Zenon DEF Opening, Closing
<1> QED BY <1>1, <1>2, <1>3, <1>4, <1>5, <1>6, Zenon DEF ClosedTerms

Translateds == {t \in Terms : Translated(t)}

LEMMA TranslatedsClosed == ClosedTexts(Translateds)
<1>1. \A t : IsTerm(t) => t \in Translateds
  <2> SUFFICES ASSUME NEW t, IsTerm(t) PROVE t \in Translateds
    OBVIOUS
  <2>1. t \in Goods
    BY GoodsClosed DEF IsTerm
  <2> QED BY <2>1 DEF Goods, Good, Fine, Translateds
<1>2. \A s \in PlainTexts : Leaf(s) \in Translateds
  <2> TAKE s \in PlainTexts
  <2>1. s \in Seq(Tokens)
    BY DEF PlainTexts
  <2>2. Leaf(s) \in Terms /\ Leaf(s).text = s /\ Answer(Leaf(s)) = s
    BY <2>1, LeafFields
  <2>3. Translated(Leaf(s))
    BY <2>2, TranslatedPlain
  <2> QED BY <2>2, <2>3 DEF Translateds
<1>3. \A a, b \in Translateds : Concat(a, b) \in Translateds
  BY TranslatedConcat, ConcatFields DEF Translateds
<1> QED BY <1>1, <1>2, <1>3 DEF ClosedTexts

\* A query is scanned to what it means, or refused.
LEMMA QueryYields ==
  ASSUME NEW q, IsQuery(q)
  PROVE  Yields(Conf(q.text, 1, NoQuote, << >>, "scanning"), Answer(q))
<1>1. PICK t : q = Query(t) /\ \A T : ClosedTexts(T) => t \in T
  BY DEF IsQuery
<1>2. t \in Terms /\ Translated(t)
  BY <1>1, TranslatedsClosed DEF Translateds
<1>3. q.text = t.text /\ Answer(q) = Answer(t)
  BY <1>1 DEF Query, Answer
<1>4. /\ t.text \in Seq(Tokens) /\ Answer(t) \in Seq(Tokens) \cup {Refused}
  BY <1>2, AnswerFacts DEF Terms
<1> DEFINE none == << >>
           e == << >>
<1>5. /\ none \in Seq(Nat) /\ e \in Seq(Tokens) /\ Len(e) = 0
  BY ONLY SMT
<1>6. t.text \o e = t.text /\ e \o t.text = t.text
      /\ (Answer(t) # Refused => e \o Answer(t) = Answer(t))
  BY <1>4, ConcatEmptySeq
<1>7. Between(e, t.text \o e, none) = Conf(t.text, 1, NoQuote, none, "scanning")
  <2>1. Len(e) + 1 = 1
    BY <1>5
  <2> HIDE DEF e, none
  <2> QED BY <1>6, <2>1 DEF Between
<1> HIDE DEF e, none
<1>8. Yields(Between(e, t.text \o e, none), Answer(t))
  <2>1. CASE Answer(t) = Refused
    BY <1>2, <1>5, <2>1 DEF Translated
  <2>2. CASE Answer(t) # Refused
    <3>1. Between(e \o Answer(t), e, none) = Between(Answer(t), e, none)
      BY <1>6, <2>2
    <3>2. Yields(Between(Answer(t), e, none), Answer(t))
      BY <1>4, <2>2, PassEnd DEF e
    <3> QED BY <1>2, <1>5, <2>2, <3>1, <3>2 DEF Translated
  <2> QED BY <2>1, <2>2
<1> QED BY <1>3, <1>7, <1>8 DEF none

\* What the scan has yet to do yields the answer to the query it started with.
Promised == source.meaning # Unknown => Yields(Now, Answer(source))

LEMMA PromisedInit == QueriesNested /\ Init => Promised
<1> SUFFICES ASSUME QueriesNested, Init, source.meaning # Unknown
             PROVE  Yields(Now, Answer(source))
  BY DEF Promised
<1>1. IsQuery(source)
  BY DEF QueriesNested, Init
<1>2. Now = Conf(source.text, 1, NoQuote, << >>, "scanning")
  BY DEF Now, Init
<1> QED BY <1>1, <1>2, QueryYields

LEMMA PromisedNext == Texts /\ Promised /\ [Next]_vars => Promised'
<1> SUFFICES ASSUME Texts, Promised, [Next]_vars, source'.meaning # Unknown
             PROVE  Yields(Now', Answer(source'))
  BY DEF Promised
<1>1. source' = source /\ Now' \in {Now, Step(Now)}
  BY NextIsStep
<1>2. Yields(Now, Answer(source))
  BY <1>1 DEF Promised
<1>3. Yields(Step(Now), Answer(source))
  BY <1>2, YieldsForth
<1> QED BY <1>1, <1>2, <1>3

\* A query with nested escapes of any depth, and literals that hold anything, is translated
\* to what it means or refused, and refused only when it means nothing or is beyond the parser,
\* which does not see a line break in the arguments of a call or a comma of a nested one
\* (toString, resolveFunction, ArgumentsParser::getArguments).
THEOREM TranslatedCorrect ==
  ASSUME QueriesNested
  PROVE  Spec => []TranslatedOrRefused
<1>1. Init => Promised
  BY PromisedInit
<1>2. ScanInv /\ Promised /\ [Next]_vars => Promised'
  BY PromisedNext DEF ScanInv
<1>3. ScanInv /\ Promised => TranslatedOrRefused
  <2> SUFFICES ASSUME ScanInv, Promised, source.meaning # Unknown
               PROVE  /\ status = "done" => result = source.meaning
                      /\ status = "failed" => source.meaning = Refused \/ source.beyond
    BY DEF TranslatedOrRefused
  <2>1. Allows(Answer(source), Now)
    BY YieldsForth DEF Promised
  <2>2. /\ status = "done" => result = Answer(source)
        /\ status = "failed" => Answer(source) = Refused
    BY <2>1 DEF Allows, Now, Conf
  <2>3. result # Refused
    BY TokensAssumption DEF ScanInv, Texts
  <2> QED BY <2>2, <2>3 DEF Answer
<1> QED BY <1>1, <1>2, <1>3, ScanAlways, PTL DEF Spec
=============================================================================
