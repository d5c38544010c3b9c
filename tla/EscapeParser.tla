---------------------------- MODULE EscapeParser ----------------------------
(***************************************************************************)
(* The ODBC escape sequences of a query (ODBCEscapeSequenceParser.cpp,     *)
(* ArgumentsParser.cpp): a single scan that rewrites the query in place    *)
(* and resolves nested functions from the inside out.                      *)
(*                                                                         *)
(* A query is a sequence of tokens.  "{fn" opens a function escape; a date *)
(* or timestamp escape with its literal is one token, and so are the ones  *)
(* the parser refuses; "\"" is a quote after a backslash.                  *)
(*                                                                         *)
(* The parser refuses some queries that do have a meaning.  The reference  *)
(* below names them and gives the meaning all the same.                    *)
(***************************************************************************)
EXTENDS Integers, Sequences

CONSTANTS Tokens,     \* of the queries and of what they are translated to
          Queries,    \* records of a query and what it means, see Escape
          Refused,    \* the meaning of a query that has to fail
          Unknown     \* the meaning of a query nothing is claimed about

VARIABLES source,      \* the record the query came from
          result, i,   \* the text and the position of the scan
          quote,       \* the quote that closes the literal the scan is in, or NoQuote
          fnOpenings,  \* positions of the functions that are open
          status

vars == <<source, result, i, quote, fnOpenings, status>>

NoQuote == ""
LineBreak == "line break"
Quotes == {"'", "''"}      \* a single and a double quote
Fixed == {"{d}", "{ts}"}
FixedMeaning == [t \in Fixed |-> IF t = "{d}" THEN "DATE" ELSE "TIMESTAMP"]
NotSupported == {"{guid}", "{interval}", "{"}
Escapes == Fixed \cup NotSupported \cup {"{fn", "}"}

Init ==
  /\ source \in Queries
  /\ result = source.text
  /\ i = 1 /\ quote = NoQuote /\ fnOpenings = << >>
  /\ status = "scanning"
-----------------------------------------------------------------------------
(***************************************************************************)
(* ArgumentsParser::getArguments.  A comma splits wherever it stands       *)
(* outside a literal: insideNested is never set.                           *)
(***************************************************************************)
\* The quote that closes the literal after another token.
Quoting(q, t) == IF q = NoQuote /\ t \in Quotes THEN t ELSE IF t = q THEN NoQuote ELSE q

\* Mutant of NextArgument: a comma in a literal splits.
NextArgumentAnyComma(s, t) ==
  IF t = "," THEN [s EXCEPT !.args = Append(@, s.buffer), !.buffer = << >>]
  ELSE [s EXCEPT !.buffer = Append(@, t)]

StartArguments == [args |-> << >>, buffer |-> << >>, quote |-> NoQuote, depth |-> 0, failed |-> FALSE]

NextArgument(s, t) ==
  IF s.quote = NoQuote /\ t = "," THEN [s EXCEPT !.args = Append(@, s.buffer), !.buffer = << >>]
  ELSE [s EXCEPT
         !.buffer = Append(@, t),
         !.quote = Quoting(@, t),
         !.depth = IF s.quote # NoQuote THEN @
                   ELSE IF t = "(" THEN @ + 1
                   ELSE IF t = ")" /\ @ > 0 THEN @ - 1 ELSE @,
         !.failed = @ \/ (s.quote = NoQuote /\ t = ")" /\ s.depth = 0)]

ReadArguments(tokens) ==
  LET read[n \in 0..Len(tokens)] ==
        IF n = 0 THEN StartArguments ELSE NextArgument(read[n - 1], tokens[n])
  IN  read[Len(tokens)]

Arguments(tokens) ==
  LET last == ReadArguments(tokens)
  IN  [failed |-> last.failed,
       list |-> IF last.buffer = << >> THEN last.args ELSE Append(last.args, last.buffer)]
-----------------------------------------------------------------------------
(***************************************************************************)
(* resolveFunction.                                                        *)
(***************************************************************************)
PassedOn ==
  {"year", "month", "day", "hour", "minute", "second", "dayofmonth",
   "ascii", "concat", "lcase", "length", "locate", "ltrim", "repeat", "rtrim", "space",
   "substring", "ucase",
   "abs", "acos", "asin", "atan", "ceiling", "cos", "degrees", "exp", "floor", "log10", "pi",
   "power", "radians", "rand", "round", "sign", "sin", "sqrt", "tan"}

\* The name and the argument text regexFunction finds in "{fn" name "(" ... ")" "}".  Its
\* "(.*)" does not reach over the end of a line.
Broken(text) == \E k \in 1..Len(text) : text[k] = LineBreak
FirstParenthesis(s) == CHOOSE k \in DOMAIN s : s[k] = "(" /\ \A j \in 1..(k - 1) : s[j] # "("

ArgumentText(s) == SubSeq(s, FirstParenthesis(s) + 1, Len(s) - 2)

Matches(s) ==
  /\ \E k \in DOMAIN s : s[k] = "("
  /\ FirstParenthesis(s) > 2 /\ FirstParenthesis(s) < Len(s) - 1
  /\ s[Len(s) - 1] = ")"
  /\ ~Broken(ArgumentText(s))

Name(s) == IF FirstParenthesis(s) = 3 THEN s[2] ELSE "no name"

\* The tokens a query is translated with.
Templates ==
  PassedOn \cup {"pmod", "translate", "CAST(1.0/tan", "as DOUBLE)", "atan", "substr", "0", ",",
                "(", ")", "/", "from_unixtime(unix_timestamp())"}

\* The queries are texts, and so are their translations; to be refused is no text.
ASSUME TokensAssumption ==
  /\ Templates \cup {FixedMeaning[t] : t \in Fixed} \subseteq Tokens
  /\ \A q \in Queries : DOMAIN q = {"text", "meaning", "beyond"} /\ q.text \in Seq(Tokens)
  /\ Refused \notin Seq(Tokens)

\* What the escape is replaced with.
Template(name, text, args) ==
  CASE name \in PassedOn -> <<name, "(">> \o text \o <<")">>
    [] name = "mod" -> <<"pmod", "(">> \o text \o <<")">>
    [] name = "replace" -> <<"translate", "(">> \o text \o <<")">>
    [] name = "cot" -> <<"CAST(1.0/tan", "(">> \o text \o <<")", "as DOUBLE)">>
    [] name = "now" -> <<"from_unixtime(unix_timestamp())">>
    [] name = "atan2" -> <<"atan", "(", "(">> \o args[2] \o <<")", "/", "(">> \o args[1] \o <<")", ")">>
    [] name = "left" -> <<"substr", "(">> \o args[1] \o <<",", "0", ",">> \o args[2] \o <<")">>

\* Supported functions; two of them need exactly two arguments.
Resolvable(s) ==
  /\ Matches(s)
  /\ \/ Name(s) \in PassedOn \cup {"mod", "replace", "cot", "now"}
     \/ /\ Name(s) \in {"atan2", "left"}
        /\ ~Arguments(ArgumentText(s)).failed
        /\ Len(Arguments(ArgumentText(s)).list) = 2

Resolved(s) == Template(Name(s), ArgumentText(s), Arguments(ArgumentText(s)).list)
-----------------------------------------------------------------------------
(***************************************************************************)
(* toString(): one action for each branch of its loop.                     *)
(***************************************************************************)
Here == result[i]
Scanning == status = "scanning" /\ i <= Len(result)
Outside == Scanning /\ quote = NoQuote
Replace(first, last, tokens) ==
  SubSeq(result, 1, first - 1) \o tokens \o SubSeq(result, last + 1, Len(result))

InLiteral ==
  /\ Scanning /\ quote # NoQuote
  /\ quote' = IF Here = quote THEN NoQuote ELSE quote
  /\ i' = i + 1
  /\ UNCHANGED <<source, result, fnOpenings, status>>

EnterLiteral ==
  /\ Outside /\ Here \in Quotes
  /\ quote' = Here
  /\ i' = i + 1
  /\ UNCHANGED <<source, result, fnOpenings, status>>

ResolveFixed ==
  /\ Outside /\ Here \in Fixed
  /\ result' = [result EXCEPT ![i] = FixedMeaning[Here]]
  /\ i' = i + 1
  /\ UNCHANGED <<source, quote, fnOpenings, status>>

OpenFunction ==
  /\ Outside /\ Here = "{fn"
  /\ fnOpenings' = Append(fnOpenings, i)
  /\ i' = i + 1
  /\ UNCHANGED <<source, result, quote, status>>

\* The function that was opened last, up to the "}".
Function == SubSeq(result, fnOpenings[Len(fnOpenings)], i)

\* Mutant of ResolveFunction: the scan goes on where it was.
ResolveFunctionStaysBehind ==
  /\ Outside /\ Here = "}" /\ fnOpenings # << >> /\ Resolvable(Function)
  /\ result' = Replace(fnOpenings[Len(fnOpenings)], i, Resolved(Function))
  /\ i' = i + 1
  /\ fnOpenings' = SubSeq(fnOpenings, 1, Len(fnOpenings) - 1)
  /\ UNCHANGED <<source, quote, status>>

\* Mutant of ResolveFunction: the opening is not removed.
ResolveFunctionKeepsOpening ==
  /\ Outside /\ Here = "}" /\ fnOpenings # << >> /\ Resolvable(Function)
  /\ result' = Replace(fnOpenings[Len(fnOpenings)], i, Resolved(Function))
  /\ i' = fnOpenings[Len(fnOpenings)] + Len(Resolved(Function))
  /\ UNCHANGED <<source, quote, fnOpenings, status>>

ResolveFunction ==
  /\ Outside /\ Here = "}" /\ fnOpenings # << >> /\ Resolvable(Function)
  /\ result' = Replace(fnOpenings[Len(fnOpenings)], i, Resolved(Function))
  /\ i' = fnOpenings[Len(fnOpenings)] + Len(Resolved(Function))
  /\ fnOpenings' = SubSeq(fnOpenings, 1, Len(fnOpenings) - 1)
  /\ UNCHANGED <<source, quote, status>>

Fail ==
  /\ Outside
  /\ \/ Here \in NotSupported
     \/ Here = "}" /\ (fnOpenings # << >> => ~Resolvable(Function))
  /\ status' = "failed"
  /\ UNCHANGED <<source, result, i, quote, fnOpenings>>

Copy ==
  /\ Outside /\ Here \notin Quotes \cup Escapes
  /\ i' = i + 1
  /\ UNCHANGED <<source, result, quote, fnOpenings, status>>

Finish ==
  /\ status = "scanning" /\ i > Len(result)
  /\ status' = "done"
  /\ UNCHANGED <<source, result, i, quote, fnOpenings>>

Next ==
  \/ InLiteral \/ EnterLiteral \/ ResolveFixed \/ OpenFunction \/ ResolveFunction
  \/ Fail \/ Copy \/ Finish

Spec == Init /\ [][Next]_vars
-----------------------------------------------------------------------------
(***************************************************************************)
(* What a query with escapes means, from the expectations of               *)
(* OdbcEscapeSequenceParserTest.cpp: a text and its meaning, and whether   *)
(* it is beyond the parser, which refuses it then whatever it means.       *)
(***************************************************************************)
\* A text without escapes means itself; "commas" says that what the parser makes of the
\* text has a comma outside a literal.
Leaf(tokens) == [text |-> tokens, meaning |-> tokens, beyond |-> FALSE, commas |-> FALSE]
Comma == [text |-> <<",">>, meaning |-> <<",">>, beyond |-> FALSE, commas |-> TRUE]
FixedEscape(t) ==
  [text |-> <<t>>, meaning |-> <<FixedMeaning[t]>>, beyond |-> FALSE, commas |-> FALSE]

\* What a part means has to be refused as soon as one of its parts has to be.
Concat(a, b) ==
  [text |-> a.text \o b.text,
   meaning |-> IF Refused \in {a.meaning, b.meaning} THEN Refused ELSE a.meaning \o b.meaning,
   beyond |-> a.beyond \/ b.beyond,
   commas |-> a.commas \/ b.commas]

Parenthesized(t) ==
  [text |-> <<"(">> \o t.text \o <<")">>,
   meaning |-> IF t.meaning = Refused THEN Refused ELSE <<"(">> \o t.meaning \o <<")">>,
   beyond |-> t.beyond,
   commas |-> t.commas]

Joined(args) ==
  LET joined[n \in 0..Len(args)] ==
        IF n = 0 THEN Leaf(<< >>) ELSE IF n = 1 THEN args[1]
        ELSE Concat(Concat(joined[n - 1], Comma), args[n])
  IN  joined[Len(args)]

Meaning(name, args) ==
  LET m == [k \in DOMAIN args |-> args[k].meaning]
      call(f) == <<f, "(">> \o Joined(args).meaning \o <<")">>
  IN  IF Joined(args).meaning = Refused THEN Refused
      ELSE CASE name \in PassedOn -> call(name)
             [] name = "mod" -> call("pmod")
             [] name = "replace" -> call("translate")
             [] name = "cot" -> call("CAST(1.0/tan") \o <<"as DOUBLE)">>
             [] name = "now" -> <<"from_unixtime(unix_timestamp())">>
             [] name = "atan2" ->
                  <<"atan", "(", "(">> \o m[2] \o <<")", "/", "(">> \o m[1] \o <<")", ")">>
             [] name = "left" -> <<"substr", "(">> \o m[1] \o <<",", "0", ",">> \o m[2] \o <<")">>
             [] OTHER -> Refused

\* Two kinds of calls are beyond the parser: those with a line break in their arguments, and
\* those that move their arguments about, if one of them has a comma of its own, as that of a
\* nested call: it splits the arguments of the outer one.
Divided == {"atan2", "left"}

CallBeyond(name, args) ==
  \/ Joined(args).meaning # Refused /\ Broken(Joined(args).meaning)
  \/ name \in Divided /\ \E k \in DOMAIN args : args[k].commas

Escape(name, args) ==
  [text |-> <<"{fn", name, "(">> \o Joined(args).text \o <<")", "}">>,
   meaning |-> Meaning(name, args),
   beyond |-> Joined(args).beyond \/ CallBeyond(name, args),
   commas |-> name \notin {"atan2", "now"} /\ Joined(args).commas]

Query(t) == [text |-> t.text, meaning |-> t.meaning, beyond |-> t.beyond]
-----------------------------------------------------------------------------
(***************************************************************************)
(* The queries of any length and depth that have such a meaning.           *)
(***************************************************************************)
QuoteAfter(text) ==
  LET after[n \in 0..Len(text)] ==
        IF n = 0 THEN NoQuote ELSE Quoting(after[n - 1], text[n])
  IN  after

\* Texts without escapes outside the literals, which are closed.
Clean(s) == \A k \in 1..Len(s) : s[k] \in Escapes => QuoteAfter(s)[k - 1] # NoQuote
PlainTexts == {s \in Seq(Tokens) : Clean(s) /\ QuoteAfter(s)[Len(s)] = NoQuote}

\* In an argument, commas and parentheses are not left to the text.
LeafTexts ==
  {u \in Seq(Tokens) :
     /\ u # << >> /\ QuoteAfter(u)[Len(u)] = NoQuote
     /\ \A k \in 1..Len(u) :
          QuoteAfter(u)[k - 1] = NoQuote => u[k] \notin Escapes \cup {",", "(", ")"}}

Words == Tokens \ (Quotes \cup Escapes \cup {"(", ")", ","})

ClosedTerms(T) ==
  /\ \A s \in LeafTexts : Leaf(s) \in T
  /\ \A t \in Fixed \cap Tokens : FixedEscape(t) \in T
  /\ \A a, b \in T : Concat(a, b) \in T
  /\ \A args \in Seq(T) : Parenthesized(Joined(args)) \in T
  /\ {"{fn", "}"} \subseteq Tokens =>
       \A name \in Words, args \in Seq(T) :
         (name \in Divided => Len(args) = 2) => Escape(name, args) \in T

IsTerm(t) == \A T : ClosedTerms(T) => t \in T

ClosedTexts(T) ==
  /\ \A t : IsTerm(t) => t \in T
  /\ \A s \in PlainTexts : Leaf(s) \in T
  /\ \A a, b \in T : Concat(a, b) \in T

IsQuery(q) == \E t : q = Query(t) /\ \A T : ClosedTexts(T) => t \in T

QueriesNested == \A q \in Queries : q.meaning # Unknown => IsQuery(q)

\* A library may let the "^" and "$" of the expressions match at the lines of a text.  The
\* queries are those where it makes no difference: an escape that begins a line is the first,
\* and no "}" of a literal ends one.
LinesApart(text) ==
  \A k \in 2..Len(text) :
    /\ text[k - 1] = LineBreak /\ text[k] \in Escapes \ {"}"} =>
         \A j \in 1..(k - 1) : text[j] \notin Escapes
    /\ text[k - 1] = "}" /\ text[k] = LineBreak => QuoteAfter(text)[k - 2] = NoQuote

ASSUME LinesAssumption == \A q \in Queries : LinesApart(q.text)
-----------------------------------------------------------------------------
TypeOK ==
  /\ DOMAIN source = {"text", "meaning", "beyond"}
  /\ status \in {"scanning", "done", "failed"}
  /\ i \in 1..(Len(result) + 1)
  /\ quote \in Quotes \cup {NoQuote}

(***************************************************************************)
(* The text is rewritten under positions that were taken before: they stay *)
(* the positions of the open functions, in order, all of the text before   *)
(* the scan is resolved but for them, and nothing in a literal counts.     *)
(***************************************************************************)
OpeningsMatch ==
  status = "scanning" =>
    /\ \A m, n \in DOMAIN fnOpenings : m < n => fnOpenings[m] < fnOpenings[n]
    /\ LET quoteAfter == QuoteAfter(result)
       IN  {fnOpenings[n] : n \in DOMAIN fnOpenings}
             = {k \in 1..(i - 1) : result[k] \in Escapes /\ quoteAfter[k - 1] = NoQuote}

(***************************************************************************)
(* A query with nested escapes, and literals that hold anything, is        *)
(* translated to what it means or refused, never to something else; and it *)
(* is refused only when it means nothing, or has a call that is beyond the *)
(* parser.                                                                 *)
(***************************************************************************)
TranslatedOrRefused ==
  source.meaning # Unknown =>
    /\ status = "done" => result = source.meaning
    /\ status = "failed" => source.meaning = Refused \/ source.beyond
=============================================================================
