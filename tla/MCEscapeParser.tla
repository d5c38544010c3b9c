--------------------------- MODULE MCEscapeParser ---------------------------
(***************************************************************************)
(* Instances of EscapeParser for TLC: every query of a call of a call, a   *)
(* few deeper ones, and every short sequence of tokens.                    *)
(***************************************************************************)
EXTENDS EscapeParser

Literals == {<<"'", ",", "'">>, <<"''", "\"", ",", "''">>, <<"''", "}", "'", "''">>,
             <<"'", LineBreak, "'">>}
Leaves == {Leaf(s) : s \in Literals \cup {<<"a">>}} \cup {FixedEscape("{d}")}
Names == [lcase |-> 1, concat |-> 2, cot |-> 1, mod |-> 2, left |-> 2, atan2 |-> 2, now |-> 0,
          right |-> 2]

Calls(names, args) ==
  UNION {{Escape(n, t) : t \in [1..Names[n] -> args]} : n \in names}

Inner == Calls({"lcase", "concat", "left", "right"}, {Leaf(<<"a">>), Leaf(<<"'", ",", "'">>)})
Outer == Calls(DOMAIN Names, Leaves) \cup Calls({"mod", "atan2", "left", "cot"}, Inner)
Third == Calls({"concat"}, Calls({"cot", "left"}, Calls({"lcase"}, Leaves)))

Few == {"a", LineBreak, "'", "''", "{ts}", "{guid}", "{fn", "now", "(", ")", "}"}
Short == UNION {[1..n -> Few] : n \in 1..3}
Unclosed == {<<"{fn", "now", "(", ")", t>> : t \in Few}

\* Arguments that are more than an escape or a literal.
Compound ==
  {Concat(Leaf(<<"a">>), t) : t \in Inner}
  \cup {Parenthesized(Joined(t)) : t \in [1..2 -> {Leaf(<<"a">>), FixedEscape("{ts}")}]}

\* A call after a line break, and a line break in and after the call of a call.
Lines ==
  {Concat(Leaf(<<LineBreak>>), t) : t \in Calls({"lcase", "left"}, {Leaf(<<"a">>)})}
  \cup Calls({"concat"}, {Concat(t, Leaf(<<LineBreak>>)) :
                            t \in Calls({"now", "lcase"}, {Leaf(<<"a">>)})})

MCQueries ==
  {Query(Concat(Concat(Leaf(<<"a">>), t), Leaf(<<"b">>))) :
     t \in Outer \cup Third \cup Calls({"left", "cot"}, Compound) \cup Lines}
  \cup {[text |-> t, meaning |-> Unknown, beyond |-> FALSE] :
          t \in {s \in Short \cup Unclosed : LinesApart(s)}}

MCTokens ==
  UNION {{q.text[k] : k \in DOMAIN q.text} : q \in MCQueries}
  \cup Templates \cup {FixedMeaning[t] : t \in Fixed}

\* The queries above are built as QueriesNested says.
ASSUME PartsAssumption ==
  /\ Literals \cup {<<"a">>, <<"b">>} \subseteq LeafTexts
  /\ DOMAIN Names \subseteq Words
  /\ Fixed \cup {"{fn", "}"} \subseteq Tokens
=============================================================================
