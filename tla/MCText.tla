------------------------------- MODULE MCText -------------------------------
(* Constants of Tokens and Retrieve for TLC. *)
EXTENDS Retrieve
ChrLit(s) == [kind |-> "string", s |-> s]
Span(a, b) == [kind |-> "range", from |-> a, to |-> b]
Line(op, args) == [op |-> op, args |-> args]
ChrLetters ==
  <<Line("lowercase", << <<Span(97, 98), ChrLit(<<99>>)>> >>), Line("uppercase", << <<Span(65, 66)>> >>),
    Line("space", << <<ChrLit(<<32>>)>> >>), Line("cut", << <<ChrLit(<<35>>)>> >>),
    Line("map", << <<ChrLit(<<38, 98>>)>>, <<ChrLit(<<97>>), ChrLit(<<98, 97>>)>> >>), Line("equivalent", << <<ChrLit(<<98>>), ChrLit(<<99>>)>> >>)>>
MCChrFiles ==
  [letters |-> ChrLetters,
   articles |-> ChrLetters \o <<Line("map", << <<ChrLit(<<94, 98, 32>>), ChrLit(<<94, 98, 97>>)>>, <<ChrLit(<<32>>)>> >>), Line("encoding", << <<>> >>)>>,
   broken |-> <<Line("uppercase", << <<ChrLit(<<97>>)>> >>)>>]
MCChrBytes == {32, 35, 38, 48, 49, 64, 65, 66, 94, 97, 98, 99}
WordLines(chr) == <<Line("index", <<"w">>), Line("alwaysmatches", <<1>>), Line("firstinfield", <<1>>), Line("charmap", <<chr>>)>>
PhraseLines(chr) == <<Line("index", <<"p">>), Line("completeness", <<1>>), Line("charmap", <<chr>>)>>
MCIdxFiles ==
  {WordLines("letters") \o PhraseLines("articles") \o <<Line("sort", <<"s">>), Line("entrysize", <<40>>), Line("staticrank", <<"r">>)>>,
   WordLines("articles") \o PhraseLines("letters") \o <<Line("index", <<"u">>), Line("simplechain", <<1>>), Line("position", <<0>>)>>,
   WordLines("broken") \o PhraseLines("@"),
   <<Line("position", <<1>>), Line("staticrank", <<"r">>), Line("charmap", <<"letters">>)>>}
To(name, type) == [name |-> name, type |-> type]
Fld(text, targets) == [text |-> text, targets |-> targets]
Strs(cs, n) == UNION {[1..k -> cs] : k \in 1..n}
Titles == <<To("t", "w"), To("a", "w"), To("t", "p")>>
TextStrs == Strs({97, 66, 32, 38}, 4) \cup Strs({97, 98, 32, 35}, 3) \cup [1..4 -> {97, 98, 32}] \cup {<<98, 32, 97, 98, 32, 97, 32, 98>>}
FewTexts == {<<97, 32, 98>>, <<98, 32, 97, 97>>, <<32>>, <<49, 48>>}
FewTargets == {<<To("t", "w"), To("t", "0"), To("t", "s")>>, <<To("a", ""), To("y", "w")>>, <<To("t", "r"), To("t", "u")>>}
MCTkDocs == {<<Fld(s, Titles)>> : s \in TextStrs}
  \cup {<<Fld(s, Titles), Fld(r, t)>> : s \in {<<98, 32, 97>>}, r \in FewTexts, t \in FewTargets}
  \cup {<<Fld(s, t), Fld(r, Titles)>> : s \in FewTexts, r \in {<<98, 32, 97>>}, t \in FewTargets}
  \* a number of the field that another field has in between
  \cup {<<Fld(<<97>>, <<To("q", "p")>>), Fld(<<98>>, <<To("t", "w")>>), Fld(<<98>>, <<To("q", "p")>>)>>}
MCTkKnown == {TkOrd("index", To("y", "0"))}
MCTkSpecs == {<<[kind |-> "field", arg |-> "t"]>>, <<[kind |-> "field", arg |-> "y"]>>, <<[kind |-> "field", arg |-> "q"]>>, <<[kind |-> "text", arg |-> <<97>>], [kind |-> "field", arg |-> "a"]>>, <<[kind |-> "error", arg |-> <<>>]>>, <<>>}
MCTkAsks == {[names |-> {"t"}, type |-> "w", text |-> <<97>>], [names |-> {"t", "a"}, type |-> "w", text |-> <<98>>], [names |-> {"t"}, type |-> "p", text |-> <<97, 32, 98>>]}

MCRtIdx == WordLines("letters") \o PhraseLines("articles") \o <<Line("sort", <<"s">>), Line("entrysize", <<40>>), Line("staticrank", <<"r">>)>>
\* 1 is kept in the register, 2 and 3 are files; 4 has no filter any more.
MCRtDocs ==
  << <<Fld(<<97, 32, 66, 32, 35, 97>>, <<To("t", "w"), To("a", "w"), To("t", "p"), To("t", "s")>>)>>,
     <<Fld(<<98, 32, 97, 38>>, <<To("t", "w"), To("a", "w"), To("t", "s")>>), Fld(<<97, 32, 97>>, <<To("t", "w"), To("t", "p")>>), Fld(<<49, 48>>, <<To("t", "r")>>)>>,
     <<Fld(<<65, 32, 98, 32, 98, 32, 98, 32, 98, 32, 98, 32, 98, 32, 97>>, <<To("t", "w"), To("t", "s")>>)>>,
     <<Fld(<<97, 97>>, <<To("a", "w"), To("t", "s")>>), Fld(<<97, 32, 99>>, <<To("t", "w")>>)>> >>
MCRtTypes == <<"dom", "dom", "dom", "other">>
MCRtAsks == {[names |-> {"t"}, type |-> "w", text |-> <<97>>], [names |-> {"t", "a"}, type |-> "w", text |-> <<98>>], [names |-> {"t"}, type |-> "w", text |-> <<49>>]}
El(elem, spec) == [elem |-> elem, spec |-> spec, ok |-> TRUE]
Sp(name, type, extra) == [name |-> name, type |-> type, extra |-> extra]
MCRtElems ==
  {El(e, <<>>) : e \in {"record", "facet", "snippet", "meta::sysno", "index", "data", "meta", "nonsense"}}
  \cup {El("index", <<s>>) : s \in {Sp("t", "", 0), Sp("t", "s", 0), Sp("a", "w", 0), Sp("z", "w", 0)}}
  \cup {El("facet", f) : f \in {<<Sp("t", "w", 0)>>, <<Sp("t", "w", 1)>>, <<Sp("t", "w", 2), Sp("a", "w", -1)>>, <<Sp("t", "s", 2)>>, <<Sp("t", "s", 0), Sp("t", "w", 2)>>, <<Sp("t", "", 0)>>, <<Sp("z", "w", 0)>>}}
  \cup {[El(e, <<>>) EXCEPT !.ok = FALSE] : e \in {"index", "facet"}}
MCRtSpans == {<<4>>, <<3, 1>>, <<2, 9>>, <<1, 5, 2>>}
=============================================================================
