------------------------------- MODULE MCRpn -------------------------------
(***************************************************************************)
(* Constants of RpnSearch, RpnScan and Grep for model checking: a register of a few *)
(* records with the index that extraction makes of it, and the queries,    *)
(* each with what it means.                                                *)
(***************************************************************************)
EXTENDS RpnScan

A == 40
B == 41
C == 42
UpA == 43
MCMaxChar == 43
MCCmap == [c \in 0..MCMaxChar |-> IF c = UpA THEN A ELSE IF c = Space THEN ChrSpace ELSE c]
MCZMap == [c \in 0..MCMaxChar |->
              [to |-> MCCmap[c], q |-> c \in {A, B, C, UpA, Minus} \cup DigitChars]]

(***************************************************************************)
(* Records.                                                                *)
(***************************************************************************)
Joined(ws) == FoldLeft(LAMBDA all, w : IF all = <<>> THEN w ELSE all \o <<ChrSpace>> \o w, <<>>, ws)
Elem(path, start, stop, attrs) == [path |-> path, start |-> start, stop |-> stop, attrs |-> attrs]
Placed(word, at) == [word |-> word, at |-> at]
Rec(sysno, db, title) ==
    [sysno |-> sysno, db |-> db,
     fields |-> [title |-> title, whole |-> IF title = <<>> THEN <<>> ELSE <<Joined(title)>>],
     body |-> <<>>, units |-> {}, numbers |-> {}, elements |-> <<>>, cdata |-> <<>>]
KisB == <<C, Equal, B>>         \* the attribute c with the value b
Texts == <<
    [Rec(1, "one", <<<<A, B>>, <<B, A>>>>) EXCEPT
        !.body = <<Placed(<<A>>, 2), Placed(<<B>>, 3)>>, !.units = {<<1, 4>>},
        !.elements = <<Elem(<<<<A>>>>, 1, 10, {}), Elem(<<<<A>>, <<B>>>>, 2, 5, {}), Elem(<<<<A>>, <<C>>>>, 6, 9, {KisB})>>,
        !.cdata = <<Placed(<<A, B>>, 3), Placed(<<C>>, 4), Placed(<<B>>, 7)>>],
    [Rec(2, "one", <<<<B, A>>, <<A, B>>>>) EXCEPT
        !.body = <<Placed(<<A>>, 2), Placed(<<B>>, 5)>>, !.units = {<<1, 3>>, <<4, 6>>},
        !.elements = <<Elem(<<<<A>>>>, 1, 10, {KisB}), Elem(<<<<A>>, <<B>>>>, 2, 5, {}), Elem(<<<<A>>, <<C>>>>, 6, 9, {})>>,
        !.cdata = <<Placed(<<A, B>>, 7), Placed(<<C>>, 3)>>],
    [Rec(3, "one", <<<<A>>>>) EXCEPT
        !.elements = <<Elem(<<<<B>>>>, 1, 6, {}), Elem(<<<<B>>, <<A>>>>, 2, 5, {KisB})>>,
        !.cdata = <<Placed(<<A, B>>, 3)>>],
    Rec(4, "one", <<<<A, B, C>>, <<A, B>>, <<A, B, C>>>>),
    Rec(5, "one", <<<<C>>, <<B>>>>),
    Rec(6, "one", <<<<B, C, A>>>>),
    Rec(7, "one", <<>>),
    Rec(8, "two", <<<<A, B>>>>),
    Rec(9, "two", <<<<B, A>>, <<C>>>>)>>
Numbers == <<-20, -13, -10, -9, -3, -1, 0, 1, 5, 8, 9, 10, 11, 12, 19, 20, 21, 89, 90, 99, 100, 101, 110, 999>>
NumberRecs == [i \in DOMAIN Numbers |-> [Rec(20 + i, "one", <<>>) EXCEPT !.numbers = {Numbers[i]}]]
AllRecs == Texts \o NumberRecs \o <<[Rec(50, "one", <<>>) EXCEPT !.numbers = {5, 12}]>>
MCRpnRecords == Range(AllRecs)
MCRpnSysnos == {r.sysno : r \in MCRpnRecords}

(***************************************************************************)
(* The index: entries [word, key] of each of the indexes of a database.    *)
(***************************************************************************)
Idx(db, cat, type, name, ord) == [db |-> db, cat |-> cat, type |-> type, name |-> name, ord |-> ord]
MCRpnIndexes == {
    Idx("one", "index", "w", "title", 1), Idx("two", "index", "w", "title", 4),
    Idx("one", "index", "p", "title", 16), Idx("one", "alwaysmatches", "w", "title", 5),
    Idx("one", "index", "n", "number", 20), Idx("one", "index", "w", "body", 6),
    Idx("one", "index", "0", "paragraph", 7), Idx("one", "index", "0", "begin", 17),
    Idx("one", "index", "0", "end", 8), Idx("one", "index", "0", "attr", 9),
    Idx("one", "index", "w", "cdata", 10)}
Entry(ord, word, r, at) == [word |-> SuEncode(ord) \o word, key |-> <<r.sysno, 0, at>>]
RevPath(path) == FlattenSeq([i \in DOMAIN path |-> path[Len(path) + 1 - i] \o <<Slash>>])
FieldEntries(ord, mark, field, r) ==
    {Entry(ord, field[i], r, i + 1) : i \in DOMAIN field}
    \cup (IF mark /\ field # <<>> THEN {Entry(ord, FirstInField, r, 1)} ELSE {})
ElemEntries(r) == UNION {
    {Entry(17, RevPath(e.path), r, e.start), Entry(8, RevPath(e.path), r, e.stop)}
    \cup {Entry(9, a, r, e.start) : a \in e.attrs} : e \in Range(r.elements)}
EntriesOf(r) == UNION {
    FieldEntries(IF r.db = "one" THEN 1 ELSE 4, TRUE, r.fields.title, r),
    IF r.db = "one" THEN FieldEntries(16, FALSE, r.fields.whole, r) ELSE {},
    IF r.db = "one" /\ r.fields.title # <<>> THEN {Entry(5, <<>>, r, 1)} ELSE {},
    {Entry(20, SignedChars(n), r, 1) : n \in r.numbers},
    {Entry(6, w.word, r, w.at) : w \in Range(r.body)},
    UNION {{Entry(7, UnitBegin, r, u[1]), Entry(7, UnitEnd, r, u[2])} : u \in r.units},
    ElemEntries(r),
    {Entry(10, w.word, r, w.at) : w \in Range(r.cdata)}}
AllEntries == UNION {EntriesOf(r) : r \in MCRpnRecords}
KeyBefore(k, l) == k[1] < l[1] \/ (k[1] = l[1] /\ k[3] < l[3])
\* Sequences are put together by appending, so that they are evaluated once.
SortedBy(s, Before(_, _)) ==
    FoldLeft(LAMBDA out, i : Append(out, CHOOSE x \in s : Cardinality({y \in s : Before(y, x)}) = i - 1),
             <<>>, [i \in 1..Cardinality(s) |-> i])
ListFor(entries, word) == SortedBy({e.key : e \in {e \in entries : e.word = word}}, KeyBefore)
Indexed(entries) ==
    FoldLeft(LAMBDA out, w : Append(out, [word |-> w, list |-> ListFor(entries, w)]), <<>>,
             SortedBy({e.word : e \in entries}, WordLess))
MCRpnWords == Indexed(AllEntries)
MCRpnRefs == [s \in {"s"} |-> << <<2, 0, 1>>, <<4, 0, 1>>, <<4, 0, 3>>, <<8, 0, 1>> >>]
MCRpnAttset == [n \in {4, 5} |-> IF n = 4 THEN "title" ELSE "nowhere"]

(***************************************************************************)
(* Queries.                                                                *)
(***************************************************************************)
Lit(c) == [k |-> "lit", c |-> c]
Lits(w) == [i \in DOMAIN w |-> Lit(w[i])]
AnyTok == [k |-> "any", c |-> 99]
OneTok == [k |-> "one", c |-> 0]
UpToN(n) == [k |-> "upto", c |-> n]
Named(name) == [num |-> -1, name |-> name, path |-> <<>>]
Meaning == [kind |-> "words", field |-> "title", words |-> <<>>, errors |-> 0, numbers |-> {}, sysno |-> 0,
            steps |-> <<>>, deep |-> FALSE, prefixes |-> TRUE]
Apt == [op |-> "apt", s |-> <<>>, use |-> Named("title"), rel |-> 3, pos |-> -1, str |-> 1, trunc |-> 100,
        comp |-> -1, sort |-> -1, max |-> 99, unsup |-> -1, mean |-> Meaning]
Spaced(ws) == FoldLeft(LAMBDA all, w : all \o w \o <<Space>>, <<>>, ws)
\* Words as they are, with their meaning.
Words(ws) == [Apt EXCEPT !.s = Spaced(ws), !.mean.words = [i \in DOMAIN ws |-> Lits(ws[i])]]
AB == <<A, B>>
BA == <<B, A>>
OneWord == {AB, BA, <<A>>, <<B, C, A>>, <<C>>, <<A, C>>}
Relation == {[Words(<<w>>) EXCEPT !.rel = rel] : w \in OneWord \cup {<<B, B>>, <<A, B, C>>}, rel \in {1, 2, 3, 4, 5, 102, -1}}
Cut(w, trunc) == [Words(<<w>>) EXCEPT !.trunc = trunc,
    !.mean.words = << (IF trunc \in {2, 3} THEN <<AnyTok>> ELSE <<>>) \o Lits(w) \o (IF trunc \in {1, 3} THEN <<AnyTok>> ELSE <<>>) >>]
\* A token as it is written under a kind of truncation.
Render(trunc, t) ==
    CASE t.k = "lit" -> <<IF t.c = A THEN UpA ELSE t.c>>
      [] t.k = "any" -> (CASE trunc = 101 -> <<Hash>> [] trunc = 102 -> AnyChars [] OTHER -> <<Star>>)
      [] t.k = "one" -> (CASE trunc = 102 -> <<Dot>> [] trunc = 104 -> <<Hash>> [] OTHER -> <<Bang>>)
      [] OTHER -> <<Quest, Digit(t.c)>>
Toks == {<<Lit(A), AnyTok>>, <<AnyTok, Lit(A)>>, <<Lit(A), AnyTok, Lit(C)>>, <<AnyTok, Lit(C), AnyTok>>,
         <<OneTok, Lit(A)>>, <<Lit(A), OneTok>>, <<Lit(B), OneTok, Lit(A)>>, <<UpToN(1), Lit(A)>>, <<Lit(A), UpToN(2)>>, <<Lit(A), Lit(B)>>}
HasTok(ts, k) == \E i \in DOMAIN ts : ts[i].k = k
Can(trunc, ts) == /\ HasTok(ts, "one") => trunc # 101
                  /\ HasTok(ts, "upto") => trunc = 104
Tokened(trunc, ts) ==
    [Apt EXCEPT !.trunc = trunc, !.s = FlattenSeq([i \in DOMAIN ts |-> Render(trunc, ts[i])]),
        !.mean.words = <<IF trunc = 105 THEN Append(ts, AnyTok) ELSE ts>>]
Patterns == {Tokened(p[1], p[2]) : p \in {p \in {101, 102, 104, 105, 106} \X Toks : Can(p[1], p[2])}}
Approx == {[Words(<<w>>) EXCEPT !.trunc = 103, !.s = (IF n = 1 THEN <<>> ELSE <<Plus, Digit(n), Plus>>) \o w, !.mean.errors = n] :
              w \in {<<A, B, C>>, <<B, C, A>>, <<A, C, A>>}, n \in {0, 1, 2}}
Several == {<<AB, BA>>, <<BA, AB>>, <<AB, <<A, B, C>>>>, <<AB, <<C>>>>}
Lists == {[Words(ws) EXCEPT !.str = str, !.pos = pos] : ws \in Several \cup {<<AB>>, <<BA>>}, str \in {1, 6, 105, 999}, pos \in {-1, 1, 3}}
\* A whole field: spaces between the words count once.
Whole == {[Apt EXCEPT !.s = Spaced([i \in DOMAIN ws |-> more \o ws[i]]), !.comp = 3, !.trunc = t,
             !.mean.field = "whole", !.mean.words = <<Lits(Joined(ws)) \o (IF t = 1 THEN <<AnyTok>> ELSE <<>>)>>] :
             ws \in {<<AB>>, <<AB, BA>>, <<<<A, B, C>>, AB>>}, more \in {<<>>, <<Space>>}, t \in {100, 1}}
Number(n, rel) == [Apt EXCEPT !.s = SignedChars(n), !.str = 109, !.use = Named("number"), !.rel = rel,
                      !.mean.kind = "numbers", !.mean.numbers = {n}]
Numeric == {Number(n, rel) : n \in {-19, -13, -10, -9, -1, 0, 1, 5, 9, 10, 11, 19, 20, 90, 99, 100, 500}, rel \in {1, 2, 3, 4, 5}}
    \cup {[Number(5, 3) EXCEPT !.s = <<Digit(5), Space, Digit(1), Digit(2)>>, !.mean.numbers = {5, 12}]}
Locals == {[Apt EXCEPT !.str = 107, !.s = Chars(<<n>>), !.mean.kind = "local", !.mean.sysno = n] : n \in {0, 4, 8}}
Always == [Apt EXCEPT !.rel = 103, !.s = AB, !.mean.kind = "all"]
Truncs == {Cut(w, t) : w \in {AB, BA, <<A>>, <<C>>}, t \in {1, 2, 3}}
Many == {[Cut(<<A>>, 3) EXCEPT !.max = m] : m \in {1, 2, 3, 4, 5, 6}}

\* Paths.
Tok(k) == [k |-> k, s |-> <<>>]
Name(s) == [k |-> "name", s |-> s]
Stp(name, attr) == [name |-> name, attr |-> attr]
PathTok(step) == <<Tok("/"), Name(step.name)>>
    \o (IF step.attr = <<>> THEN <<>> ELSE <<Tok("["), Name(<<At, step.attr[1]>>), Tok("op"), Name(<<step.attr[3]>>), Tok("]")>>)
Path(steps, deep) ==
    [num |-> -1, name |-> "/path", path |-> (IF deep THEN <<Tok("/")>> ELSE <<>>) \o FlattenSeq([i \in DOMAIN steps |-> PathTok(steps[i])])]
InPath(steps, deep, rel) ==
    [Words(<<AB>>) EXCEPT !.use = Path(steps, deep), !.rel = rel, !.mean.kind = "path", !.mean.steps = steps, !.mean.deep = deep]
\* Conditions in brackets that are more than one comparison are not looked at.
KisBToks == <<Name(<<At, C>>), Tok("op"), Name(<<B>>)>>
InBrackets(toks) == <<Tok("/"), Name(<<A>>), Tok("/"), Name(<<C>>), Tok("[")>> \o toks \o <<Tok("]")>>
Bracketed == {<<KisB, InBrackets(<<Tok("(")>> \o KisBToks \o <<Tok(")")>>)>>,
              <<<<>>, InBrackets(KisBToks \o <<Tok("and")>> \o KisBToks)>>,
              <<<<>>, InBrackets(<<Tok("("), Name(<<At, B>>)>>)>>}
Stps(name) == {Stp(name, <<>>), Stp(name, KisB)}
Paths == {<<a>> : a \in Stps(<<A>>) \cup Stps(<<B>>)} \cup {<<a, b>> : a \in Stps(<<A>>), b \in Stps(<<B>>) \cup Stps(<<C>>) \cup Stps(<<Star>>)}
         \cup {<<Stp(<<B>>, <<>>), Stp(<<A>>, <<>>)>>}
Xpath == {InPath(p, FALSE, 3) : p \in Paths} \cup {InPath(<<Stp(n, <<>>)>>, TRUE, 3) : n \in {<<A>>, <<B>>, <<C>>}}
    \cup {[InPath(<<Stp(<<A>>, <<>>), Stp(<<C>>, a[1])>>, FALSE, 3) EXCEPT !.use.path = a[2]] : a \in Bracketed}
    \cup {InPath(p, FALSE, 103) : p \in {<<Stp(<<A>>, <<>>)>>, <<Stp(<<B>>, <<>>), Stp(<<A>>, <<>>)>>}}

OneQ == {Words(<<AB>>), Words(<<AB, BA>>), Cut(<<B>>, 1), [op |-> "ref", name |-> "s"], Words(<<<<C>>>>)}
Op(op, l, r) == [op |-> op, l |-> l, r |-> r]
Bool == {Op(op, l, r) : op \in {"and", "or", "not"}, l \in OneQ, r \in OneQ}
Nested == {Op(op, l, r) : op \in {"and", "or", "not"}, l \in {Op(o, Words(<<AB>>), Words(<<BA>>)) : o \in {"and", "or", "not"}},
                          r \in {Words(<<<<C>>>>), [op |-> "ref", name |-> "s"], Op("or", Words(<<<<A>>>>), Words(<<<<C>>>>))}}
InBody(w) == [Words(<<w>>) EXCEPT !.use = Named("body")]
Prox(l, r, unit) == [op |-> "prox", l |-> l, r |-> r, unit |-> unit, ordered |-> TRUE, exclusion |-> FALSE, relation |-> 3, distance |-> 1]
Proxes == {Prox(InBody(<<A>>), InBody(<<B>>), u) : u \in {2, 4}}

Search(q, bases, err) == [q |-> q, bases |-> bases, err |-> err]
One1 == <<"one">>
Both2 == <<"one", "two">>
Right == {Search(q, One1, 0) : q \in Relation \cup Truncs \cup Patterns \cup Approx \cup Lists \cup Whole \cup Numeric
                                     \cup Locals \cup {Always} \cup Many \cup Xpath \cup Bool \cup Nested \cup Proxes}
    \cup {Search(q, b, 0) : q \in Truncs \cup Locals \cup Bool, b \in {Both2, <<>>}}
\* What is not supported, alone and after sets were made for another operand, word or database.
Bad1 == {Search([Words(<<AB>>) EXCEPT !.rel = 6], One1, UnsuppRelation),
        Search([Words(<<AB>>) EXCEPT !.trunc = 99], One1, UnsuppTruncation),
        Search([Number(5, 3) EXCEPT !.rel = 7], One1, UnsuppRelation),
        Search([Words(<<AB, BA>>) EXCEPT !.pos = 9], One1, UnsuppPosition),
        Search([Words(<<AB, BA>>) EXCEPT !.pos = 1, !.str = 6, !.comp = 2], One1, UnsuppPosition),
        Search([Words(<<AB>>) EXCEPT !.use = [Named("") EXCEPT !.num = 7]], One1, UnsuppUse),
        Search([Words(<<AB>>) EXCEPT !.use = [Named("") EXCEPT !.num = 5]], One1, UnsuppUse),
        Search([Always EXCEPT !.use = Named("body")], One1, UnsuppRelation),
        Search([Words(<<AB>>) EXCEPT !.use = Named("")], One1, UnsuppUse),
        Search([InPath(<<Stp(<<A>>, <<>>)>>, FALSE, 3) EXCEPT !.pos = 1], One1, UnsuppUse),
        Search(Words(<<AB>>), <<"one", "none">>, NoDatabase),
        Search(Always, Both2, UnsuppRelation),
        Search([op |-> "ref", name |-> "t"], One1, NoSuchSet),
        Search(Prox(InBody(<<A>>), InBody(<<B>>), 3), One1, UnsuppProxUnit),
        Search(Prox(InBody(<<A>>), InBody(<<B>>), 11), One1, UnsuppProxUnit)}
Wrong == Bad1
    \cup {Search(Op(op, Op(o, Words(<<AB>>), Words(<<BA>>)), b.q), b.bases, b.err) : op \in {"and", "not"}, o \in {"and", "or"}, b \in {b \in Bad1 : b.bases = One1}}
    \cup {Search(Op("or", b.q, Words(<<AB>>)), b.bases, b.err) : b \in {b \in Bad1 : b.bases = One1}}
Quiet == {Search([Words(<<AB>>) EXCEPT !.use = [Named("") EXCEPT !.num = 5], !.unsup = 1, !.mean.kind = "none"], One1, 0),
          Search([Words(<<AB>>) EXCEPT !.use = [Named("") EXCEPT !.num = 4]], One1, 0),
          Search(Op("or", Words(<<AB>>), [Words(<<<<Digit(2)>>>>) EXCEPT !.sort = 1]), One1, 0)}
MCRpnQueries == Right \cup Wrong \cup Quiet

(***************************************************************************)
(* Scans of titles, with the term in the form of the index in start.       *)
(***************************************************************************)
ScanFor(start, bases, position, num, set, err) ==
    [apt |-> [Apt EXCEPT !.s = start], start |-> TransScanTerm(start), bases |-> bases, position |-> position,
     num |-> num, set |-> set, err |-> err]
MCScanAsks ==
    {ScanFor(s, b, p, n, set, 0) : s \in {<<>>, <<A>>, AB, <<Space, UpA, C, Space>>, <<B, A>>, <<C, C>>},
        b \in {One1, Both2, <<"two">>}, p \in -2..6, n \in 0..4, set \in {"-", "s"}}
    \cup {ScanFor(AB, One1, 1, 3, "t", NoSuchSet), ScanFor(AB, <<"one", "none">>, 1, 3, "-", NoDatabase),
          ScanFor(AB, <<"one", "two", "one">>, 1, 3, "-", TooManyDatabases),
          [ScanFor(AB, One1, 1, 3, "-", UnsuppUse) EXCEPT !.apt.use = Named("nowhere")],
          [ScanFor(AB, One1, 1, 3, "-", UnsuppAttrType) EXCEPT !.apt.str = 999]}

(***************************************************************************)
(* Grep: patterns with the words they stand for.                           *)
(***************************************************************************)
GrLetters == {A, B, C}
GrShort(ws) == {w \in ws : Len(w) <= 5}
Gr(pat, lang, prec) == [pat |-> pat, lang |-> lang, prec |-> prec]
GrPar(x, n) == IF x.prec < n THEN <<OpenPar>> \o x.pat \o <<ClosePar>> ELSE x.pat
GrCat(x, y) == Gr(GrPar(x, 2) \o GrPar(y, 3), GrShort({v \o w : v \in x.lang, w \in y.lang}), 2)
GrAlt(x, y) == Gr(GrPar(x, 1) \o <<Bar>> \o GrPar(y, 2), x.lang \cup y.lang, 1)
GrTimes(l) == FoldLeft(LAMBDA all, i : GrShort({v \o w : v \in all, w \in l}) \cup all, l, <<1, 2, 3, 4>>)
GrPlus(x) == Gr(GrPar(x, 4) \o <<Plus>>, GrTimes(x.lang), 3)
GrStar(x) == Gr(GrPar(x, 4) \o <<Star>>, GrTimes(x.lang) \cup {<<>>}, 3)
GrOpt(x) == Gr(GrPar(x, 4) \o <<Quest>>, x.lang \cup {<<>>}, 3)
GrSet(pat, set) == Gr(<<OpenSet>> \o pat \o <<CloseSet>>, {<<c>> : c \in set}, 4)
GrLit(c) == Gr(<<c>>, {<<c>>}, 4)
GrAtoms == {GrLit(A), GrLit(B), GrSet(<<A, B>>, {A, B}), GrSet(<<Hat, B>>, {A, C}), Gr(<<Dot>>, {<<c>> : c \in GrLetters}, 4)}
GrOthers == {GrSet(<<A, Minus>>, {A, B, C}), GrSet(<<Minus, B>>, {A, B}), GrSet(<<A, Minus, B>>, {A, B}), GrSet(<<Escape, A, Minus, Escape, B, C>>, GrLetters),
   Gr(<<Backslash, A>>, {<<A>>}, 4), Gr(<<Escape, B>>, {<<B>>}, 4), Gr(<<Quote, A, B, Quote, C>>, {<<A, B, C>>}, 2),
   Gr(<<Hat, A>>, {<<A>>}, 2), Gr(<<Quote, Star, Quote>>, {}, 4), Gr(<<A, Dollar>>, {}, 4), Gr(<<UpA>>, {<<A>>}, 4), Gr(<<Escape, UpA>>, {}, 4), GrSet(<<UpA, C>>, {A, C})}
GrFew == {GrLit(A), GrSet(<<A, B>>, {A, B}), GrCat(GrLit(A), GrLit(B)), GrAlt(GrLit(B), GrCat(GrLit(A), GrLit(C)))}
GrClosures(x) == {GrStar(x), GrPlus(x), GrOpt(x)}
GrReps == UNION {GrClosures(x) : x \in GrFew}
GrRegs == GrOthers \cup {GrCat(x, y) : x \in GrReps, y \in GrFew \cup GrReps} \cup {GrAlt(x, y) : x \in GrReps, y \in GrFew} \cup {GrCat(x, y) : x \in GrAtoms, y \in GrAtoms}
   \cup UNION {GrClosures(GrCat(x, y)) : x \in GrAtoms, y \in GrReps}
GrAsk(x, range, init, stop) == [pattern |-> x.pat, lang |-> x.lang, range |-> range, init |-> init, stop |-> stop, ok |-> TRUE]
GrBad(pat) == [pattern |-> pat, lang |-> {}, range |-> 0, init |-> 0, stop |-> 9, ok |-> FALSE]
MCGrepAsks == {GrAsk(x, 0, 0, 99) : x \in GrRegs} \cup {GrAsk(x, n, i, 99) : x \in GrReps \cup {GrCat(x, y) : x \in GrFew, y \in GrFew}, n \in {1, 2}, i \in {0, 1}}
  \cup {GrAsk(x, 0, 0, 2) : x \in GrReps}
  \cup {GrBad(p) : p \in {<<>>, <<A, Star, Star>>, <<OpenPar, A>>, <<A, ClosePar>>, <<Bar, A>>, <<A, Space, B>>, <<OpenPar, ClosePar>>}}
\* Dictionaries of all words up to three letters, in one page and in several.
GrStr(w) == [str |-> w, ch |-> 0, word |-> TRUE, sub |-> <<>>]
GrSub(c, sub, word) == [str |-> <<>>, ch |-> c, word |-> word, sub |-> sub]
GrThree == <<A, B, C>>
GrTwo == FoldLeft(LAMBDA p, c : p \o <<GrStr(<<c>>)>> \o FoldLeft(LAMBDA q, d : q \o <<GrStr(<<c, d>>)>>, <<>>, GrThree), <<>>, GrThree)
GrTree == <<GrSub(A, GrTwo, TRUE), GrSub(B, <<GrSub(A, <<GrStr(<<B>>)>>, TRUE), GrStr(<<B, B>>), GrSub(C, <<GrStr(<<C, C>>)>>, FALSE)>>, FALSE), GrStr(<<C>>), GrStr(<<C, A, B>>), GrStr(<<C, C>>)>>
MCGrepPages == {GrTree, GrTwo}

=============================================================================
