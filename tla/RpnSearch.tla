----------------------------- MODULE RpnSearch -----------------------------
(***************************************************************************)
(* A search: how a query becomes a tree of result sets (rpnsearch.c from   *)
(* search_term on), with the attributes that choose the index              *)
(* (attribute.c), the kind of search (zebra_maps_attr) and the paths into  *)
(* records (xpath.c).  What the tree returns is shown by RSets.            *)
(*                                                                         *)
(* A query is an apt, a reference to a set, or two queries with an         *)
(* operator.  An apt has the term s and the attributes use (1, a number,   *)
(* a name or a path), rel (2), pos (3), str (4), trunc (5), comp (6), sort *)
(* (7), max (13) and unsup (14); -1 is none.                               *)
(***************************************************************************)
EXTENDS RpnTerm, TempSets

CONSTANTS
    RpnWords,       \* the dictionary: [word, list], the list of its keys
    RpnIndexes,     \* the explain database: [db, cat, type, name, ord]
    RpnBases,       \* the databases
    RpnAttset,      \* the name of a numeric use attribute
    RpnRefs,        \* the sets that a query may refer to: their keys by name
    FirstMaps,      \* index types whose map has first_in_field
    RpnSysnos,      \* the records of the register
    TruncLimit,     \* trunclimit
    MaxSteps,       \* the steps of a path (MAX_XPATH_STEPS)
    RpnRecords,     \* what the records hold, for the properties
    RpnQueries      \* the searches: [q, bases, err], err the diagnostic expected

VARIABLES
    rpnReg,         \* the dictionary of the register that is open, RpnWords, or <<>>
    rpnAsk,         \* the search that was made, or <<>>
    rpnGot          \* what came of it

rpnVars == <<rpnReg, rpnAsk, rpnGot>>

RpnPage == [i \in DOMAIN rpnReg |-> [str |-> rpnReg[i].word, ch |-> 0, word |-> TRUE, sub |-> <<>>]]
ListOf(word) == rpnReg[CHOOSE i \in DOMAIN rpnReg : rpnReg[i].word = word].list
InDict(word) == \E i \in DOMAIN rpnReg : rpnReg[i].word = word

(***************************************************************************)
(* A search in progress: the sets that belong to the functions that run,   *)
(* the latest last, how many were made and how many are gone again, the    *)
(* database that is current in the explain database, the error, whether    *)
(* terms were left out, and the sort criteria.                             *)
(***************************************************************************)
RpnStart == [sets |-> <<>>, made |-> 0, gone |-> 0, db |-> "-", err |-> 0, partial |-> FALSE,
             specs |-> <<>>]
Ok(x) == x.err = 0
Fail(x, err) == [x EXCEPT !.err = err]
Top(x) == Last(x.sets)
Count(x) == Len(x.sets)

RECURSIVE RsSize(_)
RsSize(t) == FoldLeft(LAMBDA n, k : n + RsSize(k), 1, t.kids)
RsSizes(ts) == FoldLeft(LAMBDA n, t : n + RsSize(t), 0, ts)

NewLeaf(x, t) == [x EXCEPT !.sets = Append(@, t), !.made = @ + RsSize(t)]
\* A set takes over the sets after the first n; own is what it adds to their number.
NewOver(x, n, t, own) == [x EXCEPT !.sets = Append(SubSeq(@, 1, n), t), !.made = @ + own]
DeleteBetween(x, n, m) ==
    [x EXCEPT !.gone = @ + RsSizes(SubSeq(x.sets, n + 1, m)),
              !.sets = SubSeq(@, 1, n) \o SubSeq(@, m + 1, Len(@))]
DeleteTo(x, n) == DeleteBetween(x, n, Count(x))
Forget(x, n) == [x EXCEPT !.sets = SubSeq(@, 1, n)]     \* nobody has them any more
RsOver(x, op, n) == RsBase(op, SubSeq(x.sets, n + 1, Count(x)), 2)
Combined(x, op, n) == NewOver(x, n, RsOver(x, op, n), 1)
NullSet(x) == NewLeaf(x, RsBase("isam", <<>>, 2))
IsamSet(list, term) == [RsBase("isam", <<>>, 2) EXCEPT !.list = list, !.term = term]

\* rset_trunc: the term of a set is numbered by the sets made so far.
RsetTrunc(x, words, preserve) ==
    LET lists == [i \in DOMAIN words |-> ListOf(words[i])]
        term == x.made + 1
    IN  IF Len(words) = 1 THEN NewLeaf(x, IsamSet(lists[1], term))
        ELSE IF Len(words) > 1 /\ Len(words) < TruncLimit
        THEN NewLeaf(x, [RsBase("or", [i \in DOMAIN lists |-> IsamSet(lists[i], 0)], 2) EXCEPT !.term = term])
        ELSE NewLeaf(x, IsamSet(TruncR(lists, preserve), term))

(***************************************************************************)
(* attribute.c and zebra_maps_attr.                                        *)
(***************************************************************************)
\* Diagnostics of Bib-1.
UnsuppUse == 114
UnsuppRelation == 117
UnsuppPosition == 119
UnsuppTruncation == 120
UnsuppProxUnit == 132
NoSuchSet == 128
NoDatabase == 235

LookupAttr(db, cat, type, name) ==
    LET found == {i \in RpnIndexes : i.db = db /\ i.cat = cat /\ i.type = type /\ i.name = name}
    IN  IF found = {} THEN -1 ELSE (CHOOSE i \in found : TRUE).ord
UseName(use) == IF use.num >= 0 THEN RpnAttset[use.num]
                ELSE IF use.name = "" THEN "any" ELSE use.name
OrdOf(err, ord) == [err |-> err, ord |-> ord]
AttrListOrd(x, apt, cat, type) ==
    IF apt.use.num >= 0 /\ apt.use.num \notin DOMAIN RpnAttset THEN OrdOf(UnsuppUse, -1)
    ELSE LET ord == LookupAttr(x.db, cat, type, UseName(apt.use))
         IN  OrdOf(IF ord = -1 /\ apt.unsup # 1 THEN UnsuppUse ELSE 0, ord)
CatOf(apt) == IF apt.rel = 103 THEN "alwaysmatches" ELSE "index"
AptOrd(x, apt, type, xuse) ==
    LET o == AttrListOrd(x, apt, CatOf(apt), type)
        ord == LookupAttr(x.db, CatOf(apt), type, xuse)
    IN  IF xuse # "" THEN OrdOf(IF ord = -1 THEN UnsuppUse ELSE 0, ord)
        ELSE IF o.err # 0 /\ apt.rel = 103 /\ AttrListOrd(x, apt, "index", type).err = 0
        THEN OrdOf(UnsuppRelation, -1) ELSE o

\* A structure that is not known is searched like a phrase: nobody looks at the
\* result of zebra_maps_attr.
CompleteFlag(apt) == apt.comp \in {2, 3}
IndexType(apt) ==
    CASE apt.str = 107 -> "" [] apt.str = 109 -> "n" [] apt.str = 104 -> "u" [] apt.str = 3 -> "0"
      [] apt.str = 4 -> "y" [] apt.str = 5 -> "d"
      [] OTHER -> IF CompleteFlag(apt) THEN "p" ELSE "w"
SearchType(apt) ==
    CASE apt.str = 6 -> "and-list" [] apt.str \in {105, 106} -> "or-list" [] apt.str = 107 -> "local"
      [] apt.str = 109 -> "numeric" [] OTHER -> "phrase"

(***************************************************************************)
(* The words of a term.                                                    *)
(***************************************************************************)
\* Word after word, until the term ends; the sets of words before one that fails
\* are deleted.
RECURSIVE TermsLoop(_, _, _, _, _)
TermSet(x, apt, ord, e, g) == RsetTrunc([x EXCEPT !.partial = @ \/ g.partial], g.words, apt.str # 109)
TermFound(x, apt, ord, e) ==
    TermSet(x, apt, ord, e, FoundWords(GrepTerm(apt.max, ord, e, IF apt.str = 109 THEN 0 ELSE Len(SuEncode(ord)), RpnPage)))
TermsNext(x, n, apt, ord, e) ==
    CASE e.is = "error" ->
            DeleteTo(Fail(x, IF apt.trunc \in {-1, 100} \/ apt.str = 109 THEN UnsuppRelation ELSE UnsuppTruncation), n)
      [] e.is = "none" -> x
      [] OTHER -> TermsLoop(TermFound(x, apt, ord, e), n, apt, ord, e.s)
WordExpr(apt, s) == IF apt.str = 109 THEN NumericExpression(apt, s)
                ELSE TermExpression([rel |-> apt.rel, trunc |-> apt.trunc, complete |-> CompleteFlag(apt)], s)
\* The loop ends after the word that ends the term, so that there is one at least.
TermsLoop(x, n, apt, ord, s) ==
    IF s = <<>> /\ Count(x) > n THEN x ELSE TermsNext(x, n, apt, ord, WordExpr(apt, s))
SearchTerms(x, apt, o) == IF o.err # 0 THEN Fail(x, o.err) ELSE TermsLoop(x, Count(x), apt, o.ord, apt.s)

\* The set of the marks in front of fields, for position 1 and 2: none if there is
\* no mark.
PositionErr(x, apt, o) ==
    IF apt.pos \in {-1, 3} THEN 0
    ELSE IF apt.pos \notin {1, 2} \/ IndexType(apt) \notin FirstMaps THEN UnsuppPosition
    ELSE o.err
FirstWord(o) == SuEncode(o.ord) \o FirstInField
HasFirst(apt, o) == apt.pos \in {1, 2} /\ InDict(FirstWord(o))
FirstSet(o) == IsamSet(ListOf(FirstWord(o)), 0)

\* Sets of a phrase are in a row, after the mark if there is one; of a list each.
Phrase(kids) == RsBase("prox", kids, 2)
WithFirst(x, n, first) ==
    [x EXCEPT !.sets = SubSeq(@, 1, n) \o <<first>> \o SubSeq(@, n + 1, Len(@)), !.made = @ + 1]
EachFirst(x, n, first) ==
    [x EXCEPT !.sets = [i \in DOMAIN @ |-> IF i > n THEN Phrase(<<first, @[i]>>) ELSE @[i]],
              !.made = @ + 2 * (Count(x) - n)]
OneSet(x, n, op) ==
    CASE Count(x) = n -> NullSet(x) [] Count(x) = n + 1 -> x [] OTHER -> Combined(x, op, n)
OpOf(search) == CASE search = "phrase" -> "prox" [] search = "or-list" -> "or" [] OTHER -> "and"
Positioned(x, n, apt, o) ==
    IF Count(x) = n \/ SearchType(apt) = "numeric" THEN x
    ELSE IF PositionErr(x, apt, o) # 0 THEN DeleteTo(Fail(x, PositionErr(x, apt, o)), n)
    ELSE IF ~HasFirst(apt, o) THEN x
    ELSE IF SearchType(apt) = "phrase" THEN WithFirst(x, n, FirstSet(o)) ELSE EachFirst(x, n, FirstSet(o))
Finished(x, n, apt) == IF Ok(x) THEN OneSet(x, n, OpOf(SearchType(apt))) ELSE x
ListSearch(x, n, apt, o) == IF Ok(x) THEN Finished(Positioned(x, n, apt, o), n, apt) ELSE x
SearchList(x, apt, xuse) ==
    ListSearch(SearchTerms(x, apt, AptOrd(x, apt, IndexType(apt), xuse)), Count(x), apt,
               AptOrd(x, apt, IndexType(apt), ""))
SearchLocal(x, apt) ==
    LET sysno == DigitsAt(apt.s, 0).n
    IN  IF sysno \in RpnSysnos THEN NewLeaf(x, IsamSet(<< <<sysno, 0, 1>> >>, 0)) ELSE NullSet(x)

(***************************************************************************)
(* Paths.  A path is a sequence of tokens [k, s]: "/", "[", "]", "(", ")", *)
(* "and", "or", "not", "op" and "name" with its characters.                *)
(***************************************************************************)
\* The steps of a path, and what is in brackets after one: a relation on an
\* attribute, or a combination of them, which a search does not use.
HeadIs(p, k) == p # <<>> /\ Head(p).k = k
RECURSIVE Predicate(_, _), PredicateRest(_)
RelationAt(p) ==
    IF Len(p) > 2 /\ p[2].k = "op"
    THEN [ok |-> TRUE, is |-> "rel", name |-> p[1].s, value |-> p[3].s, p |-> SubSeq(p, 4, Len(p))]
    ELSE [ok |-> TRUE, is |-> "rel", name |-> p[1].s, value |-> <<>>, p |-> Tail(p)]
NoPredicate(p) == [ok |-> FALSE, is |-> "none", name |-> <<>>, value |-> <<>>, p |-> p]
GroupEnd(r) == IF HeadIs(r.p, ")") THEN [r EXCEPT !.p = Tail(@)] ELSE NoPredicate(r.p)
PredicateRest(l) ==
    IF ~l.ok \/ l.p = <<>> \/ Head(l.p).k \notin {"and", "or", "not"} THEN l
    ELSE PredicateRest([Predicate("relation", Tail(l.p)) EXCEPT !.ok = TRUE, !.is = "bool"])
Predicate(what, p) ==
    CASE p = <<>> -> NoPredicate(p)
      [] p # <<>> /\ what = "boolean" -> PredicateRest(Predicate("relation", p))
      [] p # <<>> /\ what = "relation" /\ Head(p).k = "(" -> GroupEnd(Predicate("boolean", Tail(p)))
      [] OTHER -> RelationAt(p)

RECURSIVE AfterBracket(_), PathSteps(_, _)
AfterBracket(p) == IF p = <<>> THEN p ELSE IF Head(p).k = "]" THEN Tail(p) ELSE AfterBracket(Tail(p))
PathNext(p, steps) == IF HeadIs(p, "/") THEN PathSteps(Tail(p), steps) ELSE steps
PathStep(part, p, steps) ==
    IF HeadIs(p, "[")
    THEN PathNext(AfterBracket(p), Append(steps, [part |-> part, pred |-> Predicate("boolean", Tail(p))]))
    ELSE PathNext(p, Append(steps, [part |-> part, pred |-> NoPredicate(p)]))
PathSteps(p, steps) ==
    IF p = <<>> \/ Len(steps) = MaxSteps THEN steps
    ELSE IF Head(p).k = "name" THEN PathStep(Head(p).s, Tail(p), steps) ELSE PathStep(<<>>, p, steps)

\* The expression for the elements down to a step, the innermost first.
StarPart(c) == IF c = Star THEN <<OpenSet, Hat, Slash, CloseSet, Star>>
               ELSE IF c = Space THEN <<Escape, Space>> ELSE <<c>>
PartPattern(steps, i) ==
    IF steps[i].part # <<>> THEN FlattenSeq([j \in DOMAIN steps[i].part |-> StarPart(steps[i].part[j])]) \o <<Slash>>
    ELSE IF i = 2 THEN AnyChars ELSE <<>>
XpathRev(steps, level) == FlattenSeq([j \in 1..level - 1 |-> PartPattern(steps, level + 1 - j)])
AttrPattern(pred) ==
    Tail(pred.name) \o <<Equal>> \o FlattenSeq([i \in DOMAIN pred.value |-> Quoted(pred.value[i])])
HasAttr(step) == step.pred.is = "rel" /\ step.pred.name # <<>>

XpathTrunc(x, pat, name) ==
    LET ord == LookupAttr(x.db, "index", "0", name)
        e == [pat |-> pat, range |-> 0]
    IN  IF ord < 0 THEN NullSet(x) ELSE RsetTrunc(x, FoundWords(GrepTerm(99, ord, e, 0, RpnPage)).words, TRUE)

\* The set in x is about the term; the elements of the path are put around it, or
\* are the result if there is none (always).
BetweenKids(x, n, attr) ==
    LET kid(i) == x.sets[n + i]
    IN  IF attr THEN RsBetween(kid(3), kid(4), kid(1), <<>>, <<kid(2)>>, 2)
        ELSE RsBetween(kid(2), kid(3), kid(1), <<>>, <<>>, 2)
Around(x, n, attr) == NewOver(x, n, BetweenKids(x, n, attr), 2)
Latest(x, n) == [x EXCEPT !.sets = Append(SubSeq(@, 1, n), Last(@))]    \* the others are nobody's
Lookup(pat, name) == <<[pat |-> pat, name |-> name]>>
Lookups(steps, level, always) ==
    (IF HasAttr(steps[level]) THEN Lookup(AttrPattern(steps[level].pred), "attr") ELSE <<>>)
    \o (IF XpathRev(steps, level) = <<>> THEN <<>>
        ELSE Lookup(XpathRev(steps, level), "begin")
             \o IF always THEN <<>> ELSE Lookup(XpathRev(steps, level), "end"))
Surround(x, n, m, attr, rev, always) ==
    CASE rev = <<>> -> Forget(x, m)
      [] rev # <<>> /\ always -> Latest(x, n)
      [] OTHER -> Around(x, n, attr)
XpathLevel(x, n, steps, level, always) ==
    IF ~HasAttr(steps[level]) /\ level # Len(steps) THEN x
    ELSE Surround(FoldLeft(LAMBDA y, l : XpathTrunc(y, l.pat, l.name), x, Lookups(steps, level, always)),
                  n, Count(x), HasAttr(steps[level]), XpathRev(steps, level), always)
SearchXpath(x, n, steps, always) ==
    IF ~Ok(x) THEN x
    ELSE FoldLeft(LAMBDA y, i : XpathLevel(y, n, steps, Len(steps) + 1 - i, always), x,
                  [i \in DOMAIN steps |-> i])

(***************************************************************************)
(* rpn_search_database, rpn_search_APT and rpn_search_structure.           *)
(***************************************************************************)
SortSpec(x, apt) ==
    NullSet([x EXCEPT !.specs = Append(@, [at |-> LET i == DigitsAt(apt.s, 0).n IN IF i >= 10 THEN 0 ELSE i,
                                           use |-> apt.use, down |-> apt.sort = 2])])
OnlyPath(apt, xuse) == xuse # "" /\ apt.rel = 103     \* no set for the term
TermPart(x, apt, xuse) ==
    IF OnlyPath(apt, xuse) THEN x
    ELSE IF SearchType(apt) = "local" THEN SearchLocal(x, apt) ELSE SearchList(x, apt, xuse)
SearchDatabase(x, apt, steps, xuse) ==
    IF apt.sort > 0 THEN SortSpec(x, apt)
    ELSE SearchXpath(TermPart(x, apt, xuse), Count(x), steps, OnlyPath(apt, xuse))
XpathUse(steps) == IF steps = <<>> THEN ""
                   ELSE IF Last(steps).part # <<>> /\ Head(Last(steps).part) = At THEN "attrcdata" ELSE "cdata"
StepsOf(apt) == IF HeadIs(apt.use.path, "/") THEN PathSteps(apt.use.path, <<>>) ELSE <<>>
\* After an error the sets of the databases before this one are deleted.
BaseDone(y, n, m) == IF Ok(y) THEN y ELSE DeleteBetween(y, n, m)
InBase(x, n, apt, steps, base) ==
    IF ~Ok(x) THEN x
    ELSE IF base \notin RpnBases THEN DeleteTo(Fail(x, NoDatabase), n)
    ELSE BaseDone(SearchDatabase([x EXCEPT !.db = base], apt, steps, XpathUse(steps)), n, Count(x))
SearchBases(x, apt, bases, steps) ==
    FoldLeft(LAMBDA y, b : InBase(y, Count(x), apt, steps, b), x, bases)
AllBases(x, n) == IF Ok(x) THEN OneSet(x, n, "or") ELSE Forget(x, n)
SearchAPT(x, apt, bases) == AllBases(SearchBases(x, apt, bases, StepsOf(apt)), Count(x))

SearchRef(x, name) ==
    IF name \notin DOMAIN RpnRefs THEN Fail(x, NoSuchSet) ELSE NewLeaf(x, IsamSet(RpnRefs[name], 0))

\* A unit of proximity: both are between its begin and its end.
UnitBegin == <<25>>
UnitEnd == <<26>>
RpnUnits == <<"sentence", "paragraph", "section", "chapter", "document", "element", "subelement", "elementType">>
GroupWord(x, unit, mark) == SuEncode(LookupAttr(x.db, "index", "0", unit)) \o mark
InUnit(x, n, unit) ==
    LET begin == GroupWord(x, unit, UnitBegin)
        end == GroupWord(x, unit, UnitEnd)
    IN  IF LookupAttr(x.db, "index", "0", unit) = -1 \/ ~InDict(begin) \/ ~InDict(end) THEN Fail(x, UnsuppProxUnit)
        ELSE NewOver(x, n, RsBetween(IsamSet(ListOf(begin), x.made + 1), IsamSet(ListOf(end), x.made + 2),
                                     x.sets[n + 1], <<x.sets[n + 2]>>, <<>>, 2), 4)
Proximity(x, n, q) ==
    CASE q.unit = 2 -> NewOver(x, n, [RsOver(x, "prox", n) EXCEPT !.ordered = q.ordered,
                                     !.exclusion = q.exclusion, !.relation = q.relation,
                                     !.distance = q.distance], 1)
      [] q.unit \in 3..10 -> InUnit(x, n, RpnUnits[q.unit - 2])
      [] OTHER -> Fail(x, UnsuppProxUnit)
Combine(x, n, q) == IF q.op = "prox" THEN Proximity(x, n, q) ELSE Combined(x, q.op, n)

\* Operands of one operator within another are left to the outer one.
RECURSIVE Structure(_, _, _, _)
OuterDoesAny(q, parent) == q.op = parent     \* of any operator
OuterDoes(q, parent) == q.op = parent /\ q.op \in {"and", "or"}
Both(x, n, q, parent) ==
    IF ~Ok(x) THEN DeleteTo(x, n) ELSE IF OuterDoes(q, parent) THEN x ELSE Combine(x, n, q)
Second(x, n, q, bases, parent) ==
    IF ~Ok(x) THEN DeleteTo(x, n) ELSE Both(Structure(x, q.r, bases, q.op), n, q, parent)
Structure(x, q, bases, parent) ==
    CASE q.op = "apt" -> SearchAPT(x, q, bases)
      [] q.op = "ref" -> SearchRef(x, q.name)
      [] OTHER -> Second(Structure(x, q.l, bases, q.op), Count(x), q, bases, parent)

SearchTop(x) == IF Ok(x) THEN x ELSE DeleteTo(x, 0)
RpnOpen == rpnReg = <<>> /\ rpnReg' = RpnWords /\ UNCHANGED <<rpnAsk, rpnGot>>
RpnSearchTop(ask) ==
    /\ rpnAsk' = <<ask>>
    /\ rpnGot' = SearchTop(Structure(RpnStart, ask.q, ask.bases, "-"))
    /\ UNCHANGED rpnReg
RpnInit == rpnReg = <<>> /\ rpnAsk = <<>> /\ rpnGot = RpnStart
RpnNext == RpnOpen \/ (rpnReg # <<>> /\ rpnAsk = <<>> /\ \E ask \in RpnQueries : RpnSearchTop(ask))
(***************************************************************************)
(* What a search promises.  An apt carries what it means: mean.kind is     *)
(* "words" (every or, in a list, some of the words), "numbers", "all" or   *)
(* "local"; words are sequences of tokens.                                 *)
(***************************************************************************)
RECURSIVE TokMatch(_, _)
TokMatch(ts, v) ==
    IF ts = <<>> THEN v = <<>>
    ELSE CASE Head(ts).k = "lit" -> v # <<>> /\ Head(v) = Head(ts).c /\ TokMatch(Tail(ts), Tail(v))
           [] Head(ts).k = "one" -> v # <<>> /\ TokMatch(Tail(ts), Tail(v))
           [] OTHER -> \E i \in 0..Min({Head(ts).c, Len(v)}) : TokMatch(Tail(ts), SubSeq(v, i + 1, Len(v)))
LitsOf(ts) == [i \in DOMAIN ts |-> ts[i].c]

RECURSIVE WordLess(_, _)
WordLess(v, w) == w # <<>> /\ (v = <<>> \/ Head(v) < Head(w) \/ (Head(v) = Head(w) /\ WordLess(Tail(v), Tail(w))))

\* Relations go by the order of words.  Without mean.prefixes, the words before a
\* bound are without those that the bound begins with.
WordBefore(apt, v, w) == WordLess(v, w) /\ (apt.mean.prefixes \/ ~IsPrefix(v, w))
WordMeant(apt, ts, v) ==
    LET w == LitsOf(ts)
    IN  CASE apt.rel = 1 -> WordBefore(apt, v, w)
          [] apt.rel = 2 -> v = w \/ WordBefore(apt, v, w)
          [] apt.rel = 4 -> ~WordLess(v, w)
          [] apt.rel = 5 -> WordLess(w, v)
          [] OTHER -> IF apt.trunc = 103 THEN Within(w, v, apt.mean.errors) ELSE TokMatch(ts, v)
NumberMeant(rel, n, m) ==
    CASE rel = 1 -> m < n [] rel = 2 -> m <= n [] rel = 4 -> m >= n [] rel = 5 -> m > n [] OTHER -> m = n

\* Words in a row from i on, and words anywhere; a position asks for the first.
RowMeant(apt, field, i) ==
    /\ i + Len(apt.mean.words) - 1 <= Len(field)
    /\ \A j \in DOMAIN apt.mean.words : WordMeant(apt, apt.mean.words[j], field[i + j - 1])
Starts(apt, field) == IF apt.pos \in {1, 2} THEN DOMAIN field \cap {1} ELSE DOMAIN field
SomeWord(apt, ts, field) == \E i \in Starts(apt, field) : WordMeant(apt, ts, field[i])
FieldMeant(apt, field) ==
    CASE SearchType(apt) = "and-list" -> \A j \in DOMAIN apt.mean.words : SomeWord(apt, apt.mean.words[j], field)
      [] SearchType(apt) = "or-list" -> \E j \in DOMAIN apt.mean.words : SomeWord(apt, apt.mean.words[j], field)
      [] OTHER -> \E i \in Starts(apt, field) : RowMeant(apt, field, i)

\* A path: the names of the steps from the root, or from anywhere (deep), with the
\* attribute that a step asks for; an element is around a word at some place.
NamesMeant(steps, path, deep) ==
    /\ IF deep THEN Len(path) >= Len(steps) ELSE Len(path) = Len(steps)
    /\ \A i \in DOMAIN steps : steps[i].name \in {<<Star>>, path[Len(path) - Len(steps) + i]}
ElementMeant(apt, n, e) ==
    /\ NamesMeant(SubSeq(apt.mean.steps, 1, n), e.path, apt.mean.deep)
    /\ apt.mean.steps[n].attr # <<>> => apt.mean.steps[n].attr \in e.attrs
AroundAt(e, at) == e.start < at /\ at < e.stop
StepsMeant(apt, r, at) ==
    \A n \in DOMAIN apt.mean.steps :
        n = Len(apt.mean.steps) \/ apt.mean.steps[n].attr # <<>> =>
            \E e \in Range(r.elements) : ElementMeant(apt, n, e) /\ AroundAt(e, at)
PathMeant(apt, r) ==
    IF apt.rel = 103 THEN \E e \in Range(r.elements) : ElementMeant(apt, Len(apt.mean.steps), e)
    ELSE \E c \in Range(r.cdata) : WordMeant(apt, apt.mean.words[1], c.word) /\ StepsMeant(apt, r, c.at)

AptMeant(apt, r) ==
    CASE apt.sort > 0 -> FALSE
      [] apt.sort <= 0 /\ apt.mean.kind = "words" -> FieldMeant(apt, r.fields[apt.mean.field])
      [] apt.sort <= 0 /\ apt.mean.kind = "numbers" ->
            \A n \in apt.mean.numbers : \E m \in r.numbers : NumberMeant(apt.rel, n, m)
      [] apt.sort <= 0 /\ apt.mean.kind = "all" -> r.fields[apt.mean.field] # <<>>
      [] apt.sort <= 0 /\ apt.mean.kind = "path" -> PathMeant(apt, r)
      [] apt.sort <= 0 /\ apt.mean.kind = "none" -> FALSE
PlacesOf(apt, r) == {i \in DOMAIN r.body : WordMeant(apt, apt.mean.words[1], r.body[i].word)}
NearMeant(q, r) ==
    \E i \in PlacesOf(q.l, r), j \in PlacesOf(q.r, r) :
        IF q.unit = 2 THEN r.body[j].at = r.body[i].at + 1
        ELSE \E u \in r.units : \A k \in {i, j} : u[1] < r.body[k].at /\ r.body[k].at < u[2]
RECURSIVE Meant(_, _, _)
Meant(q, r, bases) ==
    CASE q.op = "apt" -> IF q.mean.kind = "local" THEN r.sysno = q.mean.sysno /\ bases # {}
                         ELSE r.db \in bases /\ AptMeant(q, r)
      [] q.op = "ref" -> \E k \in Range(RpnRefs[q.name]) : k[1] = r.sysno
      [] q.op = "and" -> Meant(q.l, r, bases) /\ Meant(q.r, r, bases)
      [] q.op = "or" -> Meant(q.l, r, bases) \/ Meant(q.r, r, bases)
      [] q.op = "not" -> Meant(q.l, r, bases) /\ ~Meant(q.r, r, bases)
      [] q.op = "prox" -> NearMeant(q, r)

\* A set of elements around a set of elements (a path with a condition on a step
\* before the last): what it returns is not claimed, see RSets.
SetsInSets(t) == t.op = "between" /\ \E k \in Range(t.kids[1].kids) : k.op = "between"

\* "<" and "<=" of words: string_relation (rpnsearch.c:780-848) leaves out the words
\* that the bound begins with.
LessThan(q) == q.op = "apt" /\ q.rel \in {1, 2} /\ q.mean.kind \in {"words", "path"}
FoundOnly(q) == IF LessThan(q) THEN [q EXCEPT !.mean.prefixes = FALSE] ELSE q
RecordsMeant(q, bases) == {r.sysno : r \in {r \in RpnRecords : Meant(q, r, Range(bases))}}
Returned(t, most) == {h[1] : h \in RsMeaning(t, most, FALSE)}

\* A search returns the records of its databases that its query describes (but for
\* "<" and "<=" with words that the bound begins with, see LessThanInOrder), or the
\* diagnostic for what is not supported; the sets that were made for it are those
\* of its result, and after an error all of them are deleted (rpnsearch.c).
SearchExact ==
    rpnAsk # <<>> =>
      LET ask == rpnAsk[1]
          got == rpnGot
          asked == RecordsMeant(FoundOnly(ask.q), ask.bases)
          set == got.sets[1]
      IN  /\ got.err = ask.err
          /\ got.err # 0 => got.sets = <<>> /\ got.made = got.gone
          /\ got.err = 0 =>
                /\ Len(got.sets) = 1 /\ (got.made - got.gone = RsSize(set))
                /\ ~got.partial /\ ~SetsInSets(set) =>
                      Returned(set, FALSE) \subseteq asked /\ asked \subseteq Returned(set, TRUE)
                /\ got.partial => Returned(set, FALSE) \subseteq asked

\* A search for the words before a bound returns all records that have one, in the
\* order of words, as the query model says.
LessThanInOrder ==
    rpnAsk # <<>> /\ rpnGot.err = 0 /\ ~rpnGot.partial /\ LessThan(rpnAsk[1].q) =>
        Returned(rpnGot.sets[1], TRUE) = RecordsMeant(rpnAsk[1].q, rpnAsk[1].bases)
=============================================================================
