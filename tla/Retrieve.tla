------------------------------ MODULE Retrieve ------------------------------
(***************************************************************************)
(* Records of a result set for a client (index/retrieve.c, and             *)
(* zebra_records_retrieve of zebraapi.c): the record itself, or one of the *)
(* element sets that zebra makes: its words, the words around the hits     *)
(* (snippet), the frequent words of the set (facet), its sort keys and     *)
(* what is known of it.  Layout is left out: an answer is the list of what *)
(* it holds.                                                               *)
(*                                                                         *)
(* Words are found in a record by the numbers of its keys, as Tokens makes *)
(* them, when the record is read again: it may have gone since the search. *)
(***************************************************************************)
EXTENDS Tokens

CONSTANTS
  RtIdx,            \* the .idx file
  RtDocs,           \* the documents of the register, by system number
  RtKept,           \* system numbers of the records whose data is stored; others are in files
  RtTypes,          \* the record types of the documents
  RtFilters,        \* the record types that have a filter
  RtAsks,           \* searches, as TkAsks
  RtElems,          \* element sets: [elem, spec, ok]
  RtSpans,          \* sequences of positions asked for
  FacetRecs,        \* records that are read for a facet (10; 10000 for a sort index)
  FacetMax,         \* terms of a facet (20) where none are asked for
  RtApprox          \* approx_limit

VARIABLES
  rtReg,            \* the register: records, maps, tables
  rtSet,            \* the result set: what was asked, its system numbers
  rtGot             \* the answer to the last request

rtVars == <<rtReg, rtSet, rtGot>>

NoSet == [ok |-> FALSE, sysnos |-> <<>>]
NotFetched == [ret |-> "-"]
SystemError == [code |-> "system error"]
NoSyntax == [code |-> "no syntax"]
BadElems == [code |-> "bad element set"]
Undefined == [code |-> "undefined"]         \* the code uses what is not there
Answer(x) == [code |-> "ok", out |-> x]

(***************************************************************************)
(* The register.                                                           *)
(***************************************************************************)
RtMaps == AddTypes(FoldLeft(ParseCommand, [maps |-> <<>>, fails |-> 0], RtIdx).maps,
                   {"w"} \cup UNION {{RtDocs[s][i].targets[j].type : j \in DOMAIN RtDocs[s][i].targets} :
                                        <<s, i>> \in {p \in (DOMAIN RtDocs) \X (1..3) : p[2] \in DOMAIN RtDocs[p[1]]}})
RtExtracted(maps, tabs, s) ==
  FoldLeft(LAMBDA x, f : IndexValueOf("extract", maps, tabs, x, f), ExtractInit, RtDocs[s])
RtLoaded(maps, tabs) ==
  [maps |-> maps, tabs |-> tabs, there |-> DOMAIN RtDocs, files |-> DOMAIN RtDocs \ RtKept,
   recs |-> [s \in DOMAIN RtDocs |-> RtExtracted(maps, tabs, s)]]

TermKeys(s, ord, term) == {i \in DOMAIN rtReg.recs[s].keys : rtReg.recs[s].keys[i].ord = ord /\ rtReg.recs[s].keys[i].term = term}
RtOrds == UNION {{rtReg.recs[s].keys[i].ord : i \in DOMAIN rtReg.recs[s].keys} : s \in DOMAIN rtReg.recs}
RtSortOrds == UNION {{rtReg.recs[s].sort[i].ord : i \in DOMAIN rtReg.recs[s].sort} : s \in DOMAIN rtReg.recs}
RtTerm(ask) == TermsOfText(MapGet(rtReg.maps, ask.type), rtReg.tabs[ask.type], ask.text)[1]

(***************************************************************************)
(* zebra_get_rec_snippets and zebra_create_record_stream                   *)
(***************************************************************************)
RecordStream(s) == IF s \in RtKept \/ s \in rtReg.files THEN "ok" ELSE "system error"
RecSnippets(s) ==
  IF s \notin rtReg.there \/ RtTypes[s] \notin RtFilters \/ RecordStream(s) # "ok" THEN SystemError
  ELSE Answer(ExtractSnippet(rtReg.maps, rtReg.tabs, RtDocs[s]))

(***************************************************************************)
(* zebra::snippet                                                          *)
(***************************************************************************)
\* snippet_check_fields: the other indexes of the type that have the number.
OtherFields(doc, w) ==
  LET is == SelectSeq(doc, LAMBDA v : v.seqno = w.seqno /\ v.ord # w.ord /\ v.ord.type = w.ord.type)
  IN  [i \in DOMAIN is |-> is[i].ord.name]
NewRun(doc, w) == [ord |-> w.ord, fields |-> OtherFields(doc, w), pieces |-> <<>>]
Extend(runs, w, leading) ==
  IF leading /\ w.ws /\ ~w.match THEN runs
  ELSE [runs EXCEPT ![Len(runs)].pieces = Append(@, [text |-> w.text, match |-> w.match])]
NextShown(x, w, doc) ==
  IF ~w.mark THEN [x EXCEPT !.mark = FALSE]
  ELSE [runs |-> Extend(IF x.mark THEN x.runs ELSE Append(x.runs, NewRun(doc, w)), w, ~x.mark), mark |-> TRUE]
SnippetRecord(doc) == FoldLeft(LAMBDA x, w : NextShown(x, w, doc), [runs |-> <<>>, mark |-> FALSE], doc).runs
RingOf(s, doc) ==
  SnippetsRing(doc, HitVector(rtReg.recs[s].keys, AskOrds(rtSet.ask), RtTerm(rtSet.ask)), 5, 5)
SnippetFetch(s) ==
  IF RecSnippets(s).code # "ok" THEN RecSnippets(s) ELSE Answer(SnippetRecord(RingOf(s, RecSnippets(s).out)))

(***************************************************************************)
(* zebra::index and the sort keys (sort_fetch)                             *)
(***************************************************************************)
InSpec(spec, ord) == \E i \in DOMAIN spec : spec[i].type \in {"", ord.type} /\ spec[i].name = ord.name
IndexRecord(doc, spec) ==
  LET ws == SelectSeq(doc, LAMBDA w : spec = <<>> \/ InSpec(spec, w.ord))
  IN  [i \in DOMAIN ws |-> [ord |-> ws[i].ord, seqno |-> ws[i].seqno, text |-> ws[i].text]]
IndexFetch(s, e, syntax) ==
  IF syntax \notin {"xml", "sutrs"} THEN NoSyntax
  ELSE IF ~e.ok \/ \E i \in DOMAIN e.spec : ~\E o \in RtOrds : o.cat = "index" /\ InSpec(<<e.spec[i]>>, o) THEN BadElems
  ELSE IF RecSnippets(s).code # "ok" THEN RecSnippets(s)
  ELSE Answer(IndexRecord(RecSnippets(s).out, e.spec))

SortWords(s, ord) ==
  IF s \notin rtReg.there THEN <<>>
  ELSE LET ks == SelectSeq(rtReg.recs[s].sort, LAMBDA k : k.ord = ord)
       IN  [i \in DOMAIN ks |-> ks[i].term]
SortOrd(spec) == TkOrd("sort", spec)
IsSortSpec(e) == Len(e.spec) = 1 /\ e.spec[1].type # "" /\ SortOrd(e.spec[1]) \in RtSortOrds
SortFetch(s, e, syntax) ==
  IF syntax \notin {"xml", "sutrs"} THEN NoSyntax
  ELSE LET ws == SortWords(s, SortOrd(e.spec[1]))
       IN  Answer([i \in DOMAIN ws |-> TermUntrans(rtReg.tabs[e.spec[1].type], ws[i])])

(***************************************************************************)
(* zebra::facet.  The terms of the first records are counted in a string   *)
(* map, which gives them in any order; the most frequent are kept; those   *)
(* of an index are counted again in the whole set.                         *)
(***************************************************************************)
Counting(terms) == [t \in Range(terms) |-> Cardinality({i \in DOMAIN terms : terms[i] = t})]
FirstRecs(n) == SubSeq(rtSet.sysnos, 1, IF Len(rtSet.sysnos) > n THEN n ELSE Len(rtSet.sysnos))
\* perform_facet_sort and perform_facet_index
SortTerms(recs, ord) == FlattenSeq([i \in DOMAIN recs |-> SortWords(recs[i], ord)])
KeyTerms(recs, ord) ==
  LET ks == FlattenSeq([i \in DOMAIN recs |-> SelectSeq(rtReg.recs[recs[i]].keys,
                                                        LAMBDA k : k.ord = ord /\ k.term[1] # FirstMark[1])])
  IN  [i \in DOMAIN ks |-> ks[i].term]

\* term_collect_create: col has the terms kept, the least frequent first.
NoTerm == [term |-> <<>>, oc |-> 0, occur |-> 0, sysno |-> 0, seqno |-> 0]
Before(col, oc) == Max({0} \cup {k \in DOMAIN col : \A i \in 1..k : oc > col[i].oc})
CollectOver(col, term, oc) ==       \* those below are not moved
  LET j == Before(col, oc)
  IN  IF j = 0 THEN col ELSE [col EXCEPT ![j] = [NoTerm EXCEPT !.term = term, !.oc = oc]]
Collect(col, term, oc) ==
  LET j == Before(col, oc)
  IN  IF j = 0 THEN col
      ELSE SubSeq(col, 2, j) \o <<[NoTerm EXCEPT !.term = term, !.oc = oc]>> \o SubSeq(col, j + 1, Len(col))
CollectAll(count, order, n) == FoldLeft(LAMBDA c, t : Collect(c, t, count[t]), [i \in 1..n |-> NoTerm], order)

\* freq_term: the records of the set that have the term, and its first key.
FreqTerm(c, ord) ==
  LET with == {s \in Range(rtSet.sysnos) \cap rtReg.there : TermKeys(s, ord, c.term) # {}}
  IN  IF with = {} THEN c
      ELSE [c EXCEPT !.occur = Cardinality(with), !.sysno = Min(with),
                     !.seqno = Min({rtReg.recs[Min(with)].keys[i].seqno : i \in TermKeys(Min(with), ord, c.term)})]
SeqLess(a, b) ==
  \E i \in DOMAIN b : /\ \A j \in 1..(i - 1) : j <= Len(a) /\ a[j] = b[j]
                      /\ (i > Len(a) \/ a[i] < b[i])
TermBefore(a, b) == a.occur > b.occur \/ (a.occur = b.occur /\ SeqLess(a.term, b.term))
CollectFreq(col, ord, sort) ==
  SortSeq([i \in DOMAIN col |-> IF col[i].term = <<>> THEN col[i]
                                ELSE IF sort THEN [col[i] EXCEPT !.occur = col[i].oc]
                                ELSE FreqTerm(col[i], ord)], TermBefore)

\* The text of a term: as the record of its first key has it, or as the map gives it.
WordsAt(doc, ord, seqno) == SelectSeq(doc, LAMBDA w : w.ord = ord /\ w.seqno = seqno)
NoLeading(ws) == IF ws # <<>> /\ ws[1].ws THEN Tail(ws) ELSE ws
TextAt(doc, ord, c) ==
  LET ws == NoLeading(WordsAt(doc, ord, c.seqno)) IN FlattenSeq([i \in DOMAIN ws |-> ws[i].text])
FacetText(c, ord) ==
  LET doc == IF c.sysno = 0 THEN SystemError ELSE RecSnippets(c.sysno)
      text == IF doc.code = "ok" THEN TextAt(doc.out, ord, c) ELSE <<>>
  IN  IF text # <<>> THEN text ELSE TermUntrans(rtReg.tabs[ord.type], c.term)
FacetTerms(col, ord) ==
  LET cs == SelectSeq(col, LAMBDA c : c.term # <<>>)
  IN  [i \in DOMAIN cs |-> [term |-> cs[i].term, oc |-> cs[i].oc, occur |-> cs[i].occur, text |-> FacetText(cs[i], ord)]]

FacetSize(sp) == IF sp.extra = 0 THEN FacetMax ELSE IF sp.extra < 1 THEN 1 ELSE sp.extra
FacetOrd(sp, sort) == TkOrd(IF sort THEN "sort" ELSE "index", sp)
FacetCount(sp, sort, n) ==
  Counting(IF sort THEN SortTerms(FirstRecs(n), FacetOrd(sp, sort)) ELSE KeyTerms(FirstRecs(n), FacetOrd(sp, sort)))
PerformFacet(sp, sort, n, order) ==
  LET count == FacetCount(sp, sort, n)
      known == SelectSeq(order, LAMBDA t : t \in DOMAIN count)
  IN  FacetTerms(CollectFreq(CollectAll(count, known, FacetSize(sp)), FacetOrd(sp, sort), sort), FacetOrd(sp, sort))
\* facet_fetch: by sort indexes if all are, else by indexes.  The limit of records is
\* that of sort indexes as soon as the first is one.
AllSort(e) == \A i \in DOMAIN e.spec : SortOrd(e.spec[i]) \in RtSortOrds
FacetLimit(e) == IF SortOrd(e.spec[1]) \in RtSortOrds THEN Len(rtSet.sysnos) ELSE FacetRecs
FacetOk(e) ==
  /\ e.ok /\ e.spec # <<>>
  /\ \A i \in DOMAIN e.spec : e.spec[i].type # ""
  /\ AllSort(e) \/ \A i \in DOMAIN e.spec : TkOrd("index", e.spec[i]) \in RtOrds
FacetFetch(e, order) ==
  IF ~FacetOk(e) THEN BadElems
  ELSE IF ~AllSort(e) /\ ~(Range(FirstRecs(FacetLimit(e))) \subseteq rtReg.there) THEN Undefined
  ELSE Answer([i \in DOMAIN e.spec |-> PerformFacet(e.spec[i], AllSort(e), FacetLimit(e), order)])

(***************************************************************************)
(* zebra_special_fetch and zebra_record_fetch                              *)
(***************************************************************************)
MetaFetch(s, syntax) == IF syntax \in {"xml", "sutrs"} THEN Answer([sysno |-> s, type |-> RtTypes[s], rank |-> rtReg.recs[s].rank]) ELSE NoSyntax
DataFetch(s) == IF RecordStream(s) = "ok" THEN Answer(RtDocs[s]) ELSE Undefined
SpecialFetch(s, e, syntax, order) ==
  CASE e.elem = "facet" -> FacetFetch(e, order)
    [] e.elem = "snippet" -> SnippetFetch(s)
    [] e.elem = "meta::sysno" -> IF syntax \in {"xml", "sutrs"} THEN Answer(s) ELSE NoSyntax
    [] e.elem = "index" /\ ~e.ok -> BadElems
    [] e.elem = "index" /\ e.ok /\ IsSortSpec(e) -> SortFetch(s, e, syntax)
    [] e.elem \notin {"facet", "snippet", "meta::sysno", "index"} /\ s \notin rtReg.there -> SystemError
    [] e.elem = "index" /\ e.ok /\ ~IsSortSpec(e) -> IF s \in rtReg.there THEN IndexFetch(s, e, syntax) ELSE SystemError
    [] e.elem = "data" /\ s \in rtReg.there -> DataFetch(s)
    [] e.elem = "meta" /\ s \in rtReg.there -> MetaFetch(s, syntax)
    [] OTHER -> BadElems
RecordFetch(s, e, syntax, order) ==
  IF e.elem # "record" THEN SpecialFetch(s, e, syntax, order)
  ELSE IF s \notin rtReg.there \/ RecordStream(s) # "ok" \/ RtTypes[s] \notin RtFilters THEN SystemError
  ELSE Answer(RtDocs[s])

(***************************************************************************)
(* zebra_records_retrieve: the answers up to the first position that is    *)
(* not in the set.                                                         *)
(***************************************************************************)
NothingAt == [code |-> "nothing"]
AnswerAt(p, e, syntax, order) ==
  IF p \in DOMAIN rtSet.sysnos THEN RecordFetch(rtSet.sysnos[p], e, syntax, order) ELSE NothingAt
OutOfRange(span) == {i \in DOMAIN span : span[i] \notin DOMAIN rtSet.sysnos /\ span[i] < RtApprox}
RecordsRetrieve(span, e, syntax, order) ==
  LET n == IF OutOfRange(span) = {} THEN Len(span) ELSE Min(OutOfRange(span)) - 1
  IN  [ret |-> IF n = Len(span) THEN "ok" ELSE "out of range",
       recs |-> [i \in 1..n |-> AnswerAt(span[i], e, syntax, order)]]

(***************************************************************************)
(* Actions.                                                                *)
(***************************************************************************)
RtInit == rtReg = [there |-> {}, recs |-> <<>>] /\ rtSet = NoSet /\ rtGot = NotFetched

RtLoad ==
  /\ rtReg.recs = <<>>
  /\ \E maps \in {RtMaps} : \E tabs \in {LoadTabs(maps, {maps[i].id : i \in DOMAIN maps})} :
        rtReg' = RtLoaded(maps, tabs)
  /\ UNCHANGED <<rtSet, rtGot>>

RtSearch(ask) ==
  /\ rtReg.recs # <<>> /\ ~rtSet.ok
  /\ \E found \in {{s \in rtReg.there : \E o \in AskOrds(ask) : TermKeys(s, o, RtTerm(ask)) # {}}} :
        rtSet' = [ok |-> TRUE, ask |-> ask, sysnos |-> SetToSortSeq(found, <)]
  /\ UNCHANGED <<rtReg, rtGot>>

\* Another process removes a record, or somebody its file.
RtDelete(s) ==
  /\ rtSet.ok /\ rtGot = NotFetched /\ rtReg.there = DOMAIN RtDocs
  /\ rtReg' = [rtReg EXCEPT !.there = @ \ {s}]
  /\ UNCHANGED <<rtSet, rtGot>>
RtUnlink(s) ==
  /\ rtSet.ok /\ rtGot = NotFetched /\ rtReg.files = DOMAIN RtDocs \ RtKept
  /\ rtReg' = [rtReg EXCEPT !.files = @ \ {s}]
  /\ UNCHANGED <<rtSet, rtGot>>

\* The terms of a facet in an order of the string map.
FacetUnion(e) ==
  IF e.elem # "facet" \/ ~FacetOk(e) THEN {}
  ELSE UNION {DOMAIN FacetCount(e.spec[i], AllSort(e), FacetLimit(e)) : i \in DOMAIN e.spec}
Orders(terms) ==
  {f \in [1..Cardinality(terms) -> terms] : \A i, j \in 1..Cardinality(terms) : i # j => f[i] # f[j]}
RtFetch(span, e, syntax) ==
  /\ rtSet.ok /\ rtGot = NotFetched
  /\ \E order \in Orders(FacetUnion(e)) :
        rtGot' = [span |-> span, elem |-> e, syntax |-> syntax] @@ RecordsRetrieve(span, e, syntax, order)
  /\ UNCHANGED <<rtReg, rtSet>>

RtNext ==
  \/ RtLoad
  \/ \E ask \in RtAsks : RtSearch(ask)
  \/ \E s \in DOMAIN RtDocs : RtDelete(s) \/ RtUnlink(s)
  \/ \E span \in RtSpans, e \in RtElems, syntax \in {"xml", "usmarc"} : RtFetch(span, e, syntax)

(***************************************************************************)
(* Properties.                                                             *)
(***************************************************************************)
WholeRecord(s) == s \in rtReg.there /\ RecordStream(s) = "ok" /\ RtTypes[s] \in RtFilters
\* The words marked in a snippet are the words asked for, and there is one in each run.
AskedTexts(s) ==
  LET ws == SelectSeq(ExtractSnippet(rtReg.maps, rtReg.tabs, RtDocs[s]),
                      LAMBDA w : ~w.ws /\ w.ord \in AskOrds(rtSet.ask)
                                 /\ TermsOfText(MapGet(rtReg.maps, w.ord.type), rtReg.tabs[w.ord.type], w.text) = <<RtTerm(rtSet.ask)>>)
  IN  [i \in DOMAIN ws |-> ws[i].text]
MarkedTexts(runs) ==
  LET ps == SelectSeq(FlattenSeq([i \in DOMAIN runs |-> runs[i].pieces]), LAMBDA p : p.match)
  IN  [i \in DOMAIN ps |-> ps[i].text]
SnippetExact(s, runs) ==
  /\ MarkedTexts(runs) = AskedTexts(s)
  /\ \A i \in DOMAIN runs : \E j \in DOMAIN runs[i].pieces : runs[i].pieces[j].match

\* A facet has the terms that are in the records read most often, each with its number
\* of records in the set, the most frequent first, and shows a text of the term.
OccursIn(sp, sort, t) ==
  Cardinality({s \in Range(rtSet.sysnos) : s \in rtReg.there /\ TermKeys(s, FacetOrd(sp, sort), t) # {}})
ReadKeys(sp, sort, n) ==
  {<<p, k>> \in (DOMAIN rtSet.sysnos) \X (1..20) :
      LET s == rtSet.sysnos[p]
          ks == IF sort THEN rtReg.recs[s].sort ELSE rtReg.recs[s].keys
      IN  p <= n /\ s \in rtReg.there /\ k \in DOMAIN ks /\ ks[k].ord = FacetOrd(sp, sort) /\ ks[k].term # FirstMark}
ReadTerm(sort, pk) ==
  IF sort THEN rtReg.recs[rtSet.sysnos[pk[1]]].sort[pk[2]].term ELSE rtReg.recs[rtSet.sysnos[pk[1]]].keys[pk[2]].term
FacetExact(sp, sort, n, terms) ==
  LET read == ReadKeys(sp, sort, n)
      all == {ReadTerm(sort, pk) : pk \in read}
      count == [t \in all |-> Cardinality({pk \in read : ReadTerm(sort, pk) = t})]
      kept == {terms[i].term : i \in DOMAIN terms}
  IN  /\ Cardinality(kept) = Len(terms) /\ kept \subseteq all
      /\ Len(terms) = Min({FacetSize(sp), Cardinality(all)})
      /\ \A t \in all \ kept, i \in DOMAIN terms : count[t] <= terms[i].oc
      /\ \A i \in DOMAIN terms :
            /\ terms[i].oc = count[terms[i].term]
            /\ terms[i].occur = IF sort THEN terms[i].oc ELSE OccursIn(sp, sort, terms[i].term)
            /\ i > 1 => terms[i - 1].occur >= terms[i].occur
            /\ TermsOfText(MapGet(rtReg.maps, sp.type), rtReg.tabs[sp.type], terms[i].text) = <<terms[i].term>>
\* The words of a record by index are those it has keys for, with their numbers, and
\* the spaces between them.
RtTermsOf(ord, text) == TermsOfText(MapGet(rtReg.maps, ord.type), rtReg.tabs[ord.type], text)
InElems(spec, ord) == ord.cat = "index" /\ (spec = <<>> \/ InSpec(spec, ord))
IndexExact(s, spec, words) ==
  LET keys == {rtReg.recs[s].keys[i] : i \in DOMAIN rtReg.recs[s].keys}
  IN  /\ \A k \in keys : InElems(spec, k.ord) /\ k.term # FirstMark =>
            \E i \in DOMAIN words : words[i].ord = k.ord /\ words[i].seqno = k.seqno
                                    /\ RtTermsOf(k.ord, words[i].text) = <<k.term>>
      /\ \A i \in DOMAIN words :
            /\ InElems(spec, words[i].ord)
            /\ RtTermsOf(words[i].ord, words[i].text) # <<>> =>
                  \E k \in keys : k.ord = words[i].ord /\ k.seqno = words[i].seqno
                                  /\ RtTermsOf(k.ord, words[i].text) = <<k.term>>

\* The sort keys of a record are the texts of its fields that go there; a record that
\* has gone has none.
SortFields(s, sp) == SelectSeq(RtDocs[s], LAMBDA f : \E t \in Range(f.targets) : t.name = sp.name /\ t.type = sp.type)
SortKeysExact(s, sp, texts) ==
  LET fs == IF s \in rtReg.there THEN SortFields(s, sp) ELSE <<>>
      term(x) == RtTermsOf(SortOrd(sp), x)
  IN  [i \in DOMAIN texts |-> term(texts[i])] = [i \in DOMAIN fs |-> term(fs[i].text)]
\* The static rank is the number in the last field that is one.
RankMeant(s) ==
  LET fs == SelectSeq(RtDocs[s], LAMBDA f : \E t \in Range(f.targets) : MapGet(rtReg.maps, t.type).type = "staticrank")
  IN  IF fs = <<>> THEN 0 ELSE Atozint(fs[Len(fs)].text, 0)

ContentRight(s, e, out) ==
  CASE e.elem \in {"record", "data"} -> out = RtDocs[s]
    [] e.elem = "meta::sysno" -> out = s
    [] e.elem = "meta" -> out = [sysno |-> s, type |-> RtTypes[s], rank |-> RankMeant(s)]
    [] e.elem = "snippet" -> SnippetExact(s, out)
    [] e.elem = "index" -> IF IsSortSpec(e) THEN SortKeysExact(s, e.spec[1], out) ELSE IndexExact(s, e.spec, out)
    [] e.elem = "facet" ->
          \A i \in DOMAIN e.spec : FacetExact(e.spec[i], AllSort(e), IF AllSort(e) THEN Len(rtSet.sysnos) ELSE FacetRecs, out[i])

\* Two requests use what is not there: the data of a record whose file has gone (the
\* stream is not made, and is read), and a facet of an index, which takes the keys of
\* the first records without a look whether there is such a record.
ReadsNothing(s, e) ==
  \/ e.elem = "data" /\ s \in rtReg.there /\ RecordStream(s) # "ok"
  \/ /\ e.elem = "facet" /\ FacetOk(e) /\ ~AllSort(e)
     /\ \E i \in 1..Min({FacetLimit(e), Len(rtSet.sysnos)}) : rtSet.sysnos[i] \notin rtReg.there
\* Requests that say nothing of a record without reading it.
NeedsRecord(e) == e.elem \in {"record", "snippet", "data", "meta"} \/ (e.elem = "index" /\ e.ok /\ ~IsSortSpec(e))
NeedsText(e) == e.elem \in {"record", "snippet"} \/ (e.elem = "index" /\ e.ok /\ ~IsSortSpec(e))
FetchedRight(p, e, a) ==
  LET s == rtSet.sysnos[p]
  IN  /\ a.code = "undefined" => ReadsNothing(s, e)
      /\ NeedsRecord(e) /\ s \notin rtReg.there => a = SystemError
      /\ NeedsText(e) /\ ~WholeRecord(s) => a.code # "ok"
      /\ e.elem = "data" /\ RecordStream(s) # "ok" => a.code # "ok"
      /\ WholeRecord(s) => a.code # "system error"
      /\ WholeRecord(s) /\ e.elem \in {"record", "snippet", "data"} => a.code = "ok"
      /\ a.code = "ok" => ContentRight(s, e, a.out)

\* An answer belongs to the position asked for, and holds what the record and the set
\* hold; a record that has gone, or whose text has, is an error and not another
\* record's data, but for the two requests of ReadsNothing, which are undefined.
FetchExact ==
  rtGot # NotFetched =>
     /\ rtGot.ret = "ok" <=> \A i \in DOMAIN rtGot.span : rtGot.span[i] \in DOMAIN rtSet.sysnos \/ rtGot.span[i] >= RtApprox
     /\ \A i \in DOMAIN rtGot.recs :
           IF rtGot.span[i] \in DOMAIN rtSet.sysnos THEN FetchedRight(rtGot.span[i], rtGot.elem, rtGot.recs[i])
           ELSE rtGot.recs[i] = NothingAt
=============================================================================
