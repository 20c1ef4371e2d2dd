------------------------------- MODULE ZSets -------------------------------
(***************************************************************************)
(* The result sets of a client (src/index/zsets.c): a named set keeps its  *)
(* query and, as long as the register does not change, the result of it    *)
(* (an rset, see RSets, here its keys), the first SortMax records in the   *)
(* order of their rank or of a sort, and a handle where the last request   *)
(* for records ended.  A set may share the rset of another.                *)
(*                                                                         *)
(* An rset n lives in the memory n (rset_nmem) of the search that made it, *)
(* so that it is gone when the set of that search is; a set that shares it *)
(* is then of no use, and the model ends at a call that would use it.      *)
(***************************************************************************)
EXTENDS Integers, Sequences, SequencesExt, FiniteSetsExt

CONSTANTS
    ZNames,         \* names of sets
    ZQueries,       \* names to queries [term, set, sort]: the keys of a term, those of them
                    \* that are not in a set, or the set (0 or "-" is none), and sort criteria;
                    \* a set refers to no set that refers to it
    ZRegisters,     \* versions of the register: terms to sequences of [sys, rank, term, seq]
    ZRanked,        \* terms that ask for ranking
    ZSortKeys,      \* sort index: numbers of indexes to [record -> sort keys]
    ZSpecs,         \* sort criteria, sequences of [ord, rel]
    ZRanges,        \* positions that a client asks for, <<first, number>>
    SortMax,        \* sortmax
    ApproxLimit,    \* estimatehits
    TermMax,        \* term_entries_max
    ZRankName,      \* "rank-1", "rank-2" or "rank-static"
    MaxZOps         \* bound: calls
ASSUME ZSetsAssumption == SortMax \in Nat \ {0, 1} /\ ApproxLimit \in Nat /\ ZRegisters # <<>>

VARIABLES
    zh,         \* sets (the first is the newest), rsets, ver (of the register), next, gone
    zAsked,     \* the last request for records, <<name, range>>, or <<>>
    zGot,       \* and the answer to it
    zResorted,  \* sets that were sorted in place while a handle was cached
    zOps

zsetVars == <<zh, zAsked, zGot, zResorted, zOps>>

NoQuery == [term |-> 0, set |-> "-", sort |-> <<>>]
NewSet(name) ==
    [name |-> name, rset |-> 0, mem |-> 0, hits |-> 0, est |-> FALSE, entries |-> <<>>,
     rpn |-> NoQuery, sort |-> <<>>, cpos |-> 0, cat |-> -1, cpsys |-> 0, terms |-> <<>>]
HasSet(z, name) == \E i \in DOMAIN z.sets : z.sets[i].name = name
ZIdx(z, name) == CHOOSE i \in DOMAIN z.sets : z.sets[i].name = name
ZSet(z, name) == z.sets[ZIdx(z, name)]
PutSet(z, s) == [z EXCEPT !.sets[ZIdx(z, s.name)] = s]

-----------------------------------------------------------------------------
\* rset_delete, and nmem_destroy of the memory of a search.
RECURSIVE RsetDelete(_, _)
RsetDelete(z, id) ==
    IF id = 0 THEN z
    ELSE IF id \notin DOMAIN z.rsets THEN [z EXCEPT !.gone = TRUE]
    ELSE LET y == [z EXCEPT !.rsets[id].refs = @ - 1]
         IN  IF y.rsets[id].refs = 0 THEN RsetDelete(y, y.rsets[id].kid) ELSE y
RsetDup(z, id) ==
    IF id \in DOMAIN z.rsets THEN [z EXCEPT !.rsets[id].refs = @ + 1] ELSE [z EXCEPT !.gone = TRUE]
FreeMem(z, m) == [z EXCEPT !.rsets = [i \in DOMAIN z.rsets \ {m} |-> @[i]]]
\* The rset of a set and its memory are released.
Release(z, s) == FreeMem(RsetDelete(z, s.rset), s.mem)

\* resultSetAdd: a set of that name is emptied, or a new one is put in front.
ResultSetAdd(z, name) ==
    IF HasSet(z, name)
    THEN PutSet(Release(z, ZSet(z, name)), [NewSet(name) EXCEPT !.entries = ZSet(z, name).entries])
    ELSE [z EXCEPT !.sets = <<NewSet(name)>> \o @]

-----------------------------------------------------------------------------
\* Keys of an rset, its records in order, and where a new record begins.
KeysOf(z, id) == z.rsets[id].keys
RECURSIVE Distinct(_, _)
Distinct(keys, seen) ==
    IF keys = <<>> THEN seen
    ELSE Distinct(Tail(keys), IF seen # <<>> /\ Last(seen) = Head(keys).sys THEN seen
                              ELSE Append(seen, Head(keys).sys))
RecordsOf(keys) == Distinct(keys, <<>>)

\* The entries of sort_info: a new one is put at i, and the last may fall out.
EnterAt(entries, i, e) ==
    IF i > SortMax THEN entries ELSE SubSeq(InsertAt(entries, i, e), 1, Min({SortMax, Len(entries) + 1}))
LastThat(is) == Max({0} \cup is)

\* rank1.c and rankstatic.c: the score of a record from its keys; g is how many
\* records each term has.
Log2(g) == IF g <= 0 THEN 0 ELSE CHOOSE n \in 0..31 : 2^n <= g /\ g < 2^(n + 1)
SumOf(f) == FoldFunction(+, 0, f)
TermsOf(keys) == {keys[i].term : i \in DOMAIN keys}
Occurs(keys, t) == Cardinality({i \in DOMAIN keys : keys[i].term = t})
Ranking(terms) == terms \cap ZRanked
RankWeight == 34
Rank1(keys, terms, g) ==
    LET part == [t \in {u \in Ranking(terms) : Occurs(keys, u) > 0} |->
                   (8 + Log2(Occurs(keys, t))) * (32 - Log2(g[t])) * RankWeight]
        div == Cardinality(Ranking(terms)) * (8 + Log2(Last(keys).seq \div Cardinality(terms)))
    IN  Min({1000, SumOf(part) \div div})
Calc(keys, terms, g) ==
    IF ZRankName = "rank-static"
    THEN IF Ranking(terms) = {} THEN -1 ELSE 2^31 - 1 - keys[1].rank
    ELSE (IF Ranking(terms) = {} THEN -1 ELSE Rank1(keys, terms, g))
           - (IF ZRankName = "rank-2" THEN keys[1].rank ELSE 0)
KeysWith(keys, sys) == SelectSeq(keys, LAMBDA k : k.sys = sys)
Counts(keys, terms) ==
    [t \in terms |-> Cardinality({keys[i].sys : i \in {j \in DOMAIN keys : keys[j].term = t}})]
Scored(keys, recs) ==
    [i \in DOMAIN recs |-> [sys |-> recs[i],
        score |-> Calc(KeysWith(keys, recs[i]), TermsOf(keys), Counts(keys, TermsOf(keys)))]]

\* resultSetInsertRank: before the entries of a lower score.
InsertRank(entries, e) == EnterAt(entries, LastThat({i \in DOMAIN entries : e.score <= entries[i].score}) + 1, e)
\* resultSetRank: records are ranked until there are more than the limit; the count
\* is then an estimate, which rset_close makes from where it is.
ResultSetRank(s, keys) ==
    LET recs == RecordsOf(keys)
        first == SubSeq(recs, 1, Min({ApproxLimit, Len(recs)}))
    IN  [s EXCEPT !.entries = FoldLeft(InsertRank, <<>>, Scored(keys, first)),
                  !.hits = Min({Len(recs), ApproxLimit + 1}), !.est = Len(recs) > ApproxLimit]

\* resultSetInsertSort: of several sort keys the lowest or the highest, 0 if there
\* is none; before the entries that a criterion puts after it.
SortVal(c, sys) ==
    LET vals == ZSortKeys[c.ord][sys]
    IN  IF vals = {} THEN 0 ELSE IF c.rel = "A" THEN Min(vals) ELSE Max(vals)
Sorts(spec, a, b) ==
    LET d == {j \in DOMAIN spec : a.vals[j] # b.vals[j]}
        j == Min(d)
    IN  d # {} /\ IF spec[j].rel = "A" THEN a.vals[j] < b.vals[j] ELSE a.vals[j] > b.vals[j]
SortEntry(spec, sys) == [sys |-> sys, score |-> -1, vals |-> [j \in DOMAIN spec |-> SortVal(spec[j], sys)]]
InsertSort(spec, entries, e) == EnterAt(entries, LastThat({i \in DOMAIN entries : ~Sorts(spec, e, entries[i])}) + 1, e)
BadSort(spec) == \E j \in DOMAIN spec : spec[j].ord \notin DOMAIN ZSortKeys
ResultSetSortSingle(s, keys, spec) ==
    LET recs == RecordsOf(keys)
        all == FoldLeft(LAMBDA es, r : InsertSort(spec, es, SortEntry(spec, r)), <<>>, recs)
    IN  IF BadSort(spec) THEN [s EXCEPT !.entries = <<>>, !.hits = 0]
        ELSE [s EXCEPT !.entries = [i \in DOMAIN all |-> [sys |-> all[i].sys, score |-> -1]],
                       !.hits = Len(recs)]

-----------------------------------------------------------------------------
\* resultSetSearch of the query of s, whose set operand y has (z is after it was
\* got); and resultSetGet, which searches again after the register has changed.
NotIn(keys, others) == SelectSeq(keys, LAMBDA k : \A i \in DOMAIN others : others[i].sys # k.sys)
RefOf(z, q) == IF q.set = "-" \/ ~HasSet(z, q.set) THEN 0 ELSE ZSet(z, q.set).rset
NewRset(z, q, ref) ==
    [keys |-> IF ref = 0 THEN ZRegisters[z.ver][q.term] ELSE NotIn(ZRegisters[z.ver][q.term], KeysOf(z, ref)),
     kid |-> ref, refs |-> 1]
Found(z, s, id) ==
    LET keys == KeysOf(z, id)
    IN  PutSet(z, [(IF s.rpn.sort = <<>> THEN ResultSetRank(s, keys)
                    ELSE ResultSetSortSingle(s, keys, s.rpn.sort)) EXCEPT !.rset = id])
SearchWith(z, s, ref) ==
    LET y == IF ref = 0 THEN z ELSE RsetDup(z, ref)
    IN  CASE y.gone -> y
          [] ~y.gone /\ s.rpn.set # "-" /\ ref = 0 -> PutSet(y, [s EXCEPT !.rset = 0])
          [] ~y.gone /\ s.rpn.term = 0 /\ ref # 0 -> Found(y, s, ref)
          [] OTHER -> Found([y EXCEPT !.rsets = [i \in DOMAIN @ \cup {s.mem} |->
                                IF i = s.mem THEN NewRset(y, s.rpn, ref) ELSE @[i]]], s, s.mem)
RECURSIVE ZGet(_, _)
SearchSet(z, s) ==
    LET y == IF s.rpn.set = "-" THEN z ELSE ZGet(z, s.rpn.set) IN SearchWith(y, s, RefOf(y, s.rpn))
WithMem(z, s) ==
    IF s.mem # 0 THEN SearchSet(z, s)
    ELSE SearchSet([PutSet(z, [s EXCEPT !.mem = z.next + 1]) EXCEPT !.next = @ + 1],
                   [s EXCEPT !.mem = z.next + 1])
Resort(z, s) ==
    IF z.gone \/ s.rset = 0 \/ s.sort = <<>> THEN z
    ELSE PutSet(z, ResultSetSortSingle(s, KeysOf(z, s.rset), s.sort))
ZGet(z, name) ==
    IF ~HasSet(z, name) THEN z
    ELSE LET s == ZSet(z, name)
         IN  IF s.terms = <<>> /\ s.rset = 0 /\ s.rpn # NoQuery
             THEN \* a second LET would be walked twice
                  LET y == WithMem(z, s) IN Resort(y, ZSet(y, name))
             ELSE z

-----------------------------------------------------------------------------
\* zebra_meta_records_create: from the entries, then from the rset, on from where
\* the last call has ended if that is before the positions that are asked for.
Positions(range) == [i \in 1..range[2] |-> range[1] + i - 1]
RECURSIVE Rest(_, _, _)
Rest(keys, sorted, r) ==
    IF r.want = <<>> \/ r.at = Len(keys) THEN r
    ELSE LET sys == keys[r.at + 1].sys
             new == sys # r.psys /\ sys \notin sorted
             hit == new /\ r.pos + 1 = Head(r.want)
         IN  Rest(keys, sorted,
                  [at |-> r.at + 1, psys |-> sys, pos |-> IF new THEN r.pos + 1 ELSE r.pos,
                   want |-> IF hit THEN Tail(r.want) ELSE r.want,
                   got |-> IF hit THEN Append(r.got, <<r.pos + 1, sys>>) ELSE r.got])
\* A variant goes on from the handle whatever is asked for.
GoOnAlways(s, want) == s.cat >= 0 /\ want # <<>>
GoOn(s, want) == s.cat >= 0 /\ want # <<>> /\ Head(want) > s.cpos
StartRest(s, want) ==
    IF GoOn(s, want) THEN [at |-> s.cat, psys |-> s.cpsys, pos |-> s.cpos, want |-> want, got |-> <<>>]
    ELSE [at |-> 0, psys |-> 0, pos |-> Len(s.entries), want |-> want, got |-> <<>>]
FromEntries(s, range) ==
    LET ps == SelectSeq(Positions(range), LAMBDA p : p \in DOMAIN s.entries)
    IN  [i \in DOMAIN ps |-> <<ps[i], s.entries[ps[i]].sys>>]
FromTerms(s, range) ==
    LET ps == SelectSeq(Positions(range), LAMBDA p : p \in DOMAIN s.terms)
    IN  [i \in DOMAIN ps |-> <<ps[i], s.terms[ps[i]]>>]
MetaRecords(z, s, range) ==
    LET want == SelectSeq(Positions(range), LAMBDA p : p > Len(s.entries))
        r == Rest(KeysOf(z, s.rset), {s.entries[i].sys : i \in DOMAIN s.entries}, StartRest(s, want))
        all == \A i \in 1..range[2] : range[1] + i - 1 \in DOMAIN s.entries
    IN  CASE s.rset = 0 -> [z |-> z, got |-> FromTerms(s, range)]
          [] s.rset # 0 /\ all -> [z |-> z, got |-> FromEntries(s, range)]
          [] s.rset # 0 /\ ~all /\ s.rset \notin DOMAIN z.rsets -> [z |-> [z EXCEPT !.gone = TRUE], got |-> <<>>]
          [] OTHER -> [z |-> PutSet(z, [s EXCEPT !.cpos = r.pos, !.cpsys = r.psys, !.cat = r.at]),
                       got |-> FromEntries(s, range) \o r.got]

-----------------------------------------------------------------------------
ZSetsInit ==
    /\ zh = [sets |-> <<>>, rsets |-> <<>>, ver |-> 1, next |-> 0, gone |-> FALSE]
    /\ zAsked = <<>> /\ zGot = <<>> /\ zResorted = {} /\ zOps = 0
ZOp == ~zh.gone /\ zOps < MaxZOps /\ zOps' = zOps + 1
NoAnswer == zAsked' = <<>> /\ zGot' = <<>>

\* zebra_search_RPN, resultSetAddRPN: the set has no query while it is searched.
ZSearch(name, q) ==
    /\ ZOp /\ NoAnswer /\ zResorted' = zResorted \ {name}
    /\ \E z \in {ResultSetAdd(zh, name)} :
       \E s \in {[ZSet(z, name) EXCEPT !.mem = z.next + 1]} :
       \E y \in {SearchSet([PutSet(z, s) EXCEPT !.next = @ + 1, !.gone = z.gone], [s EXCEPT !.rpn = q])} :
          zh' = IF y.gone \/ ZSet(y, name).rset # 0 THEN y ELSE PutSet(y, [ZSet(y, name) EXCEPT !.rpn = NoQuery])

\* resultSetSort, with resultSetClone if the output is another set.
ZClone(z, out, s) ==
    LET y == ResultSetAdd(z, out)
        d == RsetDup(y, s.rset)
    IN  PutSet(d, [ZSet(y, out) EXCEPT !.rset = s.rset, !.rpn = s.rpn])
ZSort(in, out, spec) ==
    /\ ZOp /\ NoAnswer /\ HasSet(zh, in)
    /\ \E z \in {ZGet(zh, in)} :
         IF z.gone \/ ZSet(z, in).rset = 0 THEN zh' = z /\ UNCHANGED zResorted
         ELSE \E y \in {IF in = out THEN z ELSE ZClone(z, out, ZSet(z, in))} :
                /\ zh' = IF y.gone \/ ZSet(y, out).rset \notin DOMAIN y.rsets THEN [y EXCEPT !.gone = TRUE]
                         ELSE PutSet(y, ResultSetSortSingle([ZSet(y, out) EXCEPT !.sort = spec],
                                                            KeysOf(y, ZSet(y, out).rset), spec))
                /\ zResorted' = IF in = out /\ ZSet(z, in).cat >= 0 THEN zResorted \cup {in}
                                ELSE zResorted \ ({out} \ {in})
ZPresent(name, range) ==
    /\ ZOp /\ HasSet(zh, name)
    /\ \E z \in {ZGet(zh, name)} :
       \E r \in {IF z.gone THEN [z |-> z, got |-> <<>>] ELSE MetaRecords(z, ZSet(z, name), range)} :
          /\ zh' = r.z /\ zGot' = r.got /\ zAsked' = <<name, range>>
    /\ UNCHANGED zResorted

\* resultSetDestroy.
ZDestroy(names) ==
    /\ ZOp /\ NoAnswer
    /\ zh' = [FoldLeft(LAMBDA z, s : IF s.name \in names THEN Release(z, s) ELSE z, zh, zh.sets)
                EXCEPT !.sets = SelectSeq(zh.sets, LAMBDA s : s.name \notin names)]
    /\ zResorted' = zResorted \ names

\* The register has changed: zebra_begin_read opens it anew and calls
\* resultSetInvalidate.  A variant keeps the handles.
Emptied(s) == [s EXCEPT !.rset = 0, !.mem = 0, !.cat = -1, !.cpos = 0]
ResultSetInvalidate(z) ==
    [FoldLeft(Release, z, z.sets) EXCEPT !.sets = [i \in DOMAIN z.sets |-> Emptied(z.sets[i])]]
ZRegister ==
    /\ ZOp /\ NoAnswer /\ zh.ver < Len(ZRegisters)
    /\ zh' = [ResultSetInvalidate(zh) EXCEPT !.ver = @ + 1]
    /\ zResorted' = {}

\* resultSetAddTerm: a search with a term set fills it with the terms it met.
ZTermSet(name, n) ==
    /\ ZOp /\ NoAnswer /\ zResorted' = zResorted \ {name}
    /\ zh' = LET z == ResultSetAdd(zh, name)
             IN  PutSet(z, [ZSet(z, name) EXCEPT !.hits = n, !.terms = [i \in 1..Min({n, TermMax}) |-> i]])

ZSetsNext ==
    \/ \E name \in ZNames : \E q \in ZQueries[name] : ZSearch(name, q)
    \/ \E in \in ZNames, out \in ZNames, spec \in ZSpecs : ZSort(in, out, spec)
    \/ \E name \in ZNames, range \in ZRanges : ZPresent(name, range)
    \/ \E names \in (SUBSET ZNames) \ {{}} : ZDestroy(names)
    \/ ZRegister
    \/ \E name \in ZNames : ZTermSet(name, TermMax + 1)

-----------------------------------------------------------------------------
\* Properties: the order in which a client is to see the records of a set.
SpecOf(s) == IF s.sort # <<>> THEN s.sort ELSE s.rpn.sort
Better(s, keys, a, b) ==
    IF SpecOf(s) # <<>> THEN Sorts(SpecOf(s), SortEntry(SpecOf(s), a), SortEntry(SpecOf(s), b))
    ELSE LET e == Scored(keys, <<a, b>>) IN e[1].score > e[2].score
InOrder(s, keys, recs) ==
    LET ahead(i, j) == \/ Better(s, keys, recs[i], recs[j])
                       \/ ~Better(s, keys, recs[j], recs[i]) /\ i < j
        place(j) == Cardinality({i \in DOMAIN recs : ahead(i, j)}) + 1
    IN  [p \in DOMAIN recs |-> recs[CHOOSE j \in DOMAIN recs : place(j) = p]]
ZOrder(s, keys) ==
    LET recs == RecordsOf(keys)
        limit == IF SpecOf(s) = <<>> THEN ApproxLimit ELSE Len(recs)
        seen == SubSeq(recs, 1, Min({limit, Len(recs)}))
        top == SubSeq(InOrder(s, keys, seen), 1, Min({SortMax, Len(seen)}))
    IN  IF BadSort(SpecOf(s)) THEN recs
        ELSE top \o SelectSeq(recs, LAMBDA r : r \notin Range(top))

\* A client that asks for any positions in any order, between searches, sorts and
\* updates, gets the record that is at each in the order of the set: none twice and
\* none left out, though a request goes on from where the last one has ended.
\* (Not so for a set that is sorted in place after such a request.)
AnswersExact ==
    zAsked # <<>> /\ ~zh.gone =>
      LET s == ZSet(zh, zAsked[1])
          order == ZOrder(s, KeysOf(zh, s.rset))
      IN  s.rset \in DOMAIN zh.rsets /\ s.name \notin zResorted =>
            zGot = LET ps == SelectSeq(Positions(zAsked[2]), LAMBDA p : p \in DOMAIN order)
                   IN  [i \in DOMAIN ps |-> <<ps[i], order[ps[i]]>>]

\* A set that has an rset has one of the present register, and its count is that of
\* the records in it, or is marked as an estimate.
SetsFresh ==
    ~zh.gone => \A i \in DOMAIN zh.sets : LET s == zh.sets[i] IN
      s.rset \in DOMAIN zh.rsets =>
        /\ s.rpn.set = "-" => KeysOf(zh, s.rset) = ZRegisters[zh.ver][s.rpn.term]
        /\ \/ s.est \/ BadSort(SpecOf(s))
           \/ s.hits = Len(RecordsOf(KeysOf(zh, s.rset)))

\* An rset that is in use is never counted as unused.
RefsEnough ==
    ~zh.gone => \A id \in DOMAIN zh.rsets :
      zh.rsets[id].refs >= Cardinality({i \in DOMAIN zh.sets : zh.sets[i].rset = id})
                            + Cardinality({j \in DOMAIN zh.rsets : zh.rsets[j].kid = id /\ zh.rsets[j].refs > 0})

ZSetsExact == AnswersExact /\ SetsFresh /\ RefsEnough
=============================================================================
