------------------------------- MODULE RSets -------------------------------
(***************************************************************************)
(* Result sets (src/rset): a query is a tree of sets, each read through a  *)
(* handle that holds one key of each child in advance.  A key is           *)
(* <<record, section, number>>, or <<record, section, segment, number>>    *)
(* with segment indexing; two keys belong to one hit if they differ below  *)
(* the scope of the set only, that is, if record and section agree.        *)
(*                                                                         *)
(* A set t has op, kids, scope, term, limit (hits_limit) and, by op, list  *)
(* (with fwd, whether the isam can forward, and filter, the records that   *)
(* the limit of the search leaves out), seg (segments are compared), the   *)
(* fields of rset_prox_info, or start, stop, attr and two, the terms of    *)
(* rset_between_info.                                                      *)
(***************************************************************************)
EXTENDS Integers, Sequences, SequencesExt, FiniteSetsExt

CONSTANT RsTrees        \* sets that are searched
ASSUME RsAssumption == \A t \in RsTrees : t.scope \in {2, 3} /\ t.limit \in Nat

VARIABLES
    rset,       \* the handle of the set that is read, as an item
    rsHits,     \* the hits that were read, in order
    rsState,    \* "none", "open", "end" or "closed"
    rsCounts    \* hits_count of the sets of the tree after they are closed

rsVars == <<rset, rsHits, rsState, rsCounts>>

\* key_compare: how far from the end two keys differ, and in which direction.
RsCmp(a, b) ==
    LET d == {i \in DOMAIN a : a[i] # b[i]}
        i == Min(d)
    IN  IF d = {} THEN 0
        ELSE IF a[i] > b[i] THEN Len(a) - i + 1 ELSE i - Len(a) - 1
RsSeq(k) == k[Len(k)]
RsSegment(k) == k[Len(k) - 1]
HitOf(k) == <<k[1], k[2]>>

\* rset_create_base, with the fields of the kinds of set (term 0 is none).
RsBase(op, kids, scope) ==
    [op |-> op, kids |-> kids, scope |-> scope, term |-> 0, limit |-> 0,
     list |-> <<>>, fwd |-> TRUE, filter |-> {}, seg |-> FALSE,
     ordered |-> TRUE, exclusion |-> FALSE, relation |-> 3, distance |-> 1,
     start |-> 0, stop |-> 0, attr |-> 0, two |-> {}]
RsTerms(sets) == {s.term : s \in Range(sets)} \ {0}
\* rset_create_between: m2 and attr are sequences of no or one set.
RsBetween(l, r, m1, m2, attr, scope) ==
    [RsBase("between", <<RsBase("and", <<l, r, m1>> \o m2 \o attr, scope)>>, scope) EXCEPT
        !.start = l.term, !.stop = r.term, !.attr = IF attr = <<>> THEN 0 ELSE attr[1].term,
        !.two = RsTerms(m2) \cup UNION {RsTerms(s.kids) : s \in Range(m2)}]

\* An item: a handle fd, the key in its buffer, the term, and whether there was one.
NoItem(fd) == [fd |-> fd, key |-> <<>>, term |-> 0, more |-> FALSE]
Ended(it) == [it EXCEPT !.more = FALSE]
Item(it, from) == [it EXCEPT !.key = from.key, !.term = from.term, !.more = TRUE]
SetItem(it, i, item) == [it EXCEPT !.fd.items[i] = item]

\* The calls of rset.c, which go to the functions of the kind of set; those that
\* sets make on their children are the same calls.
RECURSIVE Rs(_, _, _)
RsOpen(t) == Rs("open", t, <<>>)
RsRead(it) == Rs("read", it, <<>>)
RsForward(it, until) == Rs("forward", it, until)
RsClose(it) == Rs("close", it, <<>>)

-----------------------------------------------------------------------------
\* rsmultiandor.c, "or": a heap of the children that have a key.
RECURSIVE SiftHeap(_, _), LiftHeap(_, _), OrSkip(_, _)
HeapGreater(h, x, y) == RsCmp(h[x].key, h[y].key) > 0
HeapSwap(h, x, y) == [h EXCEPT ![x] = h[y], ![y] = h[x]]
SiftHeap(h, cur) ==
    LET c == 2 * cur
        child == IF c < Len(h) /\ HeapGreater(h, c, c + 1) THEN c + 1 ELSE c
    IN  IF c <= Len(h) /\ HeapGreater(h, cur, child)
        THEN SiftHeap(HeapSwap(h, cur, child), child) ELSE h
LiftHeap(h, cur) ==
    LET parent == cur \div 2
    IN  IF parent > 0 /\ HeapGreater(h, parent, cur)
        THEN LiftHeap(HeapSwap(h, cur, parent), parent) ELSE h
HeapDelete(h) == SiftHeap(Front(IF Len(h) = 1 THEN h ELSE [h EXCEPT ![1] = Last(h)]), 1)

\* The first child of the heap has read its next key, or has ended.
HeapNext(it, first) ==
    [it EXCEPT !.fd.heap = IF first.more THEN SiftHeap([@ EXCEPT ![1] = first], 1)
                           ELSE HeapDelete(@),
               !.fd.ended = IF first.more THEN @ ELSE Append(@, first)]
ReadOr(it) ==
    LET first == it.fd.heap[1]
        r == Item(HeapNext(it, RsRead(first)), first)
    IN  IF it.fd.heap = <<>> THEN Ended(it)
        ELSE IF it.fd.t.term = 0 THEN r ELSE [r EXCEPT !.term = it.fd.t.term]
OrSkip(it, until) ==
    IF it.fd.heap # <<>> /\ RsCmp(it.fd.heap[1].key, until) < -it.fd.t.scope
    THEN OrSkip(HeapNext(it, RsForward(it.fd.heap[1], until)), until) ELSE it
ForwardOr(it, until) == ReadOr(OrSkip(it, until))

\* rsmultiandor.c, "and": once all children agree on a hit they are tails, and
\* their keys within the hit are returned in order.  Children are sorted by size,
\* which is an order like any other here.
RECURSIVE ReadAnd(_), AndMatch(_, _)
InHit(cmp, scope) == -scope < cmp /\ cmp < scope
AndTail(it) ==
    LET fd == it.fd
        t == fd.t
        key(i) == fd.items[i].key
        min == CHOOSE i \in fd.tails : \A j \in fd.tails :
                  \/ RsCmp(key(i), key(j)) < 0
                  \/ RsCmp(key(i), key(j)) = 0 /\ i <= j
        segs == {i \in fd.tails : t.seg /\ RsSegment(key(i)) # 0}
        segment == IF fd.segment # 0 \/ segs = {} THEN fd.segment ELSE RsSegment(key(Min(segs)))
        n == RsRead(fd.items[min])
        out == ~n.more \/ RsCmp(n.key, key(min)) >= t.scope
        r == [Item(it, fd.items[min]) EXCEPT
                !.fd.items[min] = n,
                !.fd.eof = @ \/ ~n.more,
                !.fd.tails = IF out THEN @ \ {min} ELSE @,
                !.fd.segment = segment,
                !.fd.skip = @ \/ \E i \in segs : RsSegment(key(i)) # segment]
    IN  IF r.fd.skip THEN ReadAnd(r) ELSE r
AndMatch(it, i) ==
    LET items == it.fd.items
        cmp == RsCmp(items[1].key, items[i].key)
        first == RsForward(items[1], items[i].key)
        other == RsForward(items[i], items[1].key)
        over(j, item) == [Ended(SetItem(it, j, item)) EXCEPT !.fd.eof = TRUE]
    IN  CASE i > Len(items) ->
               ReadAnd([it EXCEPT !.fd.tails = DOMAIN items, !.fd.segment = 0, !.fd.skip = FALSE])
          [] i <= Len(items) /\ cmp <= -it.fd.t.scope ->
               IF first.more THEN AndMatch(SetItem(it, 1, first), 2) ELSE over(1, first)
          [] i <= Len(items) /\ cmp >= it.fd.t.scope ->
               IF other.more THEN AndMatch(SetItem(it, i, other), i) ELSE over(i, other)
          [] OTHER -> AndMatch(it, i + 1)
ReadAnd(it) ==
    IF it.fd.tails # {} THEN AndTail(it)
    ELSE IF it.fd.eof THEN Ended(it) ELSE AndMatch(it, 2)
ForwardAnd(it, until) ==
    LET one(s, i) ==
            LET f == RsForward(s.items[i], until)
            IN  IF s.stop \/ RsCmp(s.items[i].key, until) > -it.fd.t.scope THEN s
                ELSE [items |-> [s.items EXCEPT ![i] = f], kill |-> TRUE, stop |-> ~f.more]
        s == FoldLeft(one, [items |-> it.fd.items, kill |-> FALSE, stop |-> FALSE],
                      [i \in DOMAIN it.fd.items |-> i])
        r == [it EXCEPT !.fd.items = s.items, !.fd.tails = IF s.kill THEN {} ELSE @,
                        !.fd.eof = @ \/ s.stop]
    IN  IF s.stop THEN Ended(r) ELSE ReadAnd(r)

-----------------------------------------------------------------------------
\* rsbool.c, "not".
RECURSIVE ReadNot(_), PastHit(_, _, _)
PastHit(item, key, scope) ==
    LET n == RsRead(item)
    IN  IF n.more /\ InHit(RsCmp(n.key, key), scope) THEN PastHit(n, key, scope) ELSE n
ReadNot(it) ==
    LET l == it.fd.items[1]
        r == it.fd.items[2]
        scope == it.fd.t.scope
        cmp == IF r.more THEN RsCmp(l.key, r.key) ELSE -scope
    IN  CASE ~l.more -> Ended(it)
          [] l.more /\ cmp <= -scope -> SetItem(Item(it, l), 1, RsRead(l))
          [] l.more /\ cmp >= scope -> ReadNot(SetItem(it, 2, RsForward(r, l.key)))
          [] OTHER -> ReadNot([Item(it, l) EXCEPT
                                 !.fd.items = <<PastHit(l, l.key, scope), PastHit(r, l.key, scope)>>])
ForwardNot(it, until) ==
    LET to(item) == IF item.more /\ RsCmp(until, item.key) >= it.fd.t.scope
                    THEN RsForward(item, until) ELSE item
    IN  ReadNot([it EXCEPT !.fd.items = <<to(@[1]), to(@[2])>>])

-----------------------------------------------------------------------------
\* rsprox.c.  With an order and a relation <, <= or =, the keys of the children
\* chase each other; otherwise the numbers of the first child within a hit are
\* kept, up to RsMaxSeqs of them, and compared with those of the second.
RsMaxSeqs == 500
ProxHolds(t, diff) ==
    /\ diff >= 0
    /\ CASE t.relation = 1 -> diff < t.distance
         [] t.relation = 2 -> diff <= t.distance
         [] t.relation = 3 -> diff = t.distance
         [] t.relation = 4 -> diff >= t.distance
         [] t.relation = 5 -> diff > t.distance
         [] t.relation = 6 -> diff # t.distance
ProxDiff(t, a, b) == IF ~t.ordered /\ b < a THEN a - b ELSE b - a
ProxPair(t, a, b) == ProxHolds(t, ProxDiff(t, a, b)) # t.exclusion

RECURSIVE ProxOrdered(_), ProxTwo(_), SeqsOfHit(_, _, _), ProxHit(_, _, _)
ProxOrdered(it) ==
    LET t == it.fd.t
        items == it.fd.items
        cmp(i) == RsCmp(items[i].key, items[i - 1].key)
        ok(i) == /\ items[i - 1].more /\ items[i].more /\ 0 < cmp(i) /\ cmp(i) < t.scope
                 /\ ProxHolds(t, RsSeq(items[i].key) - RsSeq(items[i - 1].key))
        i == Min({j \in 2..Len(items) : ~ok(j)})
        n == Len(items)
        before(item) == ProxOrdered(SetItem(it, i - 1, item))
    IN  CASE ~items[1].more -> Ended(it)
          [] items[1].more /\ \A j \in 2..n : ok(j) ->
               SetItem(Item(it, items[n]), n, RsRead(items[n]))
          [] OTHER ->
               CASE ~items[i].more -> Ended([it EXCEPT !.fd.items[1].more = FALSE])
                 [] items[i].more /\ cmp(i) >= t.scope -> before(RsForward(items[i - 1], items[i].key))
                 [] items[i].more /\ cmp(i) > 0 /\ cmp(i) < t.scope -> before(RsRead(items[i - 1]))
                 [] OTHER -> ProxOrdered(SetItem(it, i, RsForward(items[i], items[i - 1].key)))

SeqsOfHit(item, key, seqs) ==
    LET n == RsRead(item)
    IN  IF n.more /\ InHit(RsCmp(n.key, key), item.fd.t.scope)
        THEN SeqsOfHit(n, key, IF Len(seqs) < RsMaxSeqs THEN Append(seqs, RsSeq(n.key)) ELSE seqs)
        ELSE [item |-> n, seqs |-> seqs]
ProxHit(it, key, seqs) ==
    LET second == it.fd.items[2]
        r == SetItem(it, 2, RsRead(second))
        n == r.fd.items[2]
    IN  IF \E s \in Range(seqs) : ProxPair(it.fd.t, s, RsSeq(second.key)) THEN r
        ELSE IF n.more /\ InHit(RsCmp(key, n.key), it.fd.t.scope) THEN ProxHit(r, key, seqs)
        ELSE ProxTwo(r)
ProxTwo(it) ==
    LET a == it.fd.items[1]
        b == it.fd.items[2]
        scope == it.fd.t.scope
        cmp == RsCmp(a.key, b.key)
        s == SeqsOfHit(a, b.key, <<RsSeq(a.key)>>)
        both == a.more /\ b.more
    IN  CASE ~both -> Ended(it)
          [] both /\ cmp <= -scope -> ProxTwo(SetItem(it, 1, RsForward(a, b.key)))
          [] both /\ cmp >= scope -> ProxTwo(SetItem(it, 2, RsForward(b, a.key)))
          [] OTHER -> ProxHit(Item(SetItem(it, 1, s.item), b), b.key, s.seqs)
ReadProx(it) ==
    LET t == it.fd.t
    IN  IF t.ordered /\ t.relation <= 3 /\ ~t.exclusion THEN ProxOrdered(it)
        ELSE IF Len(t.kids) = 2 THEN ProxTwo(it) ELSE Ended(it)
ForwardProx(it, until) ==
    LET a == it.fd.items[1]
    IN  ReadProx(IF a.more /\ RsCmp(until, a.key) >= it.fd.t.scope
                 THEN SetItem(it, 1, RsForward(a, until)) ELSE it)

-----------------------------------------------------------------------------
\* rsbetween.c: hits of the third and fourth set within an element, whose tags are
\* the first two sets, and whose attribute, if one is asked for, is the last.
RECURSIVE ReadBetween(_)
CheckAttr(fd) ==
    CASE fd.attrdepth # 0 -> fd
      [] fd.attrdepth = 0 /\ fd.t.attr = 0 -> [fd EXCEPT !.attrdepth = -1]
      [] fd.attrdepth = 0 /\ fd.t.attr # 0 /\ fd.start = fd.attr -> [fd EXCEPT !.attrdepth = fd.depth]
      [] OTHER -> fd
StopTag(fd) ==
    LET d == fd.depth - 1
    IN  [fd EXCEPT !.depth = d, !.match = IF d = 0 THEN {} ELSE @,
                   !.attrdepth = IF @ = fd.depth THEN 0 ELSE @]
Matched(fd, term) ==
    IF fd.depth = 0 \/ fd.attrdepth = 0 THEN fd
    ELSE [fd EXCEPT !.match = @ \cup IF fd.t.two = {} THEN {1, 2}
                                     ELSE IF term \in fd.t.two THEN {2} ELSE {1}]
ReadBetween(it) ==
    LET n == RsRead(it.fd.items[1])
        t == it.fd.t
        new == it.fd.rec = <<>> \/ RsCmp(n.key, it.fd.rec) >= t.scope
        fd0 == [it.fd EXCEPT !.items[1] = n]
        fd1 == IF new THEN [fd0 EXCEPT !.depth = 0, !.attrdepth = 0, !.match = {}, !.rec = n.key]
               ELSE fd0
        fd2 == CASE n.term = t.start -> CheckAttr([fd1 EXCEPT !.depth = @ + 1, !.start = n.key])
                 [] n.term = t.stop -> StopTag(fd1)
                 [] n.term = t.attr -> CheckAttr([fd1 EXCEPT !.attr = n.key])
                 [] OTHER -> Matched(fd1, n.term)
        hit == n.term \notin {t.start, t.stop, t.attr}
               /\ fd1.depth # 0 /\ fd1.attrdepth # 0 /\ fd2.match = {1, 2}
        r == [Item(it, n) EXCEPT !.fd = fd2]
    IN  IF ~n.more THEN Ended([it EXCEPT !.fd = fd0]) ELSE IF hit THEN r ELSE ReadBetween(r)
\* r_forward moves the set of all five on and leaves depth and matches as they are.
ForwardBetween(it, until) ==
    LET n == RsForward(it.fd.items[1], until)
        r == [it EXCEPT !.fd.items[1] = n]
    IN  IF n.more THEN Item(r, n) ELSE Ended(r)

-----------------------------------------------------------------------------
\* rsisamb.c, rsisamc.c, rsisams.c and, without keys, rsnull.c: forward of isamb
\* finds the first key not before the hit of until (it does not use the filter).
IsamMove(it, next) ==
    LET t == it.fd.t
    IN  IF next = {} THEN Ended([it EXCEPT !.fd.at = Len(t.list)])
        ELSE [it EXCEPT !.fd.at = Min(next), !.key = t.list[Min(next)], !.term = t.term, !.more = TRUE]
IsamLater(it) == it.fd.at + 1 .. Len(it.fd.t.list)
ReadIsam(it) == IsamMove(it, {j \in IsamLater(it) : it.fd.t.list[j][1] \notin it.fd.t.filter})
ForwardIsam(it, until) ==
    IsamMove(it, {j \in IsamLater(it) : RsCmp(until, it.fd.t.list[j]) < it.fd.t.scope})

\* rset_open: f_open of each kind; operators open their children and read one key.
Having(items, more) == SelectSeq(items, LAMBDA i : i.more = more)
HeapOf(items) == FoldLeft(LAMBDA h, i : LiftHeap(Append(h, i), Len(h) + 1), <<>>, items)
OpenedBy(op, items) ==
    CASE op = "isam" -> [at |-> 0]
      [] op = "or" -> [heap |-> HeapOf(Having(items, TRUE)), ended |-> Having(items, FALSE)]
      [] op = "and" -> [items |-> items, tails |-> {}, segment |-> 0, skip |-> FALSE,
                        eof |-> Having(items, FALSE) # <<>>]
      [] op \in {"not", "prox"} -> [items |-> items]
      [] op = "between" -> [items |-> items, rec |-> <<>>, start |-> <<0>>, attr |-> <<>>,
                            depth |-> 0, attrdepth |-> 0, match |-> {}]
FirstItem(t, it) == IF t.op = "between" THEN it ELSE RsRead(it)
FOpen(t) ==
    [t |-> t, count |-> 0, counted |-> <<>>] @@
    OpenedBy(t.op, [i \in DOMAIN t.kids |-> FirstItem(t, NoItem(RsOpen(t.kids[i])))])

\* rset_default_read counts records; rset_default_forward reads key by key until
\* hits_limit records are counted, and where the kind of set has no forward.  A
\* variant forwards at once.
FRead(it) ==
    CASE it.fd.t.op = "isam" -> ReadIsam(it)
      [] it.fd.t.op = "or" -> ReadOr(it)
      [] it.fd.t.op = "and" -> ReadAnd(it)
      [] it.fd.t.op = "not" -> ReadNot(it)
      [] it.fd.t.op = "prox" -> ReadProx(it)
      [] it.fd.t.op = "between" -> ReadBetween(it)
FForward(it, until) ==
    CASE it.fd.t.op = "isam" -> ForwardIsam(it, until)
      [] it.fd.t.op = "or" -> ForwardOr(it, until)
      [] it.fd.t.op = "and" -> ForwardAnd(it, until)
      [] it.fd.t.op = "not" -> ForwardNot(it, until)
      [] it.fd.t.op = "prox" -> ForwardProx(it, until)
      [] it.fd.t.op = "between" -> ForwardBetween(it, until)
CountHit(r) ==
    IF r.more /\ (r.fd.count = 0 \/ RsCmp(r.key, r.fd.counted) > r.fd.t.scope)
    THEN [r EXCEPT !.fd.count = @ + 1, !.fd.counted = r.key] ELSE r
HasForward(t) == t.op # "isam" \/ t.fwd
ForwardAtOnce(fd) == HasForward(fd.t)
MayForward(fd) == HasForward(fd.t) /\ fd.count >= fd.t.limit
RECURSIVE ReadUntil(_, _)
ReadUntil(it, until) ==
    LET r == RsRead(it)
    IN  IF r.more /\ RsCmp(until, r.key) >= it.fd.t.scope THEN ReadUntil(r, until) ELSE r

\* rset_close reads on until more than hits_limit records are counted, takes the
\* count, or an estimate of it if there are more, and closes the children.
RECURSIVE CountOn(_)
CountOn(it) == IF it.fd.count > it.fd.t.limit THEN it
               ELSE LET r == RsRead(it) IN IF r.more THEN CountOn(r) ELSE r
KidsOf(fd) == CASE fd.t.op = "isam" -> {}
                [] fd.t.op = "or" -> Range(fd.heap \o fd.ended)
                [] OTHER -> Range(fd.items)
Closed(it) == {[t |-> it.fd.t, count |-> it.fd.count,
                approx |-> it.fd.t.limit > 0 /\ it.fd.count > it.fd.t.limit]}
              \cup UNION {RsClose(k) : k \in KidsOf(it.fd)}

Rs(call, x, until) ==
    CASE call = "open" -> FOpen(x)
      [] call = "read" -> CountHit(FRead(x))
      [] call = "forward" /\ MayForward(x.fd) -> FForward(x, until)
      [] call = "forward" /\ ~MayForward(x.fd) -> ReadUntil(x, until)
      [] call = "close" -> Closed(CountOn(x))

-----------------------------------------------------------------------------
\* A search opens its set, reads it to the end or in part, and closes it.
RSetsInit == /\ rset = NoItem([t |-> 0]) /\ rsHits = <<>>
             /\ rsState = "none" /\ rsCounts = {}
RsSearch ==
    /\ rsState = "none" /\ rsState' = "open"
    /\ \E t \in RsTrees : rset' = NoItem(RsOpen(t))
    /\ UNCHANGED <<rsHits, rsCounts>>
RsNextHit ==
    /\ rsState = "open"
    /\ \E r \in {RsRead(rset)} :
          /\ rset' = r
          /\ rsState' = IF r.more THEN "open" ELSE "end"
          /\ rsHits' = IF r.more /\ (rsHits = <<>> \/ Last(rsHits) # HitOf(r.key))
                       THEN Append(rsHits, HitOf(r.key)) ELSE rsHits
    /\ UNCHANGED rsCounts
RsDone ==
    /\ rsState \in {"open", "end"} /\ rsState' = "closed"
    /\ rsCounts' = RsClose(rset)
    /\ UNCHANGED <<rset, rsHits>>

RSetsNext == RsSearch \/ RsNextHit \/ RsDone

-----------------------------------------------------------------------------
\* Properties: what the operators mean.  Where the code is known to fail, a set lies
\* between two meanings: with most, all that it may return, without, all that it must;
\* fwd says that the parent may forward it.  They are the same but for
\*   - r_forward of isamb, which does not use the filter (rsisamb.c:135): forwarded,
\*     a list may return records that are left out;
\*   - r_forward of between, which does not look at tags (rsbetween.c:201): forwarded,
\*     it may return what all its sets have;
\*   - ordered proximity with "=" and a distance above 1, which reads the first child
\*     on where the second should be (rsprox.c:185): of a hit with keys closer than
\*     the distance it may see nothing.
RECURSIVE RsKeys(_, _), RsMeaning(_, _, _)
RsKeys(t, all) == IF t.op = "isam" THEN {k \in Range(t.list) : all \/ k[1] \notin t.filter}
                  ELSE UNION {RsKeys(k, all) : k \in Range(t.kids)}
KeysIn(t, h, all) == {k \in RsKeys(t, all) : HitOf(k) = h}
HitsIn(t, all) == {HitOf(k) : k \in RsKeys(t, all)}

\* A key of each child within a hit.
KeyChoices(t, h, all) ==
    {ks \in [DOMAIN t.kids -> UNION {KeysIn(k, h, all) : k \in Range(t.kids)}] :
        \A i \in DOMAIN ks : ks[i] \in KeysIn(t.kids[i], h, all)}
ProxChases(t) == t.ordered /\ t.relation <= 3 /\ ~t.exclusion
ProxMeaning(t, ks) ==
    IF ProxChases(t)
    THEN \A i \in 2..Len(t.kids) :
            /\ RsSeq(ks[i]) > RsSeq(ks[i - 1])
            /\ ProxHolds(t, RsSeq(ks[i]) - RsSeq(ks[i - 1]))
    ELSE ProxPair(t, RsSeq(ks[1]), RsSeq(ks[2]))
ProxMayMiss(t, h) ==
    /\ ProxChases(t) /\ t.relation = 3 /\ t.distance > 1
    /\ \E ks \in KeyChoices(t, h, TRUE) : \E i \in 2..Len(t.kids) :
          RsSeq(ks[i]) - RsSeq(ks[i - 1]) \in 1..t.distance - 1
SameSegment(ks) == \A i, j \in DOMAIN ks : RsSegment(ks[i]) = RsSegment(ks[j])

\* The elements of a hit, as pairs of the numbers of their tags, and what is in one
\* that is not in another and has the attribute somewhere above.
TagsIn(t, h, term) == UNION {{RsSeq(k) : k \in KeysIn(s, h, FALSE)} : s \in {s \in Range(t.kids) : s.term = term}}
BetweenMeaning(t, h) ==
    LET a == t.kids[1]
        starts == TagsIn(a, h, t.start)
        stops == TagsIn(a, h, t.stop)
        depth(n) == Cardinality({s \in starts : s <= n}) - Cardinality({s \in stops : s < n})
        end(s) == Min({e \in stops : e > s /\ depth(e) = depth(s)})
        inside(n, s) == s < n /\ n < end(s)
        attrs == TagsIn(a, h, t.attr)
        good(n) == t.attr = 0 \/ \E s \in starts : s \in attrs /\ inside(n, s)
        others == {k.term : k \in Range(a.kids)} \ {t.start, t.stop, t.attr}
        hits(terms) == UNION {TagsIn(a, h, x) : x \in terms}
    IN  \E s \in starts : depth(s) = 1 /\
          /\ \E n \in hits(others \ t.two) : inside(n, s) /\ good(n)
          /\ t.two = {} \/ \E n \in hits(t.two) : inside(n, s) /\ good(n)
RsMeaning(t, most, fwd) ==
    LET hits == HitsIn(t, most /\ fwd)
        kid(i) == RsMeaning(t.kids[i], most, TRUE)
    IN  CASE t.op = "isam" -> hits
          [] t.op = "or" -> UNION {RsMeaning(k, most, fwd) : k \in Range(t.kids)}
          [] t.op = "and" ->
               {h \in HitsIn(t, most) : /\ \A i \in DOMAIN t.kids : h \in kid(i)
                                        /\ t.seg => \E ks \in KeyChoices(t, h, most) : SameSegment(ks)}
          [] t.op = "not" -> kid(1) \ RsMeaning(t.kids[2], ~most, TRUE)
          [] t.op = "prox" ->
               {h \in HitsIn(t, most) : /\ \E ks \in KeyChoices(t, h, most) : ProxMeaning(t, ks)
                                        /\ most \/ ~ProxMayMiss(t, h)}
          [] t.op = "between" ->
               IF most /\ fwd THEN kid(1) ELSE {h \in HitsIn(t, FALSE) : BetweenMeaning(t, h)}
RsBefore(a, b) == a[1] < b[1] \/ (a[1] = b[1] /\ a[2] < b[2])

\* Read to its end, a set has returned each hit it stands for, no other, and in
\* order, however its children were forwarded past each other.
SetsMeanIt ==
    /\ \A i \in 2..Len(rsHits) : RsBefore(rsHits[i - 1], rsHits[i])
    /\ rsState = "end" => RsMeaning(rset.fd.t, FALSE, FALSE) \subseteq Range(rsHits)
    /\ rsState # "none" => Range(rsHits) \subseteq RsMeaning(rset.fd.t, TRUE, FALSE)

\* A count that is below the limit of a set is the number of its records, though the
\* set was read in part, in turns with others, and by a parent that forwards.
CountsExactBelow ==
    \A c \in rsCounts : c.t.limit > 0 /\ c.count < c.t.limit =>
        c.count \in Cardinality({h[1] : h \in RsMeaning(c.t, FALSE, FALSE)})
                    ..Cardinality({h[1] : h \in RsMeaning(c.t, TRUE, FALSE)})

ResultSetsExact == SetsMeanIt /\ CountsExactBelow
=============================================================================
