------------------------------- MODULE Dict -------------------------------
(***************************************************************************)
(* The dictionary (dict/): a trie of pages of fixed size over a block file *)
(* that is read and written through a small cache.  A page has a sorted    *)
(* directory of entries: the rest of a string with its information, or one *)
(* character with a page below it.  A full page is first cleaned of unused *)
(* bytes and then split on one character; empty pages go to a free list.   *)
(*                                                                         *)
(* A string is a non-empty sequence of characters (positive numbers), an   *)
(* information a sequence of bytes; sizes are counted in bytes.            *)
(***************************************************************************)
EXTENDS Integers, SequencesExt, FiniteSetsExt

CONSTANTS
    Strings,      \* the strings deleted, looked up and scanned for
    DelPrefixes,  \* the prefixes given to dict_delete_subtree
    DictPairs,    \* the strings and informations given to dict_insert
    DictFirst,    \* sequences of pairs that were inserted before, one of them
    PageSize,     \* bytes of a page behind its header
    PtrBytes,     \* sizeof(Dict_ptr)
    DirBytes,     \* sizeof(short), of an entry of the directory
    DictCache,    \* pages in the cache
    MaxDictOps,   \* bounds on the updates
    MaxDictReads, \* on the lookups
    MaxDictOpens  \* and on the times the file is opened

ASSUME DictAssumption ==
    /\ Strings \cup DelPrefixes \subseteq Seq(Nat \ {0}) \ {<<>>}
    /\ DictPairs \subseteq Strings \X (Seq(Nat) \ {<<>>})
    /\ DictFirst \subseteq Seq(Strings \X (Seq(Nat) \ {<<>>}))
    /\ {PageSize, PtrBytes, DirBytes} \subseteq Nat
    /\ DictCache \in Nat \ {0, 1}
    /\ {MaxDictOps, MaxDictReads, MaxDictOpens} \subseteq Nat

VARIABLES
    dict,         \* [disc, lru, head]: pages in the file, the cache with the
                  \* page used last at the end, and the head in memory
    dictOpen,     \* whether the dictionary is open
    inserted,     \* string -> information, what the dictionary promises to hold
    dictOps       \* how many calls were made

dictVars == <<dict, dictOpen, inserted, dictOps>>

NoHead == [root |-> 0, last |-> 1, free |-> 0]
NoPage == [dir |-> <<>>, size |-> 0, dirty |-> FALSE, back |-> 0]

NoDict == [disc |-> <<>>, lru |-> <<>>, head |-> NoHead]

-----------------------------------------------------------------------------
\* The cache of pages.  d is a value of dict; page 0 is the head.

CachedAt(d, no) == {i \in DOMAIN d.lru : d.lru[i].no = no}

\* dict_bf_flush_blocks
FlushOldest(d) ==
    LET b == Head(d.lru)
    IN  [d EXCEPT !.lru = Tail(@),
                  !.disc = IF b.dirty THEN [n \in DOMAIN @ \cup {b.no} |->
                                               IF n = b.no THEN b.page ELSE @[n]]
                           ELSE @]
FlushPages(d) == FoldLeft(LAMBDA x, b : FlushOldest(x), d, d.lru)

\* alloc_block and move_to_front
ToFront(d, no, page) ==
    IF CachedAt(d, no) # {}
    THEN LET i == Max(CachedAt(d, no))
         IN  [d EXCEPT !.lru = Append(RemoveAt(@, i), @[i])]
    ELSE LET room == IF Len(d.lru) = DictCache THEN FlushOldest(d) ELSE d
         IN  [room EXCEPT !.lru = Append(@, [no |-> no, page |-> page,
                                             dirty |-> FALSE])]

\* dict_bf_readp of a page that exists
ReadPage(d, no) == ToFront(d, no, IF no \in DOMAIN d.disc THEN d.disc[no] ELSE NoPage)
PageAt(d, no) == d.lru[Max(CachedAt(d, no))].page

\* A store through the pointer to a cached page, and dict_bf_touch (a variant
\* forgets to mark the page).
Poke(d, no, page) == [d EXCEPT !.lru[Max(CachedAt(d, no))].page = page]
TouchForgotten(d, no) == d
TouchPage(d, no) == [d EXCEPT !.lru[Max(CachedAt(d, no))].dirty = TRUE]
WritePage(d, no, page) == TouchPage(Poke(d, no, page), no)

\* dict_bf_newp
FreshPage(d, no) == WritePage(ToFront(d, no, NoPage), no, NoPage)

-----------------------------------------------------------------------------
\* Entries: sub is -1 for the rest of a string, the page below (or 0) for a
\* character; the information of a character may be empty.

IsSub(e) == e.sub # -1
EntryBytes(e) == Len(e.info) + 1 +
                 (IF IsSub(e) THEN PtrBytes + 1 ELSE Len(e.key) + 1)
SizeOf(dir) == FoldLeft(LAMBDA n, e : n + EntryBytes(e), 0, dir)

CharAt(s, i) == IF i <= Len(s) THEN s[i] ELSE 0
StrCmp(s, t) ==
    LET apart == {i \in 1..(Len(s) + 1) : CharAt(s, i) # CharAt(t, i)}
    IN  IF apart = {} THEN 0 ELSE CharAt(s, Min(apart)) - CharAt(t, Min(apart))
EntryCmp(e, str) == IF IsSub(e) THEN e.key[1] - str[1] ELSE StrCmp(e.key, str)

\* The binary search of insert, delete, lookup and scan: where it ends, and how
\* the entry there compares (1 on an empty page).
RECURSIVE SearchIn(_, _, _, _, _, _)
SearchIn(dir, str, lo, hi, mid, cmp) ==
    IF lo > hi THEN [mid |-> IF cmp < 0 THEN mid + 1 ELSE mid, found |-> FALSE]
    ELSE LET m == (lo + hi) \div 2
             c == EntryCmp(dir[m], str)
         IN  IF c = 0 THEN [mid |-> m, found |-> TRUE]
             ELSE IF c < 0 THEN SearchIn(dir, str, m + 1, hi, m, c)
             ELSE SearchIn(dir, str, lo, m - 1, m, c)
Search(dir, str) == SearchIn(dir, str, 1, Len(dir), 1, 1)

-----------------------------------------------------------------------------
\* Insertion.

\* new_page; s is [d, no].
NewPage(d, back) ==
    LET page == [NoPage EXCEPT !.back = back]
    IN  IF d.head.free = 0
        THEN [d |-> [Poke(FreshPage(d, d.head.last), d.head.last, page)
                        EXCEPT !.head.last = @ + 1],
              no |-> d.head.last]
        ELSE LET r == ReadPage(d, d.head.free)
             IN  [d |-> [Poke(r, d.head.free, page)
                            EXCEPT !.head.free = PageAt(r, d.head.free).back],
                  no |-> d.head.free]

\* clean_page: the directory is written anew, the strings that begin with c, if
\* any is given, replaced by one entry for the page sub.
CleanDir(dir, c, sub, info) ==
    LET strs == {i \in DOMAIN dir : ~IsSub(dir[i]) /\ dir[i].key[1] = c}
    IN  FlattenSeq([i \in DOMAIN dir |->
            IF i \notin strs THEN <<dir[i]>>
            ELSE IF i = Min(strs) THEN <<[key |-> <<c>>, sub |-> sub, info |-> info]>>
            ELSE <<>>])
CleanPage(d, no, c, sub, info) ==
    LET dir == CleanDir(PageAt(d, no).dir, c, sub, info)
    IN  WritePage(d, no, [PageAt(d, no) EXCEPT !.dir = dir, !.size = SizeOf(dir),
                                               !.dirty = FALSE])

\* The character whose strings are longest together; the first such.
SplitChar(dir) ==
    LET strs(c) == SelectSeq(dir, LAMBDA e : ~IsSub(e) /\ e.key[1] = c)
        weight(c) == FoldLeft(LAMBDA n, e : n + 2 + Len(e.key), 0, strs(c))
        chars == {dir[i].key[1] : i \in {j \in DOMAIN dir : ~IsSub(dir[j])}}
    IN  CHOOSE c \in chars : \A x \in chars :
            weight(c) > weight(x) \/ (weight(c) = weight(x) /\ c <= x)

\* The page is full for bytes more and another entry of the directory.
PageOverflow(page, bytes) == page.size + bytes >= PageSize - (1 + Len(page.dir)) * DirBytes

RECURSIVE Ins(_, _, _, _)

\* split_page: the strings of one character move to a new page, the longest
\* first; that of length one becomes the information of the character.
SplitPage(d, no) ==
    LET dir == PageAt(d, no).dir
        c == SplitChar(dir)
        strs == Reverse(SelectSeq(dir, LAMBDA e : ~IsSub(e) /\ e.key[1] = c))
        sub == NewPage(d, no)
        move(x, e) == IF Len(e.key) = 1 THEN x
                      ELSE ReadPage(Ins(x, Tail(e.key), sub.no, e.info).d, no)
        here == {e.info : e \in {f \in ToSet(strs) : Len(f.key) = 1}}
    IN  CleanPage(FoldLeft(move, sub.d, strs), no, c, sub.no,
                  IF here = {} THEN <<>> ELSE CHOOSE i \in here : TRUE)

\* The page is cleaned if it has unused bytes, or split, for another try.
MakeRoom(d, no) == IF PageAt(d, no).dirty THEN CleanPage(d, no, 0, 0, <<>>)
                   ELSE SplitPage(d, no)

\* The information of the entry at i is replaced where it is, or by a new copy
\* of the entry at the end of the page.
InPlace(d, no, i, info) ==
    LET p == PageAt(d, no)
    IN  IF p.dir[i].info = info THEN d
        ELSE WritePage(d, no, [p EXCEPT !.dir[i].info = info,
                                  !.dirty = @ \/ Len(info) < Len(p.dir[i].info)])
Recopy(d, no, i, info) ==
    LET p == PageAt(d, no)
        e == [p.dir[i] EXCEPT !.info = info]
    IN  WritePage(d, no, [p EXCEPT !.dir[i] = e, !.size = @ + EntryBytes(e),
                                   !.dirty = TRUE])

\* dict_ins: the dictionary afterwards, and 0 for a new string, 1 for a change
\* and 2 for the information that was there.
Ins(d0, str, no, info) ==
    LET d == ReadPage(d0, no)
        p == PageAt(d, no)
        s == Search(p.dir, str)
        e == p.dir[s.mid]
        fits == Len(e.info) >= Len(info)
        bytes == IF s.found /\ IsSub(e) THEN 1 + PtrBytes + Len(info)
                 ELSE Len(str) + 1 + Len(info)
        new == [key |-> str, sub |-> -1, info |-> info]
        below == IF e.sub = 0 THEN NewPage(d, no) ELSE [d |-> d, no |-> e.sub]
        linked == IF e.sub # 0 THEN d
                  ELSE WritePage(below.d, no, [p EXCEPT !.dir[s.mid].sub = below.no])
    IN  IF s.found /\ IsSub(e) /\ Len(str) > 1
        THEN Ins(linked, Tail(str), below.no, info)
        ELSE IF s.found /\ fits
        THEN [d |-> InPlace(d, no, s.mid, info), r |-> IF e.info = info THEN 2 ELSE 1]
        ELSE IF PageOverflow(p, bytes) THEN Ins(MakeRoom(d, no), str, no, info)
        ELSE IF s.found
        THEN [d |-> Recopy(d, no, s.mid, info), r |-> IF e.info = <<>> THEN 0 ELSE 1]
        ELSE [d |-> WritePage(d, no, [p EXCEPT !.dir = InsertAt(@, s.mid, new),
                                               !.size = @ + EntryBytes(new)]),
              r |-> 0]

-----------------------------------------------------------------------------
\* Deletion.

\* The page goes to the free list.
FreePage(d, no) == [WritePage(d, no, [PageAt(d, no) EXCEPT !.back = d.head.free])
                       EXCEPT !.head.free = no]

\* dict_del_subtree
RECURSIVE DelSubtree(_, _)
DelSubtree(d0, no) ==
    IF no = 0 THEN d0
    ELSE LET d == ReadPage(d0, no)
             below(x, e) == IF IsSub(e) /\ e.sub # 0
                            THEN ReadPage(DelSubtree(x, e.sub), no) ELSE x
         IN  FreePage(FoldLeft(below, d, PageAt(d, no).dir), no)

\* An entry leaves the directory; the bytes it had are unused from now on, which
\* the code does not note when the page below it was freed.
DropEntry(p, i, note) == [p EXCEPT !.dir = RemoveAt(@, i), !.dirty = @ \/ note]

\* An empty page other than the root is freed, which the answer 2 says.
FreeEmpty(d, no, r) == IF PageAt(d, no).dir = <<>> /\ no # d.head.root
                       THEN [d |-> FreePage(d, no), r |-> 2] ELSE [d |-> d, r |-> r]

\* dict_del_string at the character that ends the string; sub: with all below.
DelHere(d, no, i, sub) ==
    LET p == PageAt(d, no)
        e == p.dir[i]
        wiped == IF e.info = <<>> THEN p
                 ELSE [p EXCEPT !.dir[i].info = <<>>, !.dirty = TRUE]
        gone == IF sub THEN DropEntry(wiped, i, TRUE) ELSE wiped
        s == FreeEmpty(IF gone = p THEN d ELSE WritePage(d, no, gone), no,
                       IF e.info = <<>> THEN 0 ELSE 1)
    IN  [s EXCEPT !.d = IF sub THEN DelSubtree(@, e.sub) ELSE @]

\* dict_del_string after the page below the character at i.
DelAbove(d0, no, i, r) ==
    LET d == ReadPage(d0, no)
        p == PageAt(d, no)
        q == IF p.dir[i].info # <<>> THEN [p EXCEPT !.dir[i].sub = 0]
             ELSE DropEntry(p, i, FALSE)
    IN  IF r = 2 THEN FreeEmpty(WritePage(d, no, q), no, 1) ELSE FreeEmpty(d, no, r)

\* dict_del_string: the string, or (sub) every string it is a prefix of.
RECURSIVE Del(_, _, _, _)
Del(d0, str, no, sub) ==
    LET d == ReadPage(d0, no)
        p == PageAt(d, no)
        s == Search(p.dir, str)
        e == p.dir[s.mid]
        hit(x) == ~IsSub(x) /\ (IF sub THEN IsPrefix(str, x.key) ELSE x.key = str)
        kept == SelectSeq(p.dir, LAMBDA x : ~hit(x))
        below == Del(d, Tail(str), e.sub, sub)
    IN  IF no = 0 THEN [d |-> d0, r |-> 0]
        ELSE IF s.found /\ IsSub(e)
        THEN IF Len(str) = 1 THEN DelHere(d, no, s.mid, sub)
             ELSE DelAbove(below.d, no, s.mid, below.r)
        ELSE IF kept = p.dir THEN FreeEmpty(d, no, 0)
        ELSE FreeEmpty(WritePage(d, no, [p EXCEPT !.dir = kept, !.dirty = TRUE]),
                       no, 1)

-----------------------------------------------------------------------------
\* Lookup and scan.

\* dict_look: the cache afterwards and the information, empty if not found.
RECURSIVE Look(_, _, _)
Look(d0, str, no) ==
    LET d == ReadPage(d0, no)
        s == Search(PageAt(d, no).dir, str)
        e == PageAt(d, no).dir[s.mid]
    IN  IF ~s.found THEN [d |-> d, info |-> <<>>]
        ELSE IF ~IsSub(e) \/ Len(str) = 1 THEN [d |-> d, info |-> e.info]
        ELSE IF e.sub = 0 THEN [d |-> d, info |-> <<>>]
        ELSE Look(d, Tail(str), e.sub)

\* A scan in progress is [d, n, out, stale]: n terms are still wanted, out were
\* given to the client; stale: a page was looked at by a pointer read before
\* other pages took its place in the cache.
Visit(s, term, info) == [s EXCEPT !.n = @ - 1, !.out = Append(@, <<term, info>>)]
VisitInfo(s, term, info) == IF s.n > 0 /\ info # <<>> THEN Visit(s, term, info) ELSE s

\* scan_direction, from entry at (0: from the first, or the last) in direction dir.
RECURSIVE ScanDir(_, _, _, _, _)
ScanDir(s0, no, prefix, at, dir) ==
    LET page == PageAt(ReadPage(s0.d, no), no).dir
        idx == [i \in 1..Len(page) |-> IF dir > 0 THEN i ELSE Len(page) + 1 - i]
        entry(s, i) ==
            LET e == page[i]
                term == prefix \o e.key
                first == IF dir > 0 THEN VisitInfo(s, term, e.info) ELSE s
                deep == IF first.n > 0 /\ e.sub # 0
                        THEN ScanDir(first, e.sub, term, 0, dir) ELSE first
                back == [deep EXCEPT !.d = ReadPage(@, no),
                                     !.stale = @ \/ /\ dir < 0 /\ deep.n > 0
                                                    /\ CachedAt(deep.d, no) = {}]
                past == at # 0 /\ (IF dir > 0 THEN i < at ELSE i > at)
            IN  IF past \/ s.n = 0 THEN s
                ELSE IF ~IsSub(e) THEN Visit(s, term, e.info)
                ELSE IF dir > 0 THEN back ELSE VisitInfo(back, term, e.info)
    IN  FoldLeft(entry, [s0 EXCEPT !.d = ReadPage(@, no)], idx)

\* dict_scan_r: str is what remains of the term behind prefix; aft and bef are
\* the terms wanted from it on, and before it.  s is [d, aft, bef, up, down,
\* stale]: up and down were found in the two directions.
Up(s, f) == [s EXCEPT !.d = f.d, !.aft = f.n, !.up = f.out, !.stale = f.stale]
Down(s, f) == [s EXCEPT !.d = f.d, !.bef = f.n, !.down = f.out, !.stale = f.stale]
UpOf(s) == [d |-> s.d, n |-> s.aft, out |-> s.up, stale |-> s.stale]
DownOf(s) == [d |-> s.d, n |-> s.bef, out |-> s.down, stale |-> s.stale]
ScanUp(s, no, prefix, at) ==
    IF s.aft = 0 \/ no = 0 THEN s ELSE Up(s, ScanDir(UpOf(s), no, prefix, at, 1))
ScanDown(s, no, prefix, at) ==
    IF s.bef = 0 \/ at = 0 THEN s ELSE Down(s, ScanDir(DownOf(s), no, prefix, at, -1))

RECURSIVE ScanR(_, _, _, _)
ScanR(s0, no, prefix, str) ==
    LET d == ReadPage(s0.d, no)
        page == PageAt(d, no).dir
        f == Search(page, str)
        e == page[f.mid]
        term == prefix \o e.key
        s == [s0 EXCEPT !.d = d]
        deep == IF e.sub = 0 THEN s ELSE ScanR(s, e.sub, term, Tail(str))
        noted == [deep EXCEPT !.stale = @ \/ (deep.bef > 0 /\ CachedAt(deep.d, no) = {})]
        here == IF ~f.found THEN s
                ELSE IF ~IsSub(e) THEN Up(s, VisitInfo(UpOf(s), term, e.info))
                ELSE IF Len(str) = 1
                THEN ScanUp(Up(s, VisitInfo(UpOf(s), term, e.info)), e.sub, term, 0)
                ELSE Down(noted, VisitInfo(DownOf(noted), term, e.info))
        from == IF f.found THEN f.mid + 1 ELSE f.mid
        above == IF from > Len(page) THEN here ELSE ScanUp(here, no, prefix, from)
    IN  ScanDown(above, no, prefix, f.mid - 1)

\* dict_scan
Scan(d, str, bef, aft) ==
    LET s == [d |-> d, aft |-> aft, bef |-> bef, up |-> <<>>, down |-> <<>>,
              stale |-> FALSE]
    IN  IF d.head.root = 0 THEN s ELSE ScanR(s, d.head.root, <<>>, str)

-----------------------------------------------------------------------------
\* dict_copy_compact: page after page, each as long as what it used, and with the
\* places of the pages below translated; the copy is read without a cache.

InfOffset == 2 * PtrBytes + 3 * DirBytes     \* DICT_infoffset, a page's header
CopyCompact(d) ==
    LET page(i) == PageAt(ReadPage(d, i), i)
        last == d.head.last
        place[i \in 0..last] ==
            IF i = 0 THEN 0
            ELSE IF i = 1 THEN PageSize
            ELSE place[i - 1] + InfOffset + page(i - 1).size
                              + Len(page(i - 1).dir) * DirBytes
        moved(e) == IF IsSub(e) THEN [e EXCEPT !.sub = place[@]] ELSE e
    IN  [disc |-> [o \in {place[i] : i \in 1..last - 1} |->
                     LET i == CHOOSE j \in 1..last - 1 : place[j] = o
                     IN  [NoPage EXCEPT !.dir = [j \in DOMAIN page(i).dir |->
                                                    moved(page(i).dir[j])]]],
         lru |-> <<>>,
         head |-> [root |-> place[1], last |-> place[last], free |-> 0]]

-----------------------------------------------------------------------------
\* The calls.

DictUpdate == /\ dictOpen /\ dictOps.update < MaxDictOps
              /\ dictOps' = [dictOps EXCEPT !.update = @ + 1]
              /\ UNCHANGED dictOpen

Without(ss) == [s \in DOMAIN inserted \ ss |-> inserted[s]]
With(str, info) == [s \in DOMAIN inserted \cup {str} |->
                       IF s = str THEN info ELSE inserted[s]]

\* dict_open for writing: a new file gets a head.
Opened(d) == IF 0 \in DOMAIN d.disc
             THEN [ReadPage(d, 0) EXCEPT !.head = d.disc[0].back]
             ELSE [FreshPage(d, 0) EXCEPT !.head = NoHead]
DictOpen == /\ ~dictOpen /\ dictOps.open < MaxDictOpens
            /\ dict' = Opened(dict)
            /\ dictOpen' = TRUE
            /\ dictOps' = [dictOps EXCEPT !.open = @ + 1]
            /\ UNCHANGED inserted

\* dict_close: the head is written and the cache flushed.
Closed(d) == FlushPages(WritePage(ReadPage(d, 0), 0, [NoPage EXCEPT !.back = d.head]))
DictClose == /\ dictOpen
             /\ dict' = Closed(dict)
             /\ dictOpen' = FALSE
             /\ UNCHANGED <<inserted, dictOps>>

\* dict_insert
InsertPair(d, pair) ==
    LET new == NewPage(d, 0)
        r == IF d.head.root # 0 THEN d ELSE [new.d EXCEPT !.head.root = new.no]
    IN  Ins(r, pair[1], r.head.root, pair[2]).d
DictInsert(pair) == /\ DictUpdate
                    /\ dict' = InsertPair(dict, pair)
                    /\ inserted' = With(pair[1], pair[2])

\* dict_delete
DictDelete(str) ==
    /\ DictUpdate /\ str \in DOMAIN inserted
    /\ dict' = Del(dict, str, dict.head.root, FALSE).d
    /\ inserted' = Without({str})

\* dict_delete_subtree
DictDeleteSubtree(prefix) ==
    LET hit == {s \in DOMAIN inserted : IsPrefix(prefix, s)}
    IN  /\ DictUpdate /\ hit # {}
        /\ dict' = Del(dict, prefix, dict.head.root, TRUE).d
        /\ inserted' = Without(hit)

\* dict_lookup, which moves pages through the cache.
DictLookup(str) ==
    /\ dictOpen /\ dict.head.root # 0
    /\ dictOps.read < MaxDictReads
    /\ dict' = Look(dict, str, dict.head.root).d
    /\ dictOps' = [dictOps EXCEPT !.read = @ + 1]
    /\ UNCHANGED <<dictOpen, inserted>>

\* The file of a process that has inserted some pairs, if any, and ended.
DictInit ==
    \E pairs \in DictFirst :
        /\ dict = IF pairs = <<>> THEN NoDict
                  ELSE Closed(FoldLeft(InsertPair, Opened(NoDict), pairs))
        /\ inserted = [str \in {pairs[i][1] : i \in DOMAIN pairs} |->
               pairs[Max({i \in DOMAIN pairs : pairs[i][1] = str})][2]]
        /\ dictOpen = FALSE
        /\ dictOps = [update |-> 0, read |-> 0, open |-> 0]

DictNext ==
    \/ DictOpen \/ DictClose
    \/ \E pair \in DictPairs : DictInsert(pair)
    \/ \E str \in Strings : DictDelete(str) \/ DictLookup(str)
    \/ \E prefix \in DelPrefixes : DictDeleteSubtree(prefix)

-----------------------------------------------------------------------------
\* Properties.

\* The dictionary as it is, or as the next dict_open will find it.
DictNow == IF dictOpen \/ dict.disc = <<>> THEN dict
           ELSE [dict EXCEPT !.head = dict.disc[0].back]
DictHolds(d) == \A str \in Strings :
    IF d.head.root = 0 THEN str \notin DOMAIN inserted
    ELSE Look(d, str, d.head.root).info =
             (IF str \in DOMAIN inserted THEN inserted[str] ELSE <<>>)

Sorted(ss) == [i \in 1..Cardinality(ss) |->
    CHOOSE s \in ss : Cardinality({t \in ss : StrCmp(t, s) < 0}) = i - 1]
Listed(terms, n) == [i \in 1..(IF n < Len(terms) THEN n ELSE Len(terms)) |->
                        <<terms[i], inserted[terms[i]]>>]
ScanHolds(d, str, bef, aft) ==
    \E s \in {Scan(d, str, bef, aft)} :
        /\ ~s.stale
        /\ s.up = Listed(Sorted({t \in DOMAIN inserted : StrCmp(t, str) >= 0}), aft)
        /\ s.down = Listed(Reverse(Sorted({t \in DOMAIN inserted :
                                              StrCmp(t, str) < 0})), bef)

\* The pages that dict_scan_r goes through for the string: it uses the pointer to
\* the first again after the last, so they have to be in the cache together.
RECURSIVE PathTo(_, _, _)
PathTo(d0, str, no) ==
    LET d == ReadPage(d0, no)
        f == Search(PageAt(d, no).dir, str)
        e == PageAt(d, no).dir[f.mid]
    IN  IF f.found /\ IsSub(e) /\ e.sub # 0 /\ Len(str) > 1
        THEN 1 + PathTo(d, Tail(str), e.sub) ELSE 1
PathFits(d, str) == d.head.root = 0 \/ PathTo(d, str, d.head.root) <= DictCache

\* Whatever was cleaned, split, freed and used again, and whichever pages left
\* the cache in between: a lookup (dict_lookup) answers what was inserted last, and
\* so does the compacted copy (dict_copy_compact).  A scan (dict_scan) visits the
\* terms around any string in order, and looks at no page whose place in the cache
\* another has taken: forward for any number of terms (dirs.c, rpnscan.c), and
\* backward for one (rpnscan.c) where the pages on the way to the string fit into
\* the cache.
DictExact ==
    \E d \in {DictNow} :
        /\ DictHolds(d)
        /\ d.head.root # 0 =>
              /\ DictHolds(CopyCompact(d))
              /\ \A str \in Strings :
                    /\ \A n \in {2, Cardinality(Strings)} : ScanHolds(d, str, 0, n)
                    /\ PathFits(d, str) => ScanHolds(d, str, 1, 0)

RECURSIVE TreePages(_, _)
TreePages(d, no) ==
    LET dir == PageAt(ReadPage(d, no), no).dir
    IN  <<no>> \o FlattenSeq([i \in DOMAIN dir |->
            IF IsSub(dir[i]) /\ dir[i].sub # 0 THEN TreePages(d, dir[i].sub) ELSE <<>>])
RECURSIVE FreePages(_, _)
FreePages(d, no) == IF no = 0 THEN <<>>
                    ELSE <<no>> \o FreePages(d, PageAt(ReadPage(d, no), no).back)
PageSound(p) ==
    /\ SizeOf(p.dir) <= p.size /\ p.size <= PageSize - Len(p.dir) * DirBytes
    /\ \A i, j \in DOMAIN p.dir : i < j =>
          IF IsSub(p.dir[i]) \/ IsSub(p.dir[j]) THEN p.dir[i].key[1] < p.dir[j].key[1]
          ELSE StrCmp(p.dir[i].key, p.dir[j].key) < 0

\* Every page is in the tree or in the free list, once; no page of the tree but
\* the root is empty; a page holds no more than fits (checkPage), and its
\* directory is in the order that the binary search relies on.
DictPages ==
    \E d \in {DictNow} :
        LET tree == IF d.head.root = 0 THEN <<>> ELSE TreePages(d, d.head.root)
            free == FreePages(d, d.head.free)
        IN  /\ IsInjective(tree \o free)
            /\ Range(tree \o free) = 1..d.head.last - 1
            /\ \A no \in Range(tree) :
                  \E p \in {PageAt(ReadPage(d, no), no)} :
                      PageSound(p) /\ (p.dir = <<>> => no = d.head.root)

\* The dictionary holds what was inserted and not deleted, for a lookup, a scan
\* and a copy alike, in pages that are each used once (dict/drdwr.c keeps them in
\* a small cache by pointers).
DictSound == DictExact /\ DictPages
=============================================================================
