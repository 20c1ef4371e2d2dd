------------------------------ MODULE SortIdx ------------------------------
(***************************************************************************)
(* The sort index (sortidx.c) and the part of an update that keeps it      *)
(* (extract_flush_sort_keys of extract.c): one file for each ordinal,      *)
(* either flat, a block for each record, or one isamb list of the keys of  *)
(* all records, of which a reader is kept between reads of rising record   *)
(* numbers.                                                                *)
(*                                                                         *)
(* A term is a sequence of letters, numbers above 0; 0 ends a string.  The *)
(* list of a file is the set of its items: module IsamB shows that it      *)
(* reads back in order.                                                    *)
(***************************************************************************)
EXTENDS Integers, SequencesExt, FiniteSetsExt

CONSTANTS
    SortTypes,    \* ZEBRA_SORT_TYPE_...: subset of {"flat", "isamb", "multi"}
    SortRecords,  \* record numbers
    SortKeySets,  \* the sort keys of a record: sequences of [ord, section, term]
    EntrySize,    \* SORT_IDX_ENTRYSIZE
    MaxTerm,      \* SORT_MAX_TERM and SORT_MAX_MULTI: longest entry of a list
    MaxSortOps    \* bound on the operations

SortOrds == UNION {{k[i].ord : i \in DOMAIN k} : k \in SortKeySets}

ASSUME SortIdxAssumption ==
    /\ SortTypes \subseteq {"flat", "isamb", "multi"}
    /\ SortRecords \subseteq Nat \ {0}
    /\ \A k \in SortKeySets : \A i \in DOMAIN k : Len(k[i].term) > 0
    /\ EntrySize \in Nat \ {0} /\ MaxTerm \in Nat \ {0} /\ MaxSortOps \in Nat

VARIABLES
    sortDisk,     \* by ordinal: blocks by record, or the items of the list
    si,           \* the open index: type, sysno, entry_buf, the open files with
                  \* their reader and their counts
    sortKeysOf,   \* recInfo_sortKeys of the records
    sortGot,      \* the last read: [sysno, ord, got, past]
    sortOps

sortVars == <<sortDisk, si, sortKeysOf, sortGot, sortOps>>

NoRead == [sysno |-> 0, ord |-> 0, got |-> <<>>, past |-> FALSE]
ClosedSort == [type |-> "", sysno |-> 0, buf |-> [i \in 1..EntrySize |-> 0],
               files |-> <<>>]

SortIdxInit ==
    /\ sortDisk = [o \in SortOrds |-> {}]
    /\ si = ClosedSort /\ sortGot = NoRead /\ sortOps = 0
    /\ sortKeysOf = [r \in SortRecords |-> <<>>]

SortOp == sortOps < MaxSortOps /\ sortOps' = sortOps + 1

-----------------------------------------------------------------------------
\* zebra_sort_open: the type does not change in the life of a register.
SortOpen(type) ==
    /\ SortOp /\ si.type = ""
    /\ si' = [ClosedSort EXCEPT !.type = type]
    /\ UNCHANGED <<sortDisk, sortKeysOf, sortGot>>

\* A file of the index: the reader's last item (0 before the first, -1 when there
\* is no reader) and the numbers of items inserted and deleted at this record.
NewFile == [pp |-> -1, ins |-> 0, del |-> 0]
Rewind(f) == NewFile

\* zebra_sort_type.
SortType(s, o) == IF o \in DOMAIN s.files THEN s
                  ELSE [s EXCEPT !.files = [x \in DOMAIN @ \cup {o} |->
                                               IF x = o THEN NewFile ELSE @[x]]]

\* zebra_sort_sysno.  A variant keeps the readers of files read only.
SortSysnoForward(s, n) ==
    [s EXCEPT !.sysno = n,
              !.files = [o \in DOMAIN @ |-> IF @[o].ins + @[o].del > 0 THEN Rewind(@[o])
                                            ELSE @[o]]]
SortSysno(s, n) ==
    [s EXCEPT !.sysno = n,
              !.files = [o \in DOMAIN @ |->
                  IF @[o].ins + @[o].del > 0 \/ (@[o].pp >= 0 /\ n <= s.sysno)
                  THEN Rewind(@[o]) ELSE @[o]]]

\* What an entry keeps of strings that each end in 0: flat the first, without its
\* end, over what the buffer held; otherwise all, cut with an end put.
FirstString(w) == SubSeq(w, 1, SelectInSeq(w, LAMBDA c : c = 0) - 1)
FlatEntry(buf, w) ==
    LET t == FirstString(w)
        len == IF Len(t) > EntrySize THEN EntrySize ELSE Len(t)
    IN  [i \in 1..EntrySize |-> IF i <= len THEN t[i]
                                ELSE IF len < EntrySize - len THEN 0 ELSE buf[i]]
ListEntry(type, w) ==
    LET cut == IF Len(w) <= MaxTerm THEN w ELSE SubSeq(w, 1, MaxTerm - 1) \o <<0>>
    IN  IF type = "isamb" THEN FirstString(cut) \o <<0>> ELSE cut

\* zebra_sort_add and zebra_sort_delete, in a state [s, disk] of the index: one
\* item of a list for each record.
WithBlock(d, n, e) == {b \in d : b[1] # n} \cup {<<n, 0, e>>}
SortAdd(x, o, section, w) ==
    LET s == x.s
        e == FlatEntry(s.buf, w)
        item == <<s.sysno, IF s.type = "isamb" THEN 0 ELSE section, ListEntry(s.type, w)>>
    IN  IF s.type = "flat" THEN [s |-> [s EXCEPT !.buf = e],
                                 disk |-> [x.disk EXCEPT ![o] = WithBlock(@, s.sysno, e)]]
        ELSE IF s.files[o].ins > 0 THEN x
        ELSE [s |-> [s EXCEPT !.files[o].ins = @ + 1],
              disk |-> [x.disk EXCEPT ![o] = @ \cup {item}]]
SortDelete(x, o, section) ==
    LET s == x.s
        zero == [i \in 1..EntrySize |-> 0]
    IN  IF s.type = "flat" THEN [s |-> [s EXCEPT !.buf = zero],
                                 disk |-> [x.disk EXCEPT ![o] = WithBlock(@, s.sysno, zero)]]
        ELSE IF s.files[o].del > 0 THEN x
        ELSE [s |-> [s EXCEPT !.files[o].del = @ + 1],
              disk |-> [x.disk EXCEPT ![o] = {i \in @ : <<i[1], i[2]>> # <<s.sysno, section>>}]]

\* extract_flush_sort_keys: the terms of an ordinal and a section are one entry.
SortEntries(keys) ==
    LET same(k) == SelectSeq(keys, LAMBDA j : j.ord = k.ord /\ j.section = k.section)
        first(i) == \A j \in 1..i - 1 : keys[j].ord # keys[i].ord
                                        \/ keys[j].section # keys[i].section
        nos == SelectSeq([i \in DOMAIN keys |-> i], first)
    IN  [n \in DOMAIN nos |->
            LET k == keys[nos[n]]
            IN  [ord |-> k.ord, section |-> k.section,
                 w |-> FlattenSeq([i \in DOMAIN same(k) |-> same(k)[i].term \o <<0>>])]]
FlushSortKeys(x, n, cmd, keys) ==
    LET one(y, e) ==
            LET t == [y EXCEPT !.s = SortType(@, e.ord)]
            IN  IF cmd = 1 THEN SortAdd(t, e.ord, e.section, e.w)
                ELSE SortDelete(t, e.ord, e.section)
    IN  IF keys = <<>> THEN x
        ELSE FoldLeft(one, [x EXCEPT !.s = SortSysno(@, n)], SortEntries(keys))

\* The keys of a record are replaced: an update, or with <<>> a deletion.
SortUpdate(n, keys) ==
    /\ SortOp /\ si.type # ""
    /\ si.type = "isamb" => \A i \in DOMAIN keys : keys[i].section = 0
    /\ LET old == FlushSortKeys([s |-> si, disk |-> sortDisk], n, 0, sortKeysOf[n])
       IN  \E x \in {FlushSortKeys(old, n, 1, keys)} :
              si' = x.s /\ sortDisk' = x.disk
    /\ sortKeysOf' = [sortKeysOf EXCEPT ![n] = keys]
    /\ sortGot' = NoRead

\* zebra_sort_read, after zebra_sort_sysno and zebra_sort_type: isamb_pp_forward
\* goes to the first item not before the record that the reader has not passed.
ReadList(s, d, o) ==
    LET pp == s.files[o].pp
        ahead == {i \in d : i[1] >= s.sysno /\ i[1] > pp}
        m == CHOOSE i \in ahead : \A j \in ahead : i[1] < j[1] \/ (i[1] = j[1] /\ i[2] <= j[2])
        end == Max({i[1] : i \in d} \cup {s.sysno})
    IN  IF d = {} THEN [pp |-> pp, got |-> <<>>]
        ELSE IF ahead = {} THEN [pp |-> end, got |-> <<>>]
        ELSE [pp |-> m[1], got |-> IF m[1] = s.sysno THEN m[3] ELSE <<>>]
ReadFlat(s, d) ==
    LET b == {x \in d : x[1] = s.sysno}
        e == (CHOOSE x \in b : TRUE)[3]
    IN  IF b = {} \/ e[1] = 0 THEN <<>> ELSE FirstString(e \o <<0>>) \o <<0>>
SortRead(n, o) ==
    /\ SortOp /\ si.type # ""
    /\ \E s \in {SortType(SortSysno(si, n), o)} :
       LET r == ReadList(s, sortDisk[o], o)
           flat == s.type = "flat"
       IN  /\ si' = IF flat THEN s ELSE [s EXCEPT !.files[o].pp = r.pp]
           /\ sortGot' = [sysno |-> n, ord |-> o,
                          got |-> IF flat THEN ReadFlat(s, sortDisk[o]) ELSE r.got,
                          past |-> ~flat /\ n > si.sysno /\ s.files[o].pp >= n]
    /\ UNCHANGED <<sortDisk, sortKeysOf>>

\* zebra_sort_close and zebra_sort_open.
SortReopen ==
    /\ SortOp /\ si.type # ""
    /\ si' = [ClosedSort EXCEPT !.type = si.type]
    /\ UNCHANGED <<sortDisk, sortKeysOf, sortGot>>

SortIdxNext ==
    \/ \E type \in SortTypes : SortOpen(type)
    \/ SortReopen
    \/ \E n \in SortRecords, keys \in SortKeySets \cup {<<>>} : SortUpdate(n, keys)
    \/ \E n \in SortRecords, o \in SortOrds : SortRead(n, o)

-----------------------------------------------------------------------------
\* Properties.

KeysFor(n, o) == SelectSeq(SortEntries(sortKeysOf[n]), LAMBDA e : e.ord = o)

\* The index has the keys of the records and no others: what a read returns is the
\* key the record has at that ordinal, of its first section (flat: its last) and
\* cut (flat and isamb: to the first string of it), and nothing is returned for a
\* record without one.  Excepted: a read that follows one which went past the
\* record, looking for a record that has no key; and a flat entry of half the size
\* or more, after which the buffer keeps what it had.
SortReadsExact ==
    (sortGot.sysno # 0 /\ ~sortGot.past) =>
        LET n == sortGot.sysno
            e == KeysFor(n, sortGot.ord)
            t == FirstString(Last(e).w)
        IN  IF e = <<>> THEN sortGot.got = <<>>
            ELSE IF si.type # "flat" THEN sortGot.got = ListEntry(si.type, e[1].w)
            ELSE /\ IsPrefix(SubSeq(t, 1, IF Len(t) > EntrySize THEN EntrySize ELSE Len(t)),
                             sortGot.got)
                 /\ Len(t) < EntrySize - Len(t) => sortGot.got = t \o <<0>>

\* A list never has two items of one record and section, nor an item of a record
\* without a key in that file.
SortListsClean ==
    si.type \in {"isamb", "multi"} => \A o \in SortOrds : \A i \in sortDisk[o] :
        /\ KeysFor(i[1], o) # <<>>
        /\ \A j \in sortDisk[o] : <<i[1], i[2]>> = <<j[1], j[2]>> => i = j
SortExact == SortReadsExact /\ SortListsClean
=============================================================================
