------------------------------ MODULE TempSets ------------------------------
(***************************************************************************)
(* A truncated term stands for many lists.  rset_trunc (src/index/trunc.c) *)
(* merges them into a temporary set (src/rset/rstemp.c), in chunks if      *)
(* there are many.  A temporary set is a file with one window over it,     *)
(* which every handle moves to where it is.                                *)
(***************************************************************************)
EXTENDS RSets

CONSTANTS
    TruncLists,     \* sequences of lists of keys that a term stands for
    TruncChunk,     \* lists that are merged at once
    TempKey,        \* bytes of a key
    TempBuf,        \* bytes of the window, no multiple of TempKey
    TempHandles     \* handles that read the set at the same time
ASSUME TempAssumption == /\ TruncChunk \in Nat \ {0} /\ TempKey \in Nat \ {0}
                         /\ TempBuf \in Nat /\ TempBuf >= TempKey

VARIABLES
    tempSet,    \* struct rset_private: file, its name and descriptor, and the window
    tempRfds,   \* position of each handle that is open
    tempKeys,   \* keys that rset_trunc_r has yet to write
    tempFrom,   \* the lists, and whether positions are preserved
    tempRead,   \* what each handle has read
    tempPhase   \* "none", "write", "read"

tempVars == <<tempSet, tempRfds, tempKeys, tempFrom, tempRead, tempPhase>>

-----------------------------------------------------------------------------
\* rset_trunc_r.  Streams are merged with a heap; keep says which key of the
\* stream that was on top is the next: all of them, those that differ from it, or
\* those of another hit.
TruncStream(list) == [keys |-> Tail(list), key |-> Head(list)]
TruncHeap(lists) ==
    FoldLeft(LAMBDA h, l : IF l = <<>> THEN h ELSE LiftHeap(Append(h, TruncStream(l)), Len(h) + 1),
             <<>>, Reverse(lists))
TruncLater(keys, top, border) == SelectSeq(keys, LAMBDA k : RsCmp(k, top) > border)
TruncReplace(h, rest) ==
    IF rest = <<>> THEN HeapDelete(h)
    ELSE LiftHeap(Append(HeapDelete(h), TruncStream(rest)), Len(h))
RECURSIVE TruncMerge(_, _, _)
TruncMerge(h, border, out) ==
    IF h = <<>> THEN out
    ELSE TruncMerge(TruncReplace(h, TruncLater(h[1].keys, h[1].key, border)), border, Append(out, h[1].key))

RECURSIVE TruncR(_, _)
TruncR(lists, preserve) ==
    LET n == Len(lists)
        add == n \div TruncChunk + 1
        part(i) == SubSeq(lists, i, Min({n, i + add - 1}))
        starts == SelectSeq([i \in 1..n |-> i], LAMBDA i : (i - 1) % add = 0)
    IN  IF n > TruncChunk
        THEN TruncMerge(TruncHeap([j \in DOMAIN starts |-> TruncR(part(starts[j]), preserve)]),
                        IF preserve THEN 0 ELSE 1, <<>>)
        ELSE TruncMerge(TruncHeap(lists), IF preserve THEN -1 ELSE 1, <<>>)

-----------------------------------------------------------------------------
\* The window: buf has the bytes from pos_buf on; pos_border is where it ends.
NewTemp == [name |-> FALSE, open |-> FALSE, file |-> <<>>, buf |-> [i \in 0..TempBuf - 1 |-> <<>>],
            end |-> 0, at |-> 0, border |-> 0, dirty |-> FALSE]
TempFlush(s, mk) ==
    LET f == IF mk THEN [s EXCEPT !.name = TRUE, !.open = TRUE] ELSE s
        count == Min({TempBuf, s.end - s.at})
    IN  IF f.name /\ f.open /\ f.dirty
        THEN [f EXCEPT !.dirty = FALSE,
                       !.file = [i \in 0..Max({Cardinality(DOMAIN @), s.at + count}) - 1 |->
                                   IF s.at <= i /\ i < s.at + count THEN s.buf[i - s.at] ELSE @[i]]]
        ELSE f
TempReread(s, pos) ==
    LET border == Min({pos + TempBuf, s.end})
    IN  IF ~s.name THEN [s EXCEPT !.border = s.end]
        ELSE [s EXCEPT !.border = border,
                       !.buf = [i \in DOMAIN @ |-> IF s.at + i < border THEN s.file[s.at + i] ELSE @[i]]]
TempMove(s, pos) == TempReread([TempFlush(s, FALSE) EXCEPT !.at = pos], pos)

TempOpened(s) == TempMove([s EXCEPT !.open = s.name], 0)
TempClosed(s, last) == IF last THEN [TempFlush(s, FALSE) EXCEPT !.open = FALSE] ELSE s

\* r_write and r_read at pos; a key is written as its bytes, <<key, number>>.
TempPut(s, pos, key) ==
    LET nc == pos + TempKey
        f == [TempFlush(s, TRUE) EXCEPT !.at = pos]
        w == IF nc <= s.at + TempBuf THEN s ELSE IF pos < s.end THEN TempReread(f, pos) ELSE f
    IN  [w EXCEPT !.dirty = TRUE,
                  !.buf = [i \in DOMAIN @ |-> IF pos <= w.at + i /\ w.at + i < nc
                                              THEN <<key, w.at + i - pos>> ELSE @[i]],
                  !.end = Max({nc, @}), !.border = IF nc > w.end THEN nc ELSE @]
TempGet(s, pos) == IF pos < s.at \/ pos + TempKey > s.border THEN TempMove(s, pos) ELSE s
TempBytes(s, pos) == [i \in 0..TempKey - 1 |-> s.buf[pos - s.at + i]]

-----------------------------------------------------------------------------
TempInit ==
    /\ tempSet = NewTemp /\ tempRfds = <<>> /\ tempKeys = <<>>
    /\ tempFrom = <<>> /\ tempRead = <<>> /\ tempPhase = "none"

\* rset_trunc_r has created and opened its set, and knows what it will write.
Trunc(lists, preserve) ==
    /\ tempPhase = "none" /\ tempPhase' = "write"
    /\ tempFrom' = <<lists, preserve>>
    /\ tempKeys' = TruncR(lists, preserve)
    /\ tempSet' = TempOpened(tempSet)
    /\ tempRfds' = [h \in {0} |-> 0]
    /\ UNCHANGED tempRead
TempWrite ==
    /\ tempPhase = "write" /\ tempKeys # <<>>
    /\ tempSet' = TempPut(tempSet, tempRfds[0], Head(tempKeys))
    /\ tempRfds' = [tempRfds EXCEPT ![0] = @ + TempKey]
    /\ tempKeys' = Tail(tempKeys)
    /\ UNCHANGED <<tempFrom, tempRead, tempPhase>>
TempEndWrite ==
    /\ tempPhase = "write" /\ tempKeys = <<>> /\ tempPhase' = "read"
    /\ tempSet' = TempClosed(tempSet, TRUE) /\ tempRfds' = <<>>
    /\ UNCHANGED <<tempKeys, tempFrom, tempRead>>

Without(f, h) == [x \in DOMAIN f \ {h} |-> f[x]]
With(f, h, v) == [x \in DOMAIN f \cup {h} |-> IF x = h THEN v ELSE f[x]]
TempOpen(h) ==
    /\ tempPhase = "read" /\ h \notin DOMAIN tempRfds
    /\ tempSet' = TempOpened(tempSet)
    /\ tempRfds' = With(tempRfds, h, 0)
    /\ tempRead' = With(tempRead, h, <<>>)
    /\ UNCHANGED <<tempKeys, tempFrom, tempPhase>>
TempReadKey(h) ==
    /\ tempPhase = "read" /\ h \in DOMAIN tempRfds
    /\ tempRfds[h] + TempKey <= tempSet.end
    /\ tempSet' = TempGet(tempSet, tempRfds[h])
    /\ tempRead' = [tempRead EXCEPT ![h] = Append(@, TempBytes(tempSet', tempRfds[h]))]
    /\ tempRfds' = [tempRfds EXCEPT ![h] = @ + TempKey]
    /\ UNCHANGED <<tempKeys, tempFrom, tempPhase>>
TempClose(h) ==
    /\ tempPhase = "read" /\ h \in DOMAIN tempRfds
    /\ tempSet' = TempClosed(tempSet, DOMAIN tempRfds = {h})
    /\ tempRfds' = Without(tempRfds, h)
    /\ UNCHANGED <<tempKeys, tempFrom, tempRead, tempPhase>>

TempNext ==
    \/ \E lists \in TruncLists, preserve \in BOOLEAN : Trunc(lists, preserve)
    \/ TempWrite \/ TempEndWrite
    \/ \E h \in TempHandles : TempOpen(h) \/ TempReadKey(h) \/ TempClose(h)

-----------------------------------------------------------------------------
\* Properties.
AllKeys(lists) == UNION {Range(l) : l \in Range(lists)}

\* The set has each key of the lists if positions are preserved, and a key of each
\* hit if they are not; it is in order.
TruncExact ==
    tempPhase = "write" /\ tempRfds = [h \in {0} |-> 0] =>
      LET all == AllKeys(tempFrom[1]) IN
        /\ Range(tempKeys) \subseteq all
        /\ tempFrom[2] => Range(tempKeys) = all
        /\ {HitOf(k) : k \in Range(tempKeys)} = {HitOf(k) : k \in all}
        /\ \A i \in 2..Len(tempKeys) : RsCmp(tempKeys[i - 1], tempKeys[i]) <= 0

\* Each handle reads the keys that were written, from the first, though all of
\* them move the one window and it ends within a key.
TempReadsBack ==
    \A h \in DOMAIN tempRead :
      \A i \in DOMAIN tempRead[h] :
         /\ \A j \in 0..TempKey - 1 : tempRead[h][i][j] = <<TruncR(tempFrom[1], tempFrom[2])[i], j>>

TempExact == TruncExact /\ TempReadsBack
=============================================================================
