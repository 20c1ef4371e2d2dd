------------------------------- MODULE IsamC -------------------------------
(***************************************************************************)
(* Position lists of the older format isamc (isamc.c, merge.c): a list is  *)
(* a chain of blocks of one category, moved to the next category when it   *)
(* has too many of them.  A merge goes through the chain once and writes   *)
(* only the blocks that change.                                            *)
(*                                                                         *)
(* An item is a number, stored as its difference to the item before it,    *)
(* that of the block before included, in one byte.                         *)
(***************************************************************************)
EXTENDS Integers, SequencesExt, FiniteSetsExt

CONSTANTS
    IscStreams,   \* the sequences of [item, mode] merged: mode 0 deletes
    FileCat,      \* filecat: sequence of [bsize, ifill, mfill, mblocks]
    Off1, OffN,   \* bytes of the header of the first and of any other block
    MaxBlocksMem, \* max_blocks_mem
    MaxIscMerges  \* bound on the merges

MaxCat == Len(FileCat)

ASSUME IsamCAssumption ==
    /\ \A s \in IscStreams : \A i \in DOMAIN s :
          s[i].item \in Nat \ {0} /\ s[i].mode \in 0..1
    /\ \A c \in 1..MaxCat : /\ FileCat[c].ifill <= FileCat[c].bsize
                            /\ Off1 < FileCat[c].ifill
                            /\ (FileCat[c].mblocks = 0) = (c = MaxCat)
    /\ \A c \in 1..MaxCat - 1 :        \* a full block fits a new one of the next
          FileCat[c].bsize - OffN <= FileCat[c + 1].ifill - Off1
    /\ OffN <= Off1
    /\ MaxBlocksMem \in Nat \ {0, 1} /\ MaxIscMerges \in Nat

VARIABLES
    isc,          \* [blocks, last, free]: blocks by <<category, number>>, the first
                  \* unused number and the free blocks of each category
    iscPos,       \* category and first block of the list, number 0 if none
    iscItems,     \* the items the list must have
    iscMerges     \* how many merges were made

iscVars == <<isc, iscPos, iscItems, iscMerges>>

IsamCInit ==
    /\ isc = [blocks |-> <<>>, last |-> [c \in 1..MaxCat |-> 1],
              free |-> [c \in 1..MaxCat |-> <<>>]]
    /\ iscPos = <<1, 0>> /\ iscItems = <<>> /\ iscMerges = 0

-----------------------------------------------------------------------------
\* isamc_alloc_block and isamc_release_block: the free blocks kept in memory and
\* those chained in the file are one list here.
IscAlloc(c, cat) ==
    IF c.free[cat] # <<>>
    THEN [c |-> [c EXCEPT !.free[cat] = Tail(@)], no |-> Head(c.free[cat])]
    ELSE [c |-> [c EXCEPT !.last[cat] = @ + 1], no |-> c.last[cat]]
IscRelease(c, cat, no) == [c EXCEPT !.free[cat] = Append(@, no)]

\* isamc_pp_open: a reader of the list at pos, before its first item; blk is what
\* is left of the block at no, at the item decoded last.
IscOpen(c, pos) ==
    IF pos[2] = 0 THEN [cat |-> pos[1], no |-> 0, next |-> 0, blk |-> <<>>, at |-> 0,
                        num |-> 0, del |-> FALSE]
    ELSE [cat |-> pos[1], no |-> pos[2], next |-> c.blocks[pos].next,
          blk |-> c.blocks[pos].items, at |-> 0, num |-> c.blocks[pos].num,
          del |-> FALSE]

\* isamc_read_item: more is 0 at the end and 2 when another block was read.
IscRead(c, pp) ==
    LET b == c.blocks[<<pp.cat, pp.next>>]
        item(p) == [p EXCEPT !.at = @ + Head(p.blk), !.blk = Tail(@)]
    IN  IF pp.blk # <<>> THEN [c |-> c, pp |-> item(pp), more |-> 1]
        ELSE IF pp.next = 0 THEN [c |-> c, pp |-> [pp EXCEPT !.no = 0], more |-> 0]
        ELSE [c |-> IF pp.del THEN IscRelease(c, pp.cat, pp.next) ELSE c,
              pp |-> item([pp EXCEPT !.no = pp.next, !.next = b.next,
                                     !.blk = b.items]),
              more |-> 2]

-----------------------------------------------------------------------------
\* isamc_merge.  m is a merge in progress: the store c, the reader pp and what
\* it read last (fMore), the stream (in), the blocks of the result in memory
\* (mb, the last being filled), the encoded items in them (out), the item
\* encoded last, the first block if it was written, the category, and the rest
\* of the local variables of the code.

IscBorder(m) ==
    LET b == Last(m.mb)
        fill == IF b.block # 0 THEN FileCat[m.cat].bsize ELSE FileCat[m.cat].ifill
    IN  b.off + fill - (IF Len(m.mb) > 1 \/ m.first # 0 THEN OffN ELSE Off1)
SetBorder(m) == [m EXCEPT !.border = IscBorder(m)]

\* flush_blocks of the first n blocks; mb[n + 1] is the next one or, at the end,
\* the final boundary.
AllocBlocks(m, n, last) ==
    LET one(s, i) ==
            LET a == IscAlloc(s.c, m.cat)
                s1 == IF s.mb[i].block # 0 THEN s
                      ELSE [c |-> a.c, mb |-> [s.mb EXCEPT ![i].block = a.no,
                                                           ![i].dirty = TRUE]]
                b == IscAlloc(s1.c, m.cat)
            IN  IF last /\ i = n THEN [s1 EXCEPT !.mb[i + 1].block = 0]
                ELSE IF s1.mb[i + 1].block # 0 THEN s1
                ELSE [c |-> b.c, mb |-> [s1.mb EXCEPT ![i + 1].block = b.no,
                                                      ![i + 1].dirty = TRUE,
                                                      ![i].dirty = TRUE]]
    IN  FoldLeft(one, [c |-> m.c, mb |-> m.mb], [i \in 1..n |-> i])
IscWrite(c, pos, b) == [c EXCEPT !.blocks = [p \in DOMAIN @ \cup {pos} |->
                                                IF p = pos THEN b ELSE @[p]]]
WriteBlocks(m, a, n, num) ==
    LET write(s, i) ==
            LET b == a.mb[i]
                blk == [next |-> a.mb[i + 1].block,
                        items |-> SubSeq(m.out, b.off + 1, a.mb[i + 1].off),
                        num |-> IF s.first = 0 THEN num ELSE 0]
            IN  [s EXCEPT !.c = IF b.dirty THEN IscWrite(@, <<m.cat, b.block>>, blk) ELSE @,
                          !.first = IF @ = 0 THEN b.block ELSE @]
    IN  FoldLeft(write, [m EXCEPT !.c = a.c, !.mb = a.mb], [i \in 1..n |-> i])
FlushMerged(m, n, last, num) == WriteBlocks(m, AllocBlocks(m, n, last), n, num)

\* In the last category all blocks but the last two are flushed when there are
\* many; second: the dirty flag the last gets.
LastTwo(f, n, copy) ==
    LET b == f.mb[n - 1]
    IN  [f EXCEPT !.mb = <<[b EXCEPT !.off = 0],
                           [f.mb[n] EXCEPT !.off = @ - b.off,
                                           !.dirty = IF copy THEN b.dirty ELSE @]>>,
                  !.out = SubSeq(@, b.off + 1, Len(@))]
FlushMany(m, copy) ==
    LET n == Len(m.mb)
    IN  IF m.cat # MaxCat \/ n - 1 < MaxBlocksMem THEN m
        ELSE LastTwo(FlushMerged(m, n - 2, FALSE, m.pp.num), n, copy)

\* The reader came to another block.  A variant forgets the item before it.
BoundaryClean(m) == FALSE
BoundaryDirty(m) == m.lastDirty
Boundary(m) ==
    LET n == Len(m.mb)
        b == m.mb[n]
        small == Len(m.out) <= b.off + FileCat[m.cat].mfill
        taken == [m EXCEPT
                    !.c = IF b.block # 0 THEN IscRelease(@, m.pp.cat, b.block) ELSE @,
                    !.mb = [i \in 1..n |->
                               IF i = n THEN [b EXCEPT !.block = m.pp.no, !.dirty = TRUE]
                               ELSE IF i = n - 1 THEN [@[i] EXCEPT !.dirty = TRUE]
                               ELSE @[i]]]
        new == [m EXCEPT !.mb = Append(@, [block |-> m.pp.no, dirty |-> BoundaryDirty(m),
                                           off |-> Len(m.out)])]
    IN  IF m.fMore # 2 THEN m
        ELSE SetBorder([(IF m.cat # m.pp.cat THEN m ELSE IF small THEN taken
                         ELSE FlushMany(new, FALSE)) EXCEPT !.fMore = 1])

\* Both inputs move on.
MoveI(m) == [m EXCEPT !.in = Tail(@)]
WithRead(m, r) == [m EXCEPT !.c = r.c, !.pp = r.pp, !.fMore = r.more]
MoveF(m) == WithRead(m, IscRead(m.c, m.pp))

\* An item of the result.
Changed(m) == [m EXCEPT !.lastDirty = TRUE, !.mb[Len(m.mb)].dirty = TRUE]
IscPut(m, item) ==
    LET r == Len(m.out)
        full == m.border = r
        new == [m EXCEPT !.mb = Append(@, [block |-> 0, dirty |-> TRUE, off |-> r])]
        m1 == IF full THEN SetBorder(FlushMany(new, TRUE)) ELSE m
    IN  [m1 EXCEPT !.out = Append(@, item - m.enc), !.enc = item, !.num = @ + 1]

\* The next category: the blocks so far are freed, and the others as they are read.
NextCat(m) ==
    LET n == Len(m.mb)
        freed == FoldLeft(LAMBDA c, b : IF b.block # 0
                                        THEN IscRelease(c, m.pp.cat, b.block) ELSE c,
                          m.c, Front(m.mb))
        offs == [i \in 1..n |-> IF i = n THEN Len(m.out) ELSE m.mb[i].off]
        fresh(off) == [block |-> 0, dirty |-> TRUE, off |-> off]
        remap(s, i) ==
            LET border == FileCat[m.cat + 1].ifill - Off1 + Last(s).off
            IN  IF offs[i + 1] > border /\ offs[i] <= border
                THEN Append(s, fresh(offs[i])) ELSE s
    IN  IF m.cat = MaxCat \/ n - 1 < FileCat[m.cat].mblocks THEN m
        ELSE SetBorder([m EXCEPT
                !.c = freed, !.pp.del = TRUE, !.cat = @ + 1,
                !.mb = FoldLeft(remap, <<fresh(0)>>, [i \in 1..n - 2 |-> i + 1])])

\* One turn of the loop of isamc_merge.
IscStep(m) ==
    LET i == Head(m.in)
        f == m.pp.at
        again == Len(m.in) > 1 /\ m.in[2].item = f /\ m.in[2].mode = 1
    IN  IF m.fMore = 0 \/ (m.in # <<>> /\ i.item < f)
        THEN IscPut(MoveI(Changed(m)), i.item)
        ELSE IF m.in = <<>> \/ i.item > f THEN IscPut(MoveF(m), f)
        ELSE IF i.mode = 1 THEN IscPut(MoveF(MoveI(m)), f)
        ELSE IF again THEN IscPut(MoveF(MoveI(MoveI(m))), f)
        ELSE MoveF(MoveI(Changed(m)))
IscTurn(m) == NextCat(IscStep([Boundary(m) EXCEPT !.lastDirty = FALSE]))

RECURSIVE IscLoop(_)
IscLoop(m) == IF m.in = <<>> /\ m.fMore = 0 THEN m ELSE IscLoop(IscTurn(m))

\* The end of isamc_merge: the number of items, the last blocks, and the store and
\* the position of the list.
NumberChanged(m) ==
    IF m.num = m.pp.num THEN m
    ELSE IF m.first # 0 THEN [m EXCEPT !.c.blocks[<<m.cat, m.first>>].num = m.num]
    ELSE IF Len(m.mb) > 1 THEN [m EXCEPT !.mb[1].dirty = TRUE] ELSE m
LastFlush(m) == FlushMerged(NumberChanged(m), Len(m.mb) - 1, TRUE, m.num)
IscPosition(m) ==
    [c |-> m.c, pos |-> IF m.first = 0 THEN <<1, 0>> ELSE <<m.cat, m.first>>]
IscFinish(m) ==
    LET n == Len(m.mb)
        b == m.mb[n]
        rest == b.off < Len(m.out)
        bound == [block |-> 0, dirty |-> TRUE, off |-> Len(m.out)]
        gone == m.cat = m.pp.cat /\ b.block # 0
        m1 == IF rest THEN [m EXCEPT !.mb = Append(@, bound)]
              ELSE IF ~gone THEN m
              ELSE [m EXCEPT !.c = IscRelease(@, m.pp.cat, b.block),
                             !.mb = [i \in 1..n |->
                                 IF i = n THEN [b EXCEPT !.block = 0]
                                 ELSE IF i = n - 1 THEN [@[i] EXCEPT !.dirty = TRUE]
                                 ELSE @[i]]]
    IN  IscPosition(LastFlush(m1))

IscMerge(c, pos, stream) ==
    LET m == [c |-> c, pp |-> IscOpen(c, pos), fMore |-> 0, in |-> stream,
              mb |-> <<[block |-> pos[2], dirty |-> FALSE, off |-> 0]>>,
              out |-> <<>>, enc |-> 0, first |-> 0, cat |-> pos[1], border |-> 0,
              num |-> 0, lastDirty |-> FALSE]
    IN  IscFinish(IscLoop(SetBorder(MoveF(m))))

-----------------------------------------------------------------------------
IscExpected(items, e) ==
    LET others == SelectSeq(items, LAMBDA x : x # e.item)
    IN  IF e.mode = 0 THEN others
        ELSE SelectSeq(others, LAMBDA x : x < e.item) \o <<e.item>> \o
             SelectSeq(others, LAMBDA x : x > e.item)

IsamCMerge(stream) ==
    /\ iscMerges < MaxIscMerges
    /\ \A i \in DOMAIN stream : stream[i].mode = 0 => stream[i].item \in Range(iscItems)
    /\ \E r \in {IscMerge(isc, iscPos, stream)} : isc' = r.c /\ iscPos' = r.pos
    /\ iscItems' = FoldLeft(IscExpected, iscItems, stream)
    /\ iscMerges' = iscMerges + 1

IsamCNext == \E stream \in IscStreams : IsamCMerge(stream)

-----------------------------------------------------------------------------
\* Properties.

RECURSIVE IscReadAll(_, _)
IscReadAll(c, pp) == LET r == IscRead(c, pp)
                     IN  IF r.more = 0 THEN <<>> ELSE <<r.pp.at>> \o IscReadAll(c, r.pp)
RECURSIVE IscChain(_, _)
IscChain(c, pos) == IF pos[2] = 0 THEN <<>>
                    ELSE <<pos[2]>> \o IscChain(c, <<pos[1], c.blocks[pos].next>>)

\* A list reads back as the items inserted and not deleted, though blocks that a
\* merge finds unchanged are not written and their first item is a difference to
\* the last one of the block before; its first block counts the items; no block
\* of it is free, none is in it twice, and none has more than fits.
IscExact ==
    LET chain == IscChain(isc, iscPos)
    IN  /\ IscReadAll(isc, IscOpen(isc, iscPos)) = iscItems
        /\ IscOpen(isc, iscPos).num = Len(iscItems)
        /\ IsInjective(chain \o isc.free[iscPos[1]])
        /\ \A c \in 1..MaxCat : IsInjective(isc.free[c])
        /\ \A i \in DOMAIN chain :
              LET n == Len(isc.blocks[<<iscPos[1], chain[i]>>].items)
              IN  0 < n /\ n + (IF i = 1 THEN Off1 ELSE OffN) <= FileCat[iscPos[1]].bsize
=============================================================================
