------------------------------- MODULE IsamS -------------------------------
(***************************************************************************)
(* Position lists of the format isams (isams.c): a list is written once,   *)
(* behind the lists before it, with its number of items in front, which is *)
(* known only when the list has been written.                              *)
(*                                                                         *)
(* The file is a sequence of bytes in blocks.  A byte is <<kind, value,    *)
(* place>>: byte `place` of a number of items (kind 0) or of an item (kind *)
(* 1, an item of value v being v bytes long), or blank (kind 2).           *)
(***************************************************************************)
EXTENDS Integers, SequencesExt, FiniteSetsExt

CONSTANTS
    SLists,       \* the lists written: sequences of items
    SBlock,       \* block_size
    IntSize,      \* sizeof(int)
    MaxSLists,    \* bound on the lists written
    MaxSOpens     \* bound on the openings of the file

ASSUME IsamSAssumption ==
    /\ \A s \in SLists : \A i \in DOMAIN s : s[i] \in 1..SBlock
    /\ IntSize \in 1..SBlock /\ MaxSLists \in Nat /\ MaxSOpens \in Nat

VARIABLES
    sFile,        \* bytes of the blocks from 1 on
    sHead,        \* the header stored in block 0: [block, offset]
    isams,        \* [open, head, buf]: open flag, head and merge_buf
    sLists,       \* the lists written: [pos, items, first and last
                  \* block, opening]
    sCount        \* openings so far

isamsVars == <<sFile, sHead, isams, sLists, sCount>>

SBlank == <<2, 0, 0>>
Bytes(kind, v, n) == [j \in 1..n |-> <<kind, v, j>>]
Blanks(n) == [j \in 1..n |-> SBlank]

\* bf_write of bytes at an offset of a block, which may go on in the next one,
\* and bf_read of a whole block.
SWrite(f, block, off, bytes) ==
    LET at == (block - 1) * SBlock + off
        size == IF Len(f) < at + Len(bytes) THEN at + Len(bytes) ELSE Len(f)
    IN  [i \in 1..size |-> IF i > at /\ i <= at + Len(bytes) THEN bytes[i - at]
                           ELSE IF i <= Len(f) THEN f[i] ELSE SBlank]
SRead(f, block) == [i \in 1..SBlock |-> LET at == (block - 1) * SBlock + i
                                        IN  IF at <= Len(f) THEN f[at] ELSE SBlank]

\* memcpy of bytes into the merge buffer of two blocks.
PutBytes(buf, off, bytes) == [i \in DOMAIN buf |->
    IF i > off /\ i <= off + Len(bytes) THEN bytes[i - off] ELSE buf[i]]

IsamSInit ==
    /\ sFile = <<>> /\ sHead = [block |-> 0, offset |-> 0]
    /\ isams = [open |-> FALSE, head |-> sHead, buf |-> Blanks(2 * SBlock)]
    /\ sLists = <<>> /\ sCount = 0

\* isams_open: what the last block holds is not read into the merge buffer.
IsamSOpen ==
    /\ ~isams.open /\ sCount < MaxSOpens
    /\ isams' = [open |-> TRUE, buf |-> Blanks(2 * SBlock),
                 head |-> IF sHead.block = 0 THEN [block |-> 1, offset |-> 0] ELSE sHead]
    /\ sCount' = sCount + 1
    /\ UNCHANGED <<sFile, sHead, sLists>>

\* isams_close.
IsamSClose ==
    LET h == isams.head
        old == IF sHead.block = 0 THEN [block |-> 1, offset |-> 0] ELSE sHead
    IN  /\ isams.open
        /\ IF h = old THEN UNCHANGED <<sFile, sHead>>
           ELSE /\ sFile' = IF h.offset = 0 THEN sFile
                            ELSE SWrite(sFile, h.block, 0, SubSeq(isams.buf, 1, h.offset))
                /\ sHead' = h
        /\ isams' = [isams EXCEPT !.open = FALSE]
        /\ UNCHANGED <<sLists, sCount>>

\* The end of merge_buf moves by n; the first block is written when it is full.
Advance(s, n) ==
    LET off == s.head.offset + n
    IN  IF off <= SBlock THEN [s EXCEPT !.head.offset = off]
        ELSE [file |-> SWrite(s.file, s.head.block, 0, SubSeq(s.buf, 1, SBlock)),
              head |-> [block |-> s.head.block + 1, offset |-> off - SBlock],
              buf |-> PutBytes(s.buf, 0, SubSeq(s.buf, SBlock + 1, off))]
AddItem(s, v) == Advance([s EXCEPT !.buf = PutBytes(@, s.head.offset, Bytes(1, v, v))], v)

\* The number of items goes where the list begins: into the merge buffer, into
\* the file, or in part into both.  A variant takes the block before for written
\* in full.
CountWhole(s, first, count) ==
    LET c == Bytes(0, count, IntSize)
    IN  IF first.block = s.head.block THEN [s EXCEPT !.buf = PutBytes(@, first.offset, c)]
        ELSE [s EXCEPT !.file = SWrite(@, first.block, first.offset, c)]
PutCount(s, first, count) ==
    LET c == Bytes(0, count, IntSize)
        gap == first.offset + IntSize - SBlock
        before == SubSeq(c, 1, IntSize - gap)
    IN  IF first.block = s.head.block THEN [s EXCEPT !.buf = PutBytes(@, first.offset, c)]
        ELSE IF first.block = s.head.block - 1 /\ gap > 0
        THEN [s EXCEPT !.file = SWrite(@, first.block, first.offset, before),
                       !.buf = PutBytes(@, 0, SubSeq(c, IntSize - gap + 1, IntSize))]
        ELSE [s EXCEPT !.file = SWrite(@, first.block, first.offset, c)]

\* isams_merge.
IsamSMerge(items) ==
    LET s0 == [file |-> sFile, head |-> isams.head, buf |-> isams.buf]
        s1 == FoldLeft(AddItem, Advance(s0, IntSize), items)
        first == isams.head
    IN  /\ isams.open /\ Len(sLists) < MaxSLists
        /\ \E s \in {PutCount(s1, first, Len(items))} :
              /\ sFile' = s.file
              /\ isams' = [isams EXCEPT !.head = s.head, !.buf = s.buf]
              /\ sLists' = Append(sLists, [pos |-> first.block * SBlock + first.offset,
                                           items |-> items, first |-> first.block,
                                           last |-> s.head.block, opening |-> sCount])
        /\ UNCHANGED <<sHead, sCount>>

IsamSNext == IsamSOpen \/ IsamSClose \/ \E items \in SLists : IsamSMerge(items)

-----------------------------------------------------------------------------
\* isams_pp_open and isams_read_item: the items read from the list at pos, 0 for
\* bytes that are not an item.
SPPOpen(f, pos) ==
    LET no == pos \div SBlock
        buf == SRead(f, no) \o SRead(f, no + 1)
        off == pos - no * SBlock
    IN  [no |-> no, off |-> off + IntSize, buf |-> buf,
         num |-> IF SubSeq(buf, off + 1, off + IntSize)
                       = Bytes(0, buf[off + 1][2], IntSize)
                 THEN buf[off + 1][2] ELSE 0]
SReadItem(f, pp) ==
    LET p == IF pp.off <= SBlock THEN pp
             ELSE [pp EXCEPT !.off = @ - SBlock, !.no = @ + 1,
                             !.buf = SubSeq(@, SBlock + 1, 2 * SBlock)
                                     \o SRead(f, pp.no + 2)]
        v == p.buf[p.off + 1][2]
        right == SubSeq(p.buf, p.off + 1, p.off + v) = Bytes(1, v, v) /\ v > 0
    IN  [pp |-> [p EXCEPT !.off = @ + v], item |-> IF right THEN v ELSE 0]
SReadAll(f, pos) ==
    LET pp == SPPOpen(f, pos)
        one(s, i) == LET r == SReadItem(f, s.pp)
                     IN  [pp |-> r.pp, items |-> Append(s.items, r.item)]
    IN  FoldLeft(one, [pp |-> pp, items |-> <<>>], [i \in 1..pp.num |-> i]).items

\* When the file is closed, a list reads back item for item, its number of items
\* having been put across the end of a block or not, unless it ends in the block
\* in which an earlier opening of the file went on writing: that block is begun
\* anew from an empty merge buffer.
SListsReadBack ==
    ~isams.open => \A i \in DOMAIN sLists :
        LET cut == \E k \in DOMAIN sLists :
                       /\ sLists[k].opening > sLists[i].opening
                       /\ sLists[k].first <= sLists[i].last
        IN  ~cut => SReadAll(sFile, sLists[i].pos) = sLists[i].items
=============================================================================
