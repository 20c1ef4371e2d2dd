------------------------------- MODULE IsamB -------------------------------
(***************************************************************************)
(* The position lists (isamb.c): one file of blocks per category of size,  *)
(* each with a free list.  A short list is one leaf of a small category; a *)
(* longer one a B-tree of blocks of the last category.                     *)
(*                                                                         *)
(* An item is a triple: two numbers that are compared, as the levels of a  *)
(* key, and a value that is not.  An item takes two bytes at the beginning *)
(* of a leaf and in an upper block, and one behind another item; a pointer *)
(* takes one.                                                              *)
(***************************************************************************)
EXTENDS Integers, SequencesExt, FiniteSetsExt

CONSTANTS
    IsamStreams,  \* the sequences of [item, mode] that are merged into a list;
                  \* mode 0 deletes, 1 inserts, 2 inserts or replaces
    BlockMaxes,   \* per category: bytes of a block behind its header
    LastSize,     \* bytes of a block of the last category with its header
    Probes,       \* the items that readers look for
    MaxMerges     \* bound on the merges

NoCat == Len(BlockMaxes)

ASSUME IsamBAssumption ==
    /\ \A s \in IsamStreams : \A i \in DOMAIN s :
          s[i].item \in Nat \X Nat \X Nat /\ s[i].mode \in 0..2
    /\ BlockMaxes \in Seq(Nat \ {0}) /\ BlockMaxes # <<>>
    /\ BlockMaxes[NoCat] \div 4 > 2    \* an item takes less than a quarter of a leaf
    /\ LastSize \in Nat /\ MaxMerges \in Nat
    /\ Probes \subseteq Nat \X Nat \X Nat

VARIABLES
    isamb,        \* [blocks, last, free]: the blocks by position <<cat, no>>, the
                  \* first unused number and the free list of each category
    isamPos,      \* position of the list, None if there is none
    listed,       \* the items the list must have, in order
    merges        \* how many merges were made

isambVars == <<isamb, isamPos, listed, merges>>

None == <<>>
IsamBInit ==
    /\ isamb = [blocks |-> <<>>, last |-> [c \in 1..NoCat |-> 1],
                free |-> [c \in 1..NoCat |-> None]]
    /\ isamPos = None /\ listed = <<>> /\ merges = 0

-----------------------------------------------------------------------------
\* Items.

\* key_compare: how many levels from the end the first difference is, signed.
ItemCompare(a, b) == IF a[1] # b[1] THEN IF a[1] > b[1] THEN 2 ELSE -2
                     ELSE IF a[2] = b[2] THEN 0 ELSE IF a[2] > b[2] THEN 1 ELSE -1

LeafBytes(n) == IF n = 0 THEN 0 ELSE n + 1
IntBytes(n) == 3 * n - 2                    \* n pointers, n - 1 items between them

-----------------------------------------------------------------------------
\* Blocks.  b is a value of isamb; a block has its items (the separators of an
\* upper block), the blocks below it and the number of items in it and below.

LeafBlock(items) == [leaf |-> TRUE, items |-> items, subs |-> <<>>, n |-> Len(items)]

\* new_block: from the free list or at the end.
NewPos(b, cat) ==
    IF b.free[cat] # None
    THEN [b |-> [b EXCEPT !.free[cat] = b.blocks[@].next], pos |-> b.free[cat]]
    ELSE [b |-> [b EXCEPT !.last[cat] = @ + 1], pos |-> <<cat, b.last[cat]>>]

\* What is read back of a count (encode_ptr, decode_ptr): of a negative one, seven
\* bits.
Encoded(n) == IF n >= 0 THEN n ELSE n % 128

\* close_block of a dirty and of a deleted block
Write(b, pos, block) == [b EXCEPT !.blocks = [p \in DOMAIN @ \cup {pos} |->
                                                 IF p = pos THEN block ELSE @[p]]]
CloseDirty(b, pos, block) == Write(b, pos, [block EXCEPT !.n = Encoded(@)])
CloseDeleted(b, pos) ==
    [Write(b, pos, [next |-> b.free[pos[1]]]) EXCEPT !.free[pos[1]] = pos]

-----------------------------------------------------------------------------
\* insert_leaf.  A pass s over a leaf has the items left in it (src), those that
\* will be in it (out), the item to be merged (look, None when there is none for
\* this leaf), the stream behind it, whether the stream has more, where the leaf
\* may be split (half, the items before it), the bytes inserted and dirty.

Quater == BlockMaxes[NoCat] \div 4
OutBytes(s) == LeafBytes(Len(s.out))
Cut(s, from) == IF s.half = 0 /\ OutBytes(s) > from THEN Len(s.out) ELSE s.half

\* The next item of the stream is read; it is for another leaf when it is not
\* before the next separator (a variant takes the separator itself along).
NextItem(s) == IF s.rest = <<>> THEN [s EXCEPT !.look = None, !.more = FALSE]
               ELSE [s EXCEPT !.look = Head(s.rest), !.rest = Tail(@),
                              !.held = Head(s.rest)]
BeyondLast(look, max) == max # None /\ ItemCompare(max, look.item) < 0
Beyond(look, max) == max # None /\ ItemCompare(max, look.item) <= 0

\* The item to be merged goes before the next one of the leaf.
ForThisLeaf(s, max) ==
    IF s.look # None /\ Beyond(s.look, max) THEN [s EXCEPT !.look = None] ELSE s
LeafInsert(s, max) ==
    LET out == Append(s.out, s.look.item)
        bytes == s.bytes + LeafBytes(Len(out)) - OutBytes(s)
        put == [s EXCEPT !.out = out, !.half = Cut(s, 2 * Quater), !.bytes = bytes]
    IN  IF bytes >= Quater THEN [put EXCEPT !.look = None]
        ELSE ForThisLeaf(NextItem([put EXCEPT !.dirty = TRUE]), max)

\* It is that of the leaf: deleted, replaced or left.
LeafSame(s) ==
    LET f == Head(s.src)
        put == [s EXCEPT
                   !.src = Tail(@), !.dirty = @ \/ s.look.mode # 1,
                   !.out = IF s.look.mode = 0 THEN @
                           ELSE Append(@, IF s.look.mode = 2 THEN s.look.item ELSE f),
                   !.half = IF s.look.mode = 0 THEN @ ELSE Cut(s, 2 * Quater)]
    IN  NextItem(put)

LeafKeep(s) == [s EXCEPT !.src = Tail(@), !.out = Append(@, Head(s.src)),
                         !.half = Cut(s, 2 * Quater)]

RECURSIVE LeafFile(_, _)
LeafFile(s, max) ==
    LET d == IF s.look = None THEN -1 ELSE ItemCompare(Head(s.src), s.look.item)
    IN  IF s.src = <<>> THEN s
        ELSE LeafFile(IF d > 0 THEN LeafInsert(s, max)
                      ELSE IF d = 0 THEN LeafSame(s) ELSE LeafKeep(s), max)

\* The loop that appends; more than a leaf holds, but not more than two hold.
RECURSIVE LeafAppend(_, _)
LeafAppend(s, max) ==
    LET put == [s EXCEPT !.out = Append(@, s.look.item), !.half = Cut(s, 3 * Quater),
                         !.dirty = TRUE]
    IN  IF s.look = None THEN s
        ELSE IF Beyond(s.look, max) \/ OutBytes(put) > BlockMaxes[NoCat] + Quater THEN s
        ELSE LeafAppend(NextItem(put), max)

\* The category of a new leaf.
FitCat(bytes) == Min({NoCat} \cup {c \in 1..NoCat : bytes <= BlockMaxes[c]})

\* What an insertion returns: the store, the block at pos that the caller closes,
\* the separator and the position of a block split off (None), and the stream.
LeafPlace(b, pos, bytes) ==
    LET moved == pos # None /\ pos[1] # NoCat /\ bytes > BlockMaxes[pos[1]]
    IN  IF pos # None /\ ~moved THEN [b |-> b, pos |-> pos]
        ELSE NewPos(IF moved THEN CloseDeleted(b, pos) ELSE b, FitCat(bytes))
Stream(s) == [held |-> s.held, rest |-> s.rest, more |-> s.more]
LeafWhole(at, pos, s) ==
    [b |-> at.b, pos |-> at.pos, block |-> LeafBlock(s.out),
     dirty |-> s.dirty \/ at.pos # pos, sep |-> None, sub |-> None, n2 |-> 0,
     st |-> Stream(s)]
LeafSplit(at, two, s) ==
    LET second == SubSeq(s.out, s.half + 1, Len(s.out))
    IN  [b |-> CloseDirty(two.b, two.pos, LeafBlock(second)), pos |-> at.pos,
         block |-> LeafBlock(SubSeq(s.out, 1, s.half)), dirty |-> TRUE,
         sep |-> second[1], sub |-> two.pos, n2 |-> Len(second), st |-> Stream(s)]
LeafStored(at, pos, s) ==
    IF OutBytes(s) > BlockMaxes[at.pos[1]]
    THEN LeafSplit(at, NewPos(at.b, at.pos[1]), s) ELSE LeafWhole(at, pos, s)
LeafMerged(b, pos, s) == LeafStored(LeafPlace(b, pos, OutBytes(s)), pos, s)
InsertLeaf(b, pos, st, max) ==
    LET s == [src |-> IF pos = None THEN <<>> ELSE b.blocks[pos].items, out |-> <<>>,
              look |-> st.held, held |-> st.held, rest |-> st.rest, more |-> TRUE,
              half |-> 0, bytes |-> 0, dirty |-> FALSE]
    IN  LeafMerged(b, pos, LeafAppend(LeafFile(s, max), max))

-----------------------------------------------------------------------------
\* insert_int

\* The pointers in the first half of an upper block that is split.
HalfPtrs == Min({k \in 1..LastSize : IntBytes(k) > LastSize \div 2})
SumOf(b, subs) == FoldLeft(LAMBDA n, p : n + b.blocks[p].n, 0, subs)
IntBlock(items, subs, n) == [leaf |-> FALSE, items |-> items, subs |-> subs, n |-> n]

\* A split upper block; two is where its second half goes.
IntSplit(pos, items, subs, n, n1, two, st) ==
    [b |-> CloseDirty(two.b, two.pos,
               IntBlock(SubSeq(items, HalfPtrs + 1, Len(items)),
                        SubSeq(subs, HalfPtrs + 1, Len(subs)), n - n1)),
     pos |-> pos,
     block |-> IntBlock(SubSeq(items, 1, HalfPtrs - 1), SubSeq(subs, 1, HalfPtrs), n1),
     dirty |-> TRUE, sep |-> items[HalfPtrs], sub |-> two.pos, n2 |-> n - n1, st |-> st]

\* The block below, which r returned, is closed in the store b.
BelowClosed(b, r) == IF r.dirty THEN CloseDirty(b, r.pos, r.block) ELSE b

\* What becomes of block p at pos, whose pointer at leads to the block below, with
\* others items in the rest of it.  When it is split the items of its first half
\* are counted by the blocks in the store, where the block below is as it was
\* before the insertion: it is closed last.
IntMerged(p, pos, at, others, r) ==
    LET n == others + r.block.n + r.n2
        items == InsertAt(p.items, at, r.sep)
        subs == InsertAt(p.subs, at + 1, r.sub)
        same == [r EXCEPT !.pos = pos, !.sep = None, !.sub = None, !.n2 = 0]
    IN  IF r.sub = None THEN [same EXCEPT !.block = [p EXCEPT !.n = n], !.dirty = n # p.n]
        ELSE IF IntBytes(Len(subs)) <= BlockMaxes[pos[1]]
        THEN [same EXCEPT !.block = IntBlock(items, subs, n), !.dirty = TRUE]
        ELSE IntSplit(pos, items, subs, n, SumOf(r.b, SubSeq(subs, 1, HalfPtrs)),
                      NewPos(r.b, pos[1]), r.st)

RECURSIVE InsertSub(_, _, _, _)
InsertInt(b, pos, st, max) ==
    LET p == b.blocks[pos]
        over == {i \in DOMAIN p.items : ItemCompare(p.items[i], st.held.item) > 0}
        at == IF over = {} THEN Len(p.subs) ELSE Min(over)
        r == InsertSub(b, p.subs[at], st, IF over = {} THEN max ELSE p.items[at])
        merged == IntMerged(p, pos, at, p.n - b.blocks[p.subs[at]].n, r)
    IN  [merged EXCEPT !.b = BelowClosed(@, r)]

InsertSub(b, pos, st, max) ==
    IF pos = None THEN InsertLeaf(b, pos, st, max)
    ELSE IF b.blocks[pos].leaf THEN InsertLeaf(b, pos, st, max)
    ELSE InsertInt(b, pos, st, max)

-----------------------------------------------------------------------------
\* isamb_unlink
RECURSIVE Unlink(_, _)
Unlink(b, pos) ==
    IF pos = None THEN b
    ELSE CloseDeleted(FoldLeft(Unlink, b, b.blocks[pos].subs), pos)

\* isamb_merge: as long as the stream has more, from the root; a tree without
\* items is removed.
Grown(up, r) == [b |-> CloseDirty(up.b, up.pos, IntBlock(<<r.sep>>, <<r.pos, r.sub>>,
                                                         r.block.n + r.n2)),
                 pos |-> up.pos]
NewRoot(r) == IF r.sub = None THEN [b |-> r.b, pos |-> r.pos]
              ELSE Grown(NewPos(r.b, r.pos[1]), r)
RECURSIVE MergeAll(_, _, _)
MergeOn(r, root) ==
    IF r.st.more THEN MergeAll(root.b, root.pos, r.st)
    ELSE IF r.block.n = 0 THEN [b |-> Unlink(root.b, root.pos), pos |-> None] ELSE root
Rooted(r) == MergeOn(r, NewRoot([r EXCEPT !.b = BelowClosed(@, r)]))
MergeAll(b, pos, st) == Rooted(InsertSub(b, pos, st, None))
Merge(b, pos, stream) ==
    MergeAll(b, pos, [held |-> Head(stream), rest |-> Tail(stream), more |-> TRUE])

-----------------------------------------------------------------------------
\* Readers.  pp is the stack of the blocks from the root to where the reader is,
\* each with how much of it was read.

RECURSIVE DownTo(_, _, _, _)
\* Down to a leaf at pos: in an upper block past the pointers that until is
\* beyond, in the scope given.
Passed(blk, from, until, scope) ==
    IF until = None THEN from
    ELSE LET stop == {i \in from..Len(blk.items) :
                         ItemCompare(until, blk.items[i]) < scope}
         IN  IF stop = {} THEN Len(blk.subs) ELSE Min(stop)
DownTo(b, pos, until, scope) ==
    LET blk == b.blocks[pos]
        at == Passed(blk, 1, until, scope)
    IN  IF blk.leaf THEN <<[pos |-> pos, off |-> 0]>>
        ELSE <<[pos |-> pos, off |-> at]>> \o DownTo(b, blk.subs[at], until, scope)

\* isamb_pp_open
PpOpen(b, pos) == DownTo(b, pos, None, 0)

\* The reader is at the end of the block on top of the stack.
AtEnd(b, e) == e.off = (IF b.blocks[e.pos].leaf THEN Len(b.blocks[e.pos].items)
                        ELSE Len(b.blocks[e.pos].subs))

\* isamb_pp_forward, isamb_pp_read when until is None: the stack and the item.
RECURSIVE Forward(_, _, _, _)
Forward(b, pp, until, scope) ==
    LET top == Last(pp)
        blk == b.blocks[top.pos]
        under == Front(pp)
        hits == {i \in top.off + 1..Len(blk.items) :
                    until = None \/ ItemCompare(until, blk.items[i]) < scope}
        to == Passed(blk, top.off + 1, until, scope)
    IN  IF AtEnd(b, top)
        THEN IF under = <<>> THEN [pp |-> pp, item |-> None]
             ELSE Forward(b, under, until, scope)
        ELSE IF ~blk.leaf
        THEN Forward(b, Append(under, [top EXCEPT !.off = to]) \o
                            DownTo(b, blk.subs[to], until, scope), until, scope)
        ELSE IF hits = {}
        THEN Forward(b, Append(under, [top EXCEPT !.off = Len(blk.items)]), until, scope)
        ELSE [pp |-> Append(under, [top EXCEPT !.off = Min(hits)]),
              item |-> blk.items[Min(hits)]]

-----------------------------------------------------------------------------
\* cache_block: the place in the cache of block no of a category, n of whose
\* blocks fit in an entry.  The entry is also the block of the file it is read
\* from and written to, and entry 0 has the header.
CatMax == 4
FirstBlock(n) == n + 1
CachePlace(pos, n) ==
    LET no == FirstBlock(n) + pos[2] - 1
    IN  <<(no * CatMax + pos[1] - 1) \div ((CatMax - 1) * n), no % n>>

-----------------------------------------------------------------------------
\* The calls.

Listing(items, e) ==
    LET same == {i \in DOMAIN items : ItemCompare(items[i], e.item) = 0}
        before == SelectSeq(items, LAMBDA x : ItemCompare(x, e.item) < 0)
        after == SelectSeq(items, LAMBDA x : ItemCompare(x, e.item) > 0)
        kept == IF e.mode = 2 \/ same = {} THEN <<e.item>>
                ELSE <<items[Min(same)]>>
    IN  IF e.mode = 0 THEN before \o after ELSE before \o kept \o after

\* A stream is for a list when it deletes what the list has.
Fits(stream) == \A i \in DOMAIN stream : stream[i].mode = 0 =>
                    \E j \in DOMAIN listed : ItemCompare(listed[j], stream[i].item) = 0

IsamMerge(stream) ==
    /\ merges < MaxMerges /\ Fits(stream)
    /\ \E r \in {Merge(isamb, isamPos, stream)} : isamb' = r.b /\ isamPos' = r.pos
    /\ listed' = FoldLeft(Listing, listed, stream)
    /\ merges' = merges + 1

IsamUnlink ==
    /\ isamPos # None
    /\ isamb' = Unlink(isamb, isamPos)
    /\ isamPos' = None /\ listed' = <<>>
    /\ UNCHANGED merges

IsamBNext == IsamUnlink \/ \E stream \in IsamStreams : IsamMerge(stream)

-----------------------------------------------------------------------------
\* Properties.

\* What isamb_pp_forward may skip: all up to the first item until is not beyond.
Expected(items, until, scope) ==
    LET hits == {i \in DOMAIN items : until = None \/ ItemCompare(until, items[i]) < scope}
    IN  IF hits = {} THEN <<>> ELSE SubSeq(items, Min(hits), Len(items))
RECURSIVE ReadAll(_, _)
ReadAll(b, pp) == LET r == Forward(b, pp, None, 1)
                  IN  IF r.item = None THEN <<>> ELSE <<r.item>> \o ReadAll(b, r.pp)

\* After any merges: a reader gets exactly the items inserted and not deleted, in
\* order; one that moves forward to an item, and from there to another, by record
\* (scope 2) or by position (scope 1), skips no item it may not skip.
ListExact ==
    isamPos # None =>
        \E pp \in {PpOpen(isamb, isamPos)} :
            /\ ReadAll(isamb, pp) = listed
            /\ \A scope \in 1..2, u, v \in Probes :
                  LET r == Forward(isamb, pp, u, scope)
                      e == Expected(listed, u, scope)
                      r2 == Forward(isamb, r.pp, v, scope)
                      e2 == Expected(Tail(e), v, scope)
                  IN  IF e = <<>> THEN r.item = None
                      ELSE /\ r.item = e[1]
                           /\ r2.item = IF e2 = <<>> THEN None ELSE e2[1]

RECURSIVE TreeBlocks(_, _)
TreeBlocks(b, pos) ==
    IF pos = None THEN <<>>
    ELSE <<pos>> \o FlattenSeq([i \in DOMAIN b.blocks[pos].subs |->
                                   TreeBlocks(b, b.blocks[pos].subs[i])])
RECURSIVE FreeBlocks(_, _)
FreeBlocks(b, pos) == IF pos = None THEN <<>>
                      ELSE <<pos>> \o FreeBlocks(b, b.blocks[pos].next)
BlockSound(b, pos) ==
    \E blk \in {b.blocks[pos]} :
        IF blk.leaf THEN /\ blk.n = Len(blk.items)
                         /\ LeafBytes(blk.n) <= BlockMaxes[pos[1]]
        ELSE /\ Len(blk.subs) = Len(blk.items) + 1
             /\ IntBytes(Len(blk.subs)) <= BlockMaxes[pos[1]]
             /\ \A i \in DOMAIN blk.subs : blk.subs[i][1] = pos[1]

\* Every block is in the tree or in the free list of its category, once; the
\* count in the root, by which isamb_merge removes an empty list, is exact
\* although upper blocks that were split may have wrong counts (see IntMerged), and
\* so is that of a leaf; no block holds more than fits, and all of a tree are of
\* one category; no two blocks have the same place in the cache, nor any that of
\* the header.
IsamBlocks ==
    LET tree == TreeBlocks(isamb, isamPos)
        all == tree \o FlattenSeq([c \in 1..NoCat |-> FreeBlocks(isamb, isamb.free[c])])
    IN  /\ IsInjective(all)
        /\ Range(all) = UNION {{<<c, i>> : i \in 1..isamb.last[c] - 1} : c \in 1..NoCat}
        /\ \A pos \in Range(tree) : BlockSound(isamb, pos)
        /\ isamPos # None => isamb.blocks[isamPos].n = Len(listed)
        /\ \A n \in {1, 4}, p, q \in Range(all) :
              /\ CachePlace(p, n)[1] > 0
              /\ p # q /\ p[1] = q[1] => CachePlace(p, n) # CachePlace(q, n)

\* A list of isam B is exact, and so are the blocks it is kept in.
IsamBSound == ListExact /\ IsamBlocks
=============================================================================
