------------------------------- MODULE CFile -------------------------------
(***************************************************************************)
(* A file of the shadow area (cfile.c): blocks written by an update, and   *)
(* an index from the block numbers of the register file to theirs.  The    *)
(* index is a hash table whose chains of buckets are kept on disk, some of *)
(* them also in memory; when buckets are missed too often it becomes a     *)
(* flat array.  The metafiles of the shadow area have room for everything. *)
(*                                                                         *)
(* An operation on the file takes several steps, from op = [kind, ...] at  *)
(* pc "lookup" to pc "done".  The mutex of the file keeps operations apart.*)
(***************************************************************************)
EXTENDS MFile

CONSTANTS
    BlockNos,     \* the block numbers of the register file
    HashSize,     \* head.hash_size, 199 in the code
    HashRun,      \* adjacent blocks with the same hash value, 8 in the code
    MaxInMemory,  \* max_bucket_in_memory, 100 in the code
    FlatSize      \* entries of the flat index in a block of its file

ASSUME CFileAssumption ==
    /\ BlockNos \subseteq Nat
    /\ {HashSize, HashRun, MaxInMemory, FlatSize} \subseteq Nat \ {0}

VARIABLES
    bucketSize,   \* HASH_BUCKET, 15 in the code: it does not change
    rmf,      \* the metafile of the register, see MFile
    head,     \* state, next_block, next_bucket, flat_bucket of the header
    array,    \* the first bucket of each chain
    saved,    \* header and array on disk; state 0 if there are none
    bucket,   \* the buckets on disk: [no, vno: sequence of pairs, next]
    flat,     \* the flat index on disk
    blocks,   \* the shadow blocks on disk
    mem,      \* the buckets in memory, the next to be flushed first
    iobuf,    \* the buffer for blocks that are written in part
    stats,    \* no_hits, no_miss
    dirty,    \* must the header be written?
    pc, op,   \* the operation under way
    cursor,   \* *bucketpp or block_no: the bucket to look at next
    prev      \* hbprev: the bucket before it in its chain

diskVars == <<saved, bucket, flat, blocks>>
cfVars == <<head, array, mem, iobuf, stats, dirty, cursor, prev>>

Hash(no) == (no \div HashRun) % HashSize
NewHead == [state |-> 1, nextBlock |-> 1, nextBucket |-> 1, flatBucket |-> 0]
NoChains == [h \in 0..HashSize - 1 |-> 0]
Unmapped == [no \in BlockNos |-> 0]
NoStats == [hits |-> 0, miss |-> 0]
Zeroes == [i \in 1..BlockSize |-> Hole]

Goto(l) == pc' = l

-----------------------------------------------------------------------------
\* Buckets.  A bucket in memory is [this, ents, next, dirty].

InMemory(b) == \E i \in 1..Len(mem) : mem[i].this = b
IndexOf(b) == CHOOSE i \in 1..Len(mem) : mem[i].this = b
ChainOf(e) == Hash(e.ents[1].no)
Full(e) == Len(e.ents) = bucketSize
Entries(e, no) == {x \in Range(e.ents) : x.no = no}
VnoIn(e, no) == (CHOOSE x \in Entries(e, no) : TRUE).vno

\* flush_bucket: the n oldest buckets leave memory; dirty ones are written.
DirtyOf(m, n) == {e \in {m[i] : i \in 1..n} : e.dirty}
Written(m, n) ==
    LET out == {e.this : e \in DirtyOf(m, n)}
        image(b) == LET e == CHOOSE g \in DirtyOf(m, n) : g.this = b
                    IN  [ents |-> e.ents, next |-> e.next]
    IN  [b \in DOMAIN bucket \cup out |->
            IF b \in out THEN image(b) ELSE bucket[b]]
FlushBuckets(m, n) ==
    /\ bucket' = Written(m, n)
    /\ dirty' = (dirty \/ DirtyOf(m, n) # {})

\* alloc_bucket: with the memory full the oldest bucket leaves it; a variant
\* makes room one bucket too late.
AllocBucketLate(m, e) ==
    LET n == IF Len(m) > MaxInMemory THEN 1 ELSE 0
    IN  /\ FlushBuckets(m, n)
        /\ mem' = SubSeq(m, n + 1, Len(m)) \o <<e>>
AllocBucket(m, e) ==
    LET n == IF Len(m) = MaxInMemory THEN 1 ELSE 0
    IN  /\ FlushBuckets(m, n)
        /\ mem' = SubSeq(m, n + 1, Len(m)) \o <<e>>

\* get_bucket, and an entry added to a bucket.
GetBucket(b) == [this |-> b, ents |-> bucket[b].ents, next |-> bucket[b].next,
                 dirty |-> FALSE]
Added(e, no, vno) == [e EXCEPT !.ents = Append(@, [no |-> no, vno |-> vno]),
                               !.dirty = TRUE]

Hit == stats' = [stats EXCEPT !.hits = @ + 1]
Miss == stats' = [stats EXCEPT !.miss = @ + 1]
Found(vno) == op' = [op EXCEPT !.vno = vno] /\ Goto("found")

-----------------------------------------------------------------------------
\* cf_lookup, from pc "lookup" to pc "found" or "missing".

LookupFlat ==
    /\ pc = "lookup" /\ head.state = 2
    /\ op' = [op EXCEPT !.vno = flat[op.no]]
    /\ Goto(IF flat[op.no] # 0 THEN "found" ELSE "missing")
    /\ UNCHANGED <<rmf, diskVars, cfVars>>

\* First the buckets of the chain that are in memory, in any order.
LookupHash ==
    /\ pc = "lookup" /\ head.state = 1
    /\ \/ \E i \in 1..Len(mem) :
             /\ Entries(mem[i], op.no) # {}
             /\ Hit /\ Found(VnoIn(mem[i], op.no))
             /\ UNCHANGED cursor
       \/ /\ \A i \in 1..Len(mem) : Entries(mem[i], op.no) = {}
          /\ cursor' = array[Hash(op.no)]
          /\ Goto("walk")
          /\ UNCHANGED <<op, stats>>
    /\ UNCHANGED <<rmf, diskVars, head, array, mem, iobuf, dirty, prev>>

\* Then the chain; only buckets that are not in memory have to be searched.
WalkMemory ==
    /\ pc = "walk" /\ cursor # 0 /\ InMemory(cursor)
    /\ cursor' = mem[IndexOf(cursor)].next
    /\ UNCHANGED <<rmf, diskVars, head, array, mem, iobuf, stats, dirty, pc, op,
                   prev>>

WalkDisk ==
    /\ pc = "walk" /\ cursor # 0 /\ ~InMemory(cursor)
    /\ Miss
    /\ AllocBucket(mem, GetBucket(cursor))
    /\ IF Entries(GetBucket(cursor), op.no) # {}
       THEN Found(VnoIn(GetBucket(cursor), op.no)) /\ UNCHANGED cursor
       ELSE cursor' = bucket[cursor].next /\ UNCHANGED <<pc, op>>
    /\ UNCHANGED <<rmf, saved, flat, blocks, head, array, iobuf, prev>>

WalkEnd ==
    /\ pc = "walk" /\ cursor = 0
    /\ Goto("missing")
    /\ UNCHANGED <<rmf, diskVars, cfVars, op>>

-----------------------------------------------------------------------------
\* cf_read, and bf_read2 going on to the register when there is no such block.

ReadShadow ==
    /\ pc = "found" /\ op.kind = "read"
    /\ op' = [op EXCEPT !.units = SubSeq(blocks[op.vno], op.off + 1,
                                         op.off + Len(op.units))]
    /\ Goto("done")
    /\ UNCHANGED <<rmf, diskVars, cfVars>>

ReadRegister ==
    /\ pc = "missing" /\ op.kind = "read"
    /\ op' = [op EXCEPT !.units = MfRead(rmf, op.no, op.off, Len(op.units))]
    /\ rmf' = [rmf EXCEPT !.cur = FilePosition(rmf, op.no).cur]
    /\ Goto("done")
    /\ UNCHANGED <<diskVars, cfVars>>

-----------------------------------------------------------------------------
\* cf_write.

WriteShadow ==
    /\ pc = "found" /\ op.kind = "write"
    /\ blocks' = [blocks EXCEPT ![op.vno] = Put(@, op.off, op.units)]
    /\ Goto("done")
    /\ UNCHANGED <<rmf, saved, bucket, flat, cfVars, op>>

\* cf_new gives the block a place in the index, then FillWhole or FillPart its contents.
NewBlock == /\ pc = "missing" /\ op.kind = "write"
            /\ op' = [op EXCEPT !.vno = head.nextBlock]
UseBlock(h) == [h EXCEPT !.nextBlock = @ + 1]

\* cf_write_flat keeps flat_bucket past the last block of the flat index; a
\* variant keeps it at the last block.
WithFlatShort(h, no) == [h EXCEPT !.flatBucket = Max({@, no \div FlatSize})]
WithFlat(h, no) == [h EXCEPT !.flatBucket = Max({@, no \div FlatSize + 1})]

NewFlat ==
    /\ NewBlock /\ head.state = 2
    /\ flat' = [flat EXCEPT ![op.no] = head.nextBlock]
    /\ head' = UseBlock(WithFlat(head, op.no))
    /\ dirty' = TRUE
    /\ Goto("fill")
    /\ UNCHANGED <<rmf, saved, bucket, blocks, array, mem, iobuf, stats, cursor,
                   prev>>

\* cf_moveto_flat: all buckets are written, then copied to the flat index.
TooManyMisses == stats.miss * 2 > stats.hits
MoveToFlat ==
    /\ pc = "missing" /\ op.kind = "write" /\ head.state = 1
    /\ TooManyMisses
    /\ FlushBuckets(mem, Len(mem))
    /\ LET pairs == UNION {Range(bucket'[b].ents) : b \in 1..head.nextBucket - 1}
       IN  /\ flat' = [no \in BlockNos |->
                          IF \E x \in pairs : x.no = no
                          THEN (CHOOSE x \in pairs : x.no = no).vno
                          ELSE flat[no]]
           /\ head' = [head EXCEPT
                 !.state = 2,
                 !.flatBucket = Max({@} \cup {x.no \div FlatSize + 1 : x \in pairs})]
    /\ mem' = <<>>
    /\ UNCHANGED <<rmf, saved, blocks, array, iobuf, stats, pc, op, cursor, prev>>

\* cf_new_hash: a bucket of the chain in memory with room, ...
HasRoom(i) == ChainOf(mem[i]) = Hash(op.no) /\ ~Full(mem[i])
NewInMemory ==
    /\ NewBlock /\ head.state = 1 /\ ~TooManyMisses
    /\ \E i \in 1..Len(mem) :
           /\ HasRoom(i)
           /\ mem' = [mem EXCEPT ![i] = Added(@, op.no, head.nextBlock)]
    /\ Hit
    /\ head' = UseBlock(head)
    /\ Goto("fill")
    /\ UNCHANGED <<rmf, diskVars, array, iobuf, dirty, cursor, prev>>

\* ... or else the chain is followed, ...
NewOnDisk ==
    /\ NewBlock /\ head.state = 1 /\ ~TooManyMisses
    /\ \A i \in 1..Len(mem) : ~HasRoom(i)
    /\ head' = UseBlock(head)
    /\ cursor' = array[Hash(op.no)]
    /\ prev' = 0
    /\ Goto("append")
    /\ UNCHANGED <<rmf, diskVars, array, mem, iobuf, stats, dirty>>

AppendMemory ==
    /\ pc = "append" /\ cursor # 0 /\ InMemory(cursor)
    /\ cursor' = mem[IndexOf(cursor)].next
    /\ prev' = cursor
    /\ UNCHANGED <<rmf, diskVars, head, array, mem, iobuf, stats, dirty, pc, op>>

AppendDisk ==
    LET e == GetBucket(cursor) IN
    /\ pc = "append" /\ cursor # 0 /\ ~InMemory(cursor)
    /\ Miss
    /\ IF Full(e)
       THEN /\ AllocBucket(mem, e)
            /\ cursor' = e.next /\ prev' = cursor
            /\ UNCHANGED pc
       ELSE /\ AllocBucket(mem, Added(e, op.no, op.vno))
            /\ Goto("fill")
            /\ UNCHANGED <<cursor, prev>>
    /\ UNCHANGED <<rmf, saved, flat, blocks, head, array, iobuf, op>>

\* ... and a new bucket linked to its end.  The link is set before the bucket
\* before it may leave memory; a variant does not mark that bucket dirty.
LinkedClean(b) == [mem EXCEPT ![IndexOf(prev)].next = b]
Linked(b) == [mem EXCEPT ![IndexOf(prev)].next = b,
                         ![IndexOf(prev)].dirty = TRUE]
NewBucket ==
    LET b == head.nextBucket
        e == [this |-> b, ents |-> <<[no |-> op.no, vno |-> op.vno]>>,
              next |-> 0, dirty |-> TRUE]
    IN
    /\ pc = "append" /\ cursor = 0
    /\ head' = [head EXCEPT !.nextBucket = b + 1]
    /\ array' = IF prev = 0 THEN [array EXCEPT ![Hash(op.no)] = b] ELSE array
    /\ AllocBucket(IF prev = 0 THEN mem ELSE Linked(b), e)
    /\ Goto("fill")
    /\ UNCHANGED <<rmf, saved, flat, blocks, iobuf, stats, op, cursor, prev>>

\* A block written in part takes the rest from the register; where that is
\* too short the buffer keeps what was in it.  A variant does not read it.
FromBuffer == iobuf
FromRegister ==
    LET old == MfRead(rmf, op.no, 0, BlockSize)
    IN  [i \in 1..BlockSize |-> IF old[i] = Short THEN iobuf[i] ELSE old[i]]

FillWhole ==
    /\ pc = "fill" /\ Len(op.units) = BlockSize
    /\ blocks' = [v \in DOMAIN blocks \cup {op.vno} |->
                     IF v = op.vno THEN op.units ELSE blocks[v]]
    /\ Goto("done")
    /\ UNCHANGED <<rmf, saved, bucket, flat, cfVars, op>>

FillPart ==
    /\ pc = "fill" /\ Len(op.units) < BlockSize
    /\ iobuf' = Put(FromRegister, op.off, op.units)
    /\ blocks' = [v \in DOMAIN blocks \cup {op.vno} |->
                     IF v = op.vno THEN iobuf' ELSE blocks[v]]
    /\ rmf' = [rmf EXCEPT !.cur = FilePosition(rmf, op.no).cur]
    /\ Goto("done")
    /\ UNCHANGED <<saved, bucket, flat, head, array, mem, stats, dirty, op, cursor,
                   prev>>

-----------------------------------------------------------------------------
\* cf_open and cf_close.

\* A shadow file without a header gets one when it is opened to write.
OpenShadow(wflag) ==
    /\ LET h == IF saved.head.state = 0 THEN [head |-> NewHead, array |-> NoChains]
                ELSE saved
       IN  /\ head' = h.head
           /\ array' = h.array
           /\ saved' = IF wflag THEN h ELSE saved
    /\ UNCHANGED <<bucket, flat, blocks, mem, iobuf, stats, dirty, cursor, prev>>

\* What is in memory goes, without being written: of a process that ends, or
\* after cf_close has written it.
FreeShadow ==
    /\ head' = NewHead
    /\ array' = NoChains
    /\ mem' = <<>>
    /\ iobuf' = Zeroes
    /\ stats' = NoStats
    /\ dirty' = FALSE
    /\ cursor' = 0
    /\ prev' = 0

CloseShadow ==
    /\ bucket' = Written(mem, Len(mem))
    /\ saved' = IF dirty \/ DirtyOf(mem, Len(mem)) # {}
                THEN [head |-> head, array |-> array] ELSE saved
    /\ FreeShadow
    /\ UNCHANGED <<flat, blocks>>

\* mf_reset of the shadow area.
NoShadow == [head |-> [NewHead EXCEPT !.state = 0], array |-> NoChains]
RemoveShadow ==
    /\ saved' = NoShadow
    /\ bucket' = <<>>
    /\ flat' = Unmapped
    /\ blocks' = <<>>

\* cf_commit reads the index on disk: bucket by bucket, or the flat index in
\* the order of the block numbers.
HashPairs == FlattenSeq([b \in 1..saved.head.nextBucket - 1 |-> bucket[b].ents])
FlatPairs ==
    LET nos == {no \in BlockNos : /\ flat[no] # 0
                                  /\ no < saved.head.flatBucket * FlatSize}
    IN  [i \in 1..Cardinality(nos) |->
            LET no == CHOOSE n \in nos : Cardinality({m \in nos : m < n}) = i - 1
            IN  [no |-> no, vno |-> flat[no]]]
CommitPairs == IF saved.head.state = 2 THEN FlatPairs ELSE HashPairs

LookupStep == LookupFlat \/ LookupHash \/ WalkMemory \/ WalkDisk \/ WalkEnd
NewStep == \/ NewFlat \/ MoveToFlat \/ NewInMemory \/ NewOnDisk
           \/ AppendMemory \/ AppendDisk \/ NewBucket \/ FillWhole \/ FillPart
CFileStep == \/ LookupStep \/ NewStep
             \/ ReadShadow \/ ReadRegister \/ WriteShadow
=============================================================================
