------------------------------ MODULE Records ------------------------------
(***************************************************************************)
(* The storage of records (records.c, recindex.c): a cache of records, an  *)
(* index from system numbers to blocks, and two files of blocks of         *)
(* different size with free lists.  The records that leave the cache       *)
(* together share one chain of blocks, counted in its first block.         *)
(*                                                                         *)
(* A record has NoInfo fields, each a sequence of units.  A chain holds a  *)
(* sequence of units too: the count, the compression method, and then the  *)
(* encoded records.                                                        *)
(***************************************************************************)
EXTENDS Integers, SequencesExt, FiniteSetsExt

CONSTANTS
    Infos,        \* the contents a record may be given
    NoInfo,       \* REC_NO_INFO
    Methods,      \* the values of recordCompression considered
    CacheMax,     \* cache_max
    ChunkSize,    \* compression_chunk_size of the compressing method
    BlockRoom,    \* units of a chain that a block of each type has room for
    BlockMove,    \* the chain length from which the larger blocks are used
    MaxRecords,   \* bounds on the records created,
    MaxRecOps,    \* on the calls
    MaxRecOpens   \* and on the times the files are opened

BlockTypes == 0..1

ASSUME RecordsAssumption ==
    /\ NoInfo \in Nat \ {0}
    /\ Infos \subseteq [1..NoInfo -> Seq(Nat)]
    /\ Methods \subseteq {"none", "bzip2"}
    /\ CacheMax \in Nat \ {0, 1} /\ ChunkSize \in Nat
    /\ BlockRoom \in [BlockTypes -> Nat \ {0, 1}] /\ BlockMove \in Nat
    /\ {MaxRecords, MaxRecOps, MaxRecOpens} \subseteq Nat

VARIABLES
    store,        \* the files: index and data blocks, and the head in memory
    recHead,      \* the head as written in the first block of the index
    recCache,     \* record_cache
    method,       \* compression_method, "closed" when the files are
    put,          \* what was stored last of each record, NoRecord if deleted
    recOps        \* how many calls were made

recordVars == <<store, recHead, recCache, method, put, recOps>>

NoRecord == <<>>
Blank == [i \in 1..NoInfo |-> <<>>]
FreshHead == [free |-> [t \in BlockTypes |-> 0], last |-> [t \in BlockTypes |-> 1],
              used |-> [t \in BlockTypes |-> 0], total |-> 0,
              indexLast |-> 1, indexFree |-> 0, noRecords |-> 0]

RecordsInit ==
    /\ store = [head |-> FreshHead, index |-> <<>>,
                data |-> [t \in BlockTypes |-> <<>>]]
    /\ recHead = FreshHead
    /\ recCache = <<>> /\ method = "closed"
    /\ put = <<>>
    /\ recOps = [call |-> 0, open |-> 0]

-----------------------------------------------------------------------------
\* Encoding.

\* A field is its length plus one and its units, or 0 if it is that of the
\* record before and not empty.
EncodeField(f, last) ==
    IF f # <<>> /\ f = last THEN <<0>> ELSE <<Len(f) + 1>> \o f
EncodeRecord(sysno, info, last) ==
    <<sysno>> \o FlattenSeq([i \in 1..NoInfo |->
        EncodeField(info[i], IF last = NoRecord THEN <<>> ELSE last[i])])

\* One field of the record at the beginning of s.buf.
DecodeField(s, i) ==
    LET n == s.buf[1] - 1
    IN  IF n = -1 THEN [s EXCEPT !.buf = Tail(@)]
        ELSE [buf |-> SubSeq(s.buf, n + 2, Len(s.buf)),
              info |-> [s.info EXCEPT ![i] = SubSeq(s.buf, 2, n + 1)]]
Fields == [i \in 1..NoInfo |-> i]

\* The record sysno among those in buf: each is decoded over the one before.
DecodeNext(sysno, s) ==
    IF s.found \/ s.buf = <<>> THEN s
    ELSE LET r == FoldLeft(DecodeField, [buf |-> Tail(s.buf), info |-> s.info], Fields)
         IN  [buf |-> r.buf, info |-> r.info, found |-> Head(s.buf) = sysno]
DecodeRecord(sysno, buf) ==
    FoldLeft(LAMBDA s, x : DecodeNext(sysno, s),
             [buf |-> buf, info |-> Blank, found |-> FALSE], buf).info

\* The compression library: pairs of units become one.
Compress(s) == [i \in 1..((Len(s) + 1) \div 2) |->
                   SubSeq(s, 2 * i - 1, IF 2 * i > Len(s) THEN Len(s) ELSE 2 * i)]
Uncompress(s) == FlattenSeq(s)

-----------------------------------------------------------------------------
\* Blocks.  st is a value of the variable store.

\* The blocks of a chain.
RecChain(st, t, first) ==
    FoldLeft(LAMBDA c, x : LET next == st.data[t][Last(c)].next
                           IN  IF next = 0 THEN c ELSE Append(c, next),
             <<first>>, st.data[t])

\* The units of a chain.
UnitsOf(st, e) == LET c == RecChain(st, e.type, e.first)
                  IN  SubSeq(FlattenSeq([i \in DOMAIN c |->
                                 st.data[e.type][c[i]].units]), 1, e.size)

\* A block goes to the head of the free list.
FreeBlock(st, t, b) ==
    [st EXCEPT !.data[t][b].next = st.head.free[t],
               !.head.free[t] = b, !.head.used[t] = @ - 1]

\* rec_release_blocks: one reference less; a variant forgets to count.
ReleaseAlways(count) == TRUE
LastReference(count) == count = 1
ReleaseBlocks(st, sysno) ==
    LET e == st.index[sysno]
        chain == RecChain(st, e.type, e.first)
        count == st.data[e.type][e.first].units[1]
        freed == FoldLeft(LAMBDA s, b : FreeBlock(s, e.type, b), st, chain)
    IN  IF LastReference(count)
        THEN [freed EXCEPT !.head.total = @ - e.size]
        ELSE [st EXCEPT !.data[e.type][e.first].units[1] = count - 1]

\* recindex_write_indx: the entry of each of the records.
WriteIndex(index, sysnos, entry) ==
    [r \in DOMAIN index \cup Range(sysnos) |-> IF r \in Range(sysnos) THEN entry ELSE index[r]]

\* rec_delete_single
DeleteSingle(st, sysno) ==
    LET freed == ReleaseBlocks(st, sysno)
    IN  [freed EXCEPT !.index = WriteIndex(@, <<sysno>>, [first |-> st.head.indexFree,
                                                          type |-> 0, size |-> 0]),
                      !.head.indexFree = sysno]

\* A block from the free list, or a new one at the end; s is [st, blocks].
TakeBlock(s, t) ==
    LET free == s.st.head.free[t]
        b == IF free # 0 THEN free ELSE s.st.head.last[t]
    IN  [st |-> IF free # 0
                THEN [s.st EXCEPT !.head.free[t] = s.st.data[t][free].next,
                                  !.head.used[t] = @ + 1]
                ELSE [s.st EXCEPT !.head.last[t] = @ + 1, !.head.used[t] = @ + 1,
                                  !.data[t] = Append(@, [next |-> 0, units |-> <<>>])],
         blocks |-> Append(s.blocks, b)]

\* rec_write_tmp_buf: the chain is written and the records' entries refer to it.
WriteChain(st, units, sysnos) ==
    LET size == Len(units)
        t == IF size >= BlockMove THEN 1 ELSE 0
        n == (size + BlockRoom[t] - 1) \div BlockRoom[t]
        s == FoldLeft(LAMBDA x, i : TakeBlock(x, t), [st |-> st, blocks |-> <<>>],
                      [i \in 1..n |-> i])
        no(b) == CHOOSE i \in 1..n : s.blocks[i] = b
        part(i) == SubSeq(units, (i - 1) * BlockRoom[t] + 1,
                          Min({size, i * BlockRoom[t]}))
    IN  [s.st EXCEPT
            !.head.total = @ + size,
            !.index = WriteIndex(@, sysnos, [first |-> s.blocks[1], type |-> t, size |-> size]),
            !.data[t] = [b \in DOMAIN @ |->
                IF b \in Range(s.blocks)
                THEN [next |-> IF no(b) = n THEN 0 ELSE s.blocks[no(b) + 1],
                      units |-> part(no(b))]
                ELSE @[b]]]

\* rec_flush_shared
FlushShared(st, sysnos, out) ==
    IF sysnos = <<>> THEN st
    ELSE WriteChain(st, <<Len(sysnos), method>> \o
                            (IF method = "bzip2" THEN Compress(out) ELSE out), sysnos)

-----------------------------------------------------------------------------
\* The cache.

\* rec_write_multiple on one entry; s is [st, out, sysnos, last].
WriteEntry(s, e) ==
    LET written(st) == [st |-> st, out |-> s.out \o
                            EncodeRecord(e.sysno, e.info, s.last),
                        sysnos |-> Append(s.sysnos, e.sysno), last |-> e.info]
    IN  CASE e.flag = "new" -> written(s.st)
          [] e.flag = "write" -> written(ReleaseBlocks(s.st, e.sysno))
          [] e.flag = "delete" -> [s EXCEPT !.st = DeleteSingle(@, e.sysno)]
          [] e.flag = "nop" -> s
WriteMultiple(st, entries) ==
    LET s == FoldLeft(WriteEntry, [st |-> st, out |-> <<>>, sysnos |-> <<>>,
                                   last |-> NoRecord], entries)
    IN  FlushShared(s.st, s.sysnos, s.out)

\* rec_cache_flush: all but the last save entries leave; m is [st, cache].
CacheFlush(m, save) ==
    LET keep == IF save >= Len(m.cache) THEN 0 ELSE save
        gone == Len(m.cache) - keep
    IN  [st |-> WriteMultiple(m.st, SubSeq(m.cache, 1, gone)),
         cache |-> SubSeq(m.cache, gone + 1, Len(m.cache))]

\* rec_cache_insert
UsedBy(cache) == FoldLeft(LAMBDA n, e : n + Len(FlattenSeq(e.info)), 0, cache)
CacheChunk == IF method = "bzip2" THEN ChunkSize ELSE 0
CacheInsert(m, sysno, info, flag) ==
    LET full == \/ Len(m.cache) = CacheMax
                \/ UsedBy(m.cache) > CacheChunk
        room == IF full THEN CacheFlush(m, 1) ELSE m
    IN  [room EXCEPT !.cache = Append(@, [sysno |-> sysno, info |-> info,
                                          flag |-> flag])]

\* rec_cache_lookup and what rec_put and rec_del do with its answer: an entry
\* keeps the flag it has.
Cached(sysno) == {i \in DOMAIN recCache : recCache[i].sysno = sysno}
NewFlag(old, flag) == IF old = "nop" THEN flag ELSE old
CacheStore(sysno, info, flag) ==
    IF Cached(sysno) = {}
    THEN CacheInsert([st |-> store, cache |-> recCache], sysno, info, flag)
    ELSE [st |-> store,
          cache |-> [i \in DOMAIN recCache |->
                        IF i \in Cached(sysno)
                        THEN [recCache[i] EXCEPT !.info = info,
                                                 !.flag = NewFlag(@, flag)]
                        ELSE recCache[i]]]

\* rec_get_int from the files.
GetFromFiles(sysno) ==
    LET e == store.index[sysno]
        units == UnitsOf(store, e)
        rest == SubSeq(units, 3, Len(units))
    IN  DecodeRecord(sysno, IF units[2] = "bzip2" THEN Uncompress(rest) ELSE rest)
InFiles(sysno) == sysno \in DOMAIN store.index /\ store.index[sysno].size # 0

-----------------------------------------------------------------------------
\* The calls.

RecCall == /\ method # "closed"
           /\ recOps.call < MaxRecOps
           /\ recOps' = [recOps EXCEPT !.call = @ + 1]
           /\ UNCHANGED <<recHead, method>>
Becomes(m) == store' = m.st /\ recCache' = m.cache

\* rec_open, with the method of the configuration; the head is written when the
\* index is new.
RecOpen(m) ==
    /\ method = "closed" /\ recOps.open < MaxRecOpens
    /\ method' = m
    /\ store' = [store EXCEPT !.head = recHead]
    /\ recOps' = [recOps EXCEPT !.open = @ + 1]
    /\ UNCHANGED <<recHead, recCache, put>>

\* rec_close
RecClose ==
    /\ method # "closed"
    /\ Becomes(CacheFlush([st |-> store, cache |-> recCache], 0))
    /\ recHead' = store'.head
    /\ method' = "closed"
    /\ UNCHANGED <<put, recOps>>

\* rec_new
RecNew ==
    LET sysno == store.head.indexLast
        st == [store EXCEPT !.head.indexLast = @ + 1, !.head.noRecords = @ + 1]
    IN  /\ RecCall /\ sysno <= MaxRecords
        /\ Becomes(CacheInsert([st |-> st, cache |-> recCache], sysno, Blank, "new"))
        /\ put' = Append(put, Blank)

Live == {r \in DOMAIN put : put[r] # NoRecord}

\* rec_put and rec_del, by a program that has the record from rec_get or rec_new.
RecPut(sysno, info) ==
    /\ RecCall /\ sysno \in Live
    /\ Becomes(CacheStore(sysno, info, "write"))
    /\ put' = [put EXCEPT ![sysno] = info]

RecDel(sysno) ==
    /\ RecCall /\ sysno \in Live
    /\ \E m \in {CacheStore(sysno, put[sysno], "delete")} :
          Becomes([m EXCEPT !.st.head.noRecords = @ - 1])
    /\ put' = [put EXCEPT ![sysno] = NoRecord]

\* rec_get of a record that is not cached: it joins the cache.
RecGet(sysno) ==
    /\ RecCall
    /\ Cached(sysno) = {} /\ InFiles(sysno)
    /\ Becomes(CacheInsert([st |-> store, cache |-> recCache], sysno,
                           GetFromFiles(sysno), "nop"))
    /\ UNCHANGED put

RecordsNext ==
    \/ \E m \in Methods : RecOpen(m)
    \/ RecClose \/ RecNew
    \/ \E r \in DOMAIN put :
          \/ \E info \in Infos : RecPut(r, info)
          \/ RecDel(r) \/ RecGet(r)

-----------------------------------------------------------------------------
\* Properties.

\* What rec_get returns for a record.
RecFound(sysno) ==
    IF Cached(sysno) # {} THEN recCache[Max(Cached(sysno))].info
    ELSE IF InFiles(sysno) THEN GetFromFiles(sysno) ELSE NoRecord

\* A record reads back as it was stored last: from the cache, or from a chain it
\* shares with others, whatever was flushed, freed and used again in between,
\* and with whatever compression it was written.
RecordsReadBack == \A r \in Live : RecFound(r) = put[r]

RecEntries(t) == {r \in DOMAIN store.index : /\ store.index[r].size # 0
                                          /\ store.index[r].type = t}
Firsts(t) == {store.index[r].first : r \in RecEntries(t)}
FreeChain(t) == IF store.head.free[t] = 0 THEN <<>>
                ELSE RecChain(store, t, store.head.free[t])
InChains(t) == FlattenSeq(SetToSeq({RecChain(store, t, b) : b \in Firsts(t)}))

\* Every block of a file is in the free list or in one chain, once; the first
\* block of a chain counts the records that share it, and the head the blocks in
\* use: a long mix of updates and deletions neither leaks a block nor frees one
\* in use.
BlocksPartitioned ==
    \A t \in BlockTypes :
        /\ \E all \in {FreeChain(t) \o InChains(t)} :
              /\ IsInjective(all)
              /\ Range(all) = 1..store.head.last[t] - 1
        /\ Len(InChains(t)) = store.head.used[t]
        /\ \A b \in Firsts(t) : store.data[t][b].units[1] =
              Cardinality({r \in RecEntries(t) : store.index[r].first = b})

\* Records read back as they were put, from blocks that are each used once.
RecordsSound == BlocksPartitioned /\ RecordsReadBack
=============================================================================
