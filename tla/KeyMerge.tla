------------------------------ MODULE KeyMerge ------------------------------
(***************************************************************************)
(* The merge of the sorted key files into the index (zebra_index_merge in  *)
(* kinput.c), after KeyBlock has written them: a heap of the files by      *)
(* their next keys, heap_cread_item that cuts its output at each new term, *)
(* and heap_cread_item2 that adds up the insertions and deletions of a key *)
(* and hands what is left to the isam.                                     *)
(*                                                                         *)
(* The index is a set of records for each term: dictionary and isam are    *)
(* components of their own.  What a killed process leaves behind is        *)
(* decided by ZebraTrans: the register goes back to where the last         *)
(* transaction ended; the files key<n>.tmp stay.                           *)
(***************************************************************************)
EXTENDS KeyBlock

VARIABLES
    kf,           \* of each file: keys read, term and key read last
    heap,         \* the heap, as the sequence of [key, file] in its order
    hci,          \* struct heap_cread_info, see NoHci
    delivered,    \* what isam_merge read for the current term
    index,        \* the records of each term, in dictionary and isam
    saved         \* index and recKeys when the last transaction ended

mergeVars == <<kf, heap, hci, delivered, index, saved>>
keyVars == <<useThreads, blockVars, threadVars, callVars, wpc, files>>
kmVars == <<keyVars, mergeVars>>

NoHci == [more |-> FALSE, cur |-> NoKey, name |-> 0, first |-> TRUE, ret |-> -1,
          key1 |-> NoKey, key2 |-> NoKey, level |-> 0, look |-> 0]

KeyInit ==
    /\ KeyBlockInit
    /\ kf = <<>> /\ heap = <<>> /\ hci = NoHci /\ delivered = <<>>
    /\ index = [t \in Terms |-> {}]
    /\ saved = [index |-> index, recKeys |-> recKeys]

-----------------------------------------------------------------------------
\* key_file_read

\* iscz1_decode, with the key before it in the file.
Decode(prev, code) == IF code.diff THEN prev + code.val ELSE code.val

\* The command comes back as c & 128 in a signed char; a new term resets the
\* decoder.
AsRead(cmd) == IF cmd = 1 THEN -128 ELSE 0
PrevKey(f, x) == IF x.term = 0 THEN f.key ELSE 0

NoFile == [pos |-> 0, term |-> 0, key |-> 0]
HasNext(f, no) == f.pos < Len(files[no])
NextOf(f, no) ==
    LET x == files[no][f.pos + 1]
    IN  [pos |-> f.pos + 1,
         term |-> IF x.term = 0 THEN f.term ELSE x.term,
         key |-> Decode(PrevKey(f, x), x.code)]
KeyOf(f, no) == [term |-> f.term, key |-> f.key,
                 cmd |-> AsRead(files[no][f.pos].cmd)]

-----------------------------------------------------------------------------
\* The heap.  Each loop runs down or up one path, at most Len(h) steps.

Later(h, i, j) == After(h[i].key, h[j].key)
Swap(h, i, j) == [h EXCEPT ![i] = h[j], ![j] = h[i]]
Steps(h) == [i \in 1..Len(h) |-> i]

\* The child to compare with; a variant takes the first.
LeftChild(h, child) == child
Child(h, child) ==
    IF child < Len(h) /\ Later(h, child, child + 1) THEN child + 1 ELSE child

\* key_heap_delete
SiftDown(s, i) ==
    LET c == Child(s.heap, 2 * s.cur)
    IN  IF 2 * s.cur <= Len(s.heap) /\ Later(s.heap, s.cur, c)
        THEN [heap |-> Swap(s.heap, s.cur, c), cur |-> c]
        ELSE s
HeapDelete(h) ==
    LET rest == Front(Swap(h, 1, Len(h)))
    IN  FoldLeft(SiftDown, [heap |-> rest, cur |-> 1], Steps(rest)).heap

\* key_heap_insert
SiftUp(s, i) ==
    LET parent == s.cur \div 2
    IN  IF parent > 0 /\ Later(s.heap, parent, s.cur)
        THEN [heap |-> Swap(s.heap, s.cur, parent), cur |-> parent]
        ELSE s
HeapInsert(h, x) ==
    LET longer == Append(h, x)
    IN  FoldLeft(SiftUp, [heap |-> longer, cur |-> Len(longer)],
                 Steps(longer)).heap

\* heap_read_one: the least key leaves the heap, the next one of its file
\* enters it.  m is [heap, kf], and its heap is not empty.
ReadOne(m) ==
    LET no == m.heap[1].file
        rest == HeapDelete(m.heap)
        f == NextOf(m.kf[no], no)
    IN  IF HasNext(m.kf[no], no)
        THEN [heap |-> HeapInsert(rest, [key |-> KeyOf(f, no), file |-> no]),
              kf |-> [m.kf EXCEPT ![no] = f]]
        ELSE [heap |-> rest, kf |-> m.kf]

-----------------------------------------------------------------------------
\* zebra_index_merge

\* No file was written: the key block stays.
NothingToMerge ==
    /\ wpc = "merge" /\ fileNo = 0
    /\ GoOn(IF closing = "end" THEN "destroy" ELSE "idle")
    /\ UNCHANGED <<useThreads, blockVars, threadVars, callVars, files, mergeVars>>

\* The files numbered to key_file_no are opened; their first keys make the heap.
FirstOf(no) == IF HasNext(NoFile, no) THEN NextOf(NoFile, no) ELSE NoFile
InsertFirst(h, no) ==
    IF HasNext(NoFile, no)
    THEN HeapInsert(h, [key |-> KeyOf(FirstOf(no), no), file |-> no])
    ELSE h
OpenFiles ==
    [heap |-> FoldLeft(InsertFirst, <<>>, [i \in 1..fileNo |-> i]),
     kf |-> [no \in 1..fileNo |-> FirstOf(no)]]
MergeStart ==
    /\ wpc = "merge" /\ fileNo > 0
    /\ \E m \in {OpenFiles} :
          IF m.heap = <<>>
          THEN hci' = NoHci /\ heap' = m.heap /\ kf' = m.kf
          ELSE /\ hci' = [NoHci EXCEPT !.more = TRUE, !.cur = m.heap[1].key]
               /\ heap' = ReadOne(m).heap /\ kf' = ReadOne(m).kf
    /\ GoOn("name")
    /\ UNCHANGED <<useThreads, blockVars, threadVars, callVars, files,
                   delivered, index, saved>>

\* heap_inpb: the next term; isamb_merge reads from heap_cread_item2.
NextName ==
    /\ wpc = "name" /\ hci.more
    /\ hci' = [hci EXCEPT !.name = hci.cur.term]
    /\ delivered' = <<>>
    /\ GoOn("item")
    /\ UNCHANGED <<useThreads, blockVars, threadVars, callVars, files, kf, heap,
                   index, saved>>

\* heap_cread_item, as [ok, key, hci, heap, kf].  The first key of a term was
\* read when the list before it ended.
Result(ok, key, h, m) == [ok |-> ok, key |-> key, hci |-> h, heap |-> m.heap,
                          kf |-> m.kf]
Merging == [heap |-> heap, kf |-> kf]
CreadItem ==
    IF hci.first
    THEN Result(TRUE, hci.cur, [hci EXCEPT !.first = FALSE], Merging)
    ELSE IF heap = <<>>
    THEN Result(FALSE, NoKey, [hci EXCEPT !.more = FALSE], Merging)
    ELSE LET next == heap[1].key
             new == next.term # hci.cur.term
         IN  Result(~new, next, [hci EXCEPT !.cur = next, !.first = new],
                    ReadOne(Merging))

Inserts(key) == key.cmd # 0
Level(key) == IF Inserts(key) THEN 1 ELSE -1
Towards0(level) == IF level > 0 THEN level - 1 ELSE level + 1
Deliver(key, level) ==
    delivered' = Append(delivered, [key |-> key.key, insert |-> level > 0])

\* heap_cread_item2 returns without reading: a key that was inserted or
\* deleted more than once again, or the end of the list met looking ahead. As
\* the keys of a record are distinct, look_level stays 0 here.
ItemKnown ==
    /\ wpc = "item" /\ (hci.look # 0 \/ hci.ret = 0)
    /\ IF hci.look # 0
       THEN /\ Deliver(hci.key1, hci.look)
            /\ hci' = [hci EXCEPT !.look = Towards0(@)]
            /\ GoOn("item")
       ELSE /\ hci' = [hci EXCEPT !.ret = -1]
            /\ GoOn("apply")
            /\ UNCHANGED delivered
    /\ UNCHANGED <<useThreads, blockVars, threadVars, callVars, files, kf, heap,
                   index, saved>>

\* The first item of a list.
ItemFirst ==
    /\ wpc = "item" /\ hci.look = 0 /\ hci.ret = -1
    /\ \E c \in {CreadItem} :
          /\ hci' = [c.hci EXCEPT !.ret = IF c.ok THEN 1 ELSE 0,
                        !.key1 = IF c.ok THEN c.key ELSE @,
                        !.level = Level(IF c.ok THEN c.key ELSE hci.key1)]
          /\ heap' = c.heap /\ kf' = c.kf
    /\ GoOn("look")
    /\ UNCHANGED <<useThreads, blockVars, threadVars, callVars, files,
                   delivered, index, saved>>

\* The item that was looked ahead at.
ItemAhead ==
    /\ wpc = "item" /\ hci.look = 0 /\ hci.ret = 1
    /\ hci' = [hci EXCEPT !.key1 = hci.key2, !.level = Level(hci.key2)]
    /\ GoOn("look")
    /\ UNCHANGED <<useThreads, blockVars, threadVars, callVars, files, kf, heap,
                   delivered, index, saved>>

\* One round of the loop that looks ahead: c is what heap_cread_item read.
Look(c, h) ==
    /\ wpc = "look"
    /\ hci' = h
    /\ heap' = c.heap /\ kf' = c.kf
    /\ UNCHANGED <<useThreads, blockVars, threadVars, callVars, files, index,
                   saved>>

SameKey(c) == c.ok /\ c.key.key = hci.key1.key
LookSame ==
    \E c \in {CreadItem} :
        /\ SameKey(c)
        /\ Look(c, [c.hci EXCEPT !.ret = 1, !.key2 = c.key,
                                 !.level = @ + Level(c.key)])
        /\ UNCHANGED <<delivered, wpc>>

\* Insertions and deletions of the key cancel out: on to the next key.
LookCancelled ==
    \E c \in {CreadItem} :
        /\ c.ok /\ ~SameKey(c) /\ hci.level = 0
        /\ Look(c, [c.hci EXCEPT !.ret = 1, !.key1 = c.key, !.key2 = c.key,
                                 !.level = Level(c.key)])
        /\ UNCHANGED <<delivered, wpc>>

LookCancelledEnd ==
    \E c \in {CreadItem} :
        /\ ~c.ok /\ hci.level = 0
        /\ Look(c, [c.hci EXCEPT !.ret = -1])
        /\ GoOn("apply")
        /\ UNCHANGED delivered

\* The key is handed to the isam.
KeySettled(c) == ~SameKey(c) /\ hci.level # 0
LookDeliver ==
    \E c \in {CreadItem} :
        /\ KeySettled(c)
        /\ Look(c, [c.hci EXCEPT !.ret = IF c.ok THEN 1 ELSE 0,
                                 !.key2 = IF c.ok THEN c.key ELSE @,
                                 !.look = Towards0(hci.level)])
        /\ Deliver(hci.key1, hci.level)
        /\ GoOn("item")

\* isamb_merge and the dictionary: the term has the records that are left.
Applied(recs, d) ==
    FoldLeft(LAMBDA s, x : IF x.insert THEN s \cup {x.key} ELSE s \ {x.key},
             recs, d)
Apply ==
    /\ wpc = "apply"
    /\ index' = [index EXCEPT ![hci.name] = Applied(@, delivered)]
    /\ GoOn("name")
    /\ UNCHANGED <<useThreads, blockVars, threadVars, callVars, files, kf, heap,
                   hci, delivered, saved>>

\* The files are removed and the key block is destroyed.
MergeEnd ==
    /\ wpc = "name" /\ ~hci.more
    /\ files' = Restrict(files, DOMAIN files \ DOMAIN kf)
    /\ kf' = <<>> /\ heap' = <<>> /\ hci' = NoHci /\ delivered' = <<>>
    /\ GoOn("destroy")
    /\ UNCHANGED <<useThreads, blockVars, threadVars, callVars, index, saved>>

\* key_block_destroy returns, at the end of a transaction also without a merge.
\* What an abandoned transaction did is thrown away by the next one.
DestroyDone ==
    /\ IF useThreads THEN wpc = "join" /\ tpc = "exited" ELSE wpc = "destroy"
    /\ ForgetBlock
    /\ CASE closing = "end" -> /\ saved' = [index |-> index, recKeys |-> recKeys]
                               /\ UNCHANGED <<index, recKeys>>
         [] closing = "abandon" -> /\ index' = saved.index
                                   /\ recKeys' = saved.recKeys
                                   /\ UNCHANGED saved
         [] OTHER -> UNCHANGED <<index, recKeys, saved>>
    /\ GoOn("idle")
    /\ UNCHANGED <<useThreads, final, closing, queue, calls, files, kf, heap, hci,
                   delivered>>

-----------------------------------------------------------------------------
\* The process is killed, or ends with an error of fopen or fwrite.
KillIndexer ==
    /\ Call("kill", MaxIndexKills)
    /\ ForgetBlock
    /\ wpc' = "idle" /\ final' = FALSE /\ closing' = "no" /\ queue' = <<>>
    /\ recKeys' = saved.recKeys /\ index' = saved.index
    /\ kf' = <<>> /\ heap' = <<>> /\ hci' = NoHci /\ delivered' = <<>>
    /\ UNCHANGED <<useThreads, files, saved>>

MergeStep ==
    \/ NothingToMerge \/ MergeStart \/ NextName \/ ItemKnown
    \/ ItemFirst \/ ItemAhead \/ LookSame \/ LookCancelled \/ LookCancelledEnd
    \/ LookDeliver \/ Apply \/ MergeEnd \/ DestroyDone

IndexingStep == KeyBlockStep /\ UNCHANGED mergeVars
SortingStep == SorterStep /\ UNCHANGED mergeVars
Wakeup == SpuriousWakeup /\ UNCHANGED mergeVars

KeyNext ==
    \/ /\ \/ \E r \in Recs, new \in KeyLists : UpdateRecord(r, new)
          \/ \E end \in {"no", "end"} : FlushReg(end)
          \/ CloseHandle
       /\ UNCHANGED mergeVars
    \/ IndexingStep \/ MergeStep \/ SortingStep \/ Wakeup \/ KillIndexer

KeySpec == KeyInit /\ [][KeyNext]_kmVars

\* Both threads keep running while they have something to do.
KeysRun == WF_kmVars(IndexingStep) /\ WF_kmVars(SortingStep) /\ WF_kmVars(DestroyDone)

-----------------------------------------------------------------------------
\* Properties.

Key == [term : Terms \cup {0}, key : Recs \cup {0}, cmd : {-128, 0, 1}]

\* Type invariant.
KeyTypeOK ==
    /\ useThreads \in BOOLEAN /\ created \in BOOLEAN
    /\ buffer \in [1..2 -> [1..BufSize -> Key]]
    /\ buf \in 1..2 /\ ptr \in 0..BufSize
    /\ sorting \in BOOLEAN /\ exitFlag \in BOOLEAN
    /\ final \in BOOLEAN /\ closing \in {"no", "end", "abandon"}
    /\ job.buf \in 1..2 /\ job.n \in 0..BufSize /\ job.done \in 0..job.n
    /\ fileNo \in Nat /\ DOMAIN files \subseteq Nat \ {0}
    /\ recKeys \in [Recs -> KeyLists]
    /\ Range(queue) \subseteq Key
    /\ index \in [Terms -> SUBSET Recs]
    /\ hci.cur \in Key /\ hci.key1 \in Key /\ hci.key2 \in Key

\* How many more insertions than deletions of t for r are among the keys?
Commands(keys, t, r, insert) ==
    {i \in DOMAIN keys : /\ keys[i].term = t /\ keys[i].key = r
                         /\ Inserts(keys[i]) = insert}
Net(keys, t, r) == Cardinality(Commands(keys, t, r, TRUE))
                       - Cardinality(Commands(keys, t, r, FALSE))

\* The keys of a file, decoded from its beginning.
KeysOf(no) ==
    LET at[i \in 0..Len(files[no])] ==
            IF i = 0 THEN NoFile ELSE NextOf(at[i - 1], no)
    IN  [i \in 1..Len(files[no]) |-> KeyOf(at[i], no)]

InHand == IF created THEN SubSeq(buffer[buf], 1, ptr) ELSE <<>>
HandedOver == IF sorting
              THEN SubSeq(buffer[job.buf], job.done + 1, job.n) ELSE <<>>
InFiles == FlattenSeq([no \in 1..fileNo |-> KeysOf(no)])
Before(t, r) == IF r \in index[t] THEN 1 ELSE 0
Wanted(t, r) == IF t \in Range(recKeys[r]) THEN 1 ELSE 0

\* Until the merge begins every insertion and deletion of the updates so far
\* is in exactly one place: not yet written, in the buffer being filled, in the
\* one handed over, or in a file. With the index they add up to the records.
KeysConserved ==
    wpc \in {"idle", "write", "flush", "flushwait", "final", "finalwait"} =>
        \E pending \in {queue \o InHand \o HandedOver \o InFiles} :
            \A t \in Terms, r \in Recs :
                Before(t, r) + Net(pending, t, r) = Wanted(t, r)

\* After zebra_flush_reg, and after a kill, the index has exactly the terms of
\* the stored records, however often a record changed in between and whatever
\* files earlier processes left behind.
IndexExact ==
    wpc = "idle" /\ ~created =>
        \A t \in Terms : index[t] = {r \in Recs : t \in Range(recKeys[r])}

\* The isam is given each key of a term once and in ascending order, and only
\* insertions of what it has not and deletions of what it has.
DeliveredInOrder ==
    /\ \A i \in 1..Len(delivered) - 1 : delivered[i].key < delivered[i + 1].key
    /\ wpc \in {"item", "look", "apply"} =>
           \A x \in Range(delivered) : x.insert = (x.key \notin index[hci.name])

\* Where the indexing thread may wait for the sorting thread.
Flushing == wpc \in {"flush", "flushwait", "final", "finalwait", "self"}
Destroying == wpc \in {"destroy", "destroywait", "join"}
=============================================================================
