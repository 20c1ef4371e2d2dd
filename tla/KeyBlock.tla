------------------------------ MODULE KeyBlock ------------------------------
(***************************************************************************)
(* The keys of updated records on their way to sorted files (key_block.c,  *)
(* extract.c).  The indexing thread puts keys in one of two buffers; when  *)
(* it is full a sorting thread takes it over, sorts it and writes it to    *)
(* the next of the files key1.tmp, key2.tmp, ... while the indexing thread *)
(* goes on with the other buffer.  Without threads the indexing thread     *)
(* does it all.  The critical sections under the mutex are atomic steps,   *)
(* cut where a thread waits on a condition.                                *)
(*                                                                         *)
(* Terms and records are numbers; a key is a record in which a term        *)
(* occurs.                                                                 *)
(***************************************************************************)
EXTENDS Integers, SequencesExt

CONSTANTS
    Terms,        \* the terms
    Recs,         \* the system numbers of the records
    KeyLists,     \* what a version of a record may have as its terms
    Threading,    \* the values of "threads" in zebra.cfg considered
    BufSize,      \* the number of keys a buffer has room for
    MaxUpdates,   \* bounds on the updates of records,
    MaxFlushes,   \* on the calls of zebra_flush_reg
    MaxIndexKills      \* and on the times the process is killed

ASSUME KeyBlockAssumption ==
    /\ Terms \subseteq Nat \ {0} /\ Recs \subseteq Nat \ {0}
    /\ KeyLists \subseteq Seq(Terms)
    /\ \A l \in KeyLists : IsInjective(l)
    /\ Threading \subseteq BOOLEAN
    /\ BufSize \in Nat \ {0}
    /\ {MaxUpdates, MaxFlushes, MaxIndexKills} \subseteq Nat

VARIABLES
    useThreads,   \* use_threads
    created,      \* is there a key block?
    buffer,       \* the two buffers, as arrays of keys
    buf, ptr,     \* the buffer being filled (key_buf), its keys (ptr_i)
    sorting,      \* is_sorting
    exitFlag,     \* exit_flag
    job,          \* thread_key_buf and thread_ptr_i, and the keys written
    tpc,          \* where the sorting thread, or key_block_flush_int, is
    wpc,          \* where the indexing thread is
    final,        \* is_final of the key_block_flush under way
    closing,      \* does the call under way end or abandon a transaction?
    queue,        \* the keys that the update under way has yet to write
    recKeys,      \* the terms of each stored record, in their order
    fileNo,       \* key_file_no
    files,        \* the files key<n>.tmp
    calls         \* how many calls of each kind were made

threadVars == <<sorting, exitFlag, job, tpc>>
blockVars == <<created, buffer, buf, ptr, fileNo>>
callVars == <<final, closing, queue, recKeys, calls>>

NoKey == [term |-> 0, key |-> 0, cmd |-> 0]
NoJob == [buf |-> 1, n |-> 0, done |-> 0]
EmptyBuffer == [i \in 1..BufSize |-> NoKey]

KeyBlockInit ==
    /\ useThreads \in Threading
    /\ created = FALSE
    /\ buffer = [b \in 1..2 |-> EmptyBuffer]
    /\ buf = 1 /\ ptr = 0
    /\ sorting = FALSE /\ exitFlag = FALSE /\ job = NoJob
    /\ tpc = "none" /\ wpc = "idle"
    /\ final = FALSE /\ closing = "no"
    /\ queue = <<>>
    /\ recKeys = [r \in Recs |-> <<>>]
    /\ fileNo = 0 /\ files = <<>>
    /\ calls = [c \in {"update", "flush", "kill"} |-> 0]

Call(c, bound) == calls[c] < bound /\ calls' = [calls EXCEPT ![c] = @ + 1]
GoOn(l) == wpc' = l

-----------------------------------------------------------------------------
\* extract_flush_record_keys2: the old and the new keys of the record are read
\* side by side, and a pair of equal keys is left out.
KeyAt(list, i, r, cmd) ==
    IF i <= Len(list) THEN <<[term |-> list[i], key |-> r, cmd |-> cmd]>>
    ELSE <<>>
SamePair(old, new, i) ==
    i <= Len(old) /\ i <= Len(new) /\ old[i] = new[i]
KeysToWrite(r, old, new) ==
    FlattenSeq([i \in 1..(Len(old) + Len(new)) |->
        IF SamePair(old, new, i) THEN <<>>
        ELSE KeyAt(old, i, r, 0) \o KeyAt(new, i, r, 1)])

\* A record is inserted, changed or deleted; the first one makes the key block
\* and starts the sorting thread.
UpdateRecord(r, new) ==
    /\ wpc = "idle"
    /\ Call("update", MaxUpdates)
    /\ queue' = KeysToWrite(r, recKeys[r], new)
    /\ recKeys' = [recKeys EXCEPT ![r] = new]
    /\ created' = TRUE
    /\ tpc' = IF ~created /\ useThreads THEN "check" ELSE tpc
    /\ GoOn("write")
    /\ UNCHANGED <<useThreads, buffer, buf, ptr, sorting, exitFlag, job, final,
                   closing, fileNo, files>>

\* There is room for another key; a variant looks too late.
FullTooLate == ptr > BufSize
Full == ptr = BufSize

\* key_block_write: a full buffer is flushed first.
WriteKey ==
    /\ wpc = "write" /\ queue # <<>> /\ ~Full
    /\ buffer' = [buffer EXCEPT ![buf] = (ptr + 1 :> Head(queue)) @@ @]
    /\ ptr' = ptr + 1
    /\ queue' = Tail(queue)
    /\ UNCHANGED <<useThreads, created, buf, threadVars, wpc, final, closing,
                   recKeys, fileNo, files, calls>>

FlushFull ==
    /\ wpc = "write" /\ queue # <<>> /\ Full
    /\ final' = FALSE
    /\ GoOn("flush")
    /\ UNCHANGED <<useThreads, blockVars, threadVars, closing, queue, recKeys,
                   files, calls>>

UpdateDone ==
    /\ wpc = "write" /\ queue = <<>>
    /\ GoOn("idle")
    /\ UNCHANGED <<useThreads, blockVars, threadVars, callVars, files>>

\* zebra_flush_reg, by a read transaction within the update or at its end.
FlushReg(end) ==
    /\ wpc = "idle" /\ created
    /\ Call("flush", MaxFlushes)
    /\ final' = TRUE
    /\ closing' = end
    /\ GoOn("flush")
    /\ UNCHANGED <<useThreads, blockVars, threadVars, queue, recKeys, files>>

\* zebra_close within a transaction: the key block is destroyed as it is.
CloseHandle ==
    /\ wpc = "idle" /\ created
    /\ Call("flush", MaxFlushes)
    /\ closing' = "abandon"
    /\ GoOn("destroy")
    /\ UNCHANGED <<useThreads, blockVars, threadVars, final, queue, recKeys, files>>

-----------------------------------------------------------------------------
\* key_block_flush

\* Where a flush returns to: key_block_write or zebra_index_merge.
Returned == IF final THEN "merge" ELSE "write"

\* A variant hands the buffer over while the other one is being sorted.
HandOverAtOnce == TRUE
MayHandOver == ~sorting

WaitToHandOver ==
    /\ wpc = "flush" /\ useThreads /\ ~MayHandOver
    /\ GoOn("flushwait")
    /\ UNCHANGED <<useThreads, blockVars, threadVars, callVars, files>>

\* pthread_cond_signal(&p->work_available)
WakeSorter == tpc' = IF tpc = "wait" THEN "check" ELSE tpc

\* The last flush waits until its buffer is written; a variant does not.
ReturnAtOnce == Returned
AfterHandOver == IF final THEN "finalwait" ELSE "write"

\* Nobody looks at ptr_i until the flush returns.
HandOver ==
    /\ wpc = "flush" /\ useThreads /\ MayHandOver
    /\ sorting' = TRUE
    /\ job' = [buf |-> buf, n |-> ptr, done |-> 0]
    /\ buf' = 3 - buf
    /\ WakeSorter
    /\ ptr' = 0
    /\ GoOn(AfterHandOver)
    /\ UNCHANGED <<useThreads, created, buffer, exitFlag, callVars, fileNo, files>>

WaitForSorter ==
    /\ wpc = "final" /\ sorting
    /\ GoOn("finalwait")
    /\ UNCHANGED <<useThreads, blockVars, threadVars, callVars, files>>

FinalDone ==
    /\ wpc = "final" /\ ~sorting
    /\ GoOn(Returned)
    /\ UNCHANGED <<useThreads, blockVars, threadVars, callVars, files>>

\* Without threads key_block_flush calls key_block_flush_int itself.
FlushSelf ==
    /\ wpc = "flush" /\ ~useThreads
    /\ job' = [buf |-> buf, n |-> ptr, done |-> 0]
    /\ tpc' = "sort"
    /\ GoOn("self")
    /\ UNCHANGED <<useThreads, blockVars, sorting, exitFlag, callVars, files>>

FlushSelfDone ==
    /\ wpc = "self" /\ tpc = "sorted"
    /\ tpc' = "none"
    /\ ptr' = 0
    /\ GoOn(Returned)
    /\ UNCHANGED <<useThreads, created, buffer, buf, sorting, exitFlag, job,
                   callVars, fileNo, files>>

-----------------------------------------------------------------------------
\* thread_func and key_block_flush_int

ThreadCheck ==
    /\ tpc = "check"
    /\ tpc' = CASE exitFlag -> "exited"
                [] ~exitFlag /\ sorting -> "sort"
                [] OTHER -> "wait"
    /\ UNCHANGED <<useThreads, blockVars, sorting, exitFlag, job, wpc, callVars,
                   files>>

\* key_qsort_compare(a, b) > 0: by term, by record, by the command as a char.
After(a, b) ==
    \/ a.term > b.term
    \/ a.term = b.term /\ a.key > b.key
    \/ a.term = b.term /\ a.key = b.key /\ a.cmd > b.cmd
Sorted(b, n) ==
    LET keys == SortSeq([i \in 1..n |-> b[i]], LAMBDA x, y : After(y, x))
    IN  [i \in DOMAIN b |-> IF i <= n THEN keys[i] ELSE b[i]]

\* An empty buffer makes no file; fopen empties a file of an earlier process.
SortBlock ==
    /\ tpc = "sort"
    /\ IF job.n = 0
       THEN UNCHANGED <<buffer, fileNo, files>>
       ELSE /\ buffer' = [buffer EXCEPT ![job.buf] = Sorted(@, job.n)]
            /\ fileNo' = fileNo + 1
            /\ files' = [no \in DOMAIN files \cup {fileNo + 1} |->
                             IF no = fileNo + 1 THEN <<>> ELSE files[no]]
    /\ tpc' = IF job.n = 0 THEN "sorted" ELSE "encode"
    /\ UNCHANGED <<useThreads, created, buf, ptr, sorting, exitFlag, job, wpc,
                   callVars>>

\* iscz1_encode: the difference to the key before if there is one, or the key.
Encode(prev, k) == [diff |-> k > prev, val |-> IF k > prev THEN k - prev ELSE k]

\* encode_key_write: a term that is repeated is left out, and a new term
\* starts the encoding anew.
Item(b, i) ==
    LET same == i > 1 /\ b[i - 1].term = b[i].term
    IN  [term |-> IF same THEN 0 ELSE b[i].term,
         cmd |-> b[i].cmd,
         code |-> Encode(IF same THEN b[i - 1].key ELSE 0, b[i].key)]

WriteItem ==
    /\ tpc = "encode" /\ job.done < job.n
    /\ files' = [files EXCEPT ![fileNo] =
                    Append(@, Item(buffer[job.buf], job.done + 1))]
    /\ job' = [job EXCEPT !.done = @ + 1]
    /\ UNCHANGED <<useThreads, blockVars, sorting, exitFlag, tpc, wpc, callVars>>

CloseFile ==
    /\ tpc = "encode" /\ job.done = job.n
    /\ tpc' = "sorted"
    /\ UNCHANGED <<useThreads, blockVars, sorting, exitFlag, job, wpc, callVars,
                   files>>

\* pthread_cond_signal(&p->cond_sorting): the indexing thread tests again. A
\* variant forgets it.
NoSignal == wpc
TestAgain == CASE wpc = "flushwait" -> "flush"
               [] wpc = "finalwait" -> "final"
               [] wpc = "destroywait" -> "destroy"
               [] OTHER -> wpc
SignalSorted == TestAgain

SortDone ==
    /\ tpc = "sorted" /\ useThreads
    /\ sorting' = FALSE
    /\ GoOn(SignalSorted)
    /\ tpc' = "check"
    /\ UNCHANGED <<useThreads, blockVars, exitFlag, job, callVars, files>>

\* pthread_cond_wait may also return without a signal.
SpuriousWakeup ==
    /\ \/ /\ wpc \in {"flushwait", "finalwait", "destroywait"}
          /\ GoOn(TestAgain) /\ UNCHANGED tpc
       \/ tpc = "wait" /\ WakeSorter /\ UNCHANGED wpc
    /\ UNCHANGED <<useThreads, blockVars, sorting, exitFlag, job, callVars, files>>

-----------------------------------------------------------------------------
\* key_block_destroy

WaitToDestroy ==
    /\ wpc = "destroy" /\ useThreads /\ sorting
    /\ GoOn("destroywait")
    /\ UNCHANGED <<useThreads, blockVars, threadVars, callVars, files>>

\* exit_flag and the broadcast; pthread_join waits for the thread to end.
TellExit ==
    /\ wpc = "destroy" /\ useThreads /\ ~sorting
    /\ exitFlag' = TRUE
    /\ WakeSorter
    /\ GoOn("join")
    /\ UNCHANGED <<useThreads, blockVars, sorting, job, callVars, files>>

\* The memory of a key block is gone.
ForgetBlock ==
    /\ created' = FALSE
    /\ buffer' = [b \in 1..2 |-> EmptyBuffer]
    /\ buf' = 1 /\ ptr' = 0 /\ fileNo' = 0
    /\ sorting' = FALSE /\ exitFlag' = FALSE /\ job' = NoJob
    /\ tpc' = "none"

KeyBlockStep ==
    \/ WriteKey \/ FlushFull \/ UpdateDone
    \/ WaitToHandOver \/ HandOver \/ WaitForSorter \/ FinalDone
    \/ FlushSelf \/ FlushSelfDone \/ WaitToDestroy \/ TellExit
SorterStep == ThreadCheck \/ SortBlock \/ WriteItem \/ CloseFile \/ SortDone
=============================================================================
