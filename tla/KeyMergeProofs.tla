--------------------------- MODULE KeyMergeProofs ---------------------------
(***************************************************************************)
(* Proofs about the two threads of KeyBlock and the merge of KeyMerge, for *)
(* every set of terms, records and key lists, any size of the buffers, any *)
(* bounds, with threads or without, and with kills at every step.          *)
(*                                                                         *)
(* What the keys are (that none is lost, that the index is exact) needs    *)
(* induction over sequences and stays with TLC; the theorems here say that *)
(* the threads never touch the same buffer or file, and that no wakeup is  *)
(* lost.                                                                   *)
(***************************************************************************)
EXTENDS KeyMerge, TLAPS

Sorting == {"sort", "encode", "sorted"}
MergeLoop == {"name", "item", "look", "apply"}
Waiting == {"flushwait", "finalwait", "destroywait"}
Ending == {"destroy", "destroywait", "join"}

-----------------------------------------------------------------------------
\* The inductive invariant.

Flags ==
    /\ useThreads \in BOOLEAN /\ created \in BOOLEAN
    /\ sorting \in BOOLEAN /\ exitFlag \in BOOLEAN

\* Buffers and counts are in range. An array of keys may be anything.
Ranges ==
    /\ buf \in 1..2 /\ ptr \in 0..BufSize /\ DOMAIN buffer = 1..2
    /\ job.buf \in 1..2 /\ job.n \in 0..BufSize /\ job.done \in 0..job.n
    /\ job = [buf |-> job.buf, n |-> job.n, done |-> job.done]
    /\ fileNo \in Nat

\* Where the threads may be.
Places ==
    /\ wpc \in {"idle", "write", "flush", "flushwait", "final", "finalwait",
                "self", "merge"} \cup MergeLoop \cup Ending
    /\ tpc \in {"none", "check", "wait", "exited"} \cup Sorting
    /\ ~created => wpc = "idle" /\ ~sorting /\ fileNo = 0 /\ tpc = "none"
    /\ wpc = "self" <=> ~useThreads /\ tpc \in Sorting
    /\ wpc \in {"flushwait", "final", "finalwait", "destroywait", "join"}
          => useThreads
    /\ ~useThreads => ~sorting /\ tpc \in {"none"} \cup Sorting
    /\ useThreads /\ created => tpc # "none"

\* The buffer that was handed over is not the one being filled, and the one
\* that the indexing thread works off by itself is.
BuffersApart ==
    /\ sorting => job.buf # buf
    /\ wpc = "self" => job.buf = buf

\* The sorting thread works only on what was handed over, and the flag stays
\* up until it is done.
WorkHandedOver ==
    /\ tpc \in Sorting => sorting \/ wpc = "self"
    /\ sorting /\ tpc \notin Sorting => job.done = 0
    /\ tpc = "sort" => job.done = 0
    /\ tpc = "sorted" => job.done = job.n

\* A thread waits on a condition only while it does not hold, and the sorting
\* thread ends only when it was told to.
NoLostWakeup ==
    /\ wpc \in Waiting => sorting
    /\ sorting => tpc \in {"check"} \cup Sorting
    /\ tpc = "wait" => ~exitFlag
    /\ exitFlag <=> wpc = "join"
    /\ tpc = "exited" => exitFlag
    /\ wpc = "join" => ~sorting

\* The files of this process exist, from the first to the last number, and are
\* complete and closed when the merge reads them.
FilesFinished ==
    /\ tpc = "encode" => fileNo \in DOMAIN files
    /\ wpc \notin Ending => 1..fileNo \subseteq DOMAIN files
    /\ wpc \in {"merge"} \cup MergeLoop => ~sorting /\ tpc \notin Sorting
    /\ wpc \in MergeLoop => DOMAIN kf = 1..fileNo

\* Until the sorting thread is done, or the process is killed, what was handed
\* over is not replaced, only the sorting changes its keys, and it is done only
\* when every key is written.
HandedOverKept ==
    /\ sorting /\ sorting' => /\ job'.buf = job.buf /\ job'.n = job.n
                             /\ job.done <= job'.done
    /\ sorting /\ sorting' /\ buffer'[job.buf] # buffer[job.buf] =>
           tpc = "sort" /\ tpc' = "encode"
    /\ sorting /\ created' /\ buffer'[buf] # buffer[buf] => wpc = "write"
    /\ sorting /\ ~sorting' /\ created' => job.done = job.n
HandoverKept == [][HandedOverKept]_kmVars

IInv == Flags /\ Ranges /\ Places /\ BuffersApart /\ WorkHandedOver
            /\ NoLostWakeup /\ FilesFinished
-----------------------------------------------------------------------------
\* What a step has to preserve.
Kept == IInv' /\ HandedOverKept

\* The steps of the indexing thread.
LEMMA KeyBlockSteps ==
    ASSUME IInv, KeyBlockStep, UNCHANGED mergeVars
    PROVE  Kept
<1> USE KeyBlockAssumption
    DEF IInv, Flags, Ranges, Places, BuffersApart, WorkHandedOver, NoLostWakeup,
        FilesFinished, HandedOverKept, Kept, Sorting, MergeLoop, Waiting,
        Ending, GoOn, blockVars, threadVars, callVars, mergeVars
<1>1. CASE UpdateDone
  BY <1>1 DEF UpdateDone
<1>2. CASE WriteKey
  BY <1>2 DEF WriteKey, Full
<1>3. CASE FlushFull
  BY <1>3 DEF FlushFull, Full
<1>4. CASE WaitToHandOver
  BY <1>4 DEF WaitToHandOver, MayHandOver
<1>5. CASE HandOver
  BY <1>5 DEF HandOver, MayHandOver, WakeSorter, AfterHandOver
<1>6. CASE WaitForSorter
  BY <1>6 DEF WaitForSorter
<1>7. CASE FinalDone
  BY <1>7 DEF FinalDone, Returned
<1>8. CASE FlushSelf
  BY <1>8 DEF FlushSelf
<1>9. CASE FlushSelfDone
  BY <1>9 DEF FlushSelfDone, Returned
<1>10. CASE WaitToDestroy
  BY <1>10 DEF WaitToDestroy
<1>11. CASE TellExit
  BY <1>11 DEF TellExit, WakeSorter
<1>. QED  BY <1>1, <1>2, <1>3, <1>4, <1>5, <1>6, <1>7, <1>8, <1>9, <1>10, <1>11 DEF KeyBlockStep

\* The steps of the sorting thread.
LEMMA SorterSteps ==
    ASSUME IInv, SorterStep, UNCHANGED mergeVars
    PROVE  Kept
<1> USE KeyBlockAssumption
    DEF IInv, Flags, Ranges, Places, BuffersApart, WorkHandedOver, NoLostWakeup,
        FilesFinished, HandedOverKept, Kept, Sorting, MergeLoop, Waiting,
        Ending, GoOn, blockVars, threadVars, callVars, mergeVars
<1>1. CASE ThreadCheck
  BY <1>1 DEF ThreadCheck
<1>2. CASE SortBlock
  <2>1. fileNo' \in Nat /\ 1..fileNo' \subseteq (1..fileNo) \cup {fileNo'}
    BY <1>2 DEF SortBlock
  <2>2. DOMAIN files \subseteq DOMAIN files'
    BY <1>2 DEF SortBlock
  <2>3. tpc' = "encode" => fileNo' \in DOMAIN files'
    BY <1>2 DEF SortBlock
  <2>4. FilesFinished'
    BY <1>2, <2>1, <2>2, <2>3 DEF SortBlock
  <2>5. \A b \in 1..2 \ {job.buf} : buffer'[b] = buffer[b]
    BY <1>2 DEF SortBlock
  <2>6. HandedOverKept
    BY <1>2, <2>5 DEF SortBlock
  <2>. QED  BY <1>2, <2>1, <2>4, <2>6 DEF SortBlock
<1>3. CASE WriteItem
  <2>1. DOMAIN files' = DOMAIN files
    BY <1>3 DEF WriteItem
  <2>2. /\ job'.buf = job.buf /\ job'.n = job.n /\ job'.done = job.done + 1
        /\ job' = [buf |-> job'.buf, n |-> job'.n, done |-> job'.done]
    BY <1>3 DEF WriteItem
  <2>3. job'.done \in 0..job'.n
    BY <1>3, <2>2 DEF WriteItem
  <2>. QED  BY <1>3, <2>1, <2>2, <2>3 DEF WriteItem
<1>4. CASE CloseFile
  BY <1>4 DEF CloseFile
<1>5. CASE SortDone
  BY <1>5 DEF SortDone, SignalSorted, TestAgain
<1>. QED  BY <1>1, <1>2, <1>3, <1>4, <1>5 DEF SorterStep

\* The calls on the handle, from outside.
Calls == \/ \E r \in Recs, new \in KeyLists : UpdateRecord(r, new)
         \/ \E end \in {"no", "end"} : FlushReg(end)
         \/ CloseHandle

\* Adding keys and flushing the register, in whichever order.
LEMMA CallSteps ==
    ASSUME IInv, Calls, UNCHANGED mergeVars
    PROVE  Kept
<1> USE KeyBlockAssumption
    DEF IInv, Flags, Ranges, Places, BuffersApart, WorkHandedOver, NoLostWakeup,
        FilesFinished, HandedOverKept, Kept, Sorting, MergeLoop, Waiting,
        Ending, GoOn, blockVars, threadVars, callVars, mergeVars
<1>1. ASSUME NEW r \in Recs, NEW new \in KeyLists, UpdateRecord(r, new)
      PROVE  Kept
  BY <1>1 DEF UpdateRecord
<1>2. ASSUME NEW end \in {"no", "end"}, FlushReg(end)
      PROVE  Kept
  BY <1>2 DEF FlushReg
<1>3. CASE CloseHandle
  BY <1>3 DEF CloseHandle
<1>. QED  BY <1>1, <1>2, <1>3 DEF Calls

\* heap_read_one and heap_cread_item read on in the files that are open.
LEMMA ReadOneKeepsFiles ==
    ASSUME NEW m PROVE DOMAIN ReadOne(m).kf = DOMAIN m.kf
BY DEF ReadOne

\* Neither does what heap_cread_item makes of it.
LEMMA CreadItemKeepsFiles == DOMAIN CreadItem.kf = DOMAIN kf
<1>1. DOMAIN ReadOne(Merging).kf = DOMAIN Merging.kf
  BY ReadOneKeepsFiles
<1>. QED  BY <1>1 DEF CreadItem, Result, Merging

\* The files that zebra_index_merge opens are those numbered to key_file_no.
LEMMA OpensAll == DOMAIN OpenFiles.kf = 1..fileNo
BY DEF OpenFiles

\* The steps of zebra_index_merge and the end of a key block.
LEMMA MergeSteps ==
    ASSUME IInv, MergeStep
    PROVE  Kept
<1> USE KeyBlockAssumption
    DEF IInv, Flags, Ranges, Places, BuffersApart, WorkHandedOver, NoLostWakeup,
        FilesFinished, HandedOverKept, Kept, Sorting, MergeLoop, Waiting,
        Ending, GoOn, blockVars, threadVars, callVars, mergeVars
<1>1. CASE NothingToMerge
  BY <1>1 DEF NothingToMerge
<1>2. CASE MergeStart
  <2>1. DOMAIN ReadOne(OpenFiles).kf = 1..fileNo
    BY OpensAll, ReadOneKeepsFiles
  <2>2. DOMAIN kf' = 1..fileNo
    BY <1>2, <2>1, OpensAll DEF MergeStart
  <2>. QED  BY <1>2, <2>2 DEF MergeStart
<1>3. CASE NextName
  BY <1>3 DEF NextName
<1>4. CASE ItemKnown
  BY <1>4 DEF ItemKnown, Deliver
<1>5. CASE ItemFirst
  BY <1>5, CreadItemKeepsFiles DEF ItemFirst
<1>6. CASE ItemAhead
  BY <1>6 DEF ItemAhead
<1>7. CASE LookSame
  BY <1>7, CreadItemKeepsFiles DEF LookSame, Look
<1>8. CASE LookCancelled
  BY <1>8, CreadItemKeepsFiles DEF LookCancelled, Look
<1>9. CASE LookCancelledEnd
  BY <1>9, CreadItemKeepsFiles DEF LookCancelledEnd, Look
<1>10. CASE LookDeliver
  BY <1>10, CreadItemKeepsFiles DEF LookDeliver, Look, Deliver
<1>11. CASE Apply
  BY <1>11 DEF Apply
<1>12. CASE MergeEnd
  BY <1>12 DEF MergeEnd
<1>13. CASE DestroyDone
  <2>1. Flags'
    BY <1>13 DEF DestroyDone, ForgetBlock, NoJob
  <2>2. Ranges'
    BY <1>13 DEF DestroyDone, ForgetBlock, NoJob
  <2>3. Places'
    BY <1>13 DEF DestroyDone, ForgetBlock, NoJob
  <2>4. BuffersApart' /\ WorkHandedOver' /\ NoLostWakeup'
    BY <1>13 DEF DestroyDone, ForgetBlock, NoJob
  <2>5. FilesFinished'
    BY <1>13 DEF DestroyDone, ForgetBlock, NoJob
  <2>6. HandedOverKept
    BY <1>13 DEF DestroyDone, ForgetBlock, NoJob
  <2>. QED  BY <2>1, <2>2, <2>3, <2>4, <2>5, <2>6
<1>. QED  BY <1>1, <1>2, <1>3, <1>4, <1>5, <1>6, <1>7, <1>8, <1>9, <1>10,
          <1>11, <1>12, <1>13 DEF MergeStep

\* pthread_cond_wait returns without a signal.
LEMMA WakeupSteps ==
    ASSUME IInv, Wakeup PROVE Kept
<1> USE KeyBlockAssumption
    DEF IInv, Flags, Ranges, Places, BuffersApart, WorkHandedOver, NoLostWakeup,
        FilesFinished, HandedOverKept, Kept, Sorting, MergeLoop, Waiting,
        Ending, GoOn, blockVars, threadVars, callVars, mergeVars
<1>. QED  BY DEF Wakeup, SpuriousWakeup, WakeSorter, TestAgain

\* A killed process leaves nothing of its key block but the files.
LEMMA KillSteps ==
    ASSUME IInv, KillIndexer PROVE Kept
<1> USE KeyBlockAssumption
    DEF IInv, Flags, Ranges, Places, BuffersApart, WorkHandedOver, NoLostWakeup,
        FilesFinished, HandedOverKept, Kept, Sorting, MergeLoop, Waiting,
        Ending, GoOn, blockVars, threadVars, callVars, mergeVars
<1>0. Flags'
  BY DEF KillIndexer, ForgetBlock
<1>1. Ranges'
  BY DEF KillIndexer, ForgetBlock, NoJob
<1>2. Places'
  BY DEF KillIndexer, ForgetBlock, NoJob
<1>3. BuffersApart' /\ WorkHandedOver' /\ NoLostWakeup'
  BY DEF KillIndexer, ForgetBlock, NoJob
<1>4. FilesFinished'
  BY DEF KillIndexer, ForgetBlock, NoJob
<1>5. HandedOverKept
  BY DEF KillIndexer, ForgetBlock, NoJob
<1>. QED  BY <1>0, <1>1, <1>2, <1>3, <1>4, <1>5

\* The first state, and every step.
LEMMA InitHolds == KeyInit => IInv
<1> SUFFICES ASSUME KeyInit PROVE IInv
  OBVIOUS
<1> USE KeyBlockAssumption DEF KeyInit, KeyBlockInit
<1>0. Flags
  BY DEF Flags
<1>1. Ranges
  BY DEF Ranges, NoJob
<1>2. Places
  BY DEF Places, Sorting, MergeLoop, Waiting, Ending
<1>3. BuffersApart /\ WorkHandedOver
  BY DEF BuffersApart, WorkHandedOver, Sorting, NoJob
<1>4. NoLostWakeup /\ FilesFinished
  BY DEF NoLostWakeup, FilesFinished, Sorting, MergeLoop, Waiting, Ending
<1>. QED  BY <1>0, <1>1, <1>2, <1>3, <1>4 DEF IInv

\* Every step keeps the invariant, and what was handed over stays.
LEMMA StepHolds ==
    ASSUME IInv, [KeyNext]_kmVars
    PROVE  IInv' /\ (kmVars' = kmVars \/ HandedOverKept)
<1>1. CASE KeyNext
  <2>1. CASE Calls /\ UNCHANGED mergeVars
    BY <2>1, CallSteps DEF Kept
  <2>2. CASE IndexingStep
    BY <2>2, KeyBlockSteps DEF IndexingStep, Kept
  <2>3. CASE MergeStep
    BY <2>3, MergeSteps DEF Kept
  <2>4. CASE SortingStep
    BY <2>4, SorterSteps DEF SortingStep, Kept
  <2>5. CASE Wakeup
    BY <2>5, WakeupSteps DEF Kept
  <2>6. CASE KillIndexer
    BY <2>6, KillSteps DEF Kept
  <2>. QED  BY <1>1, <2>1, <2>2, <2>3, <2>4, <2>5, <2>6 DEF KeyNext, Calls
<1>2. CASE UNCHANGED kmVars
  BY <1>2
     DEF kmVars, keyVars, blockVars, threadVars, callVars, mergeVars, IInv, Flags,
         Ranges, Places, BuffersApart, WorkHandedOver, NoLostWakeup, FilesFinished
<1>. QED  BY <1>1, <1>2

-----------------------------------------------------------------------------
\* The two threads of a key block keep out of each other's way, with or without
\* threads, whatever the buffers hold and wherever the process is killed.
THEOREM Invariance == KeySpec => []IInv
<1>1. IInv /\ [KeyNext]_kmVars => IInv'
  BY StepHolds
<1>. QED  BY InitHolds, <1>1, PTL DEF KeySpec

\* The buffer that the sorting thread works on is not the one that
\* key_block_write fills (key_block.c:380).
THEOREM BuffersAlwaysApart == KeySpec => []BuffersApart
<1>1. IInv => BuffersApart
  BY DEF IInv
<1>. QED  BY Invariance, <1>1, PTL

\* key_block_flush and thread_func wait in loops on conditions; whoever waits is
\* woken by the step that makes its condition true (key_block.c:182).
THEOREM WakeupsNeverLost == KeySpec => []NoLostWakeup
<1>1. IInv => NoLostWakeup
  BY DEF IInv
<1>. QED  BY Invariance, <1>1, PTL

\* zebra_index_merge counts and opens the files without the mutex: by then they
\* are there, complete and closed (key_block.c:397).
THEOREM FilesAlwaysFinished == KeySpec => []FilesFinished
<1>1. IInv => FilesFinished
  BY DEF IInv
<1>. QED  BY Invariance, <1>1, PTL

\* A buffer that was handed over is neither replaced nor changed by the indexing
\* thread before all its keys are in the file.
THEOREM HandoverAlwaysKept == KeySpec => HandoverKept
<1>1. IInv /\ [KeyNext]_kmVars => [HandedOverKept]_kmVars
  BY StepHolds
<1>. QED  BY Invariance, <1>1, PTL DEF KeySpec, HandoverKept
=============================================================================
