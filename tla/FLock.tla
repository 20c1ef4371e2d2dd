------------------------------- MODULE FLock -------------------------------
(***************************************************************************)
(* A lock file as flock.c implements it.  fcntl locks belong to a process, *)
(* so the threads of one process share a zebra_lock_info: a reader/writer  *)
(* lock between its threads (zebra-lock.c), counts of the threads that     *)
(* have the file locked, and a mutex around these and around fcntl.  Each  *)
(* thread has at most one ZebraLockHandle for the lock file.               *)
(***************************************************************************)
EXTENDS Integers, FiniteSets

CONSTANTS
    Procs,         \* processes
    Threads,       \* the threads that use the lock file
    ProcOf,        \* the process of each thread
    NoThread,      \* stands for no thread
    StrayUnlocks,  \* the threads that may unlock a handle that has no lock
    MaxLocks,      \* bound on the number of lock or stray calls of a thread
    MaxKills       \* bound on the number of processes killed

ASSUME FLockAssumption ==
    /\ IsFiniteSet(Threads) /\ NoThread \notin Threads
    /\ ProcOf \in [Threads -> Procs]
    /\ StrayUnlocks \subseteq Threads
    /\ MaxLocks \in [Threads -> Nat] /\ MaxKills \in Nat

VARIABLES
    kernel,        \* fcntl lock of each process: "free", "r" or "w"
    refCount,      \* ref_count; 0 when the process has no zebra_lock_info
    noFile,        \* no_file_read_lock and no_file_write_lock, by mode
    rdwr,          \* readers_reading and writers_writing, by mode
    fileMutex,     \* the thread that holds file_mutex
    pc,            \* where each thread is ...
    mode,          \* ... in zebra_lock_r or zebra_lock_w
    writeFlag,     \* write_flag of its handle, as a mode
    locks, kills   \* numbers of lock calls and kills so far

infoVars == <<refCount, noFile, rdwr, fileMutex>>
vars == <<kernel, infoVars, pc, mode, writeFlag, locks, kills>>

Modes == {"r", "w"}
Zero == [m \in Modes |-> 0]

Init ==
    /\ kernel = [p \in Procs |-> "free"]
    /\ refCount = [p \in Procs |-> 0]
    /\ noFile = [p \in Procs |-> Zero]
    /\ rdwr = [p \in Procs |-> Zero]
    /\ fileMutex = [p \in Procs |-> NoThread]
    /\ pc = [t \in Threads |-> "none"]
    /\ mode = [t \in Threads |-> "r"]
    /\ writeFlag = [t \in Threads |-> "r"]
    /\ locks = [t \in Threads |-> 0]
    /\ kills = 0

Goto(t, l) == pc' = [pc EXCEPT ![t] = l]

\* fcntl grants a lock that conflicts with no lock of another process.
CanLock(p, m) ==
    \A q \in Procs \ {p} : kernel[q] = "free" \/ (m = "r" /\ kernel[q] = "r")

-----------------------------------------------------------------------------
\* A variant of zebra_lock_create that takes no reference.
CreateUncounted(t) ==
    /\ pc[t] = "none"
    /\ writeFlag' = [writeFlag EXCEPT ![t] = "r"]
    /\ Goto(t, "idle")
    /\ UNCHANGED <<kernel, infoVars, mode, locks, kills>>

\* zebra_lock_create: the first handle of a process makes the info.
Create(t) ==
    /\ pc[t] = "none"
    /\ refCount' = [refCount EXCEPT ![ProcOf[t]] = @ + 1]
    /\ writeFlag' = [writeFlag EXCEPT ![t] = "r"]
    /\ Goto(t, "idle")
    /\ UNCHANGED <<kernel, noFile, rdwr, fileMutex, mode, locks, kills>>

\* The handle to destroy is the last one; a variant does not look.
AnyHandle(p) == TRUE
LastHandle(p) == refCount[p] = 1

\* zebra_lock_destroy: the last handle of a process closes the file, which
\* drops the locks of the process, and frees the info.
Destroy(t) ==
    LET p == ProcOf[t] IN
    /\ pc[t] = "idle"
    /\ refCount' = [refCount EXCEPT ![p] = @ - 1]
    /\ IF LastHandle(p)
       THEN /\ kernel' = [kernel EXCEPT ![p] = "free"]
            /\ noFile' = [noFile EXCEPT ![p] = Zero]
            /\ rdwr' = [rdwr EXCEPT ![p] = Zero]
       ELSE UNCHANGED <<kernel, noFile, rdwr>>
    /\ Goto(t, "none")
    /\ UNCHANGED <<fileMutex, mode, writeFlag, locks, kills>>

\* zebra_lock_r or zebra_lock_w is called.
Lock(t, m) ==
    /\ pc[t] = "idle" /\ locks[t] < MaxLocks[t]
    /\ locks' = [locks EXCEPT ![t] = @ + 1]
    /\ mode' = [mode EXCEPT ![t] = m]
    /\ Goto(t, "enter")
    /\ UNCHANGED <<kernel, infoVars, writeFlag, kills>>

\* The loop conditions of zebra_lock_rdwr_rlock and zebra_lock_rdwr_wlock;
\* a variant lets a writer in beside readers.
BusyWriting(p, m) == rdwr[p]["w"] > 0
Busy(p, m) == rdwr[p]["w"] > 0 \/ (m = "w" /\ rdwr[p]["r"] > 0)

Enter(t) ==
    LET p == ProcOf[t]  m == mode[t] IN
    /\ pc[t] = "enter" /\ ~Busy(p, m)
    /\ rdwr' = [rdwr EXCEPT ![p][m] = @ + 1]
    /\ Goto(t, "mutex")
    /\ UNCHANGED <<kernel, refCount, noFile, fileMutex, mode, writeFlag, locks,
                   kills>>

\* pthread_cond_wait, until a signal or a broadcast.
Wait(t) ==
    /\ pc[t] = "enter" /\ Busy(ProcOf[t], mode[t])
    /\ Goto(t, "wait")
    /\ UNCHANGED <<kernel, infoVars, mode, writeFlag, locks, kills>>

\* do_lock: no thread of the process has the file locked; to write, none has
\* it locked to write.
DoLock(p, m) == noFile[p]["w"] = 0 /\ (m = "r" => noFile[p]["r"] = 0)

\* Under file_mutex.  The count goes up before fcntl is called, which may
\* block with file_mutex held; with nothing to call the lock is granted.
CountLock(t) ==
    LET p == ProcOf[t]  m == mode[t] IN
    /\ pc[t] = "mutex" /\ fileMutex[p] = NoThread
    /\ noFile' = [noFile EXCEPT ![p][m] = @ + 1]
    /\ fileMutex' = [fileMutex EXCEPT ![p] = IF DoLock(p, m) THEN t ELSE @]
    /\ writeFlag' = [writeFlag EXCEPT ![t] = IF DoLock(p, m) THEN @ ELSE m]
    /\ Goto(t, IF DoLock(p, m) THEN "fcntl" ELSE "held")
    /\ UNCHANGED <<kernel, refCount, rdwr, mode, locks, kills>>

\* unixLock with F_SETLKW; then file_mutex is released.
LockFile(t) ==
    LET p == ProcOf[t]  m == mode[t] IN
    /\ pc[t] = "fcntl" /\ CanLock(p, m)
    /\ kernel' = [kernel EXCEPT ![p] = m]
    /\ fileMutex' = [fileMutex EXCEPT ![p] = NoThread]
    /\ writeFlag' = [writeFlag EXCEPT ![t] = m]
    /\ Goto(t, "held")
    /\ UNCHANGED <<refCount, noFile, rdwr, mode, locks, kills>>

-----------------------------------------------------------------------------
\* zebra_unlock of a lock that the handle has, ...
Unlock(t) ==
    /\ pc[t] = "held"
    /\ Goto(t, "unlock")
    /\ UNCHANGED <<kernel, infoVars, mode, writeFlag, locks, kills>>

\* ... or has not: zebra_end_transaction unlocks both locks of a handle whose
\* read transaction took one or none.
StrayUnlock(t) ==
    /\ t \in StrayUnlocks /\ pc[t] = "idle" /\ locks[t] < MaxLocks[t]
    /\ locks' = [locks EXCEPT ![t] = @ + 1]
    /\ Goto(t, "stray")
    /\ UNCHANGED <<kernel, infoVars, mode, writeFlag, kills>>

\* Under file_mutex: write_flag says which count goes down, and when none is
\* left the file is unlocked.  A variant unlocks it when the last writer goes.
NoWriter(left) == left["w"] = 0
NoneLeft(left) == left["r"] = 0 /\ left["w"] = 0
UnlockFile(t) ==
    LET p == ProcOf[t]
        left == [noFile[p] EXCEPT ![writeFlag[t]] = IF @ > 0 THEN @ - 1 ELSE @]
    IN
    /\ pc[t] \in {"unlock", "stray"} /\ fileMutex[p] = NoThread
    /\ noFile' = [noFile EXCEPT ![p] = left]
    /\ kernel' = [kernel EXCEPT ![p] = IF NoneLeft(left) THEN "free" ELSE @]
    /\ Goto(t, "leave")
    /\ UNCHANGED <<refCount, rdwr, fileMutex, mode, writeFlag, locks, kills>>

Waiters(p) == {u \in Threads : ProcOf[u] = p /\ pc[u] = "wait"}

\* The waiters that pthread_cond_signal or pthread_cond_broadcast may wake; a
\* variant has readers leave without a signal.
OneOf(S) == IF S = {} THEN {{}} ELSE {{u} : u \in S}
WakesByWriter(p, m, left) == IF m = "w" THEN {Waiters(p)} ELSE {{}}
Wakes(p, m, left) ==
    CASE m = "w" -> {Waiters(p)}
      [] m = "r" /\ left = 0 -> OneOf(Waiters(p))
      [] OTHER -> {{}}

\* zebra_lock_rdwr_runlock or zebra_lock_rdwr_wunlock.
Leave(t) ==
    LET p == ProcOf[t]  m == writeFlag[t] IN
    /\ pc[t] = "leave" /\ rdwr[p][m] > 0
    /\ rdwr' = [rdwr EXCEPT ![p][m] = @ - 1]
    /\ \E W \in Wakes(p, m, rdwr[p][m] - 1) :
           pc' = [u \in Threads |-> CASE u = t -> "idle"
                                      [] u \in W -> "enter"
                                      [] OTHER -> pc[u]]
    /\ UNCHANGED <<kernel, refCount, noFile, fileMutex, mode, writeFlag, locks,
                   kills>>

\* The same when there is nothing to unlock: it returns -1.
LeaveNothing(t) ==
    /\ pc[t] = "leave" /\ rdwr[ProcOf[t]][writeFlag[t]] = 0
    /\ Goto(t, "idle")
    /\ UNCHANGED <<kernel, infoVars, mode, writeFlag, locks, kills>>

-----------------------------------------------------------------------------
\* A process is killed: fcntl forgets its lock, its memory is gone.
Kill(p) ==
    /\ kills < MaxKills /\ refCount[p] > 0
    /\ kills' = kills + 1
    /\ kernel' = [kernel EXCEPT ![p] = "free"]
    /\ refCount' = [refCount EXCEPT ![p] = 0]
    /\ noFile' = [noFile EXCEPT ![p] = Zero]
    /\ rdwr' = [rdwr EXCEPT ![p] = Zero]
    /\ fileMutex' = [fileMutex EXCEPT ![p] = NoThread]
    /\ pc' = [t \in Threads |-> IF ProcOf[t] = p THEN "none" ELSE pc[t]]
    /\ UNCHANGED <<mode, writeFlag, locks>>

\* The steps of a call that was made, and the end of the use of a lock.
Step(t) == \/ Enter(t) \/ Wait(t) \/ CountLock(t) \/ LockFile(t)
           \/ Unlock(t) \/ UnlockFile(t) \/ Leave(t) \/ LeaveNothing(t)

Next ==
    \/ \E t \in Threads : \/ Create(t) \/ Destroy(t)
                          \/ \E m \in Modes : Lock(t, m)
                          \/ Step(t) \/ StrayUnlock(t)
    \/ \E p \in Procs : Kill(p)

Spec == Init /\ [][Next]_vars

\* A thread keeps running and unlocks what it locked; fcntl grants a lock that
\* stays available.
LocksRun == \A t \in Threads : WF_vars(Step(t))

-----------------------------------------------------------------------------
\* Properties.

\* Type invariant.
TypeOK ==
    /\ kernel \in [Procs -> {"free"} \cup Modes]
    /\ refCount \in [Procs -> Nat]
    /\ noFile \in [Procs -> [Modes -> Nat]]
    /\ rdwr \in [Procs -> [Modes -> Nat]]
    /\ fileMutex \in [Procs -> Threads \cup {NoThread}]
    /\ pc \in [Threads -> {"none", "idle", "enter", "wait", "mutex", "fcntl",
                           "held", "unlock", "stray", "leave"}]
    /\ mode \in [Threads -> Modes]
    /\ writeFlag \in [Threads -> Modes]
    /\ locks \in [Threads -> Nat] /\ kills \in Nat

\* Has the thread its lock of the file counted, in mode m?
Counted(t, m) == \/ pc[t] \in {"fcntl", "held"} /\ mode[t] = m
                 \/ pc[t] = "unlock" /\ writeFlag[t] = m
CountedIn(p, m) == {t \in Threads : ProcOf[t] = p /\ Counted(t, m)}

\* no_file_read_lock and no_file_write_lock are the numbers of the threads of
\* the process that have the file locked, to read and to write.
CountsExact ==
    \A p \in Procs, m \in Modes : noFile[p][m] = Cardinality(CountedIn(p, m))

\* A thread whose lock call returned is covered by a kernel lock of its
\* process at least as strong, however its fellow threads lock and unlock.
KernelCovers ==
    \A t \in Threads : pc[t] = "held" =>
        kernel[ProcOf[t]] \in {mode[t], "w"}

\* A process never asks the kernel for a write lock while it has a read lock,
\* so two processes never wait for each other to give up a read lock.
NoUpgrade ==
    \A t \in Threads : pc[t] = "fcntl" => kernel[ProcOf[t]] = "free"

\* The lock file is a reader/writer lock between the threads of all processes.
Lockers == INSTANCE RWLock WITH
    Users <- Threads,
    holds <- [t \in Threads |-> IF pc[t] = "held" THEN mode[t] ELSE "free"]
ReaderWriterLock == Lockers!LockSpec

\* No call is under way, and no lock is held.
LocksGivenBack == \A t \in Threads : pc[t] \in {"none", "idle"}
=============================================================================
