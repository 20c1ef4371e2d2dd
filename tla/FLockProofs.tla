---------------------------- MODULE FLockProofs ----------------------------
(***************************************************************************)
(* Proofs about FLock: the counts a process keeps are exact, the kernel    *)
(* lock of the process covers every thread that has the file locked, and   *)
(* the lock file is a reader/writer lock between the threads of all        *)
(* processes, for any number of processes and threads.                     *)
(***************************************************************************)
EXTENDS FLock, FiniteSetTheorems, TLAPS

\* A thread that unlocks what it has not locked shares its process with no
\* other user of the lock file.  In other processes such a call takes a lock
\* away from a fellow thread.
StraysAlone ==
    \A t \in StrayUnlocks, u \in Threads : ProcOf[u] = ProcOf[t] => u = t

\* The threads of process p that have a handle, and those that went through
\* the reader/writer lock of the process in mode m and have not left it.
Users(p) == {t \in Threads : ProcOf[t] = p /\ pc[t] # "none"}
InsidePc == {"mutex", "fcntl", "held", "unlock", "leave"}
Inside(p, m) ==
    {t \in Threads : ProcOf[t] = p /\ pc[t] \in InsidePc /\ mode[t] = m}

\* Nothing in process p unlocks what it has not locked.
Orderly(p) == \A t \in StrayUnlocks : ProcOf[t] # p

\* The parts of the inductive invariant.
StraysKnown == \A t \in Threads : pc[t] = "stray" => t \in StrayUnlocks
FlagIsMode ==
    \A t \in Threads :
        (pc[t] \in {"held", "unlock"} \/ (pc[t] = "leave" /\ t \notin StrayUnlocks))
            => writeFlag[t] = mode[t]
RefExact == \A p \in Procs : refCount[p] = Cardinality(Users(p))
RdwrExact ==
    \A p \in Procs, m \in Modes :
        Orderly(p) => rdwr[p][m] = Cardinality(Inside(p, m))
Exclusive ==
    \A t, u \in Threads :
        /\ t # u /\ ProcOf[t] = ProcOf[u]
        /\ pc[t] \in InsidePc /\ pc[u] \in InsidePc
        => mode[t] = "r"
MutexHeld == \A t \in Threads : pc[t] = "fcntl" => fileMutex[ProcOf[t]] = t
KernelFree ==
    \A p \in Procs : noFile[p]["r"] = 0 /\ noFile[p]["w"] = 0 => kernel[p] = "free"
KernelHeld ==
    \A t \in Threads : pc[t] \in {"held", "unlock"} => kernel[ProcOf[t]] = mode[t]
KernelExclusion ==
    \A p, q \in Procs : p # q /\ kernel[p] = "w" => kernel[q] = "free"

CountInv == CountsExact /\ RefExact /\ RdwrExact
PcInv == StraysKnown /\ FlagIsMode /\ Exclusive /\ MutexHeld
KernelInv == KernelFree /\ KernelHeld /\ KernelExclusion /\ NoUpgrade
IInv == TypeOK /\ CountInv /\ PcInv /\ KernelInv

-----------------------------------------------------------------------------
\* Finite sets that gain or lose one member.

\* A member more, or a member less, is one more or one less to count.
LEMMA CountOne ==
    ASSUME NEW S, IsFiniteSet(S), NEW x
    PROVE  /\ Cardinality(S) \in Nat
           /\ x \notin S => Cardinality(S \cup {x}) = Cardinality(S) + 1
           /\ x \in S => /\ Cardinality(S) > 0
                         /\ Cardinality(S \ {x}) = Cardinality(S) - 1
  <1>1. Cardinality(S) \in Nat
    BY FS_CardinalityType
  <1>2. x \notin S => Cardinality(S \cup {x}) = Cardinality(S) + 1
    BY FS_AddElement
  <1>3. x \in S => Cardinality(S) > 0
    BY <1>1, FS_EmptySet, S # {} \/ x \notin S
  <1>4. x \in S => Cardinality(S \ {x}) = Cardinality(S) - 1
    BY FS_RemoveElement
  <1> QED BY <1>1, <1>2, <1>3, <1>4

\* The sets that the counters count are finite, and so is every subset.
LEMMA CountedFinite ==
    ASSUME NEW p, NEW m
    PROVE  /\ IsFiniteSet(Users(p)) /\ IsFiniteSet(Inside(p, m))
           /\ IsFiniteSet(CountedIn(p, m))
  BY FLockAssumption, FS_Subset DEF Users, Inside, CountedIn

-----------------------------------------------------------------------------
\* Every step keeps the types.

\* No step takes a counter below zero or a variable out of its type.
LEMMA TypeStep == TypeOK /\ RefExact /\ [Next]_vars => TypeOK'
  <1> SUFFICES ASSUME TypeOK, RefExact, [Next]_vars PROVE TypeOK'
    OBVIOUS
  <1> USE FLockAssumption DEF TypeOK, Modes, infoVars, Goto
  <1>1. ASSUME NEW t \in Threads, Create(t) PROVE TypeOK'
    BY <1>1 DEF Create
  <1>2. ASSUME NEW t \in Threads, Destroy(t) PROVE TypeOK'
    <2> DEFINE p == ProcOf[t]
    <2>1. p \in Procs /\ t \in Users(p)
      BY <1>2 DEF Destroy, Users
    <2>2. refCount[p] > 0
      <3>1. Cardinality(Users(p)) > 0
        BY <2>1, CountedFinite, CountOne
      <3> QED BY <2>1, <3>1 DEF RefExact
    <2>3. refCount' \in [Procs -> Nat]
      BY <1>2, <2>1, <2>2 DEF Destroy
    <2>4. CASE LastHandle(p)
      <3>1. Zero \in [Modes -> Nat]
        BY DEF Zero
      <3>2. /\ kernel' = [kernel EXCEPT ![p] = "free"]
            /\ noFile' = [noFile EXCEPT ![p] = Zero]
            /\ rdwr' = [rdwr EXCEPT ![p] = Zero]
        BY <1>2, <2>4 DEF Destroy
      <3> QED BY <1>2, <2>3, <3>1, <3>2 DEF Destroy
    <2>5. CASE ~LastHandle(p)
      BY <1>2, <2>1, <2>3, <2>5 DEF Destroy, LastHandle
    <2> QED BY <2>4, <2>5
  <1>3. ASSUME NEW t \in Threads, NEW m \in Modes, Lock(t, m) PROVE TypeOK'
    BY <1>3 DEF Lock
  <1>4. ASSUME NEW t \in Threads, Enter(t) PROVE TypeOK'
    BY <1>4 DEF Enter
  <1>5. ASSUME NEW t \in Threads, Wait(t) PROVE TypeOK'
    BY <1>5 DEF Wait
  <1>6. ASSUME NEW t \in Threads, CountLock(t) PROVE TypeOK'
    BY <1>6 DEF CountLock, DoLock
  <1>7. ASSUME NEW t \in Threads, LockFile(t) PROVE TypeOK'
    BY <1>7 DEF LockFile
  <1>8. ASSUME NEW t \in Threads, Unlock(t) PROVE TypeOK'
    BY <1>8 DEF Unlock
  <1>9. ASSUME NEW t \in Threads, StrayUnlock(t) PROVE TypeOK'
    BY <1>9 DEF StrayUnlock
  <1>10. ASSUME NEW t \in Threads, UnlockFile(t) PROVE TypeOK'
    BY <1>10 DEF UnlockFile, NoneLeft
  <1>11. ASSUME NEW t \in Threads, Leave(t) PROVE TypeOK'
    BY <1>11 DEF Leave
  <1>12. ASSUME NEW t \in Threads, LeaveNothing(t) PROVE TypeOK'
    BY <1>12 DEF LeaveNothing
  <1>13. ASSUME NEW p \in Procs, Kill(p) PROVE TypeOK'
    BY <1>13 DEF Kill, Zero
  <1>14. CASE UNCHANGED vars
    BY <1>14 DEF vars
  <1> HIDE DEF TypeOK, Modes, infoVars, Goto
  <1> QED
    BY <1>1, <1>2, <1>3, <1>4, <1>5, <1>6, <1>7, <1>8, <1>9, <1>10, <1>11,
       <1>12, <1>13, <1>14 DEF Next, Step

-----------------------------------------------------------------------------
\* The counts stay exact.

\* The last handle of a process belongs to the only user it has.
LEMMA LastUser ==
    ASSUME TypeOK, RefExact, NEW t \in Threads, pc[t] # "none",
           LastHandle(ProcOf[t])
    PROVE  Users(ProcOf[t]) = {t}
  <1> DEFINE S == Users(ProcOf[t])
  <1>1. ProcOf[t] \in Procs /\ t \in S
    BY FLockAssumption DEF Users
  <1>2. Cardinality(S) = 1 /\ IsFiniteSet(S)
    BY <1>1, CountedFinite DEF RefExact, LastHandle
  <1>3. Cardinality(S \ {t}) = 0 /\ IsFiniteSet(S \ {t})
    BY <1>1, <1>2, CountOne, FS_Subset
  <1>4. S \ {t} = {}
    BY <1>3, FS_EmptySet
  <1> QED BY <1>1, <1>4

\* ref_count is the number of handles of the process.
LEMMA RefStep == TypeOK /\ RefExact /\ [Next]_vars => RefExact'
  <1> SUFFICES ASSUME TypeOK, RefExact, [Next]_vars, NEW q \in Procs
               PROVE  refCount'[q] = Cardinality(Users(q)')
    BY DEF RefExact
  <1> DEFINE Goal == refCount'[q] = Cardinality(Users(q)')
  <1>0. /\ ProcOf \in [Threads -> Procs]
        /\ refCount \in [Procs -> Nat] /\ DOMAIN pc = Threads
        /\ refCount[q] = Cardinality(Users(q)) /\ IsFiniteSet(Users(q))
    BY FLockAssumption, CountedFinite DEF TypeOK, RefExact
  <1>1. ASSUME NEW t \in Threads, Create(t) PROVE Goal
    <2>1. Users(q)' = IF q = ProcOf[t] THEN Users(q) \cup {t} ELSE Users(q)
      BY <1>0, <1>1 DEF Create, Goto, Users
    <2>2. t \notin Users(q)
      BY <1>1 DEF Create, Users
    <2>3. refCount'[q] = IF q = ProcOf[t] THEN refCount[q] + 1 ELSE refCount[q]
      BY <1>0, <1>1 DEF Create
    <2> QED BY <1>0, <2>1, <2>2, <2>3, CountOne
  <1>2. ASSUME NEW t \in Threads, Destroy(t) PROVE Goal
    <2>1. Users(q)' = IF q = ProcOf[t] THEN Users(q) \ {t} ELSE Users(q)
      BY <1>0, <1>2 DEF Destroy, Goto, Users
    <2>2. q = ProcOf[t] => t \in Users(q)
      BY <1>2 DEF Destroy, Users
    <2>3. refCount'[q] = IF q = ProcOf[t] THEN refCount[q] - 1 ELSE refCount[q]
      BY <1>0, <1>2 DEF Destroy
    <2> QED BY <1>0, <2>1, <2>2, <2>3, CountOne
  <1>3. ASSUME NEW p \in Procs, Kill(p) PROVE Goal
    <2>1. Users(q)' = IF q = p THEN {} ELSE Users(q)
      BY <1>0, <1>3 DEF Kill, Users
    <2>2. refCount'[q] = IF q = p THEN 0 ELSE refCount[q]
      BY <1>0, <1>3 DEF Kill
    <2> QED BY <1>0, <2>1, <2>2, FS_EmptySet
  <1>4. ASSUME refCount' = refCount, Users(q)' = Users(q) PROVE Goal
    BY <1>0, <1>4
  <1>5. ASSUME NEW t \in Threads, NEW m \in Modes, Lock(t, m) PROVE Goal
    BY <1>0, <1>4, <1>5 DEF Lock, Goto, Users, infoVars
  <1>6. ASSUME NEW t \in Threads, Step(t) PROVE Goal
    <2>1. CASE Enter(t)
      BY <1>0, <1>4, <2>1 DEF Enter, Goto, Users
    <2>2. CASE Wait(t)
      BY <1>0, <1>4, <2>2 DEF Wait, Goto, Users, infoVars
    <2>3. CASE CountLock(t)
      BY <1>0, <1>4, <2>3 DEF CountLock, Goto, Users
    <2>4. CASE LockFile(t)
      BY <1>0, <1>4, <2>4 DEF LockFile, Goto, Users
    <2>5. CASE Unlock(t)
      BY <1>0, <1>4, <2>5 DEF Unlock, Goto, Users, infoVars
    <2>6. CASE UnlockFile(t)
      BY <1>0, <1>4, <2>6 DEF UnlockFile, Goto, Users
    <2>7. CASE Leave(t)
      BY <1>0, <1>4, <2>7
      DEF Leave, Users, Wakes, OneOf, Waiters
    <2>8. CASE LeaveNothing(t)
      BY <1>0, <1>4, <2>8 DEF LeaveNothing, Goto, Users, infoVars
    <2> QED BY <1>6, <2>1, <2>2, <2>3, <2>4, <2>5, <2>6, <2>7, <2>8 DEF Step
  <1>7. ASSUME NEW t \in Threads, StrayUnlock(t) PROVE Goal
    BY <1>0, <1>4, <1>7 DEF StrayUnlock, Goto, Users, infoVars
  <1>8. ASSUME UNCHANGED vars PROVE Goal
    <2>1. refCount' = refCount /\ pc' = pc
      BY <1>8 DEF vars, infoVars
    <2> QED BY <1>4, <2>1 DEF Users
  <1> HIDE DEF Goal
  <1>9. Goal
    BY <1>1, <1>2, <1>3, <1>5, <1>6, <1>7, <1>8 DEF Next
  <1> QED BY <1>9 DEF Goal

\* no_file_read_lock and no_file_write_lock are the numbers of the threads
\* that have the file locked.
LEMMA CountsStep ==
    /\ StraysAlone /\ TypeOK /\ RefExact /\ CountsExact
    /\ StraysKnown /\ FlagIsMode /\ [Next]_vars
    => CountsExact'
  <1> SUFFICES ASSUME StraysAlone, TypeOK, RefExact, CountsExact, StraysKnown,
                      FlagIsMode, [Next]_vars, NEW q \in Procs, NEW n \in Modes
               PROVE  noFile'[q][n] = Cardinality(CountedIn(q, n)')
    BY DEF CountsExact
  <1> DEFINE C == CountedIn(q, n)
             Goal == noFile'[q][n] = Cardinality(CountedIn(q, n)')
  <1>0. /\ ProcOf \in [Threads -> Procs]
        /\ noFile \in [Procs -> [Modes -> Nat]]
        /\ DOMAIN pc = Threads /\ DOMAIN mode = Threads
        /\ DOMAIN writeFlag = Threads
        /\ mode \in [Threads -> Modes] /\ writeFlag \in [Threads -> Modes]
        /\ noFile[q][n] = Cardinality(C) /\ IsFiniteSet(C)
    BY FLockAssumption, CountedFinite DEF TypeOK, CountsExact
  <1>1. ASSUME noFile' = noFile, CountedIn(q, n)' = C PROVE Goal
    BY <1>0, <1>1
  <1>2. ASSUME NEW t \in Threads, Create(t) PROVE Goal
    BY <1>0, <1>1, <1>2 DEF Create, Goto, CountedIn, Counted
  <1>3. ASSUME NEW t \in Threads, Destroy(t) PROVE Goal
    <2>1. CountedIn(q, n)' = C
      BY <1>0, <1>3 DEF Destroy, Goto, CountedIn, Counted
    <2>2. CASE LastHandle(ProcOf[t])
      <3>1. q = ProcOf[t] => C = {}
        <4>1. Users(ProcOf[t]) = {t} /\ pc[t] = "idle"
          BY <1>3, <2>2, LastUser DEF Destroy
        <4> QED BY <4>1 DEF CountedIn, Counted, Users
      <3>2. noFile'[q] = IF q = ProcOf[t] THEN Zero ELSE noFile[q]
        BY <1>0, <1>3, <2>2 DEF Destroy
      <3> QED BY <1>0, <2>1, <3>1, <3>2, FS_EmptySet DEF Zero
    <2>3. CASE ~LastHandle(ProcOf[t])
      BY <1>1, <1>3, <2>1, <2>3 DEF Destroy
    <2> QED BY <2>2, <2>3
  <1>4. ASSUME NEW t \in Threads, NEW m \in Modes, Lock(t, m) PROVE Goal
    BY <1>0, <1>1, <1>4 DEF Lock, Goto, CountedIn, Counted, infoVars
  <1>5. ASSUME NEW t \in Threads, Enter(t) PROVE Goal
    BY <1>0, <1>1, <1>5 DEF Enter, Goto, CountedIn, Counted
  <1>6. ASSUME NEW t \in Threads, Wait(t) PROVE Goal
    BY <1>0, <1>1, <1>6 DEF Wait, Goto, CountedIn, Counted, infoVars
  <1>7. ASSUME NEW t \in Threads, CountLock(t) PROVE Goal
    <2>1. CountedIn(q, n)' =
              IF q = ProcOf[t] /\ n = mode[t] THEN C \cup {t} ELSE C
      BY <1>0, <1>7 DEF CountLock, Goto, CountedIn, Counted
    <2>2. t \notin C
      BY <1>7 DEF CountLock, CountedIn, Counted
    <2>3. noFile'[q][n] = IF q = ProcOf[t] /\ n = mode[t]
                          THEN noFile[q][n] + 1 ELSE noFile[q][n]
      BY <1>0, <1>7 DEF CountLock
    <2> QED BY <1>0, <2>1, <2>2, <2>3, CountOne
  <1>8. ASSUME NEW t \in Threads, LockFile(t) PROVE Goal
    BY <1>0, <1>1, <1>8 DEF LockFile, Goto, CountedIn, Counted
  <1>9. ASSUME NEW t \in Threads, Unlock(t) PROVE Goal
    <2>1. writeFlag[t] = mode[t]
      BY <1>9 DEF Unlock, FlagIsMode
    <2> QED
      BY <1>0, <1>1, <1>9, <2>1
      DEF Unlock, Goto, CountedIn, Counted, infoVars
  <1>10. ASSUME NEW t \in Threads, StrayUnlock(t) PROVE Goal
    BY <1>0, <1>1, <1>10 DEF StrayUnlock, Goto, CountedIn, Counted, infoVars
  <1>11. ASSUME NEW t \in Threads, UnlockFile(t) PROVE Goal
    <2> DEFINE f == writeFlag[t]
    <2>1. noFile'[q][n] =
              IF q = ProcOf[t] /\ n = f /\ noFile[q][n] > 0
              THEN noFile[q][n] - 1 ELSE noFile[q][n]
      BY <1>0, <1>11 DEF UnlockFile
    <2>2. CASE pc[t] = "unlock"
      <3>1. CountedIn(q, n)' = IF q = ProcOf[t] /\ n = f THEN C \ {t} ELSE C
        BY <1>0, <1>11, <2>2 DEF UnlockFile, Goto, CountedIn, Counted
      <3>2. q = ProcOf[t] /\ n = f => t \in C
        BY <2>2 DEF CountedIn, Counted
      <3> QED BY <1>0, <2>1, <3>1, <3>2, CountOne
    <2>3. CASE pc[t] = "stray"
      <3>1. CountedIn(q, n)' = C
        BY <1>0, <1>11, <2>3 DEF UnlockFile, Goto, CountedIn, Counted
      <3>2. q = ProcOf[t] => C = {}
        <4>1. t \in StrayUnlocks
          BY <2>3 DEF StraysKnown
        <4> QED BY <2>3, <4>1 DEF StraysAlone, CountedIn, Counted
      <3>3. q = ProcOf[t] => noFile[q][n] = 0
        BY <1>0, <3>2, FS_EmptySet
      <3> QED BY <1>0, <2>1, <3>1, <3>3
    <2> QED BY <1>11, <2>2, <2>3 DEF UnlockFile
  <1>12. ASSUME NEW t \in Threads, Leave(t) PROVE Goal
    BY <1>0, <1>1, <1>12
    DEF Leave, CountedIn, Counted, Wakes, OneOf, Waiters
  <1>13. ASSUME NEW t \in Threads, LeaveNothing(t) PROVE Goal
    BY <1>0, <1>1, <1>13 DEF LeaveNothing, Goto, CountedIn, Counted, infoVars
  <1>14. ASSUME NEW p \in Procs, Kill(p) PROVE Goal
    <2>1. CountedIn(q, n)' = IF q = p THEN {} ELSE C
      BY <1>0, <1>14 DEF Kill, CountedIn, Counted
    <2>2. noFile'[q] = IF q = p THEN Zero ELSE noFile[q]
      BY <1>0, <1>14 DEF Kill
    <2> QED BY <1>0, <2>1, <2>2, FS_EmptySet DEF Zero
  <1>15. ASSUME UNCHANGED vars PROVE Goal
    <2>1. noFile' = noFile /\ pc' = pc /\ mode' = mode /\ writeFlag' = writeFlag
      BY <1>15 DEF vars, infoVars
    <2> QED BY <1>1, <2>1 DEF CountedIn, Counted
  <1> HIDE DEF Goal
  <1>16. Goal
    BY <1>2, <1>3, <1>4, <1>5, <1>6, <1>7, <1>8, <1>9, <1>10, <1>11, <1>12,
       <1>13, <1>14, <1>15 DEF Next, Step
  <1> QED BY <1>16 DEF Goal

\* readers_reading and writers_writing are the numbers of the threads that
\* went through the reader/writer lock of the process.
LEMMA RdwrStep ==
    /\ TypeOK /\ RefExact /\ RdwrExact
    /\ StraysKnown /\ FlagIsMode /\ [Next]_vars
    => RdwrExact'
  <1> SUFFICES ASSUME TypeOK, RefExact, RdwrExact, StraysKnown, FlagIsMode,
                      [Next]_vars, NEW q \in Procs, NEW n \in Modes, Orderly(q)
               PROVE  rdwr'[q][n] = Cardinality(Inside(q, n)')
    BY DEF RdwrExact, Orderly
  <1> DEFINE C == Inside(q, n)
             Goal == rdwr'[q][n] = Cardinality(Inside(q, n)')
  <1>0. /\ ProcOf \in [Threads -> Procs]
        /\ rdwr \in [Procs -> [Modes -> Nat]]
        /\ DOMAIN pc = Threads /\ DOMAIN mode = Threads
        /\ mode \in [Threads -> Modes] /\ writeFlag \in [Threads -> Modes]
        /\ rdwr[q][n] = Cardinality(C) /\ IsFiniteSet(C)
    BY FLockAssumption, CountedFinite DEF TypeOK, RdwrExact
  <1>1. ASSUME rdwr' = rdwr, Inside(q, n)' = C PROVE Goal
    BY <1>0, <1>1
  <1>2. ASSUME NEW t \in Threads, Create(t) PROVE Goal
    BY <1>0, <1>1, <1>2 DEF Create, Goto, Inside, InsidePc
  <1>3. ASSUME NEW t \in Threads, Destroy(t) PROVE Goal
    <2>1. Inside(q, n)' = C
      BY <1>0, <1>3 DEF Destroy, Goto, Inside, InsidePc
    <2>2. CASE LastHandle(ProcOf[t])
      <3>1. q = ProcOf[t] => C = {}
        <4>1. Users(ProcOf[t]) = {t} /\ pc[t] = "idle"
          BY <1>3, <2>2, LastUser DEF Destroy
        <4> QED BY <4>1 DEF Inside, InsidePc, Users
      <3>2. rdwr'[q] = IF q = ProcOf[t] THEN Zero ELSE rdwr[q]
        BY <1>0, <1>3, <2>2 DEF Destroy
      <3> QED BY <1>0, <2>1, <3>1, <3>2, FS_EmptySet DEF Zero
    <2>3. CASE ~LastHandle(ProcOf[t])
      BY <1>1, <1>3, <2>1, <2>3 DEF Destroy
    <2> QED BY <2>2, <2>3
  <1>4. ASSUME NEW t \in Threads, NEW m \in Modes, Lock(t, m) PROVE Goal
    BY <1>0, <1>1, <1>4 DEF Lock, Goto, Inside, InsidePc, infoVars
  <1>5. ASSUME NEW t \in Threads, Enter(t) PROVE Goal
    <2>1. Inside(q, n)' =
              IF q = ProcOf[t] /\ n = mode[t] THEN C \cup {t} ELSE C
      BY <1>0, <1>5 DEF Enter, Goto, Inside, InsidePc
    <2>2. t \notin C
      BY <1>5 DEF Enter, Inside, InsidePc
    <2>3. rdwr'[q][n] = IF q = ProcOf[t] /\ n = mode[t]
                        THEN rdwr[q][n] + 1 ELSE rdwr[q][n]
      BY <1>0, <1>5 DEF Enter
    <2> QED BY <1>0, <2>1, <2>2, <2>3, CountOne
  <1>6. ASSUME NEW t \in Threads, Wait(t) PROVE Goal
    BY <1>0, <1>1, <1>6 DEF Wait, Goto, Inside, InsidePc, infoVars
  <1>7. ASSUME NEW t \in Threads, CountLock(t) PROVE Goal
    BY <1>0, <1>1, <1>7 DEF CountLock, Goto, Inside, InsidePc
  <1>8. ASSUME NEW t \in Threads, LockFile(t) PROVE Goal
    BY <1>0, <1>1, <1>8 DEF LockFile, Goto, Inside, InsidePc
  <1>9. ASSUME NEW t \in Threads, Unlock(t) PROVE Goal
    BY <1>0, <1>1, <1>9 DEF Unlock, Goto, Inside, InsidePc, infoVars
  <1>10. ASSUME NEW t \in Threads, StrayUnlock(t) PROVE Goal
    BY <1>0, <1>1, <1>10 DEF StrayUnlock, Goto, Inside, InsidePc, infoVars
  <1>11. ASSUME NEW t \in Threads, UnlockFile(t) PROVE Goal
    <2>1. ProcOf[t] = q => pc[t] # "stray"
      BY DEF StraysKnown, Orderly
    <2> QED
      BY <1>0, <1>1, <1>11, <2>1 DEF UnlockFile, Goto, Inside, InsidePc
  <1>12. ASSUME NEW t \in Threads, Leave(t) PROVE Goal
    <2>1. Inside(q, n)' =
              IF q = ProcOf[t] /\ n = mode[t] THEN C \ {t} ELSE C
      BY <1>0, <1>12
      DEF Leave, Inside, InsidePc, Wakes, OneOf, Waiters
    <2>2. q = ProcOf[t] => writeFlag[t] = mode[t] /\ (n = mode[t] => t \in C)
      BY <1>12 DEF Leave, Inside, InsidePc, FlagIsMode, Orderly
    <2>3. rdwr'[q][n] = IF q = ProcOf[t] /\ n = writeFlag[t]
                        THEN rdwr[q][n] - 1 ELSE rdwr[q][n]
      BY <1>0, <1>12 DEF Leave
    <2> QED BY <1>0, <2>1, <2>2, <2>3, CountOne
  <1>13. ASSUME NEW t \in Threads, LeaveNothing(t) PROVE Goal
    <2>1. CASE q = ProcOf[t]
      <3>1. t \in Inside(q, mode[t]) /\ writeFlag[t] = mode[t]
        BY <1>13, <2>1 DEF LeaveNothing, Inside, InsidePc, FlagIsMode, Orderly
      <3>2. rdwr[q][mode[t]] = Cardinality(Inside(q, mode[t]))
        BY <1>0 DEF RdwrExact
      <3>3. Cardinality(Inside(q, mode[t])) > 0
        BY <3>1, CountedFinite, CountOne
      <3> QED BY <1>13, <2>1, <3>1, <3>2, <3>3 DEF LeaveNothing
    <2>2. CASE q # ProcOf[t]
      BY <1>0, <1>1, <1>13, <2>2
      DEF LeaveNothing, Goto, Inside, InsidePc, infoVars
    <2> QED BY <2>1, <2>2
  <1>14. ASSUME NEW p \in Procs, Kill(p) PROVE Goal
    <2>1. Inside(q, n)' = IF q = p THEN {} ELSE C
      BY <1>0, <1>14 DEF Kill, Inside, InsidePc
    <2>2. rdwr'[q] = IF q = p THEN Zero ELSE rdwr[q]
      BY <1>0, <1>14 DEF Kill
    <2> QED BY <1>0, <2>1, <2>2, FS_EmptySet DEF Zero
  <1>15. ASSUME UNCHANGED vars PROVE Goal
    <2>1. rdwr' = rdwr /\ pc' = pc /\ mode' = mode
      BY <1>15 DEF vars, infoVars
    <2> QED BY <1>1, <2>1 DEF Inside
  <1> HIDE DEF Goal
  <1>16. Goal
    BY <1>2, <1>3, <1>4, <1>5, <1>6, <1>7, <1>8, <1>9, <1>10, <1>11, <1>12,
       <1>13, <1>14, <1>15 DEF Next, Step
  <1> QED BY <1>16 DEF Goal

-----------------------------------------------------------------------------
\* The threads of a process exclude each other.

\* A thread that the reader/writer lock of the process lets in meets no
\* writer, and a writer meets nobody.
LEMMA LetIn ==
    ASSUME StraysAlone, TypeOK, RdwrExact, NEW t \in Threads, Enter(t),
           NEW u \in Threads, u # t, ProcOf[u] = ProcOf[t], pc[u] \in InsidePc
    PROVE  mode[t] = "r" /\ mode[u] = "r"
  <1> DEFINE p == ProcOf[t]
  <1>1. p \in Procs /\ rdwr \in [Procs -> [Modes -> Nat]]
        /\ mode[t] \in Modes /\ mode[u] \in Modes
    BY FLockAssumption DEF TypeOK
  <1>2. Orderly(p)
    BY DEF StraysAlone, Orderly
  <1>3. u \in Inside(p, mode[u])
    BY DEF Inside
  <1>4. rdwr[p][mode[u]] > 0
    <2>1. rdwr[p][mode[u]] = Cardinality(Inside(p, mode[u]))
      BY <1>1, <1>2 DEF RdwrExact
    <2>2. Cardinality(Inside(p, mode[u])) > 0
      BY <1>3, CountedFinite, CountOne
    <2> QED BY <2>1, <2>2
  <1>5. rdwr[p]["w"] = 0 /\ (mode[t] = "w" => rdwr[p]["r"] = 0)
    <2>1. ~Busy(p, mode[t])
      BY DEF Enter
    <2> QED BY <1>1, <2>1 DEF Busy, Modes
  <1> QED BY <1>1, <1>4, <1>5 DEF Modes

\* Where the threads of a process are, and who has file_mutex.
LEMMA PcStep ==
    StraysAlone /\ TypeOK /\ RdwrExact /\ PcInv /\ [Next]_vars => PcInv'
  <1> SUFFICES ASSUME StraysAlone, TypeOK, RdwrExact, PcInv, [Next]_vars
               PROVE  PcInv'
    OBVIOUS
  <1>0. /\ ProcOf \in [Threads -> Procs] /\ NoThread \notin Threads
        /\ fileMutex \in [Procs -> Threads \cup {NoThread}]
        /\ DOMAIN pc = Threads
        /\ mode \in [Threads -> Modes] /\ writeFlag \in [Threads -> Modes]
    BY FLockAssumption DEF TypeOK
  <1> USE DEF PcInv, StraysKnown, FlagIsMode, Exclusive, MutexHeld, InsidePc,
              Goto, infoVars
  <1>1. ASSUME NEW t \in Threads, Create(t) PROVE PcInv'
    BY <1>0, <1>1 DEF Create
  <1>2. ASSUME NEW t \in Threads, Destroy(t) PROVE PcInv'
    BY <1>0, <1>2 DEF Destroy
  <1>3. ASSUME NEW t \in Threads, NEW m \in Modes, Lock(t, m) PROVE PcInv'
    BY <1>0, <1>3 DEF Lock
  <1>4. ASSUME NEW t \in Threads, Enter(t) PROVE PcInv'
    <2>1. StraysKnown' /\ FlagIsMode' /\ MutexHeld'
      BY <1>0, <1>4 DEF Enter
    <2>2. Exclusive'
      <3>1. mode' = mode /\ \A u \in Threads : u # t => pc'[u] = pc[u]
        BY <1>0, <1>4 DEF Enter
      <3>2. \A u \in Threads : u # t /\ ProcOf[u] = ProcOf[t]
                               /\ pc[u] \in InsidePc
                               => mode[t] = "r" /\ mode[u] = "r"
        BY <1>4, LetIn
      <3> QED BY <3>1, <3>2
    <2> QED BY <2>1, <2>2
  <1>5. ASSUME NEW t \in Threads, Wait(t) PROVE PcInv'
    BY <1>0, <1>5 DEF Wait
  <1>6. ASSUME NEW t \in Threads, CountLock(t) PROVE PcInv'
    BY <1>0, <1>6 DEF CountLock
  <1>7. ASSUME NEW t \in Threads, LockFile(t) PROVE PcInv'
    BY <1>0, <1>7 DEF LockFile
  <1>8. ASSUME NEW t \in Threads, Unlock(t) PROVE PcInv'
    BY <1>0, <1>8 DEF Unlock
  <1>9. ASSUME NEW t \in Threads, StrayUnlock(t) PROVE PcInv'
    BY <1>0, <1>9 DEF StrayUnlock
  <1>10. ASSUME NEW t \in Threads, UnlockFile(t) PROVE PcInv'
    <2>1. /\ mode' = mode /\ writeFlag' = writeFlag /\ fileMutex' = fileMutex
          /\ pc[t] \in {"unlock", "stray"}
          /\ \A u \in Threads : pc'[u] = IF u = t THEN "leave" ELSE pc[u]
      BY <1>0, <1>10 DEF UnlockFile
    <2>2. StraysKnown' /\ FlagIsMode'
      BY <2>1
    <2>3. Exclusive'
      BY <2>1 DEF StraysAlone
    <2>4. MutexHeld'
      BY <2>1
    <2> QED BY <2>2, <2>3, <2>4
  <1>11. ASSUME NEW t \in Threads, Leave(t) PROVE PcInv'
    <2>1. /\ mode' = mode /\ writeFlag' = writeFlag /\ fileMutex' = fileMutex
          /\ \A u \in Threads : pc'[u] \in {pc[u], "idle", "enter"}
      BY <1>0, <1>11 DEF Leave
    <2> QED BY <2>1
  <1>12. ASSUME NEW t \in Threads, LeaveNothing(t) PROVE PcInv'
    BY <1>0, <1>12 DEF LeaveNothing
  <1>13. ASSUME NEW p \in Procs, Kill(p) PROVE PcInv'
    BY <1>0, <1>13 DEF Kill
  <1>14. ASSUME UNCHANGED vars PROVE PcInv'
    BY <1>14 DEF vars
  <1> HIDE DEF PcInv
  <1> QED
    BY <1>1, <1>2, <1>3, <1>4, <1>5, <1>6, <1>7, <1>8, <1>9, <1>10, <1>11,
       <1>12, <1>13, <1>14 DEF Next, Step

-----------------------------------------------------------------------------
\* The kernel lock of a process.

\* What the counts say under file_mutex when a thread asks for the file: when
\* fcntl has to be called the process has no lock, and when it has not, the
\* thread reads and its process has a read lock.
LEMMA CountsTell ==
    ASSUME TypeOK, CountsExact, PcInv, KernelInv, NEW t \in Threads,
           pc[t] = "mutex", fileMutex[ProcOf[t]] = NoThread
    PROVE  IF DoLock(ProcOf[t], mode[t])
           THEN kernel[ProcOf[t]] = "free"
           ELSE mode[t] = "r" /\ kernel[ProcOf[t]] = "r"
  <1> DEFINE p == ProcOf[t]
  <1>0. /\ p \in Procs /\ mode \in [Threads -> Modes]
        /\ noFile \in [Procs -> [Modes -> Nat]]
        /\ NoThread \notin Threads
        /\ noFile[p]["r"] \in Nat /\ noFile[p]["w"] \in Nat
    BY FLockAssumption DEF TypeOK, Modes
  <1>1. \A m \in Modes : \A u \in CountedIn(p, m) :
            /\ u \in Threads /\ u # t /\ ProcOf[u] = p /\ mode[u] = m
            /\ pc[u] \in {"held", "unlock"}
    BY <1>0 DEF CountedIn, Counted, PcInv, FlagIsMode, MutexHeld
  <1>2. \A m \in Modes : noFile[p][m] > 0 => CountedIn(p, m) # {}
    BY <1>0, CountedFinite, FS_EmptySet DEF CountsExact
  <1>3. noFile[p]["w"] = 0
    <2>1. CountedIn(p, "w") = {}
      BY <1>0, <1>1 DEF PcInv, Exclusive, InsidePc, Modes
    <2> QED BY <1>0, <1>2, <2>1 DEF Modes
  <1>4. mode[t] = "w" => noFile[p]["r"] = 0
    <2>1. mode[t] = "w" => CountedIn(p, "r") = {}
      BY <1>0, <1>1 DEF PcInv, Exclusive, InsidePc, Modes
    <2> QED BY <1>0, <1>2, <2>1 DEF Modes
  <1>5. CASE DoLock(p, mode[t])
    BY <1>0, <1>3, <1>4, <1>5 DEF DoLock, Modes, KernelInv, KernelFree
  <1>6. CASE ~DoLock(p, mode[t])
    <2>1. mode[t] = "r" /\ noFile[p]["r"] > 0
      BY <1>0, <1>3, <1>6 DEF DoLock, Modes
    <2>2. PICK u : u \in CountedIn(p, "r")
      BY <1>2, <2>1 DEF Modes
    <2>3. kernel[p] = mode[u] /\ mode[u] = "r"
      BY <1>1, <2>2 DEF KernelInv, KernelHeld, Modes
    <2> QED BY <1>6, <2>1, <2>3
  <1> QED BY <1>5, <1>6

\* While one more thread has the file locked, no thread's unlock reaches the
\* kernel.
LEMMA NotLast ==
    ASSUME TypeOK, StraysAlone, StraysKnown, FlagIsMode, CountsExact', TypeOK',
           NEW t \in Threads, UnlockFile(t),
           NEW u \in Threads, u # t, ProcOf[u] = ProcOf[t],
           pc[u] \in {"held", "unlock"}
    PROVE  kernel' = kernel
  <1> DEFINE p == ProcOf[t]
  <1> PICK m \in Modes : m = mode[u]
    BY DEF TypeOK
  <1>0. /\ p \in Procs /\ mode' = mode /\ DOMAIN pc = Threads
        /\ noFile \in [Procs -> [Modes -> Nat]]
        /\ kernel \in [Procs -> {"free"} \cup Modes]
    BY FLockAssumption DEF TypeOK, UnlockFile
  <1>1. u \in CountedIn(p, m)'
    BY <1>0 DEF UnlockFile, Goto, CountedIn, Counted, FlagIsMode
  <1>2. noFile'[p][m] > 0
    <2>1. Cardinality(CountedIn(p, m)') > 0
      <3>1. IsFiniteSet(CountedIn(p, m)')
        BY FLockAssumption, FS_Subset DEF CountedIn
      <3>2. \A S : IsFiniteSet(S) /\ u \in S => Cardinality(S) > 0
        BY CountOne
      <3> QED BY <1>1, <3>1, <3>2
    <2> QED BY <1>0, <2>1 DEF CountsExact
  <1>3. noFile'[p]["r"] # 0 \/ noFile'[p]["w"] # 0
    BY <1>0, <1>2 DEF Modes
  <1>4. kernel' = [kernel EXCEPT ![p] = IF NoneLeft(noFile'[p])
                                        THEN "free" ELSE @]
    BY <1>0 DEF UnlockFile
  <1> QED BY <1>0, <1>3, <1>4 DEF NoneLeft

\* The kernel lock of a process is free while none of its threads has the
\* file locked, and has the mode of each that has.
LEMMA KernelStep ==
    /\ StraysAlone /\ TypeOK /\ CountsExact /\ RefExact /\ PcInv /\ KernelInv
    /\ [Next]_vars /\ TypeOK' /\ CountsExact'
    => KernelInv'
  <1> SUFFICES ASSUME StraysAlone, TypeOK, CountsExact, RefExact, PcInv,
                      KernelInv, [Next]_vars, TypeOK', CountsExact'
               PROVE  KernelInv'
    OBVIOUS
  <1>0. /\ ProcOf \in [Threads -> Procs] /\ NoThread \notin Threads
        /\ kernel \in [Procs -> {"free"} \cup Modes]
        /\ noFile \in [Procs -> [Modes -> Nat]]
        /\ fileMutex \in [Procs -> Threads \cup {NoThread}]
        /\ DOMAIN pc = Threads /\ mode \in [Threads -> Modes]
    BY FLockAssumption DEF TypeOK
  <1>1. ASSUME kernel' = kernel, noFile' = noFile, mode' = mode,
               \A u \in Threads : /\ pc'[u] \in {"held", "unlock"}
                                     => pc[u] \in {"held", "unlock"}
                                  /\ pc'[u] = "fcntl" => pc[u] = "fcntl"
        PROVE  KernelInv'
    BY <1>1 DEF KernelInv, KernelFree, KernelHeld, KernelExclusion, NoUpgrade
  <1>2. ASSUME NEW t \in Threads, Create(t) PROVE KernelInv'
    BY <1>0, <1>1, <1>2 DEF Create, Goto
  <1>3. ASSUME NEW t \in Threads, Destroy(t) PROVE KernelInv'
    <2>1. CASE LastHandle(ProcOf[t])
      <3>1. Users(ProcOf[t]) = {t} /\ pc[t] = "idle"
        BY <1>3, <2>1, LastUser DEF Destroy
      <3>2. /\ \A u \in Threads :
                   /\ ProcOf[u] = ProcOf[t] => pc'[u] = "none"
                   /\ ProcOf[u] # ProcOf[t] => pc'[u] = pc[u]
            /\ \A p \in Procs :
                   /\ p = ProcOf[t] => kernel'[p] = "free"
                   /\ p # ProcOf[t] => /\ kernel'[p] = kernel[p]
                                       /\ noFile'[p] = noFile[p]
            /\ mode' = mode
        BY <1>0, <1>3, <2>1, <3>1 DEF Destroy, Goto, Users
      <3> QED
        BY <1>0, <3>2
        DEF KernelInv, KernelFree, KernelHeld, KernelExclusion, NoUpgrade
    <2>2. CASE ~LastHandle(ProcOf[t])
      BY <1>0, <1>1, <1>3, <2>2 DEF Destroy, Goto
    <2> QED BY <2>1, <2>2
  <1>4. ASSUME NEW t \in Threads, NEW m \in Modes, Lock(t, m) PROVE KernelInv'
    BY <1>0, <1>4
    DEF Lock, Goto, infoVars, KernelInv, KernelFree, KernelHeld,
        KernelExclusion, NoUpgrade
  <1>5. ASSUME NEW t \in Threads, Enter(t) PROVE KernelInv'
    BY <1>0, <1>1, <1>5 DEF Enter, Goto
  <1>6. ASSUME NEW t \in Threads, Wait(t) PROVE KernelInv'
    BY <1>0, <1>1, <1>6 DEF Wait, Goto, infoVars
  <1>7. ASSUME NEW t \in Threads, CountLock(t) PROVE KernelInv'
    <2> DEFINE p == ProcOf[t]
    <2>1. IF DoLock(p, mode[t])
          THEN pc'[t] = "fcntl" /\ kernel[p] = "free"
          ELSE pc'[t] = "held" /\ kernel[p] = mode[t]
      <3>1. pc[t] = "mutex" /\ fileMutex[p] = NoThread
        BY <1>7 DEF CountLock
      <3>2. IF DoLock(p, mode[t]) THEN kernel[p] = "free"
                                  ELSE mode[t] = "r" /\ kernel[p] = "r"
        BY <3>1, CountsTell
      <3> QED BY <1>0, <1>7, <3>2 DEF CountLock, Goto
    <2>2. /\ kernel' = kernel /\ mode' = mode
          /\ \A u \in Threads : u # t => pc'[u] = pc[u]
      BY <1>0, <1>7 DEF CountLock, Goto
    <2>3. \A q \in Procs, m \in Modes : noFile'[q][m] = 0 => noFile[q][m] = 0
      BY <1>0, <1>7 DEF CountLock
    <2>4. KernelFree' /\ KernelExclusion'
      BY <2>2, <2>3 DEF KernelInv, KernelFree, KernelExclusion, Modes
    <2>5. KernelHeld' /\ NoUpgrade'
      BY <2>1, <2>2 DEF KernelInv, KernelHeld, NoUpgrade
    <2> QED BY <2>4, <2>5 DEF KernelInv
  <1>8. ASSUME NEW t \in Threads, LockFile(t) PROVE KernelInv'
    <2> DEFINE p == ProcOf[t]  m == mode[t]
    <2>1. /\ p \in Procs /\ m \in Modes /\ pc[t] = "fcntl" /\ CanLock(p, m)
          /\ kernel' = [kernel EXCEPT ![p] = m]
          /\ noFile' = noFile /\ mode' = mode
          /\ pc' = [pc EXCEPT ![t] = "held"]
      BY <1>0, <1>8 DEF LockFile, Goto
    <2>2. kernel[p] = "free"
      BY <2>1 DEF KernelInv, NoUpgrade
    <2>3. \A u \in Threads : u # t /\ ProcOf[u] = p
                             => pc[u] \notin {"fcntl", "held", "unlock"}
      <3>1. \A u \in Threads : ProcOf[u] = p
                               => pc[u] \notin {"held", "unlock"}
        BY <1>0, <2>2 DEF KernelInv, KernelHeld, Modes
      <3>2. \A u \in Threads : u # t /\ ProcOf[u] = p => pc[u] # "fcntl"
        BY <2>1 DEF PcInv, MutexHeld
      <3> QED BY <3>1, <3>2
    <2>4. noFile[p][m] > 0
      <3>1. t \in CountedIn(p, m)
        BY <2>1 DEF CountedIn, Counted
      <3>2. Cardinality(CountedIn(p, m)) > 0
        BY <3>1, CountedFinite, CountOne
      <3> QED BY <1>0, <2>1, <3>2 DEF CountsExact
    <2>5. KernelFree'
      BY <1>0, <2>1, <2>4 DEF KernelInv, KernelFree, Modes
    <2>6. KernelHeld' /\ NoUpgrade'
      BY <1>0, <2>1, <2>3 DEF KernelInv, KernelHeld, NoUpgrade
    <2>7. KernelExclusion'
      BY <1>0, <2>1 DEF KernelInv, KernelExclusion, CanLock, Modes
    <2> QED BY <2>5, <2>6, <2>7 DEF KernelInv
  <1>9. ASSUME NEW t \in Threads, Unlock(t) PROVE KernelInv'
    BY <1>0, <1>1, <1>9 DEF Unlock, Goto, infoVars
  <1>10. ASSUME NEW t \in Threads, StrayUnlock(t) PROVE KernelInv'
    BY <1>0, <1>1, <1>10 DEF StrayUnlock, Goto, infoVars
  <1>11. ASSUME NEW t \in Threads, UnlockFile(t) PROVE KernelInv'
    <2> DEFINE p == ProcOf[t]
    <2>1. /\ p \in Procs /\ mode' = mode /\ pc' = [pc EXCEPT ![t] = "leave"]
          /\ kernel' = [kernel EXCEPT ![p] = IF NoneLeft(noFile'[p])
                                             THEN "free" ELSE @]
          /\ \A q \in Procs : q # p => noFile'[q] = noFile[q]
      BY <1>0, <1>11 DEF UnlockFile, Goto
    <2>2. KernelFree'
      BY <1>0, <2>1 DEF KernelInv, KernelFree, NoneLeft
    <2>3. KernelHeld'
      <3> SUFFICES ASSUME NEW u \in Threads, pc'[u] \in {"held", "unlock"}
                   PROVE  kernel'[ProcOf[u]] = mode'[u]
        BY DEF KernelHeld
      <3>1. u # t /\ pc[u] = pc'[u]
        BY <1>0, <2>1
      <3>2. CASE ProcOf[u] = p
        <4>1. kernel' = kernel
          BY <1>11, <3>1, <3>2, NotLast DEF PcInv
        <4> QED BY <2>1, <3>1, <4>1 DEF KernelInv, KernelHeld
      <3>3. CASE ProcOf[u] # p
        BY <1>0, <2>1, <3>1, <3>3 DEF KernelInv, KernelHeld
      <3> QED BY <3>2, <3>3
    <2>4. KernelExclusion' /\ NoUpgrade'
      BY <1>0, <2>1 DEF KernelInv, KernelExclusion, NoUpgrade
    <2> QED BY <2>2, <2>3, <2>4 DEF KernelInv
  <1>12. ASSUME NEW t \in Threads, Leave(t) PROVE KernelInv'
    BY <1>0, <1>1, <1>12 DEF Leave
  <1>13. ASSUME NEW t \in Threads, LeaveNothing(t) PROVE KernelInv'
    BY <1>0, <1>1, <1>13 DEF LeaveNothing, Goto, infoVars
  <1>14. ASSUME NEW p \in Procs, Kill(p) PROVE KernelInv'
    <2>1. /\ \A u \in Threads : /\ ProcOf[u] = p => pc'[u] = "none"
                                /\ ProcOf[u] # p => pc'[u] = pc[u]
          /\ \A q \in Procs : /\ q = p => kernel'[q] = "free"
                              /\ q # p => /\ kernel'[q] = kernel[q]
                                          /\ noFile'[q] = noFile[q]
          /\ mode' = mode
      BY <1>0, <1>14 DEF Kill
    <2> QED
      BY <1>0, <2>1
      DEF KernelInv, KernelFree, KernelHeld, KernelExclusion, NoUpgrade
  <1>15. ASSUME UNCHANGED vars PROVE KernelInv'
    BY <1>1, <1>15 DEF vars, infoVars
  <1> QED
    BY <1>2, <1>3, <1>4, <1>5, <1>6, <1>7, <1>8, <1>9, <1>10, <1>11, <1>12,
       <1>13, <1>14, <1>15 DEF Next, Step

-----------------------------------------------------------------------------
\* What holds in every reachable state.

\* It holds before the first lock is asked for.
LEMMA InitInv == Init => IInv
  <1> SUFFICES ASSUME Init PROVE IInv
    OBVIOUS
  <1> USE FLockAssumption
  <1>1. TypeOK /\ PcInv /\ KernelInv
    BY DEF Init, TypeOK, Modes, Zero, PcInv, StraysKnown, FlagIsMode, Exclusive,
           InsidePc, MutexHeld, KernelInv, KernelFree, KernelHeld,
           KernelExclusion, NoUpgrade
  <1>2. CountInv
    <2>1. \A p \in Procs, m \in Modes :
              Users(p) = {} /\ Inside(p, m) = {} /\ CountedIn(p, m) = {}
      BY DEF Init, Users, Inside, InsidePc, CountedIn, Counted
    <2>2. Cardinality({}) = 0
      BY FS_EmptySet
    <2>3. \A p \in Procs : Users(p) = {}
      BY <2>1 DEF Modes
    <2> QED
      BY <2>1, <2>2, <2>3
      DEF Init, Zero, CountInv, CountsExact, RefExact, RdwrExact
  <1> QED BY <1>1, <1>2 DEF IInv

\* The variables keep their types: no count is decremented below zero, and
\* zebra_lock_destroy finds a reference to give back.
THEOREM TypeCorrect == Spec => []TypeOK
  <1>1. Init => TypeOK /\ RefExact
    BY InitInv DEF IInv, CountInv
  <1>2. TypeOK /\ RefExact /\ [Next]_vars => (TypeOK /\ RefExact)'
    BY TypeStep, RefStep
  <1> QED BY <1>1, <1>2, PTL DEF Spec

\* The inductive invariant.
THEOREM Invariance ==
    ASSUME StraysAlone PROVE Spec => []IInv
  <1>1. Init => IInv
    BY InitInv
  <1>2. IInv /\ [Next]_vars => IInv'
    <2> SUFFICES ASSUME IInv, [Next]_vars PROVE IInv'
      OBVIOUS
    <2>1. TypeOK'
      BY TypeStep DEF IInv, CountInv
    <2>2. CountInv'
      BY RefStep, CountsStep, RdwrStep DEF IInv, CountInv, PcInv
    <2>3. PcInv'
      BY PcStep DEF IInv, CountInv
    <2>4. KernelInv'
      BY <2>1, <2>2, KernelStep DEF IInv, CountInv
    <2> QED BY <2>1, <2>2, <2>3, <2>4 DEF IInv
  <1> QED BY <1>1, <1>2, PTL DEF Spec

\* no_file_read_lock and no_file_write_lock are exact in every state.
THEOREM CountsAlwaysExact ==
    ASSUME StraysAlone PROVE Spec => []CountsExact
  <1>1. IInv => CountsExact
    BY DEF IInv, CountInv
  <1> QED BY <1>1, Invariance, PTL

\* A thread whose lock call returned has a kernel lock of its process.
THEOREM KernelAlwaysCovers ==
    ASSUME StraysAlone PROVE Spec => []KernelCovers
  <1>1. IInv => KernelCovers
    BY DEF IInv, KernelInv, KernelHeld, KernelCovers
  <1> QED BY <1>1, Invariance, PTL

\* A process asks fcntl for a lock only when it has none.
THEOREM NeverUpgrades ==
    ASSUME StraysAlone PROVE Spec => []NoUpgrade
  <1>1. IInv => NoUpgrade
    BY DEF IInv, KernelInv
  <1> QED BY <1>1, Invariance, PTL

-----------------------------------------------------------------------------
\* The lock file is a reader/writer lock between all threads.

\* How each thread has the file locked.
Holds == [t \in Threads |-> IF pc[t] = "held" THEN mode[t] ELSE "free"]

\* The two steps that let a lock call return are granted beside locks that do
\* not conflict; no other step gives a thread a lock.
LEMMA GrantStep ==
    ASSUME TypeOK, PcInv, KernelInv, NEW t \in Threads, NEW m \in Modes,
           mode[t] = m, pc[t] \in InsidePc,
           \A q \in Procs \ {ProcOf[t]} :
               kernel[q] = "free" \/ (m = "r" /\ kernel[q] = "r"),
           mode' = mode, pc' = [pc EXCEPT ![t] = "held"], pc[t] # "held"
    PROVE  Lockers!Acquire(t, m)
  <1>1. Holds[t] = "free"
    BY DEF Holds
  <1>2. \A u \in Threads \ {t} :
            Holds[u] = "free" \/ (m = "r" /\ Holds[u] = "r")
    <2> SUFFICES ASSUME NEW u \in Threads, u # t, pc[u] = "held"
                 PROVE  m = "r" /\ mode[u] = "r"
      BY DEF Holds
    <2>1. CASE ProcOf[u] = ProcOf[t]
      BY <2>1 DEF PcInv, Exclusive, InsidePc
    <2>2. CASE ProcOf[u] # ProcOf[t]
      <3>1. kernel[ProcOf[u]] = mode[u] /\ mode[u] \in Modes
        BY DEF KernelInv, KernelHeld, TypeOK
      <3> QED BY <2>2, <3>1, FLockAssumption DEF Modes
    <2> QED BY <2>1, <2>2
  <1>3. Holds' = [Holds EXCEPT ![t] = m]
    BY DEF Holds, TypeOK
  <1> QED BY <1>1, <1>2, <1>3 DEF Lockers!Acquire, Holds

\* Every step of the threads is a step of the reader/writer lock or leaves it
\* as it is.
LEMMA LockRefinesStep ==
    TypeOK /\ CountsExact /\ PcInv /\ KernelInv /\ [Next]_vars /\ TypeOK'
    => [Lockers!LockNext]_Holds
  <1> SUFFICES ASSUME TypeOK, CountsExact, PcInv, KernelInv, [Next]_vars, TypeOK'
               PROVE  [Lockers!LockNext]_Holds
    OBVIOUS
  <1>0. /\ ProcOf \in [Threads -> Procs] /\ DOMAIN pc = Threads
        /\ mode \in [Threads -> Modes]
    BY FLockAssumption DEF TypeOK
  <1>1. ASSUME mode' = mode,
               \A u \in Threads : pc'[u] = "held" => pc[u] = "held"
        PROVE  Lockers!LockNext
    <2>1. /\ Holds' \in [Threads -> {"free", "r", "w"}]
          /\ \A u \in Threads : Holds'[u] \in {"free", Holds[u]}
      BY <1>0, <1>1 DEF Holds, Modes
    <2> QED BY <2>1 DEF Lockers!LockNext, Lockers!Release, Holds
  <1>2. ASSUME NEW t \in Threads, Create(t) PROVE Lockers!LockNext
    BY <1>0, <1>1, <1>2 DEF Create, Goto
  <1>3. ASSUME NEW t \in Threads, Destroy(t) PROVE Lockers!LockNext
    BY <1>0, <1>1, <1>3 DEF Destroy, Goto
  <1>4. ASSUME NEW t \in Threads, NEW m \in Modes, Lock(t, m)
        PROVE  UNCHANGED Holds
    BY <1>0, <1>4 DEF Lock, Goto, Holds
  <1>5. ASSUME NEW t \in Threads, Enter(t) PROVE Lockers!LockNext
    BY <1>0, <1>1, <1>5 DEF Enter, Goto
  <1>6. ASSUME NEW t \in Threads, Wait(t) PROVE Lockers!LockNext
    BY <1>0, <1>1, <1>6 DEF Wait, Goto
  <1>7. ASSUME NEW t \in Threads, CountLock(t) PROVE Lockers!LockNext
    <2> DEFINE p == ProcOf[t]
    <2> PICK m \in Modes : m = mode[t]
      BY <1>0
    <2>1. /\ p \in Procs /\ pc[t] = "mutex"
          /\ fileMutex[p] = NoThread /\ mode' = mode
      BY <1>0, <1>7 DEF CountLock
    <2>2. CASE DoLock(p, m)
      BY <1>0, <1>1, <1>7, <2>2 DEF CountLock, Goto
    <2>3. CASE ~DoLock(p, m)
      <3>1. m = "r" /\ kernel[p] = "r"
        BY <2>1, <2>3, CountsTell
      <3>2. \A q \in Procs \ {p} : kernel[q] = "free" \/ kernel[q] = "r"
        <4>1. kernel \in [Procs -> {"free"} \cup Modes]
          BY DEF TypeOK
        <4> QED BY <2>1, <3>1, <4>1 DEF KernelInv, KernelExclusion, Modes
      <3>3. pc' = [pc EXCEPT ![t] = "held"]
        BY <1>7, <2>3 DEF CountLock, Goto
      <3>4. Lockers!Acquire(t, m)
        BY <2>1, <3>1, <3>2, <3>3, GrantStep DEF InsidePc
      <3> QED BY <2>1, <3>4 DEF Lockers!LockNext, Modes
    <2> QED BY <2>2, <2>3
  <1>8. ASSUME NEW t \in Threads, LockFile(t) PROVE Lockers!LockNext
    <2> PICK m \in Modes : m = mode[t]
      BY <1>0
    <2>1. /\ pc[t] = "fcntl" /\ mode' = mode
          /\ pc' = [pc EXCEPT ![t] = "held"] /\ CanLock(ProcOf[t], m)
      BY <1>0, <1>8 DEF LockFile, Goto
    <2>2. Lockers!Acquire(t, m)
      BY <2>1, GrantStep DEF InsidePc, CanLock
    <2> QED BY <2>1, <2>2 DEF Lockers!LockNext, Modes
  <1>9. ASSUME NEW t \in Threads, Unlock(t) PROVE Lockers!LockNext
    BY <1>0, <1>1, <1>9 DEF Unlock, Goto
  <1>10. ASSUME NEW t \in Threads, StrayUnlock(t) PROVE Lockers!LockNext
    BY <1>0, <1>1, <1>10 DEF StrayUnlock, Goto
  <1>11. ASSUME NEW t \in Threads, UnlockFile(t) PROVE Lockers!LockNext
    BY <1>0, <1>1, <1>11 DEF UnlockFile, Goto
  <1>12. ASSUME NEW t \in Threads, Leave(t) PROVE Lockers!LockNext
    BY <1>0, <1>1, <1>12 DEF Leave
  <1>13. ASSUME NEW t \in Threads, LeaveNothing(t) PROVE Lockers!LockNext
    BY <1>0, <1>1, <1>13 DEF LeaveNothing, Goto
  <1>14. ASSUME NEW p \in Procs, Kill(p) PROVE Lockers!LockNext
    BY <1>0, <1>1, <1>14 DEF Kill
  <1>15. ASSUME UNCHANGED vars PROVE UNCHANGED Holds
    BY <1>15 DEF vars, Holds
  <1> QED
    BY <1>2, <1>3, <1>4, <1>5, <1>6, <1>7, <1>8, <1>9, <1>10, <1>11, <1>12,
       <1>13, <1>14, <1>15 DEF Next, Step

\* The lock file implements the reader/writer lock, whatever the number of
\* processes and threads and whichever processes are killed.
THEOREM ImplementsReaderWriterLock ==
    ASSUME StraysAlone PROVE Spec => ReaderWriterLock
  <1>1. Init => Lockers!LockInit
    BY DEF Init, Lockers!LockInit
  <1>2. IInv /\ [Next]_vars /\ IInv' => [Lockers!LockNext]_Holds
    BY LockRefinesStep DEF IInv, CountInv
  <1> QED
    BY <1>1, <1>2, Invariance, PTL
    DEF Spec, ReaderWriterLock, Lockers!LockSpec, Holds
=============================================================================
