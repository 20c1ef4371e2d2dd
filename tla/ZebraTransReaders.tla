------------------------- MODULE ZebraTransReaders -------------------------
(***************************************************************************)
(* Proofs about ZebraTrans: a read transaction that holds a lock reads one *)
(* state of the register, whatever any number of administrators do.  No    *)
(* call fails, no process is killed and zebra_init is not called: each of  *)
(* these can leave files that a reader with an old state file reads.       *)
(***************************************************************************)
EXTENDS ZebraTransProofs

\* No call fails, no process is killed and none calls zebra_init.
Undisturbed == MaxCalls["fault"] = 0 /\ MaxCalls["init"] = 0

Writing(h) == \/ pc[h] = Ready /\ transWNo[h] # 0
              \/ pc[h] \in EndPcs
Opening(h) == pc[h] \in {"w_open", "w_list"} /\ useShadow[h]

\* An update holds lock_normal in the mode it needs.
ModeInv ==
    \A h \in Handles :
        Writing(h) \/ pc[h] \in {"w_lock2", "w_relock2"} \cup UpdatePcs
        => lockNormal[h] = UpdateMode(h)

\* Outside of an update that opens its files and a clean that removes them
\* the shadow area has all files or none, and the cache file lists all or none.
NoShadow == \A f \in Files : shadow[f] = Absent
AllShadow == \A f \in Files : shadow[f] # Absent
Listed == cache \in {{}, Files}
Removing(h) == pc[h] = "c_clean" /\ known[h] = Files
WholeInv ==
    /\ NoShadow \/ AllShadow \/ \E h \in Handles : Opening(h) \/ Removing(h)
    /\ Listed \/ \E h \in Handles : Opening(h)
    /\ \A h \in Handles :
           /\ pc[h] # "w_list" => cur[h] = {}
           /\ pc[h] = "w_list" => useShadow[h]
           /\ Writing(h) /\ useShadow[h] => AllShadow
           /\ Opening(h) =>
                  \/ AllShadow /\ Listed /\ pc[h] = "w_open"
                  \/ /\ \A f \in Files : shadow[f] = Absent <=> f \in todo[h]
                     /\ Files \ todo[h] \subseteq cache \cup cur[h]

\* What a commit knows of the shadow area, copies and removes.
CommitInv ==
    \A h \in Handles :
        /\ pc[h] \in {"c_trunc", "c_set"}
           => cache = Files /\ known[h] \in {{}, Files}
        /\ pc[h] = "c_copy"
           => /\ ~cleanOnly[h]
              /\ \A f \in Files \ todo[h] :
                     Overlay[f] = register[f] /\ f \in known[h]
        /\ pc[h] \in {"c_otrunc", "c_oset"}
           => /\ known[h] \in {{}, Files}
              /\ cleanOnly[h] \/ Overlay = register
        /\ pc[h] = "c_cleanlock" => known[h] \in {{}, Files}
        /\ pc[h] = "c_clean"
           => \/ known[h] = {} /\ todo[h] = {}
              \/ /\ known[h] = Files
                 /\ \A f \in Files \ todo[h] : shadow[f] = Absent

\* The register is in use. Who makes it, and what hides it, differ from a
\* finished update.
RegBusy(h) == \/ Writing(h) /\ ~useShadow[h]
              \/ pc[h] \in {"c_copy", "c_otrunc", "c_oset"} /\ ~cleanOnly[h]
OverlayBusy(h) == Writing(h) \/ Removing(h)
GoodInv == /\ made
           /\ register \in good \/ \E h \in Handles : RegBusy(h)
           /\ Overlay \in good \/ \E h \in Handles : OverlayBusy(h)

\* A reader holds the lock of the area it reads, and what it has read of the
\* area is what the area has.
LocksFor(h, sh) == /\ lockShadow[h] = IF sh THEN "r" ELSE "free"
                   /\ lockNormal[h] = IF sh THEN "free" ELSE "r"
ReadersInv ==
    \A h \in Handles :
        /\ pc[h] = "r_open" => LocksFor(h, seen[h].val = "c")
        /\ InRead(h) /\ HoldsLock(h) =>
               /\ LocksFor(h, reg[h].shadow)
               /\ SeesOnly(h, IF reg[h].shadow THEN Overlay ELSE register)

\* The inductive invariant, besides IInv, DirtyInv and WriterInv.
SnapInv == ModeInv /\ WholeInv /\ CommitInv /\ GoodInv /\ ReadersInv

-----------------------------------------------------------------------------
\* Every step keeps the invariant.

\* The snapshot of a reader stays what it was taken of.
LEMMA SnapStep ==
    ASSUME Undisturbed
    PROVE  /\ IInv /\ IInv' /\ DirtyInv /\ WriterInv /\ SnapInv /\ [Next]_vars
           => SnapInv'
  <1> SUFFICES ASSUME IInv, IInv', DirtyInv, WriterInv, SnapInv, [Next]_vars
               PROVE  SnapInv'
    OBVIOUS
  <1>a. /\ lockNormal \in [Handles -> LockModes] /\ lockShadow \in [Handles -> LockModes]
        /\ pc \in [Handles -> PCs] /\ transWNo \in [Handles -> {0, 1}]
        /\ transNo \in [Handles -> Nat]
        /\ useShadow \in [Handles -> BOOLEAN] /\ todo \in [Handles -> SUBSET Files]
        /\ cur \in [Handles -> SUBSET Files] /\ known \in [Handles -> SUBSET Files]
        /\ seen \in [Handles -> StateFile] /\ reg \in [Handles -> RegTypes]
        /\ view \in [Handles -> [Files -> Nat \cup {Absent}]]
        /\ cleanOnly \in [Handles -> BOOLEAN]
        /\ cache \in SUBSET Files /\ Files # {}
        /\ shadow \in [Files -> Nat \cup {Absent, Blank}]
        /\ register \in [Files -> Nat] /\ ver \in Nat
    BY ConstantsAssumption
    DEF IInv, TypeOK, TransOK, WorkOK, SeenOK, FilesOK, LocksOK, RegOK, Contents
  <1>b. \A k \in Handles :
            /\ pc[k] \in BeginPcs => transWNo[k] # 0
            /\ pc[k] \in EndPcs \cup ReadPcs => transWNo[k] = 0
            /\ transWNo[k] # 0 => transNo[k] # 0 /\ leaked[k] = 0
            /\ transWNo[k] # 0 \/ pc[k] \in EndPcs => k \in Admins
            /\ pc[k] \notin InitPcs
    BY DEF IInv, CountInv, DirtyInv, NoInit, WriterInv
  <1>c. /\ \A k \in Handles :
               /\ Writing(k) \/ pc[k] \in UpdatePcs \cup {"c_clean"}
                  => lockShadow[k] = "w"
               /\ Writing(k) \/ pc[k] \in UpdatePcs
                  => lockNormal[k] = UpdateMode(k)
               /\ pc[k] \in CommittingPcs
                  => lockNormal[k] = "w" /\ lockShadow[k] = "r"
               /\ pc[k] = Ready /\ transNo[k] = 0
                  => lockNormal[k] = "free" /\ lockShadow[k] = "free"
               /\ pc[k] \in NoLockPcs \cup {"c_clean"}
                  => lockNormal[k] = "free"
               /\ pc[k] \in NoLockPcs
                  => lockNormal[k] = "free" /\ lockShadow[k] = "free"
        /\ \A j, k \in Handles :
               /\ j # k /\ lockNormal[j] = "w" => lockNormal[k] = "free"
               /\ j # k /\ lockShadow[j] = "w" => lockShadow[k] = "free"
    BY DEF IInv, HeldInv, LockInv, Exclusive, SnapInv, ModeInv, Writing, UpdatePcs
  <1>d. ASSUME UNCHANGED <<register, shadow>> PROVE Overlay' = Overlay
    BY <1>d DEF Overlay
  <1> USE <1>a, <1>b, <1>c, <1>d DEF SnapInv, Goto, fileVars, lockVars,
          transVars, commitVars, openVars, regVars, ghostVars, Ready, UpdatePcs,
          CommittingPcs, ReadPcs, BeginPcs, EndPcs, Writing, Opening, Removing,
          RegBusy, OverlayBusy
  <1>1. ASSUME NEW h \in Handles, BeginWriteNested(h) PROVE SnapInv'
    <2>1. ModeInv'
      BY <1>1 DEF BeginWriteNested, Call, ModeInv, UpdateMode
    <2>2. WholeInv'
      BY <1>1 DEF BeginWriteNested, Call, WholeInv, NoShadow, AllShadow, Listed
    <2>3. CommitInv'
      BY <1>1 DEF BeginWriteNested, Call, CommitInv, WholeInv, NoShadow, AllShadow,
         Listed
    <2>4. GoodInv'
      BY <1>1 DEF BeginWriteNested, Call, GoodInv, CommitInv, WholeInv
    <2>5. ReadersInv'
      BY <1>1 DEF BeginWriteNested, Call, ReadersInv, InRead, HoldsLock, LocksFor,
         SeesOnly
    <2> QED BY <2>1, <2>2, <2>3, <2>4, <2>5
  <1>2. ASSUME NEW h \in Handles, BeginWriteInRead(h) PROVE SnapInv'
    <2>1. ModeInv'
      BY <1>2 DEF BeginWriteInRead, Call, ModeInv, UpdateMode
    <2>2. WholeInv'
      BY <1>2 DEF BeginWriteInRead, Call, WholeInv, NoShadow, AllShadow, Listed
    <2>3. CommitInv'
      BY <1>2 DEF BeginWriteInRead, Call, CommitInv, WholeInv, NoShadow, AllShadow,
         Listed
    <2>4. GoodInv'
      BY <1>2 DEF BeginWriteInRead, Call, GoodInv, CommitInv, WholeInv
    <2>5. ReadersInv'
      BY <1>2 DEF BeginWriteInRead, Call, ReadersInv, InRead, HoldsLock, LocksFor,
         SeesOnly
    <2> QED BY <2>1, <2>2, <2>3, <2>4, <2>5
  <1>3. ASSUME NEW h \in Handles, NEW sh \in BOOLEAN, BeginWrite(h, sh) PROVE SnapInv'
    <2>1. ModeInv'
      BY <1>3 DEF BeginWrite, Call, ModeInv, UpdateMode
    <2>2. WholeInv'
      BY <1>3 DEF BeginWrite, Call, WholeInv, NoShadow, AllShadow, Listed
    <2>3. CommitInv'
      BY <1>3 DEF BeginWrite, Call, CommitInv, WholeInv, NoShadow, AllShadow, Listed
    <2>4. GoodInv'
      BY <1>3 DEF BeginWrite, Call, GoodInv, CommitInv, WholeInv
    <2>5. ReadersInv'
      BY <1>3 DEF BeginWrite, Call, ReadersInv, InRead, HoldsLock, LocksFor,
         SeesOnly
    <2> QED BY <2>1, <2>2, <2>3, <2>4, <2>5
  <1>4. ASSUME NEW h \in Handles, LockNormalForUpdate(h) PROVE SnapInv'
    <2>1. ModeInv'
      BY <1>4 DEF LockNormalForUpdate, CanLock, UpdateMode, ModeInv, UpdateMode
    <2>2. WholeInv'
      BY <1>4 DEF LockNormalForUpdate, CanLock, UpdateMode, WholeInv, NoShadow,
         AllShadow, Listed
    <2>3. CommitInv'
      BY <1>4 DEF LockNormalForUpdate, CanLock, UpdateMode, CommitInv, WholeInv,
         NoShadow, AllShadow, Listed
    <2>4. GoodInv'
      BY <1>4 DEF LockNormalForUpdate, CanLock, UpdateMode, GoodInv, CommitInv,
         WholeInv
    <2>5. ReadersInv'
      BY <1>4 DEF LockNormalForUpdate, CanLock, UpdateMode, ReadersInv, InRead,
         HoldsLock, LocksFor, SeesOnly
    <2> QED BY <2>1, <2>2, <2>3, <2>4, <2>5
  <1>5. ASSUME NEW h \in Handles, LockShadowForUpdate(h) PROVE SnapInv'
    <2>1. ModeInv'
      BY <1>5 DEF LockShadowForUpdate, CanLock, ModeInv, UpdateMode
    <2>2. WholeInv'
      BY <1>5 DEF LockShadowForUpdate, CanLock, WholeInv, NoShadow, AllShadow,
         Listed
    <2>3. CommitInv'
      BY <1>5 DEF LockShadowForUpdate, CanLock, CommitInv, WholeInv, NoShadow,
         AllShadow, Listed
    <2>4. GoodInv'
      BY <1>5 DEF LockShadowForUpdate, CanLock, GoodInv, CommitInv, WholeInv
    <2>5. ReadersInv'
      BY <1>5 DEF LockShadowForUpdate, CanLock, ReadersInv, InRead, HoldsLock,
         LocksFor, SeesOnly
    <2> QED BY <2>1, <2>2, <2>3, <2>4, <2>5
  <1>6. ASSUME NEW h \in Handles, ReadStateForUpdate(h) PROVE SnapInv'
    <2>1. ModeInv'
      BY <1>6 DEF ReadStateForUpdate, UnlockBoth, ModeInv, UpdateMode
    <2>2. WholeInv'
      BY <1>6 DEF ReadStateForUpdate, UnlockBoth, WholeInv, NoShadow, AllShadow,
         Listed
    <2>3. CommitInv'
      BY <1>6 DEF ReadStateForUpdate, UnlockBoth, CommitInv, WholeInv, NoShadow,
         AllShadow, Listed
    <2>4. GoodInv'
      BY <1>6 DEF ReadStateForUpdate, UnlockBoth, GoodInv, CommitInv, WholeInv
    <2>5. ReadersInv'
      BY <1>6 DEF ReadStateForUpdate, UnlockBoth, ReadersInv, InRead, HoldsLock,
         LocksFor, SeesOnly
    <2> QED BY <2>1, <2>2, <2>3, <2>4, <2>5
  <1>7. ASSUME NEW h \in Handles, TruncateState(h) PROVE SnapInv'
    <2>1. ModeInv'
      BY <1>7 DEF TruncateState, ModeInv, UpdateMode
    <2>2. WholeInv'
      BY <1>7 DEF TruncateState, WholeInv, NoShadow, AllShadow, Listed
    <2>3. CommitInv'
      BY <1>7 DEF TruncateState, CommitInv, WholeInv, NoShadow, AllShadow, Listed
    <2>4. GoodInv'
      BY <1>7 DEF TruncateState, GoodInv, CommitInv, WholeInv
    <2>5. ReadersInv'
      BY <1>7 DEF TruncateState, ReadersInv, InRead, HoldsLock, LocksFor, SeesOnly
    <2> QED BY <2>1, <2>2, <2>3, <2>4, <2>5
  <1>8. ASSUME NEW h \in Handles, WriteStateDirty(h) PROVE SnapInv'
    <2>1. ModeInv'
      BY <1>8 DEF WriteStateDirty, ModeInv, UpdateMode
    <2>2. WholeInv'
      BY <1>8 DEF WriteStateDirty, WholeInv, NoShadow, AllShadow, Listed
    <2>3. CommitInv'
      BY <1>8 DEF WriteStateDirty, CommitInv, WholeInv, NoShadow, AllShadow, Listed
    <2>4. GoodInv'
      BY <1>8 DEF WriteStateDirty, GoodInv, CommitInv, WholeInv
    <2>5. ReadersInv'
      BY <1>8 DEF WriteStateDirty, ReadersInv, InRead, HoldsLock, LocksFor, SeesOnly
    <2> QED BY <2>1, <2>2, <2>3, <2>4, <2>5
  <1>9. ASSUME NEW h \in Handles, NEW f \in Files, OpenFile(h, f) PROVE SnapInv'
    <2>1. ModeInv'
      BY <1>9 DEF OpenFile, ModeInv, UpdateMode
    <2>2. WholeInv'
      BY <1>9 DEF OpenFile, WholeInv, NoShadow, AllShadow, Listed
    <2>3. CommitInv'
      BY <1>9 DEF OpenFile, CommitInv, WholeInv, NoShadow, AllShadow, Listed
    <2>4. GoodInv'
      BY <1>9 DEF OpenFile, GoodInv, CommitInv, WholeInv
    <2>5. ReadersInv'
      BY <1>9 DEF OpenFile, ReadersInv, InRead, HoldsLock, LocksFor, SeesOnly
    <2> QED BY <2>1, <2>2, <2>3, <2>4, <2>5
  <1>10. ASSUME NEW h \in Handles, RegisterOpened(h) PROVE SnapInv'
    <2>a. \A k \in Handles : k # h =>
              /\ lockShadow[k] = "free"
              /\ ~Writing(k) /\ pc[k] \notin UpdatePcs \cup CommittingPcs \cup {"c_clean"}
      BY <1>10 DEF RegisterOpened
    <2>1. ModeInv'
      BY <1>10 DEF RegisterOpened, ModeInv, UpdateMode
    <2>2. WholeInv'
      <3>1. \A k \in Handles : ~Opening(k)'
        BY <1>10, <2>a DEF RegisterOpened
      <3>2. /\ useShadow[h] => AllShadow /\ Listed
            /\ ~useShadow[h] => Listed /\ (NoShadow \/ AllShadow)
        <4>1. CASE useShadow[h]
          <5>1. Opening(h) /\ cur[h] = {} /\ todo[h] = {}
            BY <1>10, <4>1 DEF RegisterOpened, WholeInv
          <5>2. \/ AllShadow /\ Listed
                \/ /\ \A f \in Files : shadow[f] # Absent
                   /\ Files \subseteq cache
            BY <5>1 DEF WholeInv
          <5> QED BY <4>1, <5>2 DEF AllShadow, Listed
        <4>2. CASE ~useShadow[h]
          <5>1. \A k \in Handles : ~Opening(k) /\ ~Removing(k)
            BY <1>10, <2>a, <4>2 DEF RegisterOpened
          <5> QED BY <4>2, <5>1 DEF WholeInv
        <4> QED BY <4>1, <4>2
      <3>3. (NoShadow \/ AllShadow)' /\ Listed'
        BY <1>10, <3>2 DEF RegisterOpened, NoShadow, AllShadow, Listed
      <3>4. \A k \in Handles : (pc[k] # "w_list" => cur[k] = {})'
        BY <1>10 DEF RegisterOpened, WholeInv
      <3>5. \A k \in Handles : (pc[k] = "w_list" => useShadow[k])'
        BY <1>10 DEF RegisterOpened, WholeInv
      <3>6. \A k \in Handles : (Writing(k) /\ useShadow[k] => AllShadow)'
        BY <1>10, <2>a, <3>2 DEF RegisterOpened, AllShadow, WholeInv
      <3> QED BY <3>1, <3>3, <3>4, <3>5, <3>6 DEF WholeInv
    <2>3. CommitInv'
      BY <1>10 DEF RegisterOpened, CommitInv, WholeInv, NoShadow, AllShadow, Listed
    <2>4. GoodInv'
      BY <1>10 DEF RegisterOpened, GoodInv, CommitInv, WholeInv
    <2>5. ReadersInv'
      BY <1>10 DEF RegisterOpened, ReadersInv, InRead, HoldsLock, LocksFor, SeesOnly
    <2> QED BY <2>1, <2>2, <2>3, <2>4, <2>5
  <1>11. ASSUME NEW h \in Handles, EndNested(h) PROVE SnapInv'
    <2>1. ModeInv'
      BY <1>11 DEF EndNested, ModeInv, UpdateMode
    <2>2. WholeInv'
      BY <1>11 DEF EndNested, WholeInv, NoShadow, AllShadow, Listed
    <2>3. CommitInv'
      BY <1>11 DEF EndNested, CommitInv, WholeInv, NoShadow, AllShadow, Listed
    <2>4. GoodInv'
      BY <1>11 DEF EndNested, GoodInv, CommitInv, WholeInv
    <2>5. ReadersInv'
      BY <1>11 DEF EndNested, ReadersInv, InRead, HoldsLock, LocksFor, SeesOnly
    <2> QED BY <2>1, <2>2, <2>3, <2>4, <2>5
  <1>12. ASSUME NEW h \in Handles, EndRead(h) PROVE SnapInv'
    <2>1. ModeInv'
      BY <1>12 DEF EndRead, UnlockBoth, ModeInv, UpdateMode
    <2>2. WholeInv'
      BY <1>12 DEF EndRead, UnlockBoth, WholeInv, NoShadow, AllShadow, Listed
    <2>3. CommitInv'
      BY <1>12 DEF EndRead, UnlockBoth, CommitInv, WholeInv, NoShadow, AllShadow,
         Listed
    <2>4. GoodInv'
      BY <1>12 DEF EndRead, UnlockBoth, GoodInv, CommitInv, WholeInv
    <2>5. ReadersInv'
      BY <1>12 DEF EndRead, UnlockBoth, ReadersInv, InRead, HoldsLock, LocksFor,
         SeesOnly
    <2> QED BY <2>1, <2>2, <2>3, <2>4, <2>5
  <1>13. ASSUME NEW h \in Handles, EndWrite(h) PROVE SnapInv'
    <2>1. ModeInv'
      BY <1>13 DEF EndWrite, ModeInv, UpdateMode
    <2>2. WholeInv'
      BY <1>13 DEF EndWrite, WholeInv, NoShadow, AllShadow, Listed
    <2>3. CommitInv'
      BY <1>13 DEF EndWrite, CommitInv, WholeInv, NoShadow, AllShadow, Listed
    <2>4. GoodInv'
      BY <1>13 DEF EndWrite, GoodInv, CommitInv, WholeInv
    <2>5. ReadersInv'
      BY <1>13 DEF EndWrite, ReadersInv, InRead, HoldsLock, LocksFor, SeesOnly
    <2> QED BY <2>1, <2>2, <2>3, <2>4, <2>5
  <1>14. ASSUME NEW h \in Handles, ReadStateAtEnd(h) PROVE SnapInv'
    <2>1. ModeInv'
      BY <1>14 DEF ReadStateAtEnd, ShadowUnusable, GetState, Handles, DirtyInv,
         DirtyWhileUpdating, Updating, ModeInv, UpdateMode
    <2>2. WholeInv'
      BY <1>14 DEF ReadStateAtEnd, ShadowUnusable, GetState, Handles, DirtyInv,
         DirtyWhileUpdating, Updating, WholeInv, NoShadow, AllShadow, Listed
    <2>3. CommitInv'
      BY <1>14 DEF ReadStateAtEnd, ShadowUnusable, GetState, Handles, DirtyInv,
         DirtyWhileUpdating, Updating, CommitInv, WholeInv, NoShadow, AllShadow, Listed
    <2>4. GoodInv'
      BY <1>14 DEF ReadStateAtEnd, ShadowUnusable, GetState, Handles, DirtyInv,
         DirtyWhileUpdating, Updating, GoodInv, CommitInv, WholeInv
    <2>5. ReadersInv'
      BY <1>14 DEF ReadStateAtEnd, ShadowUnusable, GetState, Handles, DirtyInv,
         DirtyWhileUpdating, Updating, ReadersInv, InRead, HoldsLock, LocksFor, SeesOnly
    <2> QED BY <2>1, <2>2, <2>3, <2>4, <2>5
  <1>15. ASSUME NEW h \in Handles, Commit(h) PROVE SnapInv'
    <2>1. ModeInv'
      BY <1>15 DEF Commit, Call, ModeInv, UpdateMode
    <2>2. WholeInv'
      BY <1>15 DEF Commit, Call, WholeInv, NoShadow, AllShadow, Listed
    <2>3. CommitInv'
      BY <1>15 DEF Commit, Call, CommitInv, WholeInv, NoShadow, AllShadow, Listed
    <2>4. GoodInv'
      BY <1>15 DEF Commit, Call, GoodInv, CommitInv, WholeInv
    <2>5. ReadersInv'
      BY <1>15 DEF Commit, Call, ReadersInv, InRead, HoldsLock, LocksFor, SeesOnly
    <2> QED BY <2>1, <2>2, <2>3, <2>4, <2>5
  <1>16. ASSUME NEW h \in Handles, Clean(h) PROVE SnapInv'
    <2>1. ModeInv'
      BY <1>16 DEF Clean, Call, ModeInv, UpdateMode
    <2>2. WholeInv'
      BY <1>16 DEF Clean, Call, WholeInv, NoShadow, AllShadow, Listed
    <2>3. CommitInv'
      BY <1>16 DEF Clean, Call, CommitInv, WholeInv, NoShadow, AllShadow, Listed
    <2>4. GoodInv'
      BY <1>16 DEF Clean, Call, GoodInv, CommitInv, WholeInv
    <2>5. ReadersInv'
      BY <1>16 DEF Clean, Call, ReadersInv, InRead, HoldsLock, LocksFor, SeesOnly
    <2> QED BY <2>1, <2>2, <2>3, <2>4, <2>5
  <1>17. ASSUME NEW h \in Handles, LockNormalForCommit(h) PROVE SnapInv'
    <2>1. ModeInv'
      BY <1>17 DEF LockNormalForCommit, CanLock, ReturnPc, InBegin, ModeInv,
         UpdateMode
    <2>2. WholeInv'
      BY <1>17 DEF LockNormalForCommit, CanLock, ReturnPc, InBegin, WholeInv,
         NoShadow, AllShadow, Listed
    <2>3. CommitInv'
      BY <1>17 DEF LockNormalForCommit, CanLock, ReturnPc, InBegin, CommitInv,
         WholeInv, NoShadow, AllShadow, Listed
    <2>4. GoodInv'
      BY <1>17 DEF LockNormalForCommit, CanLock, ReturnPc, InBegin, GoodInv,
         CommitInv, WholeInv
    <2>5. ReadersInv'
      <3> SUFFICES ASSUME NEW k \in Handles
                   PROVE  /\ (pc[k] = "r_open" => LocksFor(k, seen[k].val = "c"))'
                          /\ (InRead(k) /\ HoldsLock(k) =>
                                /\ LocksFor(k, reg[k].shadow)
                                /\ SeesOnly(k, IF reg[k].shadow THEN Overlay
                                                               ELSE register))'
        BY DEF ReadersInv
      <3>1. CASE k = h
        <4>1. ~(InRead(h) /\ HoldsLock(h))' /\ pc'[h] # "r_open"
          BY <1>17 DEF LockNormalForCommit, ReturnPc, InBegin, InRead, HoldsLock,
                      NoLockPcs
        <4> QED BY <3>1, <4>1
      <3>2. CASE k # h
        BY <1>17, <3>2 DEF LockNormalForCommit, ReadersInv, InRead, HoldsLock,
                          LocksFor, SeesOnly
      <3> QED BY <3>1, <3>2
    <2> QED BY <2>1, <2>2, <2>3, <2>4, <2>5
  <1>18. ASSUME NEW h \in Handles, LockShadowForCommit(h) PROVE SnapInv'
    <2>1. ModeInv'
      BY <1>18 DEF LockShadowForCommit, CanLock, ModeInv, UpdateMode
    <2>2. WholeInv'
      BY <1>18 DEF LockShadowForCommit, CanLock, WholeInv, NoShadow, AllShadow,
         Listed
    <2>3. CommitInv'
      BY <1>18 DEF LockShadowForCommit, CanLock, CommitInv, WholeInv, NoShadow,
         AllShadow, Listed
    <2>4. GoodInv'
      BY <1>18 DEF LockShadowForCommit, CanLock, GoodInv, CommitInv, WholeInv
    <2>5. ReadersInv'
      BY <1>18 DEF LockShadowForCommit, CanLock, ReadersInv, InRead, HoldsLock,
         LocksFor, SeesOnly
    <2> QED BY <2>1, <2>2, <2>3, <2>4, <2>5
  <1>19. ASSUME NEW h \in Handles, ReadStateForCommit(h) PROVE SnapInv'
    <2>1. ModeInv'
      BY <1>19 DEF ReadStateForCommit, UnlockBoth, ReturnPc, InBegin, ModeInv,
         UpdateMode
    <2>2. WholeInv'
      BY <1>19 DEF ReadStateForCommit, UnlockBoth, ReturnPc, InBegin, WholeInv,
         NoShadow, AllShadow, Listed
    <2>3. CommitInv'
      BY <1>19 DEF ReadStateForCommit, UnlockBoth, ReturnPc, InBegin, CommitInv,
         WholeInv, NoShadow, AllShadow, Listed
    <2>4. GoodInv'
      BY <1>19 DEF ReadStateForCommit, UnlockBoth, ReturnPc, InBegin, GoodInv,
         CommitInv, WholeInv
    <2>5. ReadersInv'
      BY <1>19 DEF ReadStateForCommit, UnlockBoth, ReturnPc, InBegin, ReadersInv,
         InRead, HoldsLock, LocksFor, SeesOnly
    <2> QED BY <2>1, <2>2, <2>3, <2>4, <2>5
  <1>20. ASSUME NEW h \in Handles, WriteStateCommit(h) PROVE SnapInv'
    <2>1. ModeInv'
      BY <1>20 DEF WriteStateCommit, ModeInv, UpdateMode
    <2>2. WholeInv'
      BY <1>20 DEF WriteStateCommit, WholeInv, NoShadow, AllShadow, Listed
    <2>3. CommitInv'
      BY <1>20 DEF WriteStateCommit, CommitInv, WholeInv, NoShadow, AllShadow,
         Listed
    <2>4. GoodInv'
      BY <1>20 DEF WriteStateCommit, GoodInv, CommitInv, WholeInv
    <2>5. ReadersInv'
      BY <1>20 DEF WriteStateCommit, ReadersInv, InRead, HoldsLock, LocksFor,
         SeesOnly
    <2> QED BY <2>1, <2>2, <2>3, <2>4, <2>5
  <1>21. ASSUME NEW h \in Handles, CopyDone(h) PROVE SnapInv'
    <2>1. ModeInv'
      BY <1>21 DEF CopyDone, ModeInv, UpdateMode
    <2>2. WholeInv'
      BY <1>21 DEF CopyDone, WholeInv, NoShadow, AllShadow, Listed
    <2>3. CommitInv'
      <3>1. known[h] = Files
        <4>1. \A f \in Files \ todo[h] : f \in known[h]
          BY <1>21 DEF CopyDone, CommitInv
        <4>2. todo[h] = {} /\ known[h] \subseteq Files
          BY <1>21 DEF CopyDone
        <4> QED BY <4>1, <4>2
      <3>2. \A f \in Files : Overlay[f] = register[f]
        BY <1>21 DEF CopyDone, CommitInv
      <3>3. Overlay = register
        BY <3>2 DEF Overlay
      <3> QED BY <1>21, <3>1, <3>3 DEF CopyDone, CommitInv
    <2>4. GoodInv'
      BY <1>21 DEF CopyDone, GoodInv, CommitInv, WholeInv
    <2>5. ReadersInv'
      BY <1>21 DEF CopyDone, ReadersInv, InRead, HoldsLock, LocksFor, SeesOnly
    <2> QED BY <2>1, <2>2, <2>3, <2>4, <2>5
  <1>22. ASSUME NEW h \in Handles, WriteStateOnline(h) PROVE SnapInv'
    <2>1. ModeInv'
      BY <1>22 DEF WriteStateOnline, UnlockBoth, ModeInv, UpdateMode
    <2>2. WholeInv'
      BY <1>22 DEF WriteStateOnline, UnlockBoth, WholeInv, NoShadow, AllShadow,
         Listed
    <2>3. CommitInv'
      BY <1>22 DEF WriteStateOnline, UnlockBoth, CommitInv, WholeInv, NoShadow,
         AllShadow, Listed
    <2>4. GoodInv'
      BY <1>22 DEF WriteStateOnline, UnlockBoth, GoodInv, CommitInv, WholeInv
    <2>5. ReadersInv'
      BY <1>22 DEF WriteStateOnline, UnlockBoth, ReadersInv, InRead, HoldsLock,
         LocksFor, SeesOnly
    <2> QED BY <2>1, <2>2, <2>3, <2>4, <2>5
  <1>23. ASSUME NEW h \in Handles, LockShadowForClean(h) PROVE SnapInv'
    <2>1. ModeInv'
      BY <1>23 DEF LockShadowForClean, CanLock, ModeInv, UpdateMode
    <2>2. WholeInv'
      BY <1>23 DEF LockShadowForClean, CanLock, WholeInv, NoShadow, AllShadow,
         Listed
    <2>3. CommitInv'
      BY <1>23 DEF LockShadowForClean, CanLock, CommitInv, WholeInv, NoShadow,
         AllShadow, Listed
    <2>4. GoodInv'
      BY <1>23 DEF LockShadowForClean, CanLock, GoodInv, CommitInv, WholeInv
    <2>5. ReadersInv'
      BY <1>23 DEF LockShadowForClean, CanLock, ReadersInv, InRead, HoldsLock,
         LocksFor, SeesOnly
    <2> QED BY <2>1, <2>2, <2>3, <2>4, <2>5
  <1>24. ASSUME NEW h \in Handles, BeginReadNested(h) PROVE SnapInv'
    <2>1. ModeInv'
      BY <1>24 DEF BeginReadNested, Call, ModeInv, UpdateMode
    <2>2. WholeInv'
      BY <1>24 DEF BeginReadNested, Call, WholeInv, NoShadow, AllShadow, Listed
    <2>3. CommitInv'
      BY <1>24 DEF BeginReadNested, Call, CommitInv, WholeInv, NoShadow, AllShadow,
         Listed
    <2>4. GoodInv'
      BY <1>24 DEF BeginReadNested, Call, GoodInv, CommitInv, WholeInv
    <2>5. ReadersInv'
      BY <1>24 DEF BeginReadNested, Call, ReadersInv, InRead, HoldsLock, LocksFor,
         SeesOnly
    <2> QED BY <2>1, <2>2, <2>3, <2>4, <2>5
  <1>25. ASSUME NEW h \in Handles, BeginReadClean(h) PROVE SnapInv'
    <2>1. ModeInv'
      BY <1>25 DEF BeginReadClean, Call, ModeInv, UpdateMode
    <2>2. WholeInv'
      BY <1>25 DEF BeginReadClean, Call, WholeInv, NoShadow, AllShadow, Listed
    <2>3. CommitInv'
      BY <1>25 DEF BeginReadClean, Call, CommitInv, WholeInv, NoShadow, AllShadow,
         Listed
    <2>4. GoodInv'
      BY <1>25 DEF BeginReadClean, Call, GoodInv, CommitInv, WholeInv
    <2>5. ReadersInv'
      BY <1>25 DEF BeginReadClean, Call, ReadersInv, InRead, HoldsLock, LocksFor,
         SeesOnly
    <2> QED BY <2>1, <2>2, <2>3, <2>4, <2>5
  <1>26. ASSUME NEW h \in Handles, BeginReadDirty(h) PROVE SnapInv'
    <2>1. ModeInv'
      BY <1>26 DEF BeginReadDirty, Call, ModeInv, UpdateMode
    <2>2. WholeInv'
      BY <1>26 DEF BeginReadDirty, Call, WholeInv, NoShadow, AllShadow, Listed
    <2>3. CommitInv'
      BY <1>26 DEF BeginReadDirty, Call, CommitInv, WholeInv, NoShadow, AllShadow,
         Listed
    <2>4. GoodInv'
      BY <1>26 DEF BeginReadDirty, Call, GoodInv, CommitInv, WholeInv
    <2>5. ReadersInv'
      BY <1>26 DEF BeginReadDirty, Call, ReadersInv, InRead, HoldsLock, LocksFor,
         SeesOnly
    <2> QED BY <2>1, <2>2, <2>3, <2>4, <2>5
  <1>27. ASSUME NEW h \in Handles, LockForRead(h) PROVE SnapInv'
    <2>1. ModeInv'
      BY <1>27 DEF LockForRead, CanLock, ModeInv, UpdateMode
    <2>2. WholeInv'
      BY <1>27 DEF LockForRead, CanLock, WholeInv, NoShadow, AllShadow, Listed
    <2>3. CommitInv'
      BY <1>27 DEF LockForRead, CanLock, CommitInv, WholeInv, NoShadow, AllShadow,
         Listed
    <2>4. GoodInv'
      BY <1>27 DEF LockForRead, CanLock, GoodInv, CommitInv, WholeInv
    <2>5. ReadersInv'
      <3>1. lockNormal[h] = "free" /\ lockShadow[h] = "free"
        BY <1>27 DEF LockForRead, NoLockPcs
      <3>2. \A k \in Handles : (pc[k] = "r_open" => LocksFor(k, seen[k].val = "c"))'
        BY <1>27, <3>1 DEF LockForRead, ReadersInv, LocksFor
      <3>3. \A k \in Handles : (InRead(k) /\ HoldsLock(k) =>
               /\ LocksFor(k, reg[k].shadow)
               /\ SeesOnly(k, IF reg[k].shadow THEN Overlay ELSE register))'
        BY <1>27 DEF LockForRead, ReadersInv, LocksFor, InRead, HoldsLock, SeesOnly
      <3> QED BY <3>2, <3>3 DEF ReadersInv
    <2> QED BY <2>1, <2>2, <2>3, <2>4, <2>5
  <1>28. ASSUME NEW h \in Handles, NEW f \in Files, ReadFile(h, f) PROVE SnapInv'
    <2>1. ModeInv'
      BY <1>28 DEF ReadFile, ModeInv, UpdateMode
    <2>2. WholeInv'
      BY <1>28 DEF ReadFile, WholeInv, NoShadow, AllShadow, Listed
    <2>3. CommitInv'
      BY <1>28 DEF ReadFile, CommitInv, WholeInv, NoShadow, AllShadow, Listed
    <2>4. GoodInv'
      BY <1>28 DEF ReadFile, GoodInv, CommitInv, WholeInv
    <2>5. ReadersInv'
      BY <1>28 DEF ReadFile, ReadersInv, InRead, HoldsLock, LocksFor, SeesOnly
    <2> QED BY <2>1, <2>2, <2>3, <2>4, <2>5
  <1>29. ASSUME NEW h \in Handles, CloseHandle(h) PROVE SnapInv'
    <2>1. ModeInv'
      BY <1>29 DEF CloseHandle, UnlockBoth, ModeInv, UpdateMode
    <2>2. WholeInv'
      BY <1>29 DEF CloseHandle, WholeInv, NoShadow, AllShadow, Listed
    <2>3. CommitInv'
      BY <1>29 DEF CloseHandle, CommitInv, WholeInv, NoShadow, AllShadow, Listed
    <2>4. GoodInv'
      BY <1>29 DEF CloseHandle, GoodInv, CommitInv, WholeInv
    <2>5. ReadersInv'
      BY <1>29 DEF CloseHandle, UnlockBoth, ReadersInv, InRead, HoldsLock,
         LocksFor, SeesOnly
    <2> QED BY <2>1, <2>2, <2>3, <2>4, <2>5
  <1>30. ASSUME NEW h \in Handles, NEW f \in Files, OpenNewFile(h, f) PROVE SnapInv'
    <2>1. ModeInv'
      BY <1>30 DEF OpenNewFile, ModeInv, UpdateMode, Overlay, Absent, Blank
    <2>2. WholeInv'
      BY <1>30 DEF OpenNewFile, WholeInv, NoShadow, AllShadow, Listed, Overlay,
         Absent, Blank
    <2>3. CommitInv'
      BY <1>30 DEF OpenNewFile, CommitInv, WholeInv, NoShadow, AllShadow, Listed,
         Overlay, Absent, Blank
    <2>4. GoodInv'
      <3>1. Overlay' = Overlay
        BY <1>30 DEF OpenNewFile, Overlay, Absent, Blank
      <3> QED BY <1>30, <3>1 DEF OpenNewFile, GoodInv
    <2>5. ReadersInv'
      BY <1>30 DEF OpenNewFile, ReadersInv, InRead, HoldsLock, LocksFor, SeesOnly,
         Overlay, Absent, Blank
    <2> QED BY <2>1, <2>2, <2>3, <2>4, <2>5
  <1>31. ASSUME NEW h \in Handles, ListFile(h) PROVE SnapInv'
    <2>a. \A k \in Handles : k # h =>
              /\ lockShadow[k] = "free"
              /\ ~Writing(k) /\ pc[k] \notin UpdatePcs \cup CommittingPcs \cup {"c_clean"}
      BY <1>31 DEF ListFile
    <2>1. ModeInv'
      BY <1>31 DEF ListFile, ModeInv, UpdateMode, Overlay, Absent, Blank
    <2>2. WholeInv'
      <3>1. Opening(h) /\ Opening(h)'
        BY <1>31 DEF ListFile, WholeInv
      <3>2. /\ \A f \in Files : shadow[f] = Absent <=> f \in todo[h]
            /\ Files \ todo[h] \subseteq cache \cup cur[h]
        BY <1>31, <3>1 DEF ListFile, WholeInv
      <3>3. \A k \in Handles : k # h => ~Opening(k)' /\ ~Writing(k)'
        BY <1>31, <2>a DEF ListFile
      <3>4. \A k \in Handles : (pc[k] # "w_list" => cur[k] = {})'
        BY <1>31 DEF ListFile, WholeInv
      <3>5. (/\ \A f \in Files : shadow[f] = Absent <=> f \in todo[h]
             /\ Files \ todo[h] \subseteq cache \cup cur[h])'
        BY <1>31, <3>2 DEF ListFile
      <3>6. ~Writing(h)' /\ \A k \in Handles : (pc[k] = "w_list" => useShadow[k])'
        BY <1>31 DEF ListFile, WholeInv
      <3> QED BY <3>1, <3>3, <3>4, <3>5, <3>6 DEF WholeInv
    <2>3. CommitInv'
      BY <1>31 DEF ListFile, CommitInv, WholeInv, NoShadow, AllShadow, Listed,
         Overlay, Absent, Blank
    <2>4. GoodInv'
      BY <1>31 DEF ListFile, GoodInv, CommitInv, WholeInv, Overlay, Absent, Blank
    <2>5. ReadersInv'
      BY <1>31 DEF ListFile, ReadersInv, InRead, HoldsLock, LocksFor, SeesOnly,
         Overlay, Absent, Blank
    <2> QED BY <2>1, <2>2, <2>3, <2>4, <2>5
  <1>32. ASSUME NEW h \in Handles, NEW f \in Files, UpdateShadow(h, f) PROVE SnapInv'
    <2>a. \A k \in Handles : k # h =>
              /\ lockShadow[k] = "free"
              /\ ~Writing(k) /\ pc[k] \notin UpdatePcs \cup CommittingPcs \cup {"c_clean"}
      BY <1>32 DEF UpdateShadow
    <2>1. ModeInv'
      BY <1>32 DEF UpdateShadow, ModeInv, UpdateMode, Overlay, Absent, Blank
    <2>2. WholeInv'
      <3>1. AllShadow /\ Listed /\ \A k \in Handles : ~Opening(k)
        BY <1>32, <2>a DEF UpdateShadow, WholeInv
      <3>2. AllShadow' /\ Listed'
        BY <1>32, <3>1 DEF UpdateShadow, AllShadow, Absent, Listed
      <3>3. \A k \in Handles : ~Opening(k)'
        BY <1>32, <3>1 DEF UpdateShadow
      <3>4. \A k \in Handles : /\ (pc[k] # "w_list" => cur[k] = {})'
                               /\ (pc[k] = "w_list" => useShadow[k])'
        BY <1>32 DEF UpdateShadow, WholeInv
      <3> QED BY <3>2, <3>3, <3>4 DEF WholeInv
    <2>3. CommitInv'
      <3>1. \A k \in Handles : pc'[k] \notin CommittingPcs \cup {"c_clean"}
        BY <1>32, <2>a DEF UpdateShadow
      <3>2. \A k \in Handles : (pc[k] = "c_cleanlock" => known[k] \in {{}, Files})'
        BY <1>32 DEF UpdateShadow, CommitInv
      <3> QED BY <3>1, <3>2 DEF CommitInv
    <2>4. GoodInv'
      BY <1>32 DEF UpdateShadow, GoodInv, CommitInv, WholeInv, Overlay, Absent,
         Blank
    <2>5. ReadersInv'
      BY <1>32 DEF UpdateShadow, ReadersInv, InRead, HoldsLock, LocksFor, SeesOnly,
         Overlay, Absent, Blank
    <2> QED BY <2>1, <2>2, <2>3, <2>4, <2>5
  <1>33. ASSUME NEW h \in Handles, NEW f \in Files, UpdateRegister(h, f) PROVE SnapInv'
    <2>a. \A k \in Handles : k # h =>
              /\ lockShadow[k] = "free"
              /\ ~Writing(k) /\ pc[k] \notin UpdatePcs \cup CommittingPcs \cup {"c_clean"}
      BY <1>33 DEF UpdateRegister
    <2>1. ModeInv'
      BY <1>33 DEF UpdateRegister, ModeInv, UpdateMode, Overlay, Absent, Blank
    <2>2. WholeInv'
      BY <1>33 DEF UpdateRegister, WholeInv, NoShadow, AllShadow, Listed, Overlay,
         Absent, Blank
    <2>3. CommitInv'
      BY <1>33 DEF UpdateRegister, CommitInv, WholeInv, NoShadow, AllShadow,
         Listed, Overlay, Absent, Blank
    <2>4. GoodInv'
      BY <1>33 DEF UpdateRegister, GoodInv, CommitInv, WholeInv, Overlay, Absent,
         Blank
    <2>5. ReadersInv'
      <3>1. \A k \in Handles : pc[k] = "r_open" \/ (InRead(k) /\ HoldsLock(k))
                              => k # h /\ "r" \in {lockShadow[k], lockNormal[k]}
        <4> SUFFICES ASSUME NEW k \in Handles,
                            pc[k] = "r_open" \/ (InRead(k) /\ HoldsLock(k))
                     PROVE  k # h /\ "r" \in {lockShadow[k], lockNormal[k]}
          OBVIOUS
        <4>1. k # h
          BY <1>33 DEF UpdateRegister, InRead
        <4>2. \/ LocksFor(k, seen[k].val = "c")
              \/ LocksFor(k, reg[k].shadow)
          BY DEF ReadersInv
        <4> QED BY <4>1, <4>2 DEF LocksFor
      <3>2. \A k \in Handles : k # h => lockNormal[k] = "free"
        BY <1>33 DEF UpdateRegister, UpdateMode
      <3>3. \A k \in Handles : pc[k] # "r_open" /\ ~(InRead(k) /\ HoldsLock(k))
        BY <3>1, <3>2, <2>a
      <3>4. \A k \in Handles : /\ pc'[k] # "r_open"
                               /\ ~(InRead(k) /\ HoldsLock(k))'
        BY <1>33, <3>3 DEF UpdateRegister, InRead, HoldsLock
      <3> QED BY <3>4 DEF ReadersInv
    <2> QED BY <2>1, <2>2, <2>3, <2>4, <2>5
  <1>34. ASSUME NEW h \in Handles, WriteStateAtEnd(h) PROVE SnapInv'
    <2>1. ModeInv'
      BY <1>34 DEF WriteStateAtEnd, UnlockBoth, ModeInv, UpdateMode, Overlay,
         Absent, Blank
    <2>2. WholeInv'
      BY <1>34 DEF WriteStateAtEnd, UnlockBoth, WholeInv, NoShadow, AllShadow,
         Listed, Overlay, Absent, Blank
    <2>3. CommitInv'
      BY <1>34 DEF WriteStateAtEnd, UnlockBoth, CommitInv, WholeInv, NoShadow,
         AllShadow, Listed, Overlay, Absent, Blank
    <2>4. GoodInv'
      BY <1>34 DEF WriteStateAtEnd, UnlockBoth, GoodInv, CommitInv, WholeInv,
         Overlay, Absent, Blank
    <2>5. ReadersInv'
      BY <1>34 DEF WriteStateAtEnd, UnlockBoth, ReadersInv, InRead, HoldsLock,
         LocksFor, SeesOnly, Overlay, Absent, Blank
    <2> QED BY <2>1, <2>2, <2>3, <2>4, <2>5
  <1>35. ASSUME NEW h \in Handles, NEW f \in Files, CopyFile(h, f) PROVE SnapInv'
    <2>1. ModeInv'
      BY <1>35 DEF CopyFile, ModeInv, UpdateMode, Overlay, Absent, Blank
    <2>2. WholeInv'
      BY <1>35 DEF CopyFile, WholeInv, NoShadow, AllShadow, Listed, Overlay,
         Absent, Blank
    <2>3. CommitInv'
      BY <1>35 DEF CopyFile, CommitInv, WholeInv, NoShadow, AllShadow, Listed,
         Overlay, Absent, Blank
    <2>4. GoodInv'
      <3>1. Overlay' = Overlay
        BY <1>35 DEF CopyFile, Overlay
      <3>2. RegBusy(h)'
        BY <1>35 DEF CopyFile, CommitInv
      <3>3. \A k \in Handles : OverlayBusy(k) => OverlayBusy(k)'
        BY <1>35 DEF CopyFile
      <3> QED BY <1>35, <3>1, <3>2, <3>3 DEF CopyFile, GoodInv
    <2>5. ReadersInv'
      BY <1>35 DEF CopyFile, ReadersInv, InRead, HoldsLock, LocksFor, SeesOnly,
         Overlay, Absent, Blank
    <2> QED BY <2>1, <2>2, <2>3, <2>4, <2>5
  <1>36. ASSUME NEW h \in Handles, NEW f \in Files, CleanFile(h, f) PROVE SnapInv'
    <2>a. \A k \in Handles : k # h =>
              /\ lockShadow[k] = "free"
              /\ ~Writing(k) /\ pc[k] \notin UpdatePcs \cup CommittingPcs \cup {"c_clean"}
      BY <1>36 DEF CleanFile
    <2>1. ModeInv'
      BY <1>36 DEF CleanFile, ModeInv, UpdateMode, Overlay, Absent, Blank
    <2>2. WholeInv'
      <3>1. Removing(h)'
        BY <1>36 DEF CleanFile, CommitInv
      <3>2. \A k \in Handles : ~Opening(k) /\ ~Writing(k)
        BY <1>36, <2>a DEF CleanFile
      <3>3. Listed' /\ \A k \in Handles : ~Opening(k)' /\ ~Writing(k)'
        BY <1>36, <3>2 DEF CleanFile, WholeInv, Listed
      <3>4. \A k \in Handles : /\ (pc[k] # "w_list" => cur[k] = {})'
                               /\ (pc[k] = "w_list" => useShadow[k])'
        BY <1>36 DEF CleanFile, WholeInv
      <3> QED BY <3>1, <3>3, <3>4 DEF WholeInv
    <2>3. CommitInv'
      BY <1>36 DEF CleanFile, CommitInv, WholeInv, NoShadow, AllShadow, Listed,
         Overlay, Absent, Blank
    <2>4. GoodInv'
      BY <1>36 DEF CleanFile, GoodInv, CommitInv, WholeInv, Overlay, Absent, Blank
    <2>5. ReadersInv'
      BY <1>36 DEF CleanFile, ReadersInv, InRead, HoldsLock, LocksFor, SeesOnly,
         Overlay, Absent, Blank
    <2> QED BY <2>1, <2>2, <2>3, <2>4, <2>5
  <1>37. ASSUME NEW h \in Handles, CleanDone(h) PROVE SnapInv'
    <2>a. \A k \in Handles : k # h =>
              /\ lockShadow[k] = "free"
              /\ ~Writing(k) /\ pc[k] \notin UpdatePcs \cup CommittingPcs \cup {"c_clean"}
      BY <1>37 DEF CleanDone
    <2>b. /\ lockNormal[h] = "free" /\ pc'[h] \in {"w_relock1", Ready}
          /\ pc'[h] = Ready => transWNo[h] = 0
          /\ \A k \in Handles \ {h} : pc'[k] = pc[k]
      BY <1>37 DEF CleanDone, ReturnPc, InBegin
    <2>c. Removing(h) => NoShadow
      BY <1>37 DEF CleanDone, CommitInv, NoShadow
    <2>d. \A k \in Handles : /\ ~Opening(k) /\ ~Opening(k)' /\ ~Removing(k)'
                             /\ ~Writing(k) /\ ~Writing(k)'
                             /\ k # h => ~Removing(k)
      BY <1>37, <2>a, <2>b DEF CleanDone
    <2>1. ModeInv'
      BY <1>37 DEF CleanDone, ReturnPc, InBegin, ModeInv, UpdateMode, Overlay,
         Absent, Blank
    <2>2. WholeInv'
      <3>1. NoShadow \/ AllShadow
        <4>1. CASE Removing(h)
          BY <4>1, <2>c
        <4>2. CASE ~Removing(h)
          <5>1. \A k \in Handles : ~Opening(k) /\ ~Removing(k)
            BY ONLY <4>2, <2>d
          <5>2. WholeInv
            OBVIOUS
          <5> QED BY ONLY <5>1, <5>2 DEF WholeInv
        <4> QED BY <4>1, <4>2
      <3>2. (NoShadow \/ AllShadow)' /\ Listed'
        BY <1>37, <3>1 DEF CleanDone, NoShadow, AllShadow, Listed
      <3>3. \A k \in Handles : /\ (pc[k] # "w_list" => cur[k] = {})'
                               /\ (pc[k] = "w_list" => useShadow[k])'
        <4>1. cur' = cur /\ useShadow' = useShadow
          BY <1>37 DEF CleanDone
        <4>2. \A k \in Handles : /\ (pc[k] # "w_list" => cur[k] = {})
                                 /\ (pc[k] = "w_list" => useShadow[k])
          BY DEF WholeInv
        <4>3. pc[h] # "w_list" /\ pc'[h] # "w_list"
          BY <1>37, <2>b DEF CleanDone
        <4> QED BY ONLY <4>1, <4>2, <4>3, <2>b
      <3> QED BY <2>d, <3>2, <3>3 DEF WholeInv
    <2>3. CommitInv'
      BY <1>37 DEF CleanDone, ReturnPc, InBegin, CommitInv, WholeInv, NoShadow,
         AllShadow, Listed, Overlay, Absent, Blank
    <2>4. GoodInv'
      <3>1. \A k \in Handles : ~RegBusy(k)
        BY <1>37, <2>a DEF CleanDone
      <3>2. register \in good
        BY <3>1 DEF GoodInv
      <3>3. Overlay \in good
        <4>1. CASE Removing(h)
          <5>1. Overlay = register
            BY <2>c, <4>1 DEF NoShadow, Overlay, Absent
          <5> QED BY <5>1, <3>2
        <4>2. CASE ~Removing(h)
          <5>1. \A k \in Handles : ~Writing(k) /\ ~Removing(k)
            BY ONLY <4>2, <2>d
          <5>2. GoodInv
            OBVIOUS
          <5> QED BY ONLY <5>1, <5>2 DEF GoodInv, OverlayBusy
        <4> QED BY <4>1, <4>2
      <3> QED BY <1>37, <3>2, <3>3 DEF CleanDone, GoodInv
    <2>5. ReadersInv'
      <3>1. Overlay' = Overlay /\ register' = register
        BY <1>37 DEF CleanDone
      <3>2. pc'[h] # "r_open" /\ ~HoldsLock(h)'
        BY <1>37, <2>b DEF CleanDone, HoldsLock
      <3>3. ASSUME NEW k \in Handles \ {h}
            PROVE  /\ (pc[k] = "r_open" => LocksFor(k, seen[k].val = "c"))'
                   /\ (InRead(k) /\ HoldsLock(k) =>
                        /\ LocksFor(k, reg[k].shadow)
                        /\ SeesOnly(k, IF reg[k].shadow THEN Overlay ELSE register))'
        <4>1. /\ pc'[k] = pc[k] /\ seen' = seen /\ reg' = reg /\ view' = view
              /\ lockNormal'[k] = lockNormal[k] /\ lockShadow'[k] = lockShadow[k]
              /\ transNo' = transNo /\ transWNo' = transWNo
          BY <1>37 DEF CleanDone
        <4>2. /\ pc[k] = "r_open" => LocksFor(k, seen[k].val = "c")
              /\ InRead(k) /\ HoldsLock(k) =>
                   /\ LocksFor(k, reg[k].shadow)
                   /\ SeesOnly(k, IF reg[k].shadow THEN Overlay ELSE register)
          BY DEF ReadersInv
        <4> QED BY <3>1, <4>1, <4>2 DEF InRead, HoldsLock, LocksFor, SeesOnly
      <3> QED BY <3>2, <3>3 DEF ReadersInv
    <2> QED BY <2>1, <2>2, <2>3, <2>4, <2>5
  <1>38. ASSUME NEW h \in Handles, RegisterOpenedForRead(h) PROVE SnapInv'
    <2>1. ModeInv'
      BY <1>38 DEF RegisterOpenedForRead, NoView, ModeInv, UpdateMode, Overlay,
         Absent, Blank
    <2>2. WholeInv'
      <3>1. CASE seen[h].val = "c"
        <4>1. lockShadow[h] = "r"
          BY <1>38, <3>1 DEF RegisterOpenedForRead, ReadersInv, LocksFor
        <4>2. \A k \in Handles : ~Opening(k) /\ ~Removing(k) /\ ~Writing(k)
          BY <1>38, <4>1 DEF RegisterOpenedForRead
        <4>3. (NoShadow \/ AllShadow) /\ Listed
          BY <4>2 DEF WholeInv
        <4>4. (NoShadow \/ AllShadow)' /\ Listed'
          BY <1>38, <3>1, <4>3 DEF RegisterOpenedForRead, NoShadow, AllShadow,
             Listed
        <4>5. \A k \in Handles : /\ ~Opening(k)' /\ ~Writing(k)'
                                 /\ (pc[k] # "w_list" => cur[k] = {})'
                                 /\ (pc[k] = "w_list" => useShadow[k])'
          BY <1>38, <4>2 DEF RegisterOpenedForRead, WholeInv
        <4> QED BY <4>4, <4>5 DEF WholeInv
      <3>2. CASE seen[h].val # "c"
        BY <1>38, <3>2 DEF RegisterOpenedForRead, WholeInv, NoShadow, AllShadow,
           Listed
      <3> QED BY <3>1, <3>2
    <2>3. CommitInv'
      BY <1>38 DEF RegisterOpenedForRead, NoView, CommitInv, WholeInv, NoShadow,
         AllShadow, Listed, Overlay, Absent, Blank
    <2>4. GoodInv'
      BY <1>38 DEF RegisterOpenedForRead, NoView, GoodInv, CommitInv, WholeInv,
         Overlay, Absent, Blank
    <2>5. ReadersInv'
      <3> SUFFICES ASSUME NEW k \in Handles
                   PROVE  /\ (pc[k] = "r_open" => LocksFor(k, seen[k].val = "c"))'
                          /\ (InRead(k) /\ HoldsLock(k) =>
                                /\ LocksFor(k, reg[k].shadow)
                                /\ SeesOnly(k, IF reg[k].shadow THEN Overlay
                                                               ELSE register))'
        BY DEF ReadersInv
      <3>1. CASE k = h
        <4>1. /\ pc'[h] # "r_open" /\ reg'[h].shadow = (seen[h].val = "c")
              /\ \A f \in Files : view'[h][f] = Absent
          BY <1>38 DEF RegisterOpenedForRead, NoView
        <4>2. LocksFor(h, seen[h].val = "c")
          BY <1>38 DEF RegisterOpenedForRead, ReadersInv
        <4> QED BY <1>38, <3>1, <4>1, <4>2 DEF RegisterOpenedForRead, LocksFor,
        SeesOnly
      <3>2. CASE k # h
        BY <1>38, <3>2 DEF RegisterOpenedForRead, ReadersInv, InRead, HoldsLock,
                          LocksFor, SeesOnly
      <3> QED BY <3>1, <3>2
    <2> QED BY <2>1, <2>2, <2>3, <2>4, <2>5
  <1>39. CASE UNCHANGED vars
    <2>1. ModeInv' /\ WholeInv' /\ CommitInv'
      BY <1>39 DEF vars, ModeInv, UpdateMode, WholeInv, NoShadow, AllShadow,
         Listed, CommitInv
    <2>2. GoodInv' /\ ReadersInv'
      BY <1>39 DEF vars, GoodInv, ReadersInv, InRead, HoldsLock, LocksFor, SeesOnly
    <2> QED BY <2>1, <2>2
  <1>40. ASSUME NEW h \in Handles
         PROVE  /\ ~RegisterOpenFails(h) /\ ~CommitFails(h) /\ ~InitRegister(h)
                /\ ~RegisterOpenForReadFails(h) /\ ~Crash(h)
    BY DEF Undisturbed, IInv, TypeOK, GhostOK, Budget, RegisterOpenFails,
       CommitFails, InitRegister, RegisterOpenForReadFails, Crash, Call
  <1>41. ASSUME NEW h \in Handles PROVE ~InitStep(h)
    BY DEF InitStep, ResetShadowFile, ShadowReset, ResetRegisterFile, ResetCache,
       WriteStateInit, InitPcs
  <1> HIDE DEF SnapInv, Goto, fileVars, lockVars, transVars, commitVars,
         openVars, regVars, ghostVars, Ready, UpdatePcs, CommittingPcs, ReadPcs,
         BeginPcs, EndPcs, Writing, Opening, Removing, RegBusy, OverlayBusy
  <1>42. ASSUME NEW h \in Handles, AdminNext(h) PROVE SnapInv'
    BY <1>42, <1>1, <1>2, <1>3, <1>4, <1>5, <1>6, <1>7, <1>8, <1>9, <1>10,
       <1>14, <1>15, <1>16, <1>17, <1>18, <1>19, <1>20, <1>21, <1>22, <1>23, <1>30,
       <1>31, <1>32, <1>33, <1>34, <1>35, <1>36, <1>37, <1>40, <1>41
    DEF AdminNext, UpdateStep, CommitStep
  <1>43. ASSUME NEW h \in Handles, ReaderNext(h) PROVE SnapInv'
    BY <1>43, <1>24, <1>25, <1>26, <1>27, <1>28, <1>38, <1>40
    DEF ReaderNext, ReadStep
  <1>44. ASSUME NEW h \in Handles, EndTrans(h) \/ CloseHandle(h) PROVE SnapInv'
    BY <1>44, <1>11, <1>12, <1>13, <1>29 DEF EndTrans
  <1> QED BY <1>39, <1>40, <1>42, <1>43, <1>44 DEF Next, Handles

\* The invariant holds at first.
LEMMA SnapInit == Init => SnapInv /\ DirtyInv /\ WriterInv
  <1> SUFFICES ASSUME Init PROVE SnapInv /\ DirtyInv /\ WriterInv
    OBVIOUS
  <1>1. \A h \in Handles :
            /\ pc[h] = Ready /\ transNo[h] = 0 /\ transWNo[h] = 0 /\ cur[h] = {}
            /\ lockNormal[h] = "free" /\ lockShadow[h] = "free"
    BY DEF Init
  <1>2. ModeInv /\ WholeInv /\ CommitInv
    BY <1>1 DEF Init, ModeInv, Writing, Opening, Removing, UpdatePcs, EndPcs,
       Ready, WholeInv, NoShadow, Listed, CommitInv
  <1>3. GoodInv
    <2>1. Overlay = [f \in Files |-> 0] /\ register = [f \in Files |-> 0]
      BY DEF Init, Overlay, Absent
    <2> QED BY <2>1 DEF Init, GoodInv
  <1>4. ReadersInv
    BY <1>1 DEF ReadersInv, InRead, HoldsLock, Ready
  <1>5. DirtyInv /\ WriterInv
    BY <1>1 DEF DirtyInv, NoInit, DirtyWhileUpdating, Updating, WriterInv, Ready,
       InitPcs, EndPcs, Handles
  <1> QED BY <1>2, <1>3, <1>4, <1>5 DEF SnapInv

\* The inductive invariant of the readers and any number of administrators.
THEOREM SnapInvAlways == ASSUME Undisturbed PROVE Spec => []SnapInv
  <1>1. Init => SnapInv /\ DirtyInv /\ WriterInv
    BY SnapInit
  <1>2. /\ IInv /\ IInv' /\ SnapInv /\ DirtyInv /\ WriterInv /\ [Next]_vars
        => (SnapInv /\ DirtyInv /\ WriterInv)'
    BY SnapStep, DirtyStep, WriterStep, OwnersConflict DEF Undisturbed, IInv
  <1> QED BY <1>1, <1>2, Invariance, PTL DEF Spec

\* A read transaction that holds a lock has read one state of the register,
\* one that a finished write transaction left, whichever lock it chose by the
\* state file that it read without a lock.
THEOREM SnapshotAlways == ASSUME Undisturbed PROVE Spec => []SnapshotRead
  <1>1. IInv /\ SnapInv => SnapshotRead
    <2> SUFFICES ASSUME IInv, SnapInv, NEW h \in Readers, InRead(h), HoldsLock(h)
                 PROVE  \E g \in good : SeesOnly(h, g)
      BY DEF SnapshotRead
    <2>1. h \in Handles
      BY DEF Handles
    <2>2. /\ LocksFor(h, reg[h].shadow)
          /\ SeesOnly(h, IF reg[h].shadow THEN Overlay ELSE register)
      BY <2>1 DEF SnapInv, ReadersInv
    <2>3. CASE reg[h].shadow
      <3>1. lockShadow[h] = "r"
        BY <2>2, <2>3 DEF LocksFor
      <3>2. \A k \in Handles : ~OverlayBusy(k)
        BY <2>1, <3>1 DEF IInv, HeldInv, LockInv, Exclusive, OverlayBusy, Writing,
           Removing, UpdatePcs, InRead, EndPcs, Ready
      <3> QED BY <2>2, <2>3, <3>2 DEF SnapInv, GoodInv
    <2>4. CASE ~reg[h].shadow
      <3>1. lockNormal[h] = "r" /\ pc[h] = Ready /\ transWNo[h] = 0
        BY <2>2, <2>4 DEF LocksFor, InRead
      <3>2. \A k \in Handles : ~RegBusy(k)
        BY <2>1, <3>1 DEF IInv, HeldInv, LockInv, Exclusive, RegBusy, Writing,
           CommittingPcs, UpdatePcs, EndPcs, SnapInv, ModeInv, UpdateMode, Ready
      <3> QED BY <2>2, <2>4, <3>2 DEF SnapInv, GoodInv
    <2> QED BY <2>3, <2>4
  <1> QED BY <1>1, SnapInvAlways, Invariance, PTL
=============================================================================
