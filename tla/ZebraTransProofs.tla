-------------------------- MODULE ZebraTransProofs --------------------------
(***************************************************************************)
(* What ZebraTrans guarantees for any number of files, readers and         *)
(* administrators, and for any bounds and failures: its variables keep     *)
(* their types, the two lock files give the state file one owner at a      *)
(* time, an update never finds another state than 'd' at its end, and      *)
(* every call releases its locks.                                          *)
(***************************************************************************)
EXTENDS ZebraTrans, TLAPS

\* How the transaction counters go with the program counter.
CountInv ==
    \A k \in Handles :
        /\ transWNo[k] # 0 => transNo[k] # 0
        /\ pc[k] \in BeginPcs => transWNo[k] # 0
        /\ pc[k] \in EndPcs \cup ReadPcs \cup InitPcs => transWNo[k] = 0
        /\ pc[k] \in ReadPcs => transNo[k] # 0
        /\ leaked[k] <= transNo[k]
        /\ transWNo[k] # 0 \/ pc[k] # Ready => leaked[k] = 0

\* The locks that each point of the program holds, and does not hold.
NoLockPcs == {"r_lock", "w_lock1", "w_relock1", "c_lock1", "c_cleanlock"}
                 \cup InitPcs
UpdatePcs == {"w_state", "w_trunc", "w_set", "w_open", "w_list"} \cup EndPcs
CommittingPcs == {"c_state", "c_trunc", "c_set", "c_copy", "c_otrunc",
                  "c_oset"}
HeldInv ==
    \A k \in Handles :
        /\ \/ pc[k] \in NoLockPcs
           \/ pc[k] = Ready /\ transNo[k] = 0
           => lockNormal[k] = "free" /\ lockShadow[k] = "free"
        /\ pc[k] \in {"w_lock2", "w_relock2"}
           => lockNormal[k] # "free" /\ lockShadow[k] = "free"
        /\ \/ pc[k] \in UpdatePcs
           \/ pc[k] = Ready /\ transWNo[k] # 0
           => lockNormal[k] # "free" /\ lockShadow[k] = "w"
        /\ pc[k] = "c_lock2"
           => lockNormal[k] = "w" /\ lockShadow[k] = "free"
        /\ pc[k] \in CommittingPcs
           => lockNormal[k] = "w" /\ lockShadow[k] = "r"
        /\ pc[k] = "c_clean"
           => lockNormal[k] = "free" /\ lockShadow[k] = "w"

\* Mutual exclusion of the two lock files.
Exclusive(lock) ==
    \A h, k \in Handles : h # k /\ lock[h] = "w" => lock[k] = "free"
LockInv == Exclusive(lockNormal) /\ Exclusive(lockShadow)

IInv == TypeOK /\ CountInv /\ HeldInv /\ LockInv

-----------------------------------------------------------------------------
\* The type invariant.

\* Reading through the shadow area yields contents of the right type.
LEMMA OverlayType == FilesOK => Overlay \in Contents
  <1> SUFFICES ASSUME FilesOK PROVE Overlay \in [Files -> Nat]
    BY DEF Contents
  <1>1. \A f \in Files :
           (IF shadow[f] >= 0 THEN shadow[f] ELSE register[f]) \in Nat
    BY DEF FilesOK, Contents, Absent, Blank
  <1> QED BY <1>1 DEF Overlay

\* Every step keeps the types.
LEMMA TypeStep == TypeOK /\ CountInv /\ [Next]_vars => TypeOK'
  <1> SUFFICES ASSUME TypeOK /\ CountInv /\ [Next]_vars PROVE TypeOK'
    OBVIOUS
  <1> USE DEF TypeOK, SameConf, FilesOK, LocksOK, TransOK, SeenOK, WorkOK,
     RegOK, GhostOK, StateFile, LockModes, RegTypes, Contents, Absent, Blank,
     fileVars, lockVars, transVars, commitVars, openVars, beganVars, regVars, ghostVars,
     Budget, Ready, BeginPcs, EndPcs, ReadPcs, CommitPcs, InitPcs
  <1>1. ASSUME NEW h \in Handles, SameConf, BeginWriteNested(h) PROVE TypeOK'
    BY <1>1 DEF BeginWriteNested, Call
  <1>2. ASSUME NEW h \in Handles, SameConf, BeginWriteInRead(h) PROVE TypeOK'
    BY <1>2 DEF BeginWriteInRead, Call
  <1>3. ASSUME NEW h \in Handles, NEW sh \in BOOLEAN, SameConf, BeginWrite(h,
     sh) PROVE TypeOK'
    <2>1. FilesOK' /\ LocksOK' /\ SeenOK' /\ WorkOK' /\ (conf \in Setups)'
      BY <1>3 DEF BeginWrite
    <2>2. TransOK'
      BY <1>3 DEF BeginWrite
    <2>3. RegOK'
      BY <1>3 DEF BeginWrite, NoReg, FreedReg, NoView
    <2>4. GhostOK'
      BY <1>3 DEF BeginWrite, Call
    <2>5. (pc \in [Handles -> PCs])'
      BY <1>3 DEF BeginWrite, Goto, PCs
    <2> QED BY <2>1, <2>2, <2>3, <2>4, <2>5
  <1>4. ASSUME NEW h \in Handles, SameConf, LockNormalForUpdate(h) PROVE
     TypeOK'
    BY <1>4 DEF LockNormalForUpdate, Goto, UpdateMode, PCs
  <1>5. ASSUME NEW h \in Handles, SameConf, LockShadowForUpdate(h) PROVE
     TypeOK'
    BY <1>5 DEF LockShadowForUpdate, Goto, PCs
  <1>6. ASSUME NEW h \in Handles, SameConf, ReadStateForUpdate(h) PROVE
     TypeOK'
    <2>1. FilesOK' /\ TransOK' /\ WorkOK' /\ RegOK' /\ GhostOK' /\ (conf \in
       Setups)'
      BY <1>6 DEF ReadStateForUpdate
    <2>2. LocksOK'
      BY <1>6, ZenonT(40) DEF ReadStateForUpdate, UnlockBoth
    <2>3. SeenOK'
      BY <1>6 DEF ReadStateForUpdate, GetState
    <2>4. (pc \in [Handles -> PCs])'
      BY <1>6 DEF ReadStateForUpdate, Goto, PCs
    <2> QED BY <2>1, <2>2, <2>3, <2>4
  <1>7. ASSUME NEW h \in Handles, SameConf, TruncateState(h) PROVE TypeOK'
    BY <1>7 DEF TruncateState, Goto, Truncated, PCs
  <1>8. ASSUME NEW h \in Handles, SameConf, WriteStateDirty(h) PROVE TypeOK'
    BY <1>8 DEF WriteStateDirty, Goto, PCs
  <1>9. ASSUME NEW h \in Handles, NEW f \in Files, SameConf, OpenFile(h, f)
     PROVE TypeOK'
    BY <1>9 DEF OpenFile
  <1>10. ASSUME NEW h \in Handles, NEW f \in Files, SameConf, OpenNewFile(h,
     f) PROVE TypeOK'
    BY <1>10 DEF OpenNewFile, Goto, PCs
  <1>11. ASSUME NEW h \in Handles, SameConf, ListFile(h) PROVE TypeOK'
    BY <1>11 DEF ListFile, Goto, PCs
  <1>12. ASSUME NEW h \in Handles, SameConf, RegisterOpened(h) PROVE TypeOK'
    BY <1>12 DEF RegisterOpened, Goto, PCs
  <1>13. ASSUME NEW h \in Handles, SameConf, RegisterOpenFails(h) PROVE
     TypeOK'
    <2>1. FilesOK' /\ SeenOK' /\ (conf \in Setups)'
      BY <1>13 DEF RegisterOpenFails
    <2>2. LocksOK'
      BY <1>13 DEF RegisterOpenFails, UnlockBoth
    <2>3. TransOK'
      <3>1. transNo[h] \in Nat \ {0}
        BY <1>13 DEF RegisterOpenFails, CountInv
      <3>2. transNo[h] - 1 \in Nat
        BY <3>1
      <3> QED BY <1>13, <3>2 DEF RegisterOpenFails
    <2>4. WorkOK'
      BY <1>13 DEF RegisterOpenFails
    <2>5. RegOK'
      BY <1>13 DEF RegisterOpenFails, NoReg
    <2>6. GhostOK'
      BY <1>13 DEF RegisterOpenFails, Call
    <2>7. (pc \in [Handles -> PCs])'
      BY <1>13 DEF RegisterOpenFails, Goto, PCs
    <2> QED BY <2>1, <2>2, <2>3, <2>4, <2>5, <2>6, <2>7
  <1>14. ASSUME NEW h \in Handles, NEW f \in Files, SameConf, UpdateShadow(h,
     f) PROVE TypeOK'
    BY <1>14 DEF UpdateShadow
  <1>15. ASSUME NEW h \in Handles, NEW f \in Files, SameConf,
     UpdateRegister(h, f) PROVE TypeOK'
    BY <1>15 DEF UpdateRegister
  <1>16. ASSUME NEW h \in Handles, SameConf, EndNested(h) PROVE TypeOK'
    BY <1>16 DEF EndNested
  <1>17. ASSUME NEW h \in Handles, SameConf, EndRead(h) PROVE TypeOK'
    BY <1>17 DEF EndRead, UnlockBoth
  <1>18. ASSUME NEW h \in Handles, SameConf, EndWrite(h) PROVE TypeOK'
    BY <1>18, OverlayType DEF EndWrite, Goto, NoReg, PCs
  <1>19. ASSUME NEW h \in Handles, SameConf, ReadStateAtEnd(h) PROVE TypeOK'
    BY <1>19 DEF ReadStateAtEnd, Goto, GetState, ShadowUnusable, PCs
  <1>20. ASSUME NEW h \in Handles, SameConf, WriteStateAtEnd(h) PROVE TypeOK'
    BY <1>20, OverlayType DEF WriteStateAtEnd, Goto, UnlockBoth, SeqnoStep,
       PCs
  <1>21. ASSUME NEW h \in Handles, SameConf, Commit(h) PROVE TypeOK'
    BY <1>21 DEF Commit, Goto, Call, PCs
  <1>22. ASSUME NEW h \in Handles, SameConf, Clean(h) PROVE TypeOK'
    BY <1>22 DEF Clean, Goto, Call, PCs
  <1>23. ASSUME NEW h \in Handles, SameConf, LockNormalForCommit(h) PROVE
     TypeOK'
    <2>1. FilesOK' /\ TransOK' /\ SeenOK' /\ WorkOK' /\ RegOK' /\ GhostOK' /\
       (conf \in Setups)'
      BY <1>23 DEF LockNormalForCommit
    <2>2. LocksOK'
      BY <1>23, ZenonT(40) DEF LockNormalForCommit
    <2>3. (pc \in [Handles -> PCs])'
      BY <1>23 DEF LockNormalForCommit, Goto, ReturnPc, InBegin, PCs
    <2> QED BY <2>1, <2>2, <2>3
  <1>24. ASSUME NEW h \in Handles, SameConf, LockShadowForCommit(h) PROVE
     TypeOK'
    BY <1>24 DEF LockShadowForCommit, Goto, PCs
  <1>25. ASSUME NEW h \in Handles, SameConf, ReadStateForCommit(h) PROVE
     TypeOK'
    <2>1. FilesOK' /\ TransOK' /\ RegOK' /\ GhostOK' /\ (conf \in Setups)'
      BY <1>25 DEF ReadStateForCommit
    <2>2. LocksOK'
      BY <1>25, ZenonT(40) DEF ReadStateForCommit, UnlockBoth
    <2>3. SeenOK'
      BY <1>25 DEF ReadStateForCommit, GetState, MustClean
    <2>4. WorkOK'
      BY <1>25 DEF ReadStateForCommit
    <2>5. (pc \in [Handles -> PCs])'
      BY <1>25 DEF ReadStateForCommit, Goto, ReturnPc, InBegin, PCs
    <2> QED BY <2>1, <2>2, <2>3, <2>4, <2>5
  <1>26. ASSUME NEW h \in Handles, SameConf, WriteStateCommit(h) PROVE TypeOK'
    BY <1>26 DEF WriteStateCommit, Goto, PCs
  <1>27. ASSUME NEW h \in Handles, NEW f \in Files, SameConf, CopyFile(h, f)
     PROVE TypeOK'
    BY <1>27, OverlayType DEF CopyFile
  <1>28. ASSUME NEW h \in Handles, SameConf, CopyDone(h) PROVE TypeOK'
    BY <1>28 DEF CopyDone, Goto, PCs
  <1>29. ASSUME NEW h \in Handles, SameConf, CommitFails(h) PROVE TypeOK'
    BY <1>29 DEF CommitFails, Goto, Call, UnlockBoth, PCs
  <1>30. ASSUME NEW h \in Handles, SameConf, WriteStateOnline(h) PROVE TypeOK'
    BY <1>30, OverlayType DEF WriteStateOnline, Goto, UnlockBoth, PCs
  <1>31. ASSUME NEW h \in Handles, SameConf, LockShadowForClean(h) PROVE
     TypeOK'
    BY <1>31 DEF LockShadowForClean, Goto, PCs
  <1>32. ASSUME NEW h \in Handles, NEW f \in Files, SameConf, CleanFile(h, f)
     PROVE TypeOK'
    BY <1>32 DEF CleanFile
  <1>33. ASSUME NEW h \in Handles, SameConf, CleanDone(h) PROVE TypeOK'
    BY <1>33 DEF CleanDone, Goto, ReturnPc, InBegin, PCs
  <1>34. ASSUME NEW h \in Handles, SameConf, InitRegister(h) PROVE TypeOK'
    BY <1>34 DEF InitRegister, Goto, Call, PCs
  <1>35. ASSUME NEW h \in Handles, NEW f \in Files, SameConf, ResetShadowFile(h, f)
     PROVE TypeOK'
    BY <1>35 DEF ResetShadowFile
  <1>47. ASSUME NEW h \in Handles, SameConf, ShadowReset(h)
     PROVE TypeOK'
    BY <1>47 DEF ShadowReset, Goto, PCs
  <1>48. ASSUME NEW h \in Handles, NEW f \in Files, SameConf, ResetRegisterFile(h, f)
     PROVE TypeOK'
    BY <1>48 DEF ResetRegisterFile
  <1>49. ASSUME NEW h \in Handles, SameConf, ResetCache(h)
     PROVE TypeOK'
    BY <1>49 DEF ResetCache, Goto, PCs
  <1>36. ASSUME NEW h \in Handles, SameConf, WriteStateInit(h) PROVE TypeOK'
    BY <1>36 DEF WriteStateInit, Goto, NoState, PCs
  <1>37. ASSUME NEW h \in Handles, SameConf, BeginReadNested(h) PROVE TypeOK'
    BY <1>37 DEF BeginReadNested, Call
  <1>38. ASSUME NEW h \in Handles, SameConf, BeginReadClean(h) PROVE TypeOK'
    BY <1>38 DEF BeginReadClean, Call
  <1>39. ASSUME NEW h \in Handles, SameConf, BeginReadDirty(h) PROVE TypeOK'
    <2>1. FilesOK' /\ LocksOK' /\ WorkOK' /\ (conf \in Setups)'
      BY <1>39 DEF BeginReadDirty
    <2>2. TransOK'
      BY <1>39 DEF BeginReadDirty
    <2>3. SeenOK'
      BY <1>39 DEF BeginReadDirty, SeenByReader, GetState
    <2>4. RegOK'
      BY <1>39 DEF BeginReadDirty
    <2>5. GhostOK'
      BY <1>39 DEF BeginReadDirty, Call
    <2>6. (pc \in [Handles -> PCs])'
      BY <1>39 DEF BeginReadDirty, Goto, PCs
    <2> QED BY <2>1, <2>2, <2>3, <2>4, <2>5, <2>6
  <1>40. ASSUME NEW h \in Handles, SameConf, LockForRead(h) PROVE TypeOK'
    <2>1. FilesOK' /\ TransOK' /\ SeenOK' /\ WorkOK' /\ RegOK' /\ GhostOK' /\
       (conf \in Setups)'
      BY <1>40 DEF LockForRead
    <2>2. LocksOK'
      BY <1>40, ZenonT(40) DEF LockForRead
    <2>3. (pc \in [Handles -> PCs])'
      BY <1>40 DEF LockForRead, Goto, PCs
    <2> QED BY <2>1, <2>2, <2>3
  <1>41. ASSUME NEW h \in Handles, SameConf, RegisterOpenedForRead(h) PROVE
     TypeOK'
    BY <1>41 DEF RegisterOpenedForRead, Goto, NoView, PCs
  <1>42. ASSUME NEW h \in Handles, SameConf, RegisterOpenForReadFails(h) PROVE
     TypeOK'
    BY <1>42 DEF RegisterOpenForReadFails, Goto, Call, UnlockBoth, NoReg,
       NoView, PCs
  <1>43. ASSUME NEW h \in Handles, NEW f \in Files, SameConf, ReadFile(h, f)
     PROVE TypeOK'
    BY <1>43, OverlayType DEF ReadFile
  <1>44. ASSUME NEW h \in Handles, SameConf, Crash(h) PROVE TypeOK'
    BY <1>44 DEF Crash, Goto, Call, UnlockBoth, NoReg, NoView, PCs
  <1>45. ASSUME NEW h \in Handles, SameConf, CloseHandle(h) PROVE TypeOK'
    BY <1>45 DEF CloseHandle, UnlockBoth, NoReg, NoView
  <1>46. CASE UNCHANGED vars
    BY <1>46 DEF vars
  <1> HIDE DEF TypeOK, CountInv, HeldInv, LockInv
  <1> QED
    BY <1>1, <1>2, <1>3, <1>4, <1>5, <1>6, <1>7, <1>8, <1>9, <1>10, <1>11,
       <1>12, <1>13, <1>14, <1>15, <1>16, <1>17, <1>18, <1>19, <1>20, <1>21,
       <1>22, <1>23, <1>24, <1>25, <1>26, <1>27, <1>28, <1>29, <1>30, <1>31,
       <1>32, <1>33, <1>34, <1>35, <1>36, <1>37, <1>38, <1>39, <1>40, <1>41,
       <1>42, <1>43, <1>44, <1>45, <1>46, <1>47, <1>48, <1>49
       DEF Next, AdminNext, ReaderNext, UpdateStep, CommitStep, ReadStep,
          InitStep, EndTrans, Handles

\* Every step keeps the counters, the locks held and the program counter in
\* step, and the locks exclusive.
LEMMA LockStep == IInv /\ [Next]_vars => CountInv' /\ HeldInv' /\ LockInv'
  <1> SUFFICES ASSUME IInv /\ [Next]_vars PROVE CountInv' /\ HeldInv' /\
     LockInv'
    OBVIOUS
  <1> USE DEF IInv, TypeOK, TransOK, LocksOK, LockModes, CountInv, HeldInv,
     LockInv, Exclusive, NoLockPcs, UpdatePcs, CommittingPcs, fileVars,
     lockVars, transVars, commitVars, openVars, beganVars, regVars, ghostVars, PCs,
     Ready, BeginPcs, EndPcs, ReadPcs, CommitPcs, InitPcs
  <1>1. ASSUME NEW h \in Handles, BeginWriteNested(h) PROVE CountInv' /\
     HeldInv' /\ LockInv'
    BY <1>1 DEF BeginWriteNested
  <1>2. ASSUME NEW h \in Handles, BeginWriteInRead(h) PROVE CountInv' /\
     HeldInv' /\ LockInv'
    BY <1>2 DEF BeginWriteInRead
  <1>3. ASSUME NEW h \in Handles, NEW sh \in BOOLEAN, BeginWrite(h, sh) PROVE
     CountInv' /\ HeldInv' /\ LockInv'
    BY <1>3 DEF BeginWrite, Goto
  <1>4. ASSUME NEW h \in Handles, LockNormalForUpdate(h) PROVE CountInv' /\
     HeldInv' /\ LockInv'
    BY <1>4 DEF LockNormalForUpdate, Goto, CanLock, UpdateMode
  <1>5. ASSUME NEW h \in Handles, LockShadowForUpdate(h) PROVE CountInv' /\
     HeldInv' /\ LockInv'
    BY <1>5 DEF LockShadowForUpdate, Goto, CanLock
  <1>6. ASSUME NEW h \in Handles, ReadStateForUpdate(h) PROVE CountInv' /\
     HeldInv' /\ LockInv'
    BY <1>6 DEF ReadStateForUpdate, Goto, UnlockBoth
  <1>7. ASSUME NEW h \in Handles, TruncateState(h) PROVE CountInv' /\ HeldInv'
     /\ LockInv'
    BY <1>7 DEF TruncateState, Goto
  <1>8. ASSUME NEW h \in Handles, WriteStateDirty(h) PROVE CountInv' /\
     HeldInv' /\ LockInv'
    BY <1>8 DEF WriteStateDirty, Goto
  <1>9. ASSUME NEW h \in Handles, NEW f \in Files, OpenFile(h, f) PROVE
     CountInv' /\ HeldInv' /\ LockInv'
    BY <1>9 DEF OpenFile
  <1>10. ASSUME NEW h \in Handles, NEW f \in Files, OpenNewFile(h, f) PROVE
     CountInv' /\ HeldInv' /\ LockInv'
    BY <1>10 DEF OpenNewFile, Goto
  <1>11. ASSUME NEW h \in Handles, ListFile(h) PROVE CountInv' /\ HeldInv' /\
     LockInv'
    BY <1>11 DEF ListFile, Goto
  <1>12. ASSUME NEW h \in Handles, RegisterOpened(h) PROVE CountInv' /\
     HeldInv' /\ LockInv'
    BY <1>12 DEF RegisterOpened, Goto
  <1>13. ASSUME NEW h \in Handles, RegisterOpenFails(h) PROVE CountInv' /\
     HeldInv' /\ LockInv'
    BY <1>13 DEF RegisterOpenFails, Goto, UnlockBoth
  <1>14. ASSUME NEW h \in Handles, NEW f \in Files, UpdateShadow(h, f) PROVE
     CountInv' /\ HeldInv' /\ LockInv'
    BY <1>14 DEF UpdateShadow
  <1>15. ASSUME NEW h \in Handles, NEW f \in Files, UpdateRegister(h, f) PROVE
     CountInv' /\ HeldInv' /\ LockInv'
    BY <1>15 DEF UpdateRegister
  <1>16. ASSUME NEW h \in Handles, transNo[h] > leaked[h], EndNested(h)
     PROVE CountInv' /\ HeldInv' /\ LockInv'
    BY <1>16 DEF EndNested
  <1>17. ASSUME NEW h \in Handles, transNo[h] > leaked[h], EndRead(h)
     PROVE CountInv' /\ HeldInv' /\
     LockInv'
    BY <1>17 DEF EndRead, UnlockBoth
  <1>18. ASSUME NEW h \in Handles, EndWrite(h) PROVE CountInv' /\ HeldInv' /\
     LockInv'
    BY <1>18 DEF EndWrite, Goto
  <1>19. ASSUME NEW h \in Handles, ReadStateAtEnd(h) PROVE CountInv' /\
     HeldInv' /\ LockInv'
    BY <1>19 DEF ReadStateAtEnd, Goto
  <1>20. ASSUME NEW h \in Handles, WriteStateAtEnd(h) PROVE CountInv' /\
     HeldInv' /\ LockInv'
    BY <1>20 DEF WriteStateAtEnd, Goto, UnlockBoth
  <1>21. ASSUME NEW h \in Handles, Commit(h) PROVE CountInv' /\ HeldInv' /\
     LockInv'
    BY <1>21 DEF Commit, Goto
  <1>22. ASSUME NEW h \in Handles, Clean(h) PROVE CountInv' /\ HeldInv' /\
     LockInv'
    BY <1>22 DEF Clean, Goto
  <1>23. ASSUME NEW h \in Handles, LockNormalForCommit(h) PROVE CountInv' /\
     HeldInv' /\ LockInv'
    BY <1>23 DEF LockNormalForCommit, Goto, ReturnPc, InBegin, CanLock
  <1>24. ASSUME NEW h \in Handles, LockShadowForCommit(h) PROVE CountInv' /\
     HeldInv' /\ LockInv'
    BY <1>24 DEF LockShadowForCommit, Goto, CanLock
  <1>25. ASSUME NEW h \in Handles, ReadStateForCommit(h) PROVE CountInv' /\
     HeldInv' /\ LockInv'
    BY <1>25 DEF ReadStateForCommit, Goto, UnlockBoth, ReturnPc, InBegin
  <1>26. ASSUME NEW h \in Handles, WriteStateCommit(h) PROVE CountInv' /\
     HeldInv' /\ LockInv'
    BY <1>26 DEF WriteStateCommit, Goto
  <1>27. ASSUME NEW h \in Handles, NEW f \in Files, CopyFile(h, f) PROVE
     CountInv' /\ HeldInv' /\ LockInv'
    BY <1>27 DEF CopyFile
  <1>28. ASSUME NEW h \in Handles, CopyDone(h) PROVE CountInv' /\ HeldInv' /\
     LockInv'
    BY <1>28 DEF CopyDone, Goto
  <1>29. ASSUME NEW h \in Handles, CommitFails(h) PROVE CountInv' /\ HeldInv'
     /\ LockInv'
    BY <1>29 DEF CommitFails, Goto, UnlockBoth
  <1>30. ASSUME NEW h \in Handles, WriteStateOnline(h) PROVE CountInv' /\
     HeldInv' /\ LockInv'
    BY <1>30 DEF WriteStateOnline, Goto, UnlockBoth
  <1>31. ASSUME NEW h \in Handles, LockShadowForClean(h) PROVE CountInv' /\
     HeldInv' /\ LockInv'
    BY <1>31 DEF LockShadowForClean, Goto, CanLock
  <1>32. ASSUME NEW h \in Handles, NEW f \in Files, CleanFile(h, f) PROVE
     CountInv' /\ HeldInv' /\ LockInv'
    BY <1>32 DEF CleanFile
  <1>33. ASSUME NEW h \in Handles, CleanDone(h) PROVE CountInv' /\ HeldInv' /\
     LockInv'
    BY <1>33 DEF CleanDone, Goto, ReturnPc, InBegin
  <1>34. ASSUME NEW h \in Handles, InitRegister(h) PROVE CountInv' /\ HeldInv'
     /\ LockInv'
    BY <1>34 DEF InitRegister, Goto
  <1>35. ASSUME NEW h \in Handles, NEW f \in Files, ResetShadowFile(h, f)
     PROVE CountInv' /\ HeldInv' /\ LockInv'
    BY <1>35 DEF ResetShadowFile
  <1>47. ASSUME NEW h \in Handles, ShadowReset(h)
     PROVE CountInv' /\ HeldInv' /\ LockInv'
    BY <1>47 DEF ShadowReset, Goto
  <1>48. ASSUME NEW h \in Handles, NEW f \in Files, ResetRegisterFile(h, f)
     PROVE CountInv' /\ HeldInv' /\ LockInv'
    BY <1>48 DEF ResetRegisterFile
  <1>49. ASSUME NEW h \in Handles, ResetCache(h)
     PROVE CountInv' /\ HeldInv' /\ LockInv'
    BY <1>49 DEF ResetCache, Goto
  <1>36. ASSUME NEW h \in Handles, WriteStateInit(h) PROVE CountInv' /\
     HeldInv' /\ LockInv'
    BY <1>36 DEF WriteStateInit, Goto
  <1>37. ASSUME NEW h \in Handles, BeginReadNested(h) PROVE CountInv' /\
     HeldInv' /\ LockInv'
    BY <1>37 DEF BeginReadNested
  <1>38. ASSUME NEW h \in Handles, BeginReadClean(h) PROVE CountInv' /\
     HeldInv' /\ LockInv'
    BY <1>38 DEF BeginReadClean
  <1>39. ASSUME NEW h \in Handles, BeginReadDirty(h) PROVE CountInv' /\
     HeldInv' /\ LockInv'
    BY <1>39 DEF BeginReadDirty, Goto
  <1>40. ASSUME NEW h \in Handles, LockForRead(h) PROVE CountInv' /\ HeldInv'
     /\ LockInv'
    BY <1>40 DEF LockForRead, Goto, CanLock
  <1>41. ASSUME NEW h \in Handles, RegisterOpenedForRead(h) PROVE CountInv' /\
     HeldInv' /\ LockInv'
    BY <1>41 DEF RegisterOpenedForRead, Goto
  <1>42. ASSUME NEW h \in Handles, RegisterOpenForReadFails(h) PROVE CountInv'
     /\ HeldInv' /\ LockInv'
    BY <1>42 DEF RegisterOpenForReadFails, Goto, UnlockBoth
  <1>43. ASSUME NEW h \in Handles, NEW f \in Files, ReadFile(h, f) PROVE
     CountInv' /\ HeldInv' /\ LockInv'
    BY <1>43 DEF ReadFile
  <1>44. ASSUME NEW h \in Handles, Crash(h) PROVE CountInv' /\ HeldInv' /\
     LockInv'
    BY <1>44 DEF Crash, Goto, UnlockBoth
  <1>45. ASSUME NEW h \in Handles, CloseHandle(h) PROVE CountInv' /\ HeldInv'
     /\ LockInv'
    BY <1>45 DEF CloseHandle, UnlockBoth
  <1>46. CASE UNCHANGED vars
    BY <1>46 DEF vars
  <1> HIDE DEF TypeOK, CountInv, HeldInv, LockInv
  <1> QED
    BY <1>1, <1>2, <1>3, <1>4, <1>5, <1>6, <1>7, <1>8, <1>9, <1>10, <1>11,
       <1>12, <1>13, <1>14, <1>15, <1>16, <1>17, <1>18, <1>19, <1>20, <1>21,
       <1>22, <1>23, <1>24, <1>25, <1>26, <1>27, <1>28, <1>29, <1>30, <1>31,
       <1>32, <1>33, <1>34, <1>35, <1>36, <1>37, <1>38, <1>39, <1>40, <1>41,
       <1>42, <1>43, <1>44, <1>45, <1>46, <1>47, <1>48, <1>49
       DEF Next, AdminNext, ReaderNext, UpdateStep, CommitStep, ReadStep,
          InitStep, EndTrans, Handles

\* IInv is an inductive invariant.
THEOREM Invariance == Spec => []IInv
  <1>1. Init => IInv
    BY ConstantsAssumption
    DEF Init, IInv, TypeOK, FilesOK, LocksOK, TransOK, SeenOK, WorkOK, RegOK,
        GhostOK, StateFile, LockModes, RegTypes, Contents, Absent, Blank,
        NoState, NoReg, NoView, PCs, Ready, BeginPcs, EndPcs, ReadPcs,
        CommitPcs, InitPcs, CountInv, HeldInv, LockInv, Exclusive, NoLockPcs,
        UpdatePcs, CommittingPcs
  <1>2. IInv /\ [Next]_vars => IInv'
    BY TypeStep, LockStep DEF IInv
  <1> QED BY <1>1, <1>2, PTL DEF Spec

-----------------------------------------------------------------------------
\* The theorems.

\* Spec keeps the types of its variables.
THEOREM TypeCorrect == Spec => []TypeOK
  <1>1. IInv => TypeOK
    BY DEF IInv
  <1> QED BY <1>1, Invariance, PTL

\* Two owners of the state file would hold conflicting locks.
LEMMA OwnersConflict == IInv => OneOwner
  <1> SUFFICES ASSUME IInv, NEW h \in Admins, NEW k \in Admins,
                      Owner(h), Owner(k), h # k
               PROVE  FALSE
    BY DEF OneOwner
  <1> USE DEF IInv, HeldInv, LockInv, Exclusive, Handles, Ready
  <1>1. ASSUME NEW j \in Admins, Owner(j)
        PROVE  \/ lockNormal[j] # "free" /\ lockShadow[j] = "w"
               \/ lockNormal[j] = "w" /\ lockShadow[j] = "r"
    BY <1>1 DEF Owner, Updating, UpdatePcs, CommittingPcs, EndPcs
  <1> QED BY <1>1

\* At most one process is between reading the state file and writing it,
\* wherever and however often processes are killed or calls fail.
THEOREM OneOwnerAlways == Spec => []OneOwner
  BY OwnersConflict, Invariance, PTL

\* No call leaves a lock behind outside of transactions.
THEOREM LocksReleasedAlways == Spec => []LocksReleased
  <1>1. IInv => LocksReleased
    BY DEF IInv, HeldInv, LocksReleased, HoldsLock
  <1> QED BY <1>1, Invariance, PTL

-----------------------------------------------------------------------------
\* No process is in zebra_init.
NoInit == \A k \in Handles : pc[k] \notin InitPcs
DirtyInv == NoInit /\ DirtyWhileUpdating

\* Every step keeps the state 'd' while an update has the register open.
LEMMA DirtyStep ==
    ASSUME MaxCalls["init"] = 0, IInv, OneOwner, DirtyInv, [Next]_vars
    PROVE  DirtyInv'
  <1> USE DEF IInv, TypeOK, FilesOK, TransOK, CountInv, DirtyInv,
     DirtyWhileUpdating, NoInit, Updating, fileVars, lockVars, transVars,
     commitVars, openVars, beganVars, regVars, ghostVars, PCs, Ready, BeginPcs, EndPcs,
     ReadPcs, CommitPcs, InitPcs
  <1>1. ASSUME NEW h \in Handles, BeginWriteNested(h) PROVE DirtyInv'
    BY <1>1 DEF BeginWriteNested
  <1>2. ASSUME NEW h \in Handles, BeginWriteInRead(h) PROVE DirtyInv'
    BY <1>2 DEF BeginWriteInRead
  <1>3. ASSUME NEW h \in Handles, NEW sh \in BOOLEAN, BeginWrite(h, sh) PROVE
     DirtyInv'
    BY <1>3 DEF BeginWrite, Goto
  <1>4. ASSUME NEW h \in Handles, LockNormalForUpdate(h) PROVE DirtyInv'
    BY <1>4 DEF LockNormalForUpdate, Goto
  <1>5. ASSUME NEW h \in Handles, LockShadowForUpdate(h) PROVE DirtyInv'
    BY <1>5 DEF LockShadowForUpdate, Goto
  <1>6. ASSUME NEW h \in Handles, ReadStateForUpdate(h) PROVE DirtyInv'
    BY <1>6 DEF ReadStateForUpdate, Goto
  <1>7. ASSUME NEW h \in Admins, TruncateState(h) PROVE DirtyInv'
    BY <1>7 DEF TruncateState, Goto, OneOwner, Owner, Handles
  <1>8. ASSUME NEW h \in Admins, WriteStateDirty(h) PROVE DirtyInv'
    BY <1>8 DEF WriteStateDirty, Goto, OneOwner, Owner, Handles
  <1>9. ASSUME NEW h \in Handles, NEW f \in Files, OpenFile(h, f) PROVE
     DirtyInv'
    BY <1>9 DEF OpenFile
  <1>10. ASSUME NEW h \in Handles, NEW f \in Files, OpenNewFile(h, f) PROVE
     DirtyInv'
    BY <1>10 DEF OpenNewFile, Goto
  <1>11. ASSUME NEW h \in Handles, ListFile(h) PROVE DirtyInv'
    BY <1>11 DEF ListFile, Goto
  <1>12. ASSUME NEW h \in Handles, RegisterOpened(h) PROVE DirtyInv'
    BY <1>12 DEF RegisterOpened, Goto
  <1>13. ASSUME NEW h \in Handles, RegisterOpenFails(h) PROVE DirtyInv'
    BY <1>13 DEF RegisterOpenFails, Goto
  <1>14. ASSUME NEW h \in Handles, NEW f \in Files, UpdateShadow(h, f) PROVE
     DirtyInv'
    BY <1>14 DEF UpdateShadow
  <1>15. ASSUME NEW h \in Handles, NEW f \in Files, UpdateRegister(h, f) PROVE
     DirtyInv'
    BY <1>15 DEF UpdateRegister
  <1>16. ASSUME NEW h \in Handles, EndNested(h) PROVE DirtyInv'
    BY <1>16 DEF EndNested
  <1>17. ASSUME NEW h \in Handles, EndRead(h) PROVE DirtyInv'
    BY <1>17 DEF EndRead
  <1>18. ASSUME NEW h \in Handles, EndWrite(h) PROVE DirtyInv'
    BY <1>18 DEF EndWrite, Goto
  <1>19. ASSUME NEW h \in Handles, ReadStateAtEnd(h) PROVE DirtyInv'
    BY <1>19 DEF ReadStateAtEnd, Goto
  <1>20. ASSUME NEW h \in Admins, WriteStateAtEnd(h) PROVE DirtyInv'
    BY <1>20 DEF WriteStateAtEnd, Goto, OneOwner, Owner, Handles
  <1>21. ASSUME NEW h \in Handles, Commit(h) PROVE DirtyInv'
    BY <1>21 DEF Commit, Goto
  <1>22. ASSUME NEW h \in Handles, Clean(h) PROVE DirtyInv'
    BY <1>22 DEF Clean, Goto
  <1>23. ASSUME NEW h \in Handles, LockNormalForCommit(h) PROVE DirtyInv'
    BY <1>23 DEF LockNormalForCommit, Goto, ReturnPc, InBegin
  <1>24. ASSUME NEW h \in Handles, LockShadowForCommit(h) PROVE DirtyInv'
    BY <1>24 DEF LockShadowForCommit, Goto
  <1>25. ASSUME NEW h \in Handles, ReadStateForCommit(h) PROVE DirtyInv'
    BY <1>25 DEF ReadStateForCommit, Goto, ReturnPc, InBegin
  <1>26. ASSUME NEW h \in Admins, WriteStateCommit(h) PROVE DirtyInv'
    BY <1>26 DEF WriteStateCommit, Goto, OneOwner, Owner, Handles
  <1>27. ASSUME NEW h \in Handles, NEW f \in Files, CopyFile(h, f) PROVE
     DirtyInv'
    BY <1>27 DEF CopyFile
  <1>28. ASSUME NEW h \in Handles, CopyDone(h) PROVE DirtyInv'
    BY <1>28 DEF CopyDone, Goto
  <1>29. ASSUME NEW h \in Handles, CommitFails(h) PROVE DirtyInv'
    BY <1>29 DEF CommitFails, Goto
  <1>30. ASSUME NEW h \in Admins, WriteStateOnline(h) PROVE DirtyInv'
    BY <1>30 DEF WriteStateOnline, Goto, OneOwner, Owner, Handles
  <1>31. ASSUME NEW h \in Handles, LockShadowForClean(h) PROVE DirtyInv'
    BY <1>31 DEF LockShadowForClean, Goto
  <1>32. ASSUME NEW h \in Handles, NEW f \in Files, CleanFile(h, f) PROVE
     DirtyInv'
    BY <1>32 DEF CleanFile
  <1>33. ASSUME NEW h \in Handles, CleanDone(h) PROVE DirtyInv'
    BY <1>33 DEF CleanDone, Goto, ReturnPc, InBegin
  <1>34. ASSUME NEW h \in Handles, InitRegister(h) PROVE DirtyInv'
    BY <1>34 DEF InitRegister, Goto, Call, GhostOK, Budget
  <1>35. ASSUME NEW h \in Handles, NEW f \in Files, ResetShadowFile(h, f)
     PROVE DirtyInv'
    BY <1>35 DEF ResetShadowFile
  <1>47. ASSUME NEW h \in Handles, ShadowReset(h)
     PROVE DirtyInv'
    BY <1>47 DEF ShadowReset, Goto
  <1>48. ASSUME NEW h \in Handles, NEW f \in Files, ResetRegisterFile(h, f)
     PROVE DirtyInv'
    BY <1>48 DEF ResetRegisterFile
  <1>49. ASSUME NEW h \in Handles, ResetCache(h)
     PROVE DirtyInv'
    BY <1>49 DEF ResetCache, Goto
  <1>36. ASSUME NEW h \in Handles, WriteStateInit(h) PROVE DirtyInv'
    BY <1>36 DEF WriteStateInit, Goto
  <1>37. ASSUME NEW h \in Handles, BeginReadNested(h) PROVE DirtyInv'
    BY <1>37 DEF BeginReadNested
  <1>38. ASSUME NEW h \in Handles, BeginReadClean(h) PROVE DirtyInv'
    BY <1>38 DEF BeginReadClean
  <1>39. ASSUME NEW h \in Handles, BeginReadDirty(h) PROVE DirtyInv'
    BY <1>39 DEF BeginReadDirty, Goto
  <1>40. ASSUME NEW h \in Handles, LockForRead(h) PROVE DirtyInv'
    BY <1>40 DEF LockForRead, Goto
  <1>41. ASSUME NEW h \in Handles, RegisterOpenedForRead(h) PROVE DirtyInv'
    BY <1>41 DEF RegisterOpenedForRead, Goto
  <1>42. ASSUME NEW h \in Handles, RegisterOpenForReadFails(h) PROVE DirtyInv'
    BY <1>42 DEF RegisterOpenForReadFails, Goto
  <1>43. ASSUME NEW h \in Handles, NEW f \in Files, ReadFile(h, f) PROVE
     DirtyInv'
    BY <1>43 DEF ReadFile
  <1>44. ASSUME NEW h \in Handles, Crash(h) PROVE DirtyInv'
    BY <1>44 DEF Crash, Goto
  <1>45. ASSUME NEW h \in Handles, CloseHandle(h) PROVE DirtyInv'
    BY <1>45 DEF CloseHandle
  <1>46. CASE UNCHANGED vars
    BY <1>46 DEF vars
  <1> HIDE DEF DirtyInv
  <1> QED
    BY <1>1, <1>2, <1>3, <1>4, <1>5, <1>6, <1>7, <1>8, <1>9, <1>10, <1>11,
       <1>12, <1>13, <1>14, <1>15, <1>16, <1>17, <1>18, <1>19, <1>20, <1>21,
       <1>22, <1>23, <1>24, <1>25, <1>26, <1>27, <1>28, <1>29, <1>30, <1>31,
       <1>32, <1>33, <1>34, <1>35, <1>36, <1>37, <1>38, <1>39, <1>40, <1>41,
       <1>42, <1>43, <1>44, <1>45, <1>46, <1>47, <1>48, <1>49
       DEF Next, AdminNext, ReaderNext, UpdateStep, CommitStep, ReadStep,
          InitStep, EndTrans, Handles

\* Without zebra_init, which takes no lock, the end of an update always finds
\* the state 'd' that its begin wrote: the shadow area is not thrown away.
THEOREM DirtyAlways ==
    ASSUME MaxCalls["init"] = 0
    PROVE  Spec => []DirtyWhileUpdating
  <1>1. Init => DirtyInv
    BY DEF Init, DirtyInv, NoInit, DirtyWhileUpdating, Updating, Ready, InitPcs, EndPcs,
           Handles
  <1>2. IInv /\ DirtyInv /\ [Next]_vars => DirtyInv'
    BY DirtyStep, OwnersConflict
  <1>3. DirtyInv => DirtyWhileUpdating
    BY DEF DirtyInv
  <1> QED BY <1>1, <1>2, <1>3, Invariance, PTL DEF Spec

-----------------------------------------------------------------------------
\* Only administrators have write transactions.
WriterInv ==
    \A h \in Handles : transWNo[h] # 0 \/ pc[h] \in EndPcs => h \in Admins

\* Every step keeps the invariant of the writer.
LEMMA WriterStep == TypeOK /\ WriterInv /\ [Next]_vars => WriterInv'
  <1> SUFFICES ASSUME TypeOK, WriterInv, [Next]_vars PROVE WriterInv'
    OBVIOUS
  <1>0. /\ transWNo \in [Handles -> {0, 1}] /\ pc \in [Handles -> PCs]
        /\ Admins \subseteq Handles
    BY DEF TypeOK, TransOK, Handles
  <1>1. ASSUME \A h \in Handles :
                  \/ transWNo'[h] = transWNo[h] /\ pc'[h] = pc[h]
                  \/ transWNo'[h] \in {0, transWNo[h]} /\ pc'[h] \notin EndPcs
                  \/ h \in Admins
        PROVE  WriterInv'
    BY <1>1 DEF WriterInv
  <1> USE <1>0 DEF transVars, Goto
  <1>2. ASSUME NEW h \in Admins, AdminNext(h) PROVE WriterInv'
    <2>1. \A k \in Handles \ {h} : transWNo'[k] = transWNo[k] /\ pc'[k] = pc[k]
      BY <1>2 DEF AdminNext, UpdateStep, CommitStep, InitStep, BeginWriteNested,
         BeginWriteInRead, BeginWrite, UpdateShadow, UpdateRegister,
         RegisterOpenFails, CommitFails, Commit, Clean, InitRegister,
         LockNormalForUpdate, LockShadowForUpdate, ReadStateForUpdate,
         TruncateState, WriteStateDirty, OpenFile, OpenNewFile, ListFile,
         RegisterOpened, ReadStateAtEnd, WriteStateAtEnd, LockNormalForCommit,
         LockShadowForCommit, ReadStateForCommit, WriteStateCommit, CopyFile,
         CleanFile, CopyDone, WriteStateOnline, LockShadowForClean, CleanDone,
         ResetShadowFile, ShadowReset,
         ResetRegisterFile, ResetCache, WriteStateInit
    <2> QED BY <1>1, <2>1
  <1>3. ASSUME NEW h \in Readers, ReaderNext(h) PROVE WriterInv'
    <2>1. \A k \in Handles :
              /\ transWNo'[k] = transWNo[k]
              /\ pc'[k] = pc[k] \/ pc'[k] \notin EndPcs
      BY <1>3 DEF ReaderNext, ReadStep, BeginReadNested, BeginReadClean,
         BeginReadDirty, RegisterOpenForReadFails, LockForRead,
         RegisterOpenedForRead, ReadFile, Ready, EndPcs
    <2> QED BY <1>1, <2>1
  <1>4. ASSUME NEW h \in Handles, EndTrans(h) \/ Crash(h) \/ CloseHandle(h)
        PROVE  WriterInv'
    <2>1. CASE EndWrite(h)
      <3>1. h \in Admins
        BY <2>1 DEF EndWrite, WriterInv
      <3> QED BY <1>1, <2>1, <3>1 DEF EndWrite
    <2>2. CASE ~EndWrite(h)
      <3>1. \A k \in Handles :
                \/ transWNo'[k] = transWNo[k] /\ pc'[k] = pc[k]
                \/ transWNo'[k] \in {0, transWNo[k]} /\ pc'[k] \notin EndPcs
        BY <1>4, <2>2 DEF EndTrans, EndNested, EndRead, Crash, CloseHandle, Ready, EndPcs
      <3> QED BY <1>1, <3>1
    <2> QED BY <2>1, <2>2
  <1>5. CASE UNCHANGED vars
    BY <1>1, <1>5 DEF vars
  <1> QED BY <1>2, <1>3, <1>4, <1>5 DEF Next
=============================================================================
