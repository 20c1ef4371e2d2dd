-------------------------- MODULE ZebraTransSafety --------------------------
(***************************************************************************)
(* Proofs about ZebraTrans with one administrator, whose updates go to the *)
(* shadow area: what the server processes are meant to read is always the  *)
(* result of a finished update, no finished update is lost, and the        *)
(* protocol implements the atomic updates of SafeUpdate.  The process may  *)
(* be killed, and its calls may fail, at any point that recovery tells     *)
(* apart, and at every point of zebra_init: what its removal of one file   *)
(* after the other has begun, only the end of a zebra_init makes good.     *)
(***************************************************************************)
EXTENDS ZebraTransProofs

\* The program points at which the state file of a register in use is
\* truncated.
TornPcs == {"w_set", "e_set", "c_set", "c_oset"}

\* There is one administrator (two may lose an update), its updates go to the
\* shadow area, and no process is killed where it leaves what recovery
\* misreads: a truncated state file, a shadow file that is not listed, or a
\* shadow area declared clean and not yet removed.
Recoverable ==
    /\ \A h, k \in Admins : h = k
    /\ \A s \in Setups : s.shadow /\ ~s.direct
    /\ CrashPoints \cap (TornPcs \cup {"w_list", "c_cleanlock", "c_clean"}) = {}

NoShadow == \A f \in Files : shadow[f] = Absent
CopyPcs == {"c_trunc", "c_set", "c_copy", "c_otrunc", "c_oset"}
RemovePcs == {"c_cleanlock", "c_clean"}

\* What the state file says at each point of the program.
StateAt(h) ==
    /\ pc[h] \in TornPcs => state.val = "t"
    /\ Updating(h) /\ pc[h] # "e_set" => state.val = "d"
    /\ pc[h] = "c_trunc" => state = commitSeen[h]
    /\ pc[h] = "c_copy" => state.val = "c"
    /\ pc[h] = "c_otrunc" => state.val = IF cleanOnly[h] THEN "d" ELSE "c"
    /\ pc[h] \in RemovePcs => state.val = "o"
StateInv ==
    /\ \A h \in Admins : StateAt(h)
    /\ state.val = "t" => \E h \in Admins : pc[h] \in TornPcs

\* A commit copies unless it throws away, and it throws away what is dirty.
ChoiceInv ==
    \A h \in Admins :
        /\ pc[h] \in CopyPcs \cup RemovePcs
           => /\ commitSeen[h].val = "d" => cleanOnly[h]
              /\ commitSeen[h].val = "c" => ~cleanOnly[h]
        /\ pc[h] = "c_copy" => ~cleanOnly[h]

\* Every shadow file is listed in the cache file, and known to the commit
\* area when it is to be removed.
ListInv ==
    \A f \in Files : shadow[f] # Absent =>
        /\ f \in cache \/ \E h \in Admins : pc[h] = "w_list" /\ f \in cur[h]
        /\ \A h \in Admins :
               /\ pc[h] \in CopyPcs \cup {"c_cleanlock"} => f \in known[h]
               /\ pc[h] = "c_clean" => f \in todo[h]
               /\ pc[h] \notin {"w_relock1", "w_relock2"}
               /\ pc[h] = "w_trunc" => state.val = "o"

\* An update has a shadow file for each file of the register that it opened.
OpenInv ==
    \A h \in Admins, f \in Files :
        \/ pc[h] = Ready /\ transWNo[h] # 0
        \/ pc[h] \in {"w_open", "w_list"} /\ f \notin todo[h]
        => shadow[f] # Absent

\* The shadow area holds an update that is not finished, or is on its way out.
Doubtful == \/ state.val = "d"
            \/ \E h \in Admins : pc[h] = "e_set" \/ BeingDiscarded(h)

\* What both areas hold: outside doubt what finished last.
ContentsInv ==
    /\ ~Doubtful => Overlay = last /\ last \in good
    /\ state.val = "c" \/ (\E h \in Admins : Rewriting(h)) \/ register \in good
    /\ NoShadow => last = register
    /\ \A h \in Admins :
           /\ pc[h] \in EndPcs => last = Overlay
           /\ pc[h] = "c_copy" =>
                  \A f \in Files \ todo[h] : Overlay[f] = register[f]
           /\ pc[h] \in {"c_otrunc", "c_oset"} /\ ~cleanOnly[h]
              => register = Overlay
           /\ pc[h] \in RemovePcs => last = register

\* What is so of a register that zebra_init is not removing.
MadeInv == StateInv /\ ChoiceInv /\ ListInv /\ OpenInv /\ ContentsInv

\* How far zebra_init has come: it knows every file that is left to remove.
EmptyContents == [f \in Files |-> 0]
RegisterKnown(h) == \A f \in Files : register[f] # 0 => f \in known[h]
Emptying(h) ==
    /\ pc[h] = "i_reset" =>
           /\ \A f \in Files : shadow[f] # Absent => f \in todo[h]
           /\ RegisterKnown(h)
    /\ pc[h] = "i_register" => NoShadow /\ RegisterKnown(h)
    /\ pc[h] \in {"i_trunc", "i_set"} =>
           ~made /\ NoShadow /\ register = EmptyContents
AreaInv ==
    /\ EmptyContents \in good
    /\ \A h \in Admins : Emptying(h) /\ (transWNo[h] # 0 => useShadow[h])

SafeInv == AreaInv /\ (made => MadeInv)

-----------------------------------------------------------------------------
\* Steps that leave the files alone.

\* Where a call is before it has read the state file, or after it ended.
CalmPcs == {Ready, "w_lock1", "w_lock2", "w_state", "c_lock1", "c_lock2",
            "c_state", "i_reset"} \cup ReadPcs

\* h stays where it is, or goes to a calm point from one that it may leave.
Stays(h) == /\ pc'[h] = pc[h] /\ transWNo'[h] = transWNo[h]
            /\ useShadow'[h] = useShadow[h]
            /\ todo'[h] = todo[h] /\ cur'[h] = cur[h]
            /\ commitSeen'[h] = commitSeen[h] /\ known'[h] = known[h]
            /\ cleanOnly'[h] = cleanOnly[h]
CalmsDown(h) ==
    /\ pc'[h] \in CalmPcs
    /\ pc[h] \notin TornPcs \cup RemovePcs \cup {"w_list"}
    /\ pc'[h] = Ready => transWNo'[h] = 0
    /\ transWNo'[h] # 0 => useShadow'[h]
    /\ Emptying(h)'

\* The files stay, but for names that readers add to the cache file.
FilesStay == /\ UNCHANGED <<state, register, shadow, last, good, made>>
             /\ cache \subseteq cache'

\* Such steps keep the invariant.
LEMMA CalmStep ==
    ASSUME SafeInv, FilesStay, \A h \in Admins : Stays(h) \/ CalmsDown(h)
    PROVE  SafeInv'
  <1> USE DEF FilesStay, Stays, CalmsDown, CalmPcs, TornPcs, RemovePcs,
              CopyPcs, ReadPcs, EndPcs, Ready
  <1>1. AreaInv'
    BY DEF SafeInv, AreaInv, Emptying, NoShadow, RegisterKnown, EmptyContents
  <1>2. ASSUME MadeInv PROVE MadeInv'
    <2> USE <1>2 DEF MadeInv
    <2>1. StateInv'
      BY DEF StateInv, StateAt, Updating
    <2>2. ChoiceInv'
      BY DEF ChoiceInv
    <2>3. ListInv'
      BY DEF ListInv
    <2>4. OpenInv'
      BY DEF OpenInv
    <2>5. Doubtful' = Doubtful
      BY DEF Doubtful, BeingDiscarded, StateInv, StateAt
    <2>6. (\E h \in Admins : Rewriting(h))' = (\E h \in Admins : Rewriting(h))
      BY DEF Rewriting
    <2>7. ContentsInv'
      BY <2>5, <2>6 DEF ContentsInv, Overlay, NoShadow
    <2> QED BY <2>1, <2>2, <2>3, <2>4, <2>7
  <1> QED BY <1>1, <1>2 DEF SafeInv

\* The calm steps of one handle, ...
CalmAct(h) ==
    \/ BeginWriteNested(h) \/ BeginWriteInRead(h)
    \/ \E sh \in BOOLEAN : BeginWrite(h, sh)
    \/ RegisterOpenFails(h) \/ CommitFails(h)
    \/ Commit(h) \/ Clean(h) \/ InitRegister(h)
    \/ LockNormalForUpdate(h) /\ pc[h] = "w_lock1"
    \/ LockShadowForUpdate(h) /\ pc[h] = "w_lock2"
    \/ ReadStateForUpdate(h) /\ GetState.val # "o"
    \/ LockNormalForCommit(h) \/ LockShadowForCommit(h)
    \/ ReadStateForCommit(h) /\ cache = {} /\ ~InBegin(h)
    \/ EndNested(h) \/ EndRead(h) \/ ReaderNext(h) \/ Crash(h) \/ CloseHandle(h)

\* ... which leave the files alone.
LEMMA CalmActs ==
    ASSUME Recoverable, TypeOK, CountInv, SafeInv, NEW h \in Handles, SameConf,
           CalmAct(h)
    PROVE  FilesStay /\ \A k \in Admins : Stays(k) \/ CalmsDown(k)
  <1> DEFINE Goal == FilesStay /\ \A k \in Admins : Stays(k) \/ CalmsDown(k)
  <1>0. /\ conf.shadow /\ ~conf.direct
        /\ pc \in [Handles -> PCs] /\ transWNo \in [Handles -> {0, 1}]
        /\ useShadow \in [Handles -> BOOLEAN] /\ todo \in [Handles -> SUBSET Files]
        /\ cur \in [Handles -> SUBSET Files] /\ known \in [Handles -> SUBSET Files]
        /\ commitSeen \in [Handles -> StateFile]
        /\ cleanOnly \in [Handles -> BOOLEAN] /\ Admins \subseteq Handles
        /\ pc[h] \in BeginPcs => transWNo[h] # 0
        /\ pc[h] \in ReadPcs => transWNo[h] = 0
        /\ transNo[h] = 0 => transWNo[h] = 0
        /\ h \in Admins /\ transWNo[h] # 0 => useShadow[h]
    BY DEF Recoverable, TypeOK, TransOK, WorkOK, SeenOK, Handles, CountInv,
           SafeInv, AreaInv
  <1> USE <1>0 DEF SameConf, Goto, Call, fileVars, lockVars, transVars,
          commitVars, openVars, regVars, ghostVars, FilesStay, Stays, CalmsDown,
          CalmPcs, Ready, TornPcs, RemovePcs, ReadPcs, Emptying, RegisterKnown
  <1>1. ASSUME BeginWriteNested(h) PROVE Goal
    BY <1>1 DEF BeginWriteNested
  <1>2. ASSUME BeginWriteInRead(h) PROVE Goal
    BY <1>2 DEF BeginWriteInRead
  <1>3. ASSUME NEW sh \in BOOLEAN, BeginWrite(h, sh) PROVE Goal
    BY <1>3 DEF BeginWrite
  <1>4. ASSUME RegisterOpenFails(h) PROVE Goal
    BY <1>4 DEF RegisterOpenFails
  <1>5. ASSUME CommitFails(h) PROVE Goal
    BY <1>5 DEF CommitFails
  <1>6. ASSUME Commit(h) \/ Clean(h) PROVE Goal
    BY <1>6 DEF Commit, Clean
  <1>7. ASSUME InitRegister(h) PROVE Goal
    BY <1>7 DEF InitRegister
  <1>8. ASSUME LockNormalForUpdate(h), pc[h] = "w_lock1" PROVE Goal
    BY <1>8 DEF LockNormalForUpdate
  <1>9. ASSUME LockShadowForUpdate(h), pc[h] = "w_lock2" PROVE Goal
    BY <1>9 DEF LockShadowForUpdate
  <1>10. ASSUME ReadStateForUpdate(h), GetState.val # "o" PROVE Goal
    BY <1>10 DEF ReadStateForUpdate
  <1>11. ASSUME LockNormalForCommit(h) PROVE Goal
    BY <1>11 DEF LockNormalForCommit
  <1>12. ASSUME LockShadowForCommit(h) PROVE Goal
    BY <1>12 DEF LockShadowForCommit
  <1>13. ASSUME ReadStateForCommit(h), cache = {}, ~InBegin(h) PROVE Goal
    BY <1>13 DEF ReadStateForCommit, ReturnPc, InBegin
  <1>14. ASSUME EndNested(h) \/ EndRead(h) PROVE Goal
    BY <1>14 DEF EndNested, EndRead
  <1>15. ASSUME ReaderNext(h) PROVE Goal
    <2>1. ASSUME BeginReadNested(h) \/ BeginReadClean(h) PROVE Goal
      BY <2>1 DEF BeginReadNested, BeginReadClean
    <2>2. ASSUME BeginReadDirty(h) PROVE Goal
      BY <2>2 DEF BeginReadDirty
    <2>3. ASSUME RegisterOpenForReadFails(h) PROVE Goal
      BY <2>3 DEF RegisterOpenForReadFails
    <2>4. ASSUME LockForRead(h) PROVE Goal
      BY <2>4 DEF LockForRead
    <2>5. ASSUME RegisterOpenedForRead(h) PROVE Goal
      BY <2>5 DEF RegisterOpenedForRead
    <2>6. ASSUME NEW f \in Files, ReadFile(h, f) PROVE Goal
      BY <2>6 DEF ReadFile
    <2> HIDE DEF Goal
    <2> QED
      BY <1>15, <2>1, <2>2, <2>3, <2>4, <2>5, <2>6 DEF ReaderNext, ReadStep
  <1>16. ASSUME Crash(h) PROVE Goal
    <2>1. pc[h] \notin TornPcs \cup RemovePcs \cup {"w_list"}
      BY <1>16 DEF Crash, Recoverable
    <2> QED BY <1>16, <2>1 DEF Crash
  <1>17. ASSUME CloseHandle(h) PROVE Goal
    BY <1>17 DEF CloseHandle
  <1> HIDE DEF Goal
  <1>18. Goal
    BY <1>1, <1>2, <1>3, <1>4, <1>5, <1>6, <1>7, <1>8, <1>9, <1>10, <1>11,
       <1>12, <1>13, <1>14, <1>15, <1>16, <1>17 DEF CalmAct
  <1> QED BY <1>18 DEF Goal

-----------------------------------------------------------------------------
\* Steps that write the files.

\* The steps of the administrator that write the files, or go on to do so.
FileAct(h) ==
    \/ LockNormalForUpdate(h) /\ pc[h] = "w_relock1"
    \/ LockShadowForUpdate(h) /\ pc[h] = "w_relock2"
    \/ ReadStateForUpdate(h) /\ GetState.val = "o"
    \/ TruncateState(h) \/ WriteStateDirty(h)
    \/ \E f \in Files : \/ OpenFile(h, f) \/ OpenNewFile(h, f)
                        \/ UpdateShadow(h, f) \/ CopyFile(h, f) \/ CleanFile(h, f)
    \/ ListFile(h) \/ RegisterOpened(h) \/ EndWrite(h)
    \/ ReadStateAtEnd(h) \/ WriteStateAtEnd(h)
    \/ ReadStateForCommit(h) /\ (cache = {} => InBegin(h))
    \/ WriteStateCommit(h) \/ CopyDone(h) \/ WriteStateOnline(h)
    \/ LockShadowForClean(h) \/ CleanDone(h) \/ InitStep(h)

\* They keep what zebra_init relies on.
LEMMA AreaActs ==
    ASSUME Recoverable, TypeOK, CountInv, AreaInv, NEW a \in Admins, FileAct(a)
    PROVE  AreaInv'
  <1>0. /\ \A k \in Admins : k = a
        /\ a \in Handles /\ pc \in [Handles -> PCs]
        /\ transWNo \in [Handles -> {0, 1}]
        /\ todo \in [Handles -> SUBSET Files]
        /\ known \in [Handles -> SUBSET Files]
        /\ register \in [Files -> Nat]
        /\ shadow \in [Files -> Nat \cup {Absent, Blank}]
        /\ pc[a] \in InitPcs => transWNo[a] = 0
    BY DEF Recoverable, TypeOK, TransOK, WorkOK, FilesOK, Contents, Handles,
       CountInv
  <1> USE <1>0 DEF AreaInv, Emptying, RegisterKnown, NoShadow, Goto, fileVars,
          transVars, commitVars, openVars, ghostVars, InitPcs, Ready
  <1>1. CASE InitStep(a)
    <2>1. ASSUME NEW f \in Files, ResetShadowFile(a, f) PROVE AreaInv'
      BY <2>1 DEF ResetShadowFile
    <2>2. ASSUME ShadowReset(a) PROVE AreaInv'
      BY <2>2 DEF ShadowReset
    <2>3. ASSUME NEW f \in Files, ResetRegisterFile(a, f) PROVE AreaInv'
      BY <2>3 DEF ResetRegisterFile
    <2>4. ASSUME ResetCache(a) PROVE AreaInv'
      <3>1. \A f \in Files : register[f] = 0
        BY <2>4 DEF ResetCache
      <3>2. register = EmptyContents
        BY <3>1 DEF EmptyContents
      <3> QED BY <2>4, <3>2 DEF ResetCache, EmptyContents
    <2>5. ASSUME WriteStateInit(a) PROVE AreaInv'
      BY <2>5 DEF WriteStateInit
    <2> QED BY <1>1, <2>1, <2>2, <2>3, <2>4, <2>5 DEF InitStep
  <1>2. CASE TruncateState(a)
    BY <1>2 DEF TruncateState, EmptyContents
  <1>3. ASSUME UNCHANGED <<transWNo, useShadow>> \/ transWNo'[a] = 0,
               pc'[a] \notin InitPcs, good \subseteq good'
        PROVE  AreaInv'
    BY <1>3 DEF EmptyContents
  <1>4. CASE ~InitStep(a) /\ ~TruncateState(a)
    <2>1. /\ UNCHANGED <<transWNo, useShadow>> \/ transWNo'[a] = 0
          /\ good \subseteq good'
      BY <1>4
      DEF FileAct, LockNormalForUpdate, LockShadowForUpdate, ReadStateForUpdate,
          WriteStateDirty, OpenFile, OpenNewFile, UpdateShadow, CopyFile,
          CleanFile, ListFile, RegisterOpened, EndWrite, ReadStateAtEnd,
          WriteStateAtEnd, ReadStateForCommit, WriteStateCommit, CopyDone,
          WriteStateOnline, LockShadowForClean, CleanDone
    <2>2. pc'[a] \notin InitPcs
      BY <1>4
      DEF FileAct, LockNormalForUpdate, LockShadowForUpdate, ReadStateForUpdate,
          WriteStateDirty, OpenFile, OpenNewFile, UpdateShadow, CopyFile,
          CleanFile, ListFile, RegisterOpened, EndWrite, ReadStateAtEnd,
          WriteStateAtEnd, ReadStateForCommit, WriteStateCommit, CopyDone,
          WriteStateOnline, LockShadowForClean, CleanDone, ReturnPc, InBegin
    <2> QED BY <1>3, <2>1, <2>2
  <1> QED BY <1>1, <1>2, <1>4

\* A file that is removed leaves nothing to say; the end of zebra_init makes
\* a register of which everything is so.
LEMMA InitActs ==
    ASSUME Recoverable, TypeOK, CountInv, SafeInv, NEW a \in Admins,
           InitStep(a), made'
    PROVE  MadeInv'
  <1>0. /\ \A k \in Admins : k = a
        /\ a \in Handles /\ pc \in [Handles -> PCs]
        /\ pc[a] \in InitPcs => transWNo[a] = 0
    BY DEF Recoverable, TypeOK, Handles, CountInv
  <1> USE <1>0 DEF Goto, fileVars, transVars, commitVars, openVars, ghostVars,
          MadeInv, InitPcs, Ready, StateInv, StateAt, Updating, ChoiceInv,
          ListInv, OpenInv, ContentsInv, TornPcs, RemovePcs, CopyPcs, EndPcs,
          Doubtful, BeingDiscarded, Rewriting, NoShadow
  <1>1. CASE ShadowReset(a)
    <2>1. made /\ MadeInv /\ Overlay' = Overlay
      BY <1>1 DEF ShadowReset, SafeInv, Overlay
    <2> QED BY <1>1, <2>1 DEF ShadowReset
  <1>2. CASE WriteStateInit(a)
    <2>1. /\ \A f \in Files : shadow'[f] = Absent
          /\ register' = EmptyContents /\ last' = EmptyContents
          /\ EmptyContents \in good' /\ state'.val = "o"
          /\ pc'[a] = Ready /\ transWNo'[a] = 0
      BY <1>2 DEF WriteStateInit, SafeInv, AreaInv, Emptying, EmptyContents,
         NoState
    <2>2. Overlay' = EmptyContents
      BY <2>1 DEF Overlay, EmptyContents, Absent
    <2> QED BY <2>1, <2>2
  <1>3. ShadowReset(a) \/ WriteStateInit(a)
    BY DEF InitStep, ResetShadowFile, ResetRegisterFile, ResetCache
  <1> QED BY <1>1, <1>2, <1>3

\* The others keep what is so of a register in use.
LEMMA FileActs ==
    ASSUME Recoverable, TypeOK, TypeOK', CountInv, SafeInv, made,
           NEW a \in Admins, ~InitStep(a)
    PROVE  FileAct(a) => MadeInv'
  <1>0. /\ \A k \in Admins : k = a
        /\ conf.shadow /\ ~conf.direct /\ a \in Handles
        /\ pc \in [Handles -> PCs] /\ transWNo \in [Handles -> {0, 1}]
        /\ useShadow \in [Handles -> BOOLEAN] /\ todo \in [Handles -> SUBSET Files]
        /\ cur \in [Handles -> SUBSET Files] /\ known \in [Handles -> SUBSET Files]
        /\ commitSeen \in [Handles -> StateFile]
        /\ cleanOnly \in [Handles -> BOOLEAN]
        /\ state \in StateFile /\ cache \in SUBSET Files
        /\ shadow \in [Files -> Nat \cup {Absent, Blank}]
        /\ register \in Contents /\ ver \in Nat /\ Files # {}
        /\ pc[a] \in BeginPcs => transWNo[a] # 0
        /\ pc[a] \in EndPcs \cup InitPcs \cup ReadPcs => transWNo[a] = 0
    BY ConstantsAssumption
    DEF Recoverable, TypeOK, TransOK, WorkOK, SeenOK, FilesOK, Handles, CountInv
  <1>00. MadeInv /\ AreaInv
    BY DEF SafeInv
  <1> USE <1>0, <1>00 DEF MadeInv, Goto, fileVars, lockVars, transVars, commitVars,
          openVars, regVars, ghostVars, Ready, TornPcs, RemovePcs, CopyPcs,
          ReadPcs, BeginPcs, EndPcs, InitPcs, StateInv, StateAt, Updating,
          ChoiceInv, ListInv, OpenInv, ContentsInv, Doubtful, BeingDiscarded,
          Rewriting, Absent, Blank, StateFile
  <1>1. ASSUME LockNormalForUpdate(a), pc[a] = "w_relock1" PROVE MadeInv'
    <2>1. StateInv' /\ ChoiceInv' /\ ListInv' /\ OpenInv'
      BY <1>1 DEF LockNormalForUpdate
    <2>2. ContentsInv'
      BY <1>1 DEF LockNormalForUpdate, Contents, NoShadow, Overlay
    <2> QED BY <2>1, <2>2
  <1>2. ASSUME LockShadowForUpdate(a), pc[a] = "w_relock2" PROVE MadeInv'
    <2>1. StateInv' /\ ChoiceInv' /\ ListInv' /\ OpenInv'
      BY <1>2 DEF LockShadowForUpdate
    <2>2. ContentsInv'
      BY <1>2 DEF LockShadowForUpdate, Contents, NoShadow, Overlay
    <2> QED BY <2>1, <2>2
  <1>3. ASSUME ReadStateForUpdate(a), GetState.val = "o" PROVE MadeInv'
    <2>1. StateInv' /\ ChoiceInv' /\ ListInv' /\ OpenInv'
      BY <1>3 DEF ReadStateForUpdate, GetState
    <2>2. ContentsInv'
      BY <1>3 DEF ReadStateForUpdate, GetState, Contents, NoShadow, Overlay
    <2> QED BY <2>1, <2>2
  <1>4. ASSUME TruncateState(a) PROVE MadeInv'
    <2>1. pc[a] # "i_trunc"
      BY DEF AreaInv, Emptying
    <2>8. StateInv' /\ ChoiceInv' /\ ListInv' /\ OpenInv'
      BY <1>4, <2>1 DEF TruncateState, Truncated
    <2>2. Overlay' = Overlay /\ (NoShadow => Overlay = register)
      BY <1>4 DEF TruncateState, Truncated, Overlay, NoShadow, Contents
    <2>3. CASE pc[a] = "w_trunc"
      BY <1>4, <2>8, <2>2, <2>3 DEF TruncateState, Truncated, NoShadow
    <2>4. CASE pc[a] = "c_trunc"
      BY <1>4, <2>8, <2>2, <2>4 DEF TruncateState, Truncated, NoShadow
    <2>5. CASE pc[a] = "e_trunc"
      BY <1>4, <2>8, <2>2, <2>5 DEF TruncateState, Truncated, NoShadow
    <2>6. CASE pc[a] = "c_otrunc"
      BY <1>4, <2>8, <2>2, <2>6 DEF TruncateState, Truncated, NoShadow
    <2> QED BY <1>4, <2>1, <2>3, <2>4, <2>5, <2>6, <2>8 DEF TruncateState
  <1>5. ASSUME WriteStateDirty(a) PROVE MadeInv'
    <2>1. StateInv' /\ ChoiceInv' /\ ListInv' /\ OpenInv'
      BY <1>5 DEF WriteStateDirty
    <2>2. ContentsInv'
      BY <1>5 DEF WriteStateDirty, Contents, NoShadow, Overlay
    <2> QED BY <2>1, <2>2
  <1>6. ASSUME NEW f \in Files, OpenFile(a, f) PROVE MadeInv'
    <2>1. StateInv' /\ ChoiceInv' /\ ListInv' /\ OpenInv'
      BY <1>6 DEF OpenFile, AreaInv
    <2>2. /\ UNCHANGED <<state, register, shadow, pc, commitSeen, cleanOnly, last>>
          /\ UNCHANGED <<good, transWNo>> /\ pc[a] = "w_open"
      BY <1>6 DEF OpenFile
    <2>3. ContentsInv'
      BY <2>2 DEF NoShadow, Overlay
    <2> QED BY <2>1, <2>3
  <1>7. ASSUME NEW f \in Files, OpenNewFile(a, f) PROVE MadeInv'
    <2>1. StateInv' /\ ChoiceInv' /\ ListInv' /\ OpenInv'
      BY <1>7 DEF OpenNewFile
    <2>2. ContentsInv'
      BY <1>7 DEF OpenNewFile, Contents, NoShadow, Overlay
    <2> QED BY <2>1, <2>2
  <1>8. ASSUME ListFile(a) PROVE MadeInv'
    <2>1. StateInv' /\ ChoiceInv' /\ ListInv' /\ OpenInv'
      BY <1>8 DEF ListFile
    <2>2. ContentsInv'
      BY <1>8 DEF ListFile, Contents, NoShadow, Overlay
    <2> QED BY <2>1, <2>2
  <1>9. ASSUME RegisterOpened(a) PROVE MadeInv'
    <2>1. StateInv' /\ ChoiceInv' /\ ListInv' /\ OpenInv'
      BY <1>9 DEF RegisterOpened
    <2>2. ContentsInv'
      BY <1>9 DEF RegisterOpened, Contents, NoShadow, Overlay
    <2> QED BY <2>1, <2>2
  <1>10. ASSUME NEW f \in Files, UpdateShadow(a, f) PROVE MadeInv'
    <2>1. StateInv' /\ ChoiceInv' /\ ListInv' /\ OpenInv'
      BY <1>10 DEF UpdateShadow
    <2>2. ContentsInv'
      BY <1>10 DEF UpdateShadow, Contents, NoShadow, Overlay
    <2> QED BY <2>1, <2>2
  <1>11. ASSUME EndWrite(a) PROVE MadeInv'
    <2>1. StateInv' /\ ChoiceInv' /\ ListInv' /\ OpenInv'
      BY <1>11 DEF EndWrite
    <2>2. ContentsInv'
      BY <1>11 DEF EndWrite, Contents, NoShadow, Overlay
    <2> QED BY <2>1, <2>2
  <1>12. ASSUME ReadStateAtEnd(a) PROVE MadeInv'
    <2>1. StateInv' /\ ChoiceInv' /\ ListInv' /\ OpenInv'
      BY <1>12 DEF ReadStateAtEnd, ShadowUnusable, GetState
    <2>2. ContentsInv'
      BY <1>12 DEF ReadStateAtEnd, ShadowUnusable, GetState, Contents, NoShadow, Overlay
    <2> QED BY <2>1, <2>2
  <1>13. ASSUME WriteStateAtEnd(a) PROVE MadeInv'
    <2>1. StateInv' /\ ChoiceInv' /\ ListInv' /\ OpenInv'
      BY <1>13 DEF WriteStateAtEnd
    <2>2. ContentsInv'
      BY <1>13 DEF WriteStateAtEnd, Contents, NoShadow, Overlay
    <2> QED BY <2>1, <2>2
  <1>14. ASSUME ReadStateForCommit(a), cache = {}, InBegin(a) PROVE MadeInv'
    <2>1. StateInv' /\ ChoiceInv' /\ ListInv' /\ OpenInv'
      BY <1>14 DEF ReadStateForCommit, ReturnPc, InBegin
    <2>2. ContentsInv'
      BY <1>14 DEF ReadStateForCommit, ReturnPc, InBegin, Contents, NoShadow, Overlay
    <2> QED BY <2>1, <2>2
  <1>15. ASSUME ReadStateForCommit(a), cache # {} PROVE MadeInv'
    <2>1. StateInv' /\ ListInv' /\ OpenInv'
      BY <1>15 DEF ReadStateForCommit, MustClean, GetState
    <2>2. ChoiceInv'
      <3>1. /\ commitSeen'[a] = GetState /\ cleanOnly'[a] = MustClean(a)
            /\ pc'[a] = "c_trunc"
        BY <1>15 DEF ReadStateForCommit
      <3> QED BY <3>1, ZenonT(40) DEF MustClean
    <2>3. ContentsInv'
      BY <1>15 DEF ReadStateForCommit, MustClean, GetState, Contents, NoShadow, Overlay
    <2> QED BY <2>1, <2>2, <2>3
  <1>16. ASSUME WriteStateCommit(a) PROVE MadeInv'
    <2>1. StateInv' /\ ChoiceInv' /\ ListInv' /\ OpenInv'
      BY <1>16 DEF WriteStateCommit
    <2>2. UNCHANGED <<Overlay, NoShadow>>
      BY <1>16 DEF WriteStateCommit, NoShadow, Overlay
    <2>3. CASE cleanOnly[a]
      BY <1>16, <2>2, <2>3 DEF WriteStateCommit
    <2>4. CASE ~cleanOnly[a]
      <3>1. \A f \in Files \ cache : Overlay[f] = register[f]
        BY <1>16 DEF WriteStateCommit, Overlay
      <3> QED BY <1>16, <2>2, <2>4, <3>1 DEF WriteStateCommit
    <2>5. ContentsInv'
      BY <2>3, <2>4
    <2> QED BY <2>1, <2>5
  <1>17. ASSUME NEW f \in Files, CopyFile(a, f) PROVE MadeInv'
    <2>1. StateInv' /\ ChoiceInv' /\ ListInv' /\ OpenInv'
      BY <1>17 DEF CopyFile
    <2>2. ContentsInv'
      BY <1>17 DEF CopyFile, Contents, NoShadow, Overlay
    <2> QED BY <2>1, <2>2
  <1>18. ASSUME CopyDone(a) PROVE MadeInv'
    <2>1. StateInv' /\ ChoiceInv' /\ ListInv' /\ OpenInv'
      BY <1>18 DEF CopyDone
    <2>2. ContentsInv'
      BY <1>18 DEF CopyDone, Contents, NoShadow, Overlay
    <2> QED BY <2>1, <2>2
  <1>19. ASSUME WriteStateOnline(a) PROVE MadeInv'
    <2>1. StateInv' /\ ChoiceInv' /\ ListInv' /\ OpenInv'
      BY <1>19 DEF WriteStateOnline
    <2>2. ContentsInv'
      BY <1>19 DEF WriteStateOnline, Contents, NoShadow, Overlay
    <2> QED BY <2>1, <2>2
  <1>20. ASSUME LockShadowForClean(a) PROVE MadeInv'
    <2>1. StateInv' /\ ChoiceInv' /\ ListInv' /\ OpenInv'
      BY <1>20 DEF LockShadowForClean
    <2>2. ContentsInv'
      BY <1>20 DEF LockShadowForClean, Contents, NoShadow, Overlay
    <2> QED BY <2>1, <2>2
  <1>21. ASSUME NEW f \in Files, CleanFile(a, f) PROVE MadeInv'
    <2>1. StateInv' /\ ChoiceInv' /\ ListInv' /\ OpenInv'
      BY <1>21 DEF CleanFile
    <2>2. ContentsInv'
      BY <1>21 DEF CleanFile, Contents, NoShadow, Overlay
    <2> QED BY <2>1, <2>2
  <1>22. ASSUME CleanDone(a) PROVE MadeInv'
    <2>1. StateInv' /\ ChoiceInv' /\ ListInv' /\ OpenInv'
      BY <1>22 DEF CleanDone, ReturnPc, InBegin
    <2>2. NoShadow /\ last = register /\ register \in good
      BY <1>22 DEF CleanDone, ReturnPc, InBegin, NoShadow
    <2>3. Overlay = register /\ Overlay' = Overlay
      BY <1>22, <2>2 DEF CleanDone, ReturnPc, InBegin, NoShadow, Overlay, Contents
    <2>4. ContentsInv'
      BY <1>22, <2>2, <2>3 DEF CleanDone, ReturnPc, InBegin, NoShadow
    <2> QED BY <2>1, <2>4
  <1> HIDE <1>0, <1>00 DEF MadeInv
  <1> QED
    BY <1>1, <1>2, <1>3, <1>4, <1>5, <1>6, <1>7, <1>8, <1>9, <1>10,
       <1>11, <1>12, <1>13, <1>14, <1>15, <1>16, <1>17, <1>18, <1>19,
       <1>20, <1>21, <1>22
    DEF FileAct

-----------------------------------------------------------------------------
\* What holds in every reachable state.

\* A step is a calm one, or writes the files, or changes nothing.
LEMMA KindsOfSteps ==
    ASSUME Recoverable, TypeOK, SafeInv, WriterInv, [Next]_vars
    PROVE  \/ SameConf /\ \E h \in Handles : CalmAct(h)
           \/ \E a \in Admins : FileAct(a)
           \/ UNCHANGED vars
  <1> DEFINE Goal == \/ SameConf /\ \E h \in Handles : CalmAct(h)
                     \/ \E a \in Admins : FileAct(a)
                     \/ UNCHANGED vars
  <1>1. ASSUME NEW h \in Admins, AdminNext(h), SameConf PROVE Goal
    <2>1. h \in Handles /\ ~\E f \in Files : UpdateRegister(h, f)
      BY DEF Handles, SafeInv, AreaInv, UpdateRegister
    <2>2. CalmAct(h) \/ FileAct(h)
      <3>1. LockNormalForUpdate(h) => pc[h] \in {"w_lock1", "w_relock1"}
        BY DEF LockNormalForUpdate
      <3>2. LockShadowForUpdate(h) => pc[h] \in {"w_lock2", "w_relock2"}
        BY DEF LockShadowForUpdate
      <3> QED
        BY <1>1, <2>1, <3>1, <3>2
        DEF AdminNext, UpdateStep, CommitStep, CalmAct, FileAct
    <2> QED BY <1>1, <2>1, <2>2
  <1>2. ASSUME NEW h \in Readers, ReaderNext(h), SameConf PROVE Goal
    BY <1>2 DEF CalmAct, Handles
  <1>3. ASSUME NEW h \in Handles, EndTrans(h) \/ Crash(h) \/ CloseHandle(h),
               SameConf
        PROVE  Goal
    <2>1. EndWrite(h) => h \in Admins
      BY DEF EndWrite, WriterInv
    <2> QED BY <1>3, <2>1 DEF EndTrans, CalmAct, FileAct
  <1> HIDE DEF Goal
  <1>4. Goal
    BY <1>1, <1>2, <1>3 DEF Next, Goal
  <1> QED BY <1>4 DEF Goal

\* Only zebra_init changes whether the register is made.
LEMMA MadeStays ==
    ASSUME NEW a \in Admins, FileAct(a), ~InitStep(a)
    PROVE  made' = made
  BY DEF FileAct, LockNormalForUpdate, LockShadowForUpdate, ReadStateForUpdate,
     TruncateState, WriteStateDirty, OpenFile, OpenNewFile, UpdateShadow,
     CopyFile, CleanFile, ListFile, RegisterOpened, EndWrite, ReadStateAtEnd,
     WriteStateAtEnd, ReadStateForCommit, WriteStateCommit, CopyDone,
     WriteStateOnline, LockShadowForClean, CleanDone, ghostVars

\* Every step keeps the invariant, ...
LEMMA SafeStep ==
    ASSUME Recoverable
    PROVE  /\ TypeOK /\ CountInv /\ SafeInv /\ WriterInv /\ [Next]_vars /\ TypeOK'
           => SafeInv'
  <1> SUFFICES ASSUME TypeOK, CountInv, SafeInv, WriterInv, [Next]_vars, TypeOK'
               PROVE  SafeInv'
    OBVIOUS
  <1>1. ASSUME NEW h \in Handles, SameConf, CalmAct(h) PROVE SafeInv'
    BY <1>1, CalmActs, CalmStep
  <1>2. ASSUME NEW a \in Admins, FileAct(a) PROVE SafeInv'
    <2>1. AreaInv'
      BY <1>2, AreaActs DEF SafeInv
    <2>2. CASE InitStep(a)
      BY <2>1, <2>2, InitActs DEF SafeInv
    <2>3. CASE ~InitStep(a)
      BY <1>2, <2>1, <2>3, FileActs, MadeStays DEF SafeInv
    <2> QED BY <2>2, <2>3
  <1>3. ASSUME UNCHANGED vars PROVE SafeInv'
    <2>1. FilesStay /\ \A h \in Admins : Stays(h)
      BY <1>3 DEF vars, fileVars, transVars, commitVars, openVars, ghostVars,
         FilesStay, Stays
    <2> QED BY <2>1, CalmStep
  <1> QED BY <1>1, <1>2, <1>3, KindsOfSteps

\* ... and it holds before the first.
LEMMA SafeInit == Init => SafeInv /\ WriterInv
  <1> SUFFICES ASSUME Init PROVE SafeInv /\ WriterInv
    OBVIOUS
  <1>1. \A h \in Admins : pc[h] = Ready /\ transWNo[h] = 0
    BY DEF Init, Handles
  <1>0. AreaInv
    BY <1>1 DEF Init, AreaInv, Emptying, EmptyContents, Ready
  <1>2. StateInv /\ ChoiceInv /\ ListInv /\ OpenInv
    BY <1>1 DEF Init, NoState, StateInv, StateAt, Updating, ChoiceInv, ListInv,
       OpenInv, Ready, TornPcs, CopyPcs, RemovePcs, EndPcs
  <1>3. Overlay = last /\ last = register /\ last \in good
        /\ last = [f \in Files |-> 0]
    BY DEF Init, Overlay, Absent
  <1>4. ContentsInv
    BY <1>1, <1>3 DEF Init, ContentsInv, Ready, EndPcs, RemovePcs
  <1> QED
    BY <1>0, <1>1, <1>2, <1>4
    DEF SafeInv, MadeInv, WriterInv, Init, Handles, Ready, EndPcs

\* The inductive invariant of the protocol with one administrator.
THEOREM SafeAlways == ASSUME Recoverable PROVE Spec => []SafeInv
  <1>1. Init => SafeInv /\ WriterInv
    BY SafeInit
  <1>2. /\ IInv /\ IInv' /\ SafeInv /\ WriterInv /\ [Next]_vars
        => (SafeInv /\ WriterInv)'
    BY SafeStep, WriterStep DEF IInv
  <1> QED BY <1>1, <1>2, Invariance, PTL DEF Spec

\* What the server processes are meant to read is the result of a finished
\* write transaction, at whatever recoverable point the administrator is
\* killed, as long as zebra_init has removed nothing of it.
THEOREM LiveAlwaysConsistent ==
    ASSUME Recoverable PROVE Spec => []LiveConsistent
  <1>1. SafeInv => LiveConsistent
    <2> SUFFICES ASSUME MadeInv PROVE Live \in good
      BY DEF LiveConsistent, SafeInv
    <2>1. CASE state.val = "c" \/ \E h \in Admins : Rewriting(h)
      <3>1. ~Doubtful
        BY <2>1, ConstantsAssumption
        DEF Recoverable, Doubtful, BeingDiscarded, Rewriting, MadeInv, StateInv,
            StateAt, ChoiceInv, TornPcs, RemovePcs, CopyPcs
      <3> QED BY <2>1, <3>1 DEF MadeInv, ContentsInv, Live
    <2>2. CASE ~(state.val = "c" \/ \E h \in Admins : Rewriting(h))
      BY <2>2 DEF MadeInv, ContentsInv, Live
    <2> QED BY <2>1, <2>2
  <1> QED BY <1>1, SafeAlways, PTL

\* What finished last is what a commit would make live: a finished update goes
\* only by a clean, an init or the recovery from a later update that was killed,
\* and nothing of one that was killed half way shows up.
THEOREM FinishedUpdatesAlwaysKept ==
    ASSUME Recoverable PROVE Spec => []FinishedUpdatesKept
  <1>1. SafeInv => FinishedUpdatesKept
    BY DEF SafeInv, MadeInv, ContentsInv, FinishedUpdatesKept, Doubtful,
       BeingDiscarded, Ready
  <1> QED BY <1>1, SafeAlways, PTL

-----------------------------------------------------------------------------
\* The protocol implements the atomic updates of SafeUpdate.

\* The live contents, and those that a commit would make live, as SafeUpdate
\* has them.
Seen == IF made THEN Live ELSE BeingRemoved
Pending == IF ~made THEN BeingRemoved
           ELSE IF DirtyShadow THEN NotFinished ELSE Overlay
Stutter == UNCHANGED <<Seen, Pending>>

\* The shadow area is dirty when its contents are in doubt.
LEMMA PendingIs ==
    made => Seen = Live /\ Pending = IF Doubtful THEN NotFinished ELSE Overlay
  BY DEF Seen, Pending, DirtyShadow, Doubtful

\* The types of what SafeUpdate sees.
LEMMA AbstractTypes ==
    ASSUME TypeOK
    PROVE  /\ Overlay \in Contents /\ Live \in Contents
           /\ NotFinished \notin Contents /\ EmptyContents \in Contents
  <1>1. Overlay \in Contents
    BY OverlayType DEF TypeOK
  <1>2. NotFinished \notin Contents
    <2>1. PICK f \in Files : TRUE
      BY ConstantsAssumption
    <2> SUFFICES ASSUME NotFinished \in Contents PROVE FALSE
      OBVIOUS
    <2>2. NotFinished[f] = -2
      BY DEF NotFinished, Absent
    <2> QED BY <2>2 DEF Contents
  <1> QED BY <1>1, <1>2 DEF TypeOK, FilesOK, Live, Contents, EmptyContents

\* The steps of SafeUpdate with a register in use, by what they do to the two
\* contents.
LEMMA AbstractSteps ==
    ASSUME TypeOK, TypeOK', made, made',
           \/ Live' = Live /\ Pending' = Pending
           \/ Live' = Live /\ Pending = Overlay /\ Pending' = NotFinished
           \/ Live' = Live /\ Pending = NotFinished /\ Pending' = Overlay'
           \/ Live' = Live /\ Pending' = Live
           \/ Live' = Overlay /\ Pending = Overlay /\ Pending' = Overlay
    PROVE  [Abstract!AbstractNext]_<<Seen, Pending>>
  <1>1. Overlay \in Contents /\ Overlay' \in Contents
    <2>1. \A f \in Files : Overlay'[f] \in Nat
      BY DEF TypeOK, FilesOK, Overlay, Contents, Absent, Blank
    <2> QED BY <2>1, AbstractTypes DEF Overlay, Contents
  <1>2. Seen = Live /\ Seen' = Live'
    BY DEF Seen
  <1> HIDE DEF Seen, Pending
  <1> QED
    BY <1>1, <1>2
    DEF Abstract!AbstractNext, Abstract!StartUpdate, Abstract!FinishUpdate,
        Abstract!Discard, Abstract!CommitPending, Seen, Pending

\* A calm step is none to SafeUpdate.
LEMMA CalmRefines ==
    ASSUME TypeOK, TypeOK', SafeInv, FilesStay,
           \A h \in Admins : Stays(h) \/ CalmsDown(h)
    PROVE  Stutter
  <1> USE DEF FilesStay, Stays, CalmsDown, CalmPcs, TornPcs, RemovePcs,
              CopyPcs, ReadPcs, Ready
  <1>1. CASE made
    <2>1. Doubtful' = Doubtful
      BY <1>1 DEF SafeInv, MadeInv, Doubtful, BeingDiscarded, StateInv, StateAt
    <2>2. Live' = Live /\ Overlay' = Overlay /\ made' = made
      BY DEF Live, Rewriting, Overlay
    <2> QED
      BY <1>1, <2>1, <2>2
      DEF Stutter, Seen, Pending, DirtyShadow, Doubtful, NotFinished, BeingRemoved
  <1>2. CASE ~made
    BY <1>2 DEF Stutter, Seen, Pending, BeingRemoved
  <1> QED BY <1>1, <1>2

\* A removal, and the end of zebra_init, are steps of SafeUpdate.
LEMMA InitRefines ==
    ASSUME Recoverable, TypeOK, TypeOK', CountInv, SafeInv, NEW a \in Admins,
           InitStep(a)
    PROVE  [Abstract!AbstractNext]_<<Seen, Pending>>
  <1> USE DEF Abstract!AbstractNext
  <1>1. CASE ~made'
    BY <1>1 DEF Seen, Pending, BeingRemoved, Abstract!StartReset
  <1>2. ASSUME made', ShadowReset(a) PROVE Stutter
    <2>1. /\ UNCHANGED <<state, register, shadow, commitSeen, cleanOnly, made>>
          /\ pc' = [pc EXCEPT ![a] = "i_register"] /\ pc[a] = "i_reset"
      BY <1>2 DEF ShadowReset, Goto, fileVars, commitVars, ghostVars
    <2>2. pc \in [Handles -> PCs] /\ Admins \subseteq Handles
      BY DEF TypeOK, Handles
    <2>3. /\ Live' = Live /\ Overlay' = Overlay
          /\ DirtyShadow' = DirtyShadow
      BY <2>1, <2>2 DEF Live, Rewriting, Overlay, DirtyShadow, BeingDiscarded
    <2> QED BY <2>1, <2>3 DEF Stutter, Seen, Pending, NotFinished, BeingRemoved
  <1>3. ASSUME made', WriteStateInit(a)
        PROVE  [Abstract!AbstractNext]_<<Seen, Pending>>
    <2>1. /\ \A f \in Files : shadow'[f] = Absent
          /\ register' = EmptyContents /\ state'.val = "o" /\ ~made
          /\ pc' = [pc EXCEPT ![a] = Ready]
      BY <1>3
      DEF WriteStateInit, SafeInv, AreaInv, Emptying, NoShadow, NoState, Goto,
          fileVars
    <2>2. /\ \A k \in Admins : k = a
          /\ pc \in [Handles -> PCs] /\ Admins \subseteq Handles
      BY DEF Recoverable, TypeOK, Handles
    <2>3. Overlay' = EmptyContents
      BY <2>1 DEF Overlay, EmptyContents, Absent
    <2>4. ~DirtyShadow' /\ Live' = EmptyContents
      BY <2>1, <2>2, <2>3 DEF DirtyShadow, BeingDiscarded, Live, Ready
    <2> QED
      BY <1>3, <2>1, <2>3, <2>4
      DEF Seen, Pending, BeingRemoved, EmptyContents, Abstract!FinishReset
  <1>4. made' => ShadowReset(a) \/ WriteStateInit(a)
    BY DEF InitStep, ResetShadowFile, ResetRegisterFile, ResetCache
  <1> QED BY <1>1, <1>2, <1>3, <1>4 DEF Stutter

\* Each step that writes the files of a register in use is one step of
\* SafeUpdate, or none.
LEMMA FileRefines ==
    ASSUME Recoverable, TypeOK, TypeOK', CountInv, SafeInv, made, made',
           NEW a \in Admins, ~InitStep(a)
    PROVE  FileAct(a) => [Abstract!AbstractNext]_<<Seen, Pending>>
  <1> DEFINE Goal == [Abstract!AbstractNext]_<<Seen, Pending>>
  <1>0. /\ \A k \in Admins : k = a
        /\ conf.shadow /\ ~conf.direct /\ a \in Handles
        /\ pc \in [Handles -> PCs] /\ transWNo \in [Handles -> {0, 1}]
        /\ todo \in [Handles -> SUBSET Files]
        /\ commitSeen \in [Handles -> StateFile]
        /\ cleanOnly \in [Handles -> BOOLEAN]
        /\ state \in StateFile /\ cache \in SUBSET Files
        /\ shadow \in [Files -> Nat \cup {Absent, Blank}]
        /\ register \in Contents
        /\ pc[a] \in BeginPcs => transWNo[a] # 0
    BY DEF Recoverable, TypeOK, TransOK, WorkOK, SeenOK, FilesOK, Handles, CountInv
  <1>00. /\ Doubtful <=> \/ state.val = "d" \/ pc[a] = "e_set"
                         \/ BeingDiscarded(a)
         /\ (\E h \in Admins : Rewriting(h)) <=> Rewriting(a)
         /\ Pending = IF Doubtful THEN NotFinished ELSE Overlay
    BY <1>0, PendingIs DEF Doubtful
  <1>01. /\ Doubtful' <=> \/ state'.val = "d" \/ pc'[a] = "e_set"
                          \/ BeingDiscarded(a)'
         /\ (\E h \in Admins : Rewriting(h))' <=> Rewriting(a)'
         /\ Pending' = IF Doubtful' THEN NotFinished ELSE Overlay'
    BY <1>0 DEF Doubtful, Pending, DirtyShadow, NotFinished
  <1>02. MadeInv /\ pc[a] # "i_trunc"
    BY DEF SafeInv, AreaInv, Emptying
  <1> USE <1>0, <1>00, <1>01, <1>02 DEF MadeInv, Goto, fileVars, lockVars, transVars,
          commitVars, openVars, regVars, ghostVars, Ready, TornPcs, RemovePcs,
          CopyPcs, BeginPcs, EndPcs, StateInv, StateAt, Updating, ChoiceInv, ListInv,
          ContentsInv, BeingDiscarded, Rewriting, Live, StateFile
  <1>1. ASSUME LockNormalForUpdate(a), pc[a] = "w_relock1" PROVE Goal
    BY <1>1, AbstractSteps DEF LockNormalForUpdate, Overlay, Contents, Absent, Blank
  <1>2. ASSUME LockShadowForUpdate(a), pc[a] = "w_relock2" PROVE Goal
    BY <1>2, AbstractSteps DEF LockShadowForUpdate, Overlay, Contents, Absent, Blank
  <1>3. ASSUME ReadStateForUpdate(a), GetState.val = "o" PROVE Goal
    BY <1>3, AbstractSteps DEF ReadStateForUpdate, Overlay, Contents, Absent, Blank
  <1>4. ASSUME TruncateState(a) PROVE Goal
    <2>1. /\ Overlay' = Overlay /\ register' = register /\ cleanOnly' = cleanOnly
          /\ commitSeen' = commitSeen /\ state'.val = "t"
          /\ pc' = [pc EXCEPT ![a] = pc'[a]]
      BY <1>4, ZenonT(40) DEF TruncateState, Truncated, Overlay
    <2>2. NoShadow => Overlay = register
      BY DEF NoShadow, Overlay, Contents, Absent
    <2>3. CASE pc[a] = "w_trunc"
      <3>1. pc'[a] = "w_set" /\ (state.val # "o" => NoShadow)
        BY <1>4, <2>3 DEF TruncateState, NoShadow
      <3> QED BY <2>1, <2>2, <2>3, <3>1, AbstractSteps
    <2>4. CASE pc[a] = "e_trunc"
      <3>1. pc'[a] = "e_set"
        BY <1>4, <2>4 DEF TruncateState
      <3> QED BY <2>1, <2>4, <3>1, AbstractSteps
    <2>5. CASE pc[a] = "c_trunc"
      <3>1. pc'[a] = "c_set"
        BY <1>4, <2>5 DEF TruncateState
      <3> QED BY <2>1, <2>5, <3>1, AbstractSteps
    <2>6. CASE pc[a] = "c_otrunc"
      <3>1. pc'[a] = "c_oset"
        BY <1>4, <2>6 DEF TruncateState
      <3> QED BY <2>1, <2>6, <3>1, AbstractSteps
    <2> QED BY <1>4, <2>3, <2>4, <2>5, <2>6 DEF TruncateState
  <1>5. ASSUME WriteStateDirty(a) PROVE Goal
    BY <1>5, AbstractSteps DEF WriteStateDirty, Overlay, Contents, Absent, Blank
  <1>6. ASSUME NEW f \in Files, OpenFile(a, f) PROVE Goal
    BY <1>6, AbstractSteps DEF OpenFile, Overlay, Contents, Absent, Blank
  <1>7. ASSUME NEW f \in Files, OpenNewFile(a, f) PROVE Goal
    BY <1>7, AbstractSteps DEF OpenNewFile, Overlay, Contents, Absent, Blank
  <1>8. ASSUME ListFile(a) PROVE Goal
    BY <1>8, AbstractSteps DEF ListFile, Overlay, Contents, Absent, Blank
  <1>9. ASSUME RegisterOpened(a) PROVE Goal
    BY <1>9, AbstractSteps DEF RegisterOpened, Overlay, Contents, Absent, Blank
  <1>10. ASSUME NEW f \in Files, UpdateShadow(a, f) PROVE Goal
    BY <1>10, AbstractSteps DEF UpdateShadow, Overlay, Contents, Absent, Blank
  <1>11. ASSUME EndWrite(a) PROVE Goal
    BY <1>11, AbstractSteps DEF EndWrite, Overlay, Contents, Absent, Blank
  <1>12. ASSUME ReadStateAtEnd(a) PROVE Goal
    <2>1. UNCHANGED <<state, register, shadow, cleanOnly, commitSeen>>
      BY <1>12 DEF ReadStateAtEnd, ShadowUnusable, GetState
    <2>2. pc' = [pc EXCEPT ![a] = "e_trunc"] /\ pc[a] = "e_state"
      BY <1>12 DEF ReadStateAtEnd
    <2> QED BY <2>1, <2>2, AbstractSteps DEF Overlay
  <1>13. ASSUME WriteStateAtEnd(a) PROVE Goal
    BY <1>13, AbstractSteps DEF WriteStateAtEnd, Overlay, Contents, Absent, Blank
  <1>14. ASSUME ReadStateForCommit(a), cache = {} => InBegin(a) PROVE Goal
    BY <1>14, AbstractSteps DEF ReadStateForCommit, ReturnPc, InBegin, MustClean, GetState, Overlay, Contents, Absent, Blank
  <1>15. ASSUME WriteStateCommit(a) PROVE Goal
    BY <1>15, AbstractSteps DEF WriteStateCommit, Overlay, Contents, Absent, Blank
  <1>16. ASSUME NEW f \in Files, CopyFile(a, f) PROVE Goal
    BY <1>16, AbstractSteps DEF CopyFile, Overlay, Contents, Absent, Blank
  <1>17. ASSUME CopyDone(a) PROVE Goal
    BY <1>17, AbstractSteps DEF CopyDone, Overlay, Contents, Absent, Blank
  <1>18. ASSUME WriteStateOnline(a) PROVE Goal
    BY <1>18, AbstractSteps DEF WriteStateOnline, Overlay, Contents, Absent, Blank
  <1>19. ASSUME LockShadowForClean(a) PROVE Goal
    BY <1>19, AbstractSteps DEF LockShadowForClean, Overlay, Contents, Absent, Blank
  <1>20. ASSUME NEW f \in Files, CleanFile(a, f) PROVE Goal
    BY <1>20, AbstractSteps DEF CleanFile, Overlay, Contents, Absent, Blank
  <1>21. ASSUME CleanDone(a) PROVE Goal
    BY <1>21, AbstractSteps DEF CleanDone, ReturnPc, InBegin, Overlay, Contents, Absent, Blank
  <1> HIDE <1>0, <1>00, <1>01, <1>02 DEF Goal, MadeInv
  <1> QED
    BY <1>1, <1>2, <1>3, <1>4, <1>5, <1>6, <1>7, <1>8, <1>9, <1>10, <1>11,
       <1>12, <1>13, <1>14, <1>15, <1>16, <1>17, <1>18, <1>19, <1>20, <1>21
    DEF FileAct, Goal

\* The transactions, the commit and zebra_init, with readers that come and go
\* and a process that is killed, implement atomic updates.
THEOREM UpdatesAlwaysSafe == ASSUME Recoverable PROVE Spec => UpdatesAreSafe
  <1>1. Init => Abstract!AbstractInit
    <2> SUFFICES ASSUME Init PROVE Abstract!AbstractInit
      OBVIOUS
    <2>1. Live = register /\ Overlay = register /\ register \in Contents
      BY DEF Init, NoState, Live, Rewriting, Ready, Handles, Overlay, Absent,
         Contents
    <2>2. ~DirtyShadow
      BY DEF Init, NoState, DirtyShadow, BeingDiscarded, Ready, Handles
    <2>3. made
      BY DEF Init
    <2> QED BY <2>1, <2>2, <2>3 DEF Abstract!AbstractInit
  <1>2. /\ IInv /\ IInv' /\ SafeInv /\ WriterInv /\ [Next]_vars
        => [Abstract!AbstractNext]_<<Seen, Pending>>
    <2> SUFFICES ASSUME IInv, IInv', SafeInv, WriterInv, [Next]_vars
                 PROVE  [Abstract!AbstractNext]_<<Seen, Pending>>
      OBVIOUS
    <2>0. TypeOK /\ TypeOK' /\ CountInv
      BY DEF IInv
    <2>1. ASSUME NEW h \in Handles, SameConf, CalmAct(h)
          PROVE  [Abstract!AbstractNext]_<<Seen, Pending>>
      BY <2>0, <2>1, CalmActs, CalmRefines DEF Stutter
    <2>2. ASSUME NEW a \in Admins, FileAct(a)
          PROVE  [Abstract!AbstractNext]_<<Seen, Pending>>
      <3>1. CASE InitStep(a)
        BY <2>0, <3>1, InitRefines
      <3>2. CASE ~InitStep(a) /\ made
        BY <2>0, <2>2, <3>2, FileRefines, MadeStays
      <3>3. CASE ~InitStep(a) /\ ~made
        BY <2>2, <3>3, MadeStays DEF Seen, Pending, BeingRemoved
      <3> QED BY <3>1, <3>2, <3>3
    <2>3. ASSUME UNCHANGED vars
          PROVE  UNCHANGED <<Seen, Pending>>
      BY <2>3 DEF vars, fileVars, commitVars, ghostVars, Live, Rewriting, Seen,
         Pending, DirtyShadow, BeingDiscarded, Overlay, NotFinished, BeingRemoved
    <2> QED BY <2>0, <2>1, <2>2, <2>3, KindsOfSteps
  <1>3. Init => SafeInv /\ WriterInv
    BY SafeInit
  <1>4. /\ IInv /\ IInv' /\ SafeInv /\ WriterInv /\ [Next]_vars
        => (SafeInv /\ WriterInv)'
    BY SafeStep, WriterStep DEF IInv
  <1> QED
    BY <1>1, <1>2, <1>3, <1>4, Invariance, PTL
    DEF Spec, UpdatesAreSafe, Abstract!AbstractSpec, Abstract!abstractVars, Seen, Pending
=============================================================================
