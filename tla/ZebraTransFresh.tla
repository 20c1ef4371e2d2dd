-------------------------- MODULE ZebraTransFresh --------------------------
(***************************************************************************)
(* Proofs about ZebraTrans: a read transaction never reads a block older   *)
(* than what was online when it began, although a reader whose register    *)
(* is up to date reads without any lock.  The numbers that the protocol    *)
(* gives to write transactions only grow, and the seqno of the state file  *)
(* grows with every change of what is online.                              *)
(***************************************************************************)
EXTENDS ZebraTransProofs

\* No call fails, no process is killed, none calls zebra_init, and updates do
\* not bypass the shadow area: such updates put files online without a new
\* seqno.
Steady == /\ MaxCalls["fault"] = 0 /\ MaxCalls["init"] = 0
          /\ \A s \in Setups : ~(s.shadow /\ s.direct)

\* The numbers of the write transactions never go back: what is online is not
\* newer than the register, nor this than the shadow area.
Copying(h) == pc[h] \in {"c_copy", "c_otrunc", "c_oset"}
OrderInv ==
    /\ \A f \in Files :
           /\ online[f] <= register[f] /\ register[f] <= ver
           /\ shadow[f] >= 0 => register[f] <= shadow[f] /\ shadow[f] <= ver
           /\ ~conf.shadow => shadow[f] = Absent
    /\ conf.shadow => register = online \/ \E h \in Handles : Copying(h)

\* No update or commit finds a state that calls for recovery.
Within(h) == \/ pc[h] = Ready /\ transWNo[h] # 0
             \/ pc[h] \in {"w_set", "w_open", "w_list", "c_set"} \cup EndPcs
             \/ Copying(h)
OnlineInv ==
    /\ state.val = "o" \/ \E h \in Handles : Within(h)
    /\ \A h \in Handles :
           /\ pc[h] \in {"w_trunc", "c_trunc"} => state.val = "o"
           /\ pc[h] \notin {"w_relock1", "w_relock2"}
           /\ pc[h] \in CommitPcs \cup EndPcs => transNo[h] = 0
           /\ \/ transWNo[h] # 0
              \/ pc[h] \in EndPcs
              => useShadow[h] = conf.shadow

\* n is the seqno of the state file, or what it gets when it is rewritten.
Seqno(n) ==
    /\ state.val # "t" => state.seqno = n
    /\ \A h \in Handles :
           /\ pc[h] \in {"w_trunc", "w_set", "w_open", "w_list", "e_trunc", "e_set"}
              => seen[h].seqno = n
           /\ pc[h] \in {"c_trunc", "c_set"} \/ Copying(h)
              => commitSeen[h].seqno = n

\* A register that was opened at the seqno n shows nothing older than what is
\* online.
Current(h) == \A f \in Files : view[h][f] = Absent \/ online[f] <= view[h][f]
ViewsAt(n) ==
    \A h \in Handles :
        /\ pc[h] \in ReadPcs => seen[h].seqno <= n
        /\ reg[h].status = "open" =>
               reg[h].seqno <= n /\ (reg[h].seqno = n => Current(h))
SeqnoInv == \E n \in Nat : Seqno(n) /\ ViewsAt(n)

\* What a reader has read is not older than what was online at its begin.
FloorInv ==
    \A h \in Handles :
        /\ InRead(h) \/ pc[h] \in ReadPcs =>
               \A f \in Files : floor[h][f] <= online[f]
        /\ InRead(h) /\ ~torn[h] =>
               \A f \in Files : view[h][f] = Absent \/ floor[h][f] <= view[h][f]
        /\ reg[h].status # "open" \/ transWNo[h] # 0
           => \A f \in Files : view[h][f] = Absent

\* The inductive invariant, besides IInv, DirtyInv and WriterInv.
FreshInv == OrderInv /\ OnlineInv /\ SeqnoInv /\ FloorInv

-----------------------------------------------------------------------------
\* Every step keeps the invariant.

\* The handle that owns the state file, the shadow area and the register.
Owns(h) == Within(h) \/ pc[h] \in UpdatePcs \cup CommittingPcs

\* At most one handle owns them.
LEMMA OneOwns ==
    ASSUME IInv, NEW j \in Handles, NEW k \in Handles, Owns(j), Owns(k)
    PROVE  j = k
  <1>1. \A h \in Handles : Owns(h) =>
            \/ lockShadow[h] = "w"
            \/ lockNormal[h] = "w" /\ lockShadow[h] = "r"
    BY DEF IInv, HeldInv, Owns, Within, Copying, UpdatePcs, CommittingPcs, EndPcs
  <1> QED BY <1>1 DEF IInv, LockInv, Exclusive

\* A reader keeps finding what was last committed.
LEMMA FreshStep ==
    ASSUME Steady
    PROVE  /\ IInv /\ IInv' /\ DirtyInv /\ WriterInv /\ FreshInv /\ [Next]_vars
           => FreshInv'
  <1> SUFFICES ASSUME IInv, IInv', DirtyInv, WriterInv, FreshInv, [Next]_vars
               PROVE  FreshInv'
    OBVIOUS
  <1>a. /\ pc \in [Handles -> PCs] /\ transWNo \in [Handles -> {0, 1}]
        /\ transNo \in [Handles -> Nat] /\ state \in StateFile
        /\ useShadow \in [Handles -> BOOLEAN]
        /\ seen \in [Handles -> StateFile] /\ reg \in [Handles -> RegTypes]
        /\ commitSeen \in [Handles -> StateFile]
        /\ view \in [Handles -> [Files -> Nat \cup {Absent}]]
        /\ floor \in [Handles -> [Files -> Nat]]
        /\ torn \in [Handles -> BOOLEAN]
        /\ shadow \in [Files -> Nat \cup {Absent, Blank}]
        /\ register \in [Files -> Nat] /\ online \in [Files -> Nat] /\ ver \in Nat
        /\ conf.shadow \in BOOLEAN /\ ~(conf.shadow /\ conf.direct)
    BY ConstantsAssumption
    DEF Steady, IInv, TypeOK, TransOK, SeenOK, FilesOK, RegOK, GhostOK, Contents
  <1>b. \A k \in Handles :
            /\ pc[k] \in BeginPcs => transWNo[k] # 0
            /\ pc[k] \in EndPcs \cup ReadPcs => transWNo[k] = 0
            /\ transWNo[k] # 0 => transNo[k] # 0 /\ leaked[k] = 0
            /\ transWNo[k] # 0 \/ pc[k] \in EndPcs => k \in Admins
            /\ pc[k] \notin InitPcs
    BY DEF IInv, CountInv, DirtyInv, NoInit, WriterInv
  <1>c. \A j, k \in Handles : Owns(j) /\ Owns(k) => j = k
    BY OneOwns
  <1>n. PICK n \in Nat : Seqno(n) /\ ViewsAt(n)
    BY DEF FreshInv, SeqnoInv
  <1>s. /\ conf' = conf
        /\ state' \in StateFile /\ reg' \in [Handles -> RegTypes]
        /\ online' \in [Files -> Nat] /\ register' \in [Files -> Nat]
        /\ ver' \in Nat
    <2>1. conf' = conf
      BY DEF Next, SameConf, vars
    <2> QED BY <2>1 DEF IInv, TypeOK, FilesOK, RegOK, GhostOK, Contents
  <1> USE <1>a, <1>b, <1>c, <1>s DEF FreshInv, Goto, fileVars, lockVars,
  transVars,
          commitVars, openVars, beganVars, regVars, ghostVars, Ready, UpdatePcs,
          CommittingPcs, CommitPcs, ReadPcs, BeginPcs, EndPcs, Within, Copying,
          Owns
  <1>1. ASSUME NEW h \in Handles, BeginWriteNested(h) PROVE FreshInv'
    <2>1. OrderInv'
      BY <1>1 DEF BeginWriteNested, Call, OrderInv
    <2>2. OnlineInv'
      BY <1>1 DEF BeginWriteNested, Call, OnlineInv
    <2>3. Seqno(n)' /\ ViewsAt(n)'
      BY <1>1, <1>n DEF BeginWriteNested, Call, Seqno, ViewsAt, Current
    <2>4. FloorInv'
      BY <1>1 DEF BeginWriteNested, Call, FloorInv, InRead
    <2> QED BY <2>1, <2>2, <2>3, <2>4 DEF SeqnoInv
  <1>2. ASSUME NEW h \in Handles, BeginWriteInRead(h) PROVE FreshInv'
    <2>1. OrderInv'
      BY <1>2 DEF BeginWriteInRead, Call, OrderInv
    <2>2. OnlineInv'
      BY <1>2 DEF BeginWriteInRead, Call, OnlineInv
    <2>3. Seqno(n)' /\ ViewsAt(n)'
      BY <1>2, <1>n DEF BeginWriteInRead, Call, Seqno, ViewsAt, Current
    <2>4. FloorInv'
      BY <1>2 DEF BeginWriteInRead, Call, FloorInv, InRead
    <2> QED BY <2>1, <2>2, <2>3, <2>4 DEF SeqnoInv
  <1>3. ASSUME NEW h \in Handles, NEW sh \in BOOLEAN, BeginWrite(h, sh) PROVE FreshInv'
    <2>1. OrderInv'
      BY <1>3 DEF BeginWrite, Call, NoReg, FreedReg, NoView, OrderInv
    <2>2. OnlineInv'
      BY <1>3 DEF BeginWrite, Call, NoReg, FreedReg, NoView, OnlineInv
    <2>3. Seqno(n)' /\ ViewsAt(n)'
      BY <1>3, <1>n DEF BeginWrite, Call, NoReg, FreedReg, NoView, Seqno,
         ViewsAt, Current
    <2>4. FloorInv'
      BY <1>3 DEF BeginWrite, Call, NoReg, FreedReg, NoView, FloorInv, InRead
    <2> QED BY <2>1, <2>2, <2>3, <2>4 DEF SeqnoInv
  <1>4. ASSUME NEW h \in Handles, LockNormalForUpdate(h) PROVE FreshInv'
    <2>1. OrderInv'
      BY <1>4 DEF LockNormalForUpdate, OrderInv
    <2>2. OnlineInv'
      BY <1>4 DEF LockNormalForUpdate, OnlineInv
    <2>3. Seqno(n)' /\ ViewsAt(n)'
      BY <1>4, <1>n DEF LockNormalForUpdate, Seqno, ViewsAt, Current
    <2>4. FloorInv'
      BY <1>4 DEF LockNormalForUpdate, FloorInv, InRead
    <2> QED BY <2>1, <2>2, <2>3, <2>4 DEF SeqnoInv
  <1>5. ASSUME NEW h \in Handles, LockShadowForUpdate(h) PROVE FreshInv'
    <2>1. OrderInv'
      BY <1>5 DEF LockShadowForUpdate, OrderInv
    <2>2. OnlineInv'
      BY <1>5 DEF LockShadowForUpdate, OnlineInv
    <2>3. Seqno(n)' /\ ViewsAt(n)'
      <3>1. pc[h] = "w_lock2"
        BY <1>5 DEF LockShadowForUpdate, OnlineInv
      <3> QED BY <1>5, <1>n, <3>1 DEF LockShadowForUpdate, Seqno, ViewsAt, Current
    <2>4. FloorInv'
      BY <1>5 DEF LockShadowForUpdate, FloorInv, InRead
    <2> QED BY <2>1, <2>2, <2>3, <2>4 DEF SeqnoInv
  <1>6. ASSUME NEW h \in Handles, ReadStateForUpdate(h) PROVE FreshInv'
    <2>a. state.val = "o" /\ \A k \in Handles : Owns(k) => k = h
      BY <1>6 DEF ReadStateForUpdate, OnlineInv
    <2>1. OrderInv'
      BY <1>6 DEF ReadStateForUpdate, GetState, OrderInv
    <2>2. OnlineInv'
      BY <1>6 DEF ReadStateForUpdate, GetState, OnlineInv
    <2>3. Seqno(n)' /\ ViewsAt(n)'
      <3>1. GetState = state /\ state.seqno = n /\ pc'[h] = "w_trunc"
        BY <1>6, <1>n, <2>a DEF ReadStateForUpdate, GetState, Seqno
      <3>2. Seqno(n)'
        BY <1>6, <1>n, <3>1 DEF ReadStateForUpdate, Seqno
      <3>3. ViewsAt(n)'
        BY <1>6, <1>n, <3>1 DEF ReadStateForUpdate, ViewsAt, Current
      <3> QED BY <3>2, <3>3
    <2>4. FloorInv'
      BY <1>6 DEF ReadStateForUpdate, GetState, FloorInv, InRead
    <2> QED BY <2>1, <2>2, <2>3, <2>4 DEF SeqnoInv
  <1>7. ASSUME NEW h \in Handles, TruncateState(h) PROVE FreshInv'
    <2>1. OrderInv'
      BY <1>7 DEF TruncateState, Truncated, OrderInv
    <2>2. OnlineInv'
      <3>0. pc[h] \notin InitPcs
        OBVIOUS
      <3>1. pc[h] \in {"w_trunc", "e_trunc", "c_trunc", "c_otrunc"}
        BY <1>7, <3>0 DEF TruncateState, InitPcs
      <3>2. /\ pc'[h] \in {"w_set", "e_set", "c_set", "c_oset"}
            /\ pc'[h] \in CommitPcs \cup EndPcs
               => pc[h] \in CommitPcs \cup EndPcs \/ pc[h] = "w_trunc"
            /\ \A k \in Handles \ {h} : pc'[k] = pc[k]
        BY <1>7, <3>1 DEF TruncateState
      <3>3. Within(h)' /\ \A k \in Handles : pc'[k] \notin {"w_trunc", "c_trunc"}
        <4>1. Within(h)'
          BY <3>2
        <4>2. Owns(h)
          BY <3>1
        <4>3. \A k \in Handles : pc[k] \in {"w_trunc", "c_trunc"} => k = h
          BY <1>c, <4>2
        <4> QED BY <3>2, <4>1, <4>3
      <3>4. ASSUME NEW k \in Handles
            PROVE  /\ pc'[k] \notin {"w_relock1", "w_relock2"}
                   /\ pc'[k] \in CommitPcs \cup EndPcs => transNo[k] = 0
                   /\ transWNo[k] # 0 \/ pc'[k] \in EndPcs
                      => useShadow[k] = conf.shadow
        <4>1. CASE k = h
          BY <3>1, <3>2, <4>1, <1>7 DEF TruncateState, OnlineInv
        <4>2. CASE k # h
          BY <3>2, <4>2 DEF OnlineInv
        <4> QED BY <4>1, <4>2
      <3>5. transWNo' = transWNo /\ transNo' = transNo /\ useShadow' = useShadow
        BY <1>7 DEF TruncateState
      <3> QED BY <3>3, <3>4, <3>5 DEF OnlineInv
    <2>3. Seqno(n)' /\ ViewsAt(n)'
      BY <1>7, <1>n DEF TruncateState, Truncated, Seqno, ViewsAt, Current
    <2>4. FloorInv'
      BY <1>7 DEF TruncateState, Truncated, FloorInv, InRead
    <2> QED BY <2>1, <2>2, <2>3, <2>4 DEF SeqnoInv
  <1>8. ASSUME NEW h \in Handles, WriteStateDirty(h) PROVE FreshInv'
    <2>1. OrderInv'
      <3>1. /\ UNCHANGED <<online, register, shadow>> /\ ver' = ver + 1
            /\ \A k \in Handles : Copying(k) => Copying(k)'
        BY <1>8 DEF WriteStateDirty
      <3>2. ASSUME NEW f \in Files
            PROVE  /\ online[f] <= register[f] /\ register[f] <= ver + 1
                   /\ shadow[f] >= 0 => register[f] <= shadow[f] /\ shadow[f] <= ver + 1
                   /\ ~conf.shadow => shadow[f] = Absent
        <4>1. register[f] <= ver /\ (shadow[f] >= 0 => shadow[f] <= ver)
          BY DEF OrderInv
        <4>2. shadow[f] \in Int /\ register[f] \in Int /\ ver \in Int
          BY SMTT(40) DEF Absent, Blank
        <4> QED BY <4>1, <4>2 DEF OrderInv
      <3> QED BY <3>1, <3>2 DEF OrderInv
    <2>2. OnlineInv'
      BY <1>8 DEF WriteStateDirty, OnlineInv
    <2>3. Seqno(n)' /\ ViewsAt(n)'
      BY <1>8, <1>n DEF WriteStateDirty, Seqno, ViewsAt, Current
    <2>4. FloorInv'
      BY <1>8 DEF WriteStateDirty, FloorInv, InRead
    <2> QED BY <2>1, <2>2, <2>3, <2>4 DEF SeqnoInv
  <1>9. ASSUME NEW h \in Handles, NEW f \in Files, OpenFile(h, f) PROVE FreshInv'
    <2>1. OrderInv'
      BY <1>9 DEF OpenFile, OrderInv
    <2>2. OnlineInv'
      BY <1>9 DEF OpenFile, OnlineInv
    <2>3. Seqno(n)' /\ ViewsAt(n)'
      BY <1>9, <1>n DEF OpenFile, Seqno, ViewsAt, Current
    <2>4. FloorInv'
      BY <1>9 DEF OpenFile, FloorInv, InRead
    <2> QED BY <2>1, <2>2, <2>3, <2>4 DEF SeqnoInv
  <1>10. ASSUME NEW h \in Handles, RegisterOpened(h) PROVE FreshInv'
    <2>1. OrderInv'
      BY <1>10 DEF RegisterOpened, OrderInv
    <2>2. OnlineInv'
      BY <1>10 DEF RegisterOpened, OnlineInv
    <2>3. Seqno(n)' /\ ViewsAt(n)'
      <3>1. /\ seen[h].seqno = n /\ n \in Nat
            /\ \A f \in Files : view[h][f] = Absent
        BY <1>10, <1>n DEF RegisterOpened, Seqno, FloorInv
      <3>2. reg'[h].seqno = n /\ \A k \in Handles \ {h} : reg'[k] = reg[k]
        BY <1>10, <3>1 DEF RegisterOpened
      <3>3. Seqno(n)'
        BY <1>10, <1>n DEF RegisterOpened, Seqno
      <3>4. ViewsAt(n)'
        BY <1>10, <1>n, <3>1, <3>2 DEF RegisterOpened, ViewsAt, Current
      <3> QED BY <3>3, <3>4
    <2>4. FloorInv'
      BY <1>10 DEF RegisterOpened, FloorInv, InRead
    <2> QED BY <2>1, <2>2, <2>3, <2>4 DEF SeqnoInv
  <1>11. ASSUME NEW h \in Handles, EndNested(h) PROVE FreshInv'
    <2>1. OrderInv'
      BY <1>11 DEF EndNested, OrderInv
    <2>2. OnlineInv'
      BY <1>11 DEF EndNested, OnlineInv
    <2>3. Seqno(n)' /\ ViewsAt(n)'
      BY <1>11, <1>n DEF EndNested, Seqno, ViewsAt, Current
    <2>4. FloorInv'
      BY <1>11 DEF EndNested, FloorInv, InRead
    <2> QED BY <2>1, <2>2, <2>3, <2>4 DEF SeqnoInv
  <1>12. ASSUME NEW h \in Handles, EndRead(h) PROVE FreshInv'
    <2>1. OrderInv'
      BY <1>12 DEF EndRead, OrderInv
    <2>2. OnlineInv'
      BY <1>12 DEF EndRead, OnlineInv
    <2>3. Seqno(n)' /\ ViewsAt(n)'
      BY <1>12, <1>n DEF EndRead, Seqno, ViewsAt, Current
    <2>4. FloorInv'
      BY <1>12 DEF EndRead, FloorInv, InRead
    <2> QED BY <2>1, <2>2, <2>3, <2>4 DEF SeqnoInv
  <1>13. ASSUME NEW h \in Handles, EndWrite(h) PROVE FreshInv'
    <2>1. OrderInv'
      BY <1>13 DEF EndWrite, NoReg, OrderInv
    <2>2. OnlineInv'
      BY <1>13 DEF EndWrite, NoReg, OnlineInv
    <2>3. Seqno(n)' /\ ViewsAt(n)'
      BY <1>13, <1>n DEF EndWrite, NoReg, Seqno, ViewsAt, Current
    <2>4. FloorInv'
      BY <1>13 DEF EndWrite, NoReg, FloorInv, InRead
    <2> QED BY <2>1, <2>2, <2>3, <2>4 DEF SeqnoInv
  <1>14. ASSUME NEW h \in Handles, ReadStateAtEnd(h) PROVE FreshInv'
    <2>1. OrderInv'
      BY <1>14 DEF ReadStateAtEnd, GetState, ShadowUnusable, DirtyInv,
         DirtyWhileUpdating, Updating, Handles, OrderInv
    <2>2. OnlineInv'
      BY <1>14 DEF ReadStateAtEnd, GetState, ShadowUnusable, DirtyInv,
         DirtyWhileUpdating, Updating, Handles, OnlineInv
    <2>3. Seqno(n)' /\ ViewsAt(n)'
      BY <1>14, <1>n DEF ReadStateAtEnd, GetState, ShadowUnusable, DirtyInv,
         DirtyWhileUpdating, Updating, Handles, Seqno, ViewsAt, Current
    <2>4. FloorInv'
      BY <1>14 DEF ReadStateAtEnd, GetState, ShadowUnusable, DirtyInv,
         DirtyWhileUpdating, Updating, Handles, FloorInv, InRead
    <2> QED BY <2>1, <2>2, <2>3, <2>4 DEF SeqnoInv
  <1>15. ASSUME NEW h \in Handles, Commit(h) PROVE FreshInv'
    <2>1. OrderInv'
      BY <1>15 DEF Commit, Call, OrderInv
    <2>2. OnlineInv'
      BY <1>15 DEF Commit, Call, OnlineInv
    <2>3. Seqno(n)' /\ ViewsAt(n)'
      BY <1>15, <1>n DEF Commit, Call, Seqno, ViewsAt, Current
    <2>4. FloorInv'
      BY <1>15 DEF Commit, Call, FloorInv, InRead
    <2> QED BY <2>1, <2>2, <2>3, <2>4 DEF SeqnoInv
  <1>16. ASSUME NEW h \in Handles, Clean(h) PROVE FreshInv'
    <2>1. OrderInv'
      BY <1>16 DEF Clean, Call, OrderInv
    <2>2. OnlineInv'
      BY <1>16 DEF Clean, Call, OnlineInv
    <2>3. Seqno(n)' /\ ViewsAt(n)'
      BY <1>16, <1>n DEF Clean, Call, Seqno, ViewsAt, Current
    <2>4. FloorInv'
      BY <1>16 DEF Clean, Call, FloorInv, InRead
    <2> QED BY <2>1, <2>2, <2>3, <2>4 DEF SeqnoInv
  <1>17. ASSUME NEW h \in Handles, LockNormalForCommit(h) PROVE FreshInv'
    <2>1. OrderInv'
      BY <1>17 DEF LockNormalForCommit, ReturnPc, InBegin, OrderInv
    <2>2. OnlineInv'
      BY <1>17 DEF LockNormalForCommit, ReturnPc, InBegin, OnlineInv
    <2>3. Seqno(n)' /\ ViewsAt(n)'
      BY <1>17, <1>n DEF LockNormalForCommit, ReturnPc, InBegin, Seqno, ViewsAt,
         Current
    <2>4. FloorInv'
      <3> SUFFICES ASSUME NEW k \in Handles
                   PROVE  (/\ InRead(k) \/ pc[k] \in ReadPcs =>
                               \A f \in Files : floor[k][f] <= online[f]
                           /\ InRead(k) /\ ~torn[k] => \A f \in Files :
                                 view[k][f] = Absent \/ floor[k][f] <= view[k][f]
                           /\ reg[k].status # "open" \/ transWNo[k] # 0
                               => \A f \in Files : view[k][f] = Absent)'
        BY DEF FloorInv
      <3>1. /\ pc'[h] \in {"c_lock2", Ready} /\ transWNo[h] = 0
            /\ \A j \in Handles \ {h} : pc'[j] = pc[j]
        BY <1>17 DEF LockNormalForCommit, ReturnPc, InBegin, OnlineInv
      <3>2. pc[h] = "c_lock1" /\ transNo[h] = 0
        BY <1>17 DEF LockNormalForCommit, OnlineInv
      <3> QED BY <1>17, <3>1, <3>2 DEF LockNormalForCommit, FloorInv, InRead
    <2> QED BY <2>1, <2>2, <2>3, <2>4 DEF SeqnoInv
  <1>18. ASSUME NEW h \in Handles, LockShadowForCommit(h) PROVE FreshInv'
    <2>1. OrderInv'
      BY <1>18 DEF LockShadowForCommit, OrderInv
    <2>2. OnlineInv'
      BY <1>18 DEF LockShadowForCommit, OnlineInv
    <2>3. Seqno(n)' /\ ViewsAt(n)'
      BY <1>18, <1>n DEF LockShadowForCommit, Seqno, ViewsAt, Current
    <2>4. FloorInv'
      BY <1>18 DEF LockShadowForCommit, FloorInv, InRead
    <2> QED BY <2>1, <2>2, <2>3, <2>4 DEF SeqnoInv
  <1>19. ASSUME NEW h \in Handles, ReadStateForCommit(h) PROVE FreshInv'
    <2>a. state.val = "o" /\ \A k \in Handles : Owns(k) => k = h
      BY <1>19 DEF ReadStateForCommit, OnlineInv
    <2>1. OrderInv'
      BY <1>19 DEF ReadStateForCommit, ReturnPc, InBegin, GetState, OrderInv
    <2>2. OnlineInv'
      BY <1>19 DEF ReadStateForCommit, ReturnPc, InBegin, GetState, OnlineInv
    <2>3. Seqno(n)' /\ ViewsAt(n)'
      <3>1. GetState = state /\ state.seqno = n /\ transWNo[h] = 0
        BY <1>19, <1>n, <2>a DEF ReadStateForCommit, GetState, Seqno, OnlineInv
      <3>2. /\ pc'[h] \in {"c_trunc", Ready} /\ commitSeen'[h].seqno = n
            /\ \A k \in Handles \ {h} : pc'[k] = pc[k] /\ commitSeen'[k] = commitSeen[k]
        BY <1>19, <3>1 DEF ReadStateForCommit, ReturnPc, InBegin
      <3>3. Seqno(n)'
        BY <1>19, <1>n, <3>2 DEF ReadStateForCommit, Seqno
      <3>4. ViewsAt(n)'
        BY <1>19, <1>n, <3>2 DEF ReadStateForCommit, ViewsAt, Current
      <3> QED BY <3>3, <3>4
    <2>4. FloorInv'
      <3> SUFFICES ASSUME NEW k \in Handles
                   PROVE  (/\ InRead(k) \/ pc[k] \in ReadPcs =>
                               \A f \in Files : floor[k][f] <= online[f]
                           /\ InRead(k) /\ ~torn[k] => \A f \in Files :
                                 view[k][f] = Absent \/ floor[k][f] <= view[k][f]
                           /\ reg[k].status # "open" \/ transWNo[k] # 0
                               => \A f \in Files : view[k][f] = Absent)'
        BY DEF FloorInv
      <3>1. /\ pc'[h] \in {"c_trunc", Ready} /\ transWNo[h] = 0
            /\ \A j \in Handles \ {h} : pc'[j] = pc[j]
        BY <1>19 DEF ReadStateForCommit, ReturnPc, InBegin, OnlineInv
      <3>2. pc[h] = "c_state" /\ transNo[h] = 0
        BY <1>19 DEF ReadStateForCommit, OnlineInv
      <3> QED BY <1>19, <3>1, <3>2 DEF ReadStateForCommit, FloorInv, InRead
    <2> QED BY <2>1, <2>2, <2>3, <2>4 DEF SeqnoInv
  <1>20. ASSUME NEW h \in Handles, WriteStateCommit(h) PROVE FreshInv'
    <2>1. OrderInv'
      BY <1>20 DEF WriteStateCommit, OrderInv
    <2>2. OnlineInv'
      BY <1>20 DEF WriteStateCommit, OnlineInv
    <2>3. Seqno(n)' /\ ViewsAt(n)'
      BY <1>20, <1>n DEF WriteStateCommit, Seqno, ViewsAt, Current
    <2>4. FloorInv'
      BY <1>20 DEF WriteStateCommit, FloorInv, InRead
    <2> QED BY <2>1, <2>2, <2>3, <2>4 DEF SeqnoInv
  <1>21. ASSUME NEW h \in Handles, CopyDone(h) PROVE FreshInv'
    <2>1. OrderInv'
      BY <1>21 DEF CopyDone, OrderInv
    <2>2. OnlineInv'
      BY <1>21 DEF CopyDone, OnlineInv
    <2>3. Seqno(n)' /\ ViewsAt(n)'
      BY <1>21, <1>n DEF CopyDone, Seqno, ViewsAt, Current
    <2>4. FloorInv'
      BY <1>21 DEF CopyDone, FloorInv, InRead
    <2> QED BY <2>1, <2>2, <2>3, <2>4 DEF SeqnoInv
  <1>22. ASSUME NEW h \in Handles, WriteStateOnline(h) PROVE FreshInv'
    <2>a. \A k \in Handles : Owns(k) => k = h
      BY <1>22 DEF WriteStateOnline
    <2>b. online' = register /\ \A f \in Files : online[f] <= online'[f]
      BY <1>22 DEF WriteStateOnline, OrderInv
    <2>1. OrderInv'
      BY <1>22 DEF WriteStateOnline, OrderInv
    <2>2. OnlineInv'
      BY <1>22 DEF WriteStateOnline, OnlineInv
    <2>3. SeqnoInv'
      <3>1. commitSeen[h].seqno = n
        BY <1>22, <1>n DEF WriteStateOnline, Seqno
      <3>2. Seqno(n + 1)'
        BY <1>22, <2>a, <3>1 DEF WriteStateOnline, Seqno
      <3>3. ViewsAt(n + 1)'
        <4>1. UNCHANGED <<reg, seen>> /\ \A k \in Handles : pc'[k] \in ReadPcs => pc[k] \in ReadPcs
          BY <1>22 DEF WriteStateOnline
        <4>2. \A k \in Handles : /\ pc[k] \in ReadPcs => seen[k].seqno <= n
                                 /\ reg[k].status = "open" => reg[k].seqno <= n
          BY <1>n DEF ViewsAt
        <4>3. \A k \in Handles : seen[k].seqno \in Nat /\ reg[k].seqno \in Nat
          BY DEF StateFile, RegTypes
        <4>4. \A m \in Nat : m <= n => m <= n + 1 /\ m # n + 1
          OBVIOUS
        <4> QED BY <4>1, <4>2, <4>3, <4>4 DEF ViewsAt
      <3> QED BY <3>2, <3>3 DEF SeqnoInv
    <2>4. FloorInv'
      <3> SUFFICES ASSUME NEW k \in Handles
                   PROVE  (/\ InRead(k) \/ pc[k] \in ReadPcs =>
                               \A f \in Files : floor[k][f] <= online[f]
                           /\ InRead(k) /\ ~torn[k] => \A f \in Files :
                                 view[k][f] = Absent \/ floor[k][f] <= view[k][f]
                           /\ reg[k].status # "open" \/ transWNo[k] # 0
                               => \A f \in Files : view[k][f] = Absent)'
        BY DEF FloorInv
      <3>1. \A f \in Files : /\ online[f] \in Int /\ online'[f] \in Int
                             /\ floor[k][f] \in Int /\ online[f] <= online'[f]
        BY <2>b
      <3>2. InRead(k)' => InRead(k)
        BY <1>22 DEF WriteStateOnline, InRead, OnlineInv
      <3>3. pc'[k] \in ReadPcs => pc[k] \in ReadPcs
        BY <1>22 DEF WriteStateOnline
      <3>4. UNCHANGED <<floor, torn, view, reg, transWNo>>
        BY <1>22 DEF WriteStateOnline
      <3> QED BY <3>1, <3>2, <3>3, <3>4 DEF FloorInv
    <2> QED BY <2>1, <2>2, <2>3, <2>4 DEF SeqnoInv
  <1>23. ASSUME NEW h \in Handles, LockShadowForClean(h) PROVE FreshInv'
    <2>1. OrderInv'
      BY <1>23 DEF LockShadowForClean, OrderInv
    <2>2. OnlineInv'
      BY <1>23 DEF LockShadowForClean, OnlineInv
    <2>3. Seqno(n)' /\ ViewsAt(n)'
      BY <1>23, <1>n DEF LockShadowForClean, Seqno, ViewsAt, Current
    <2>4. FloorInv'
      BY <1>23 DEF LockShadowForClean, FloorInv, InRead
    <2> QED BY <2>1, <2>2, <2>3, <2>4 DEF SeqnoInv
  <1>24. ASSUME NEW h \in Handles, BeginReadNested(h) PROVE FreshInv'
    <2>1. OrderInv'
      BY <1>24 DEF BeginReadNested, Call, OrderInv
    <2>2. OnlineInv'
      BY <1>24 DEF BeginReadNested, Call, OnlineInv
    <2>3. Seqno(n)' /\ ViewsAt(n)'
      BY <1>24, <1>n DEF BeginReadNested, Call, Seqno, ViewsAt, Current
    <2>4. FloorInv'
      BY <1>24 DEF BeginReadNested, Call, FloorInv, InRead
    <2> QED BY <2>1, <2>2, <2>3, <2>4 DEF SeqnoInv
  <1>25. ASSUME NEW h \in Handles, BeginReadClean(h) PROVE FreshInv'
    <2>1. OrderInv'
      BY <1>25 DEF BeginReadClean, Call, UpToDate, SeenByReader,
         GetState, OrderInv
    <2>2. OnlineInv'
      BY <1>25 DEF BeginReadClean, Call, UpToDate, SeenByReader,
         GetState, OnlineInv
    <2>3. Seqno(n)' /\ ViewsAt(n)'
      BY <1>25, <1>n DEF BeginReadClean, Call, UpToDate,
         SeenByReader, GetState, Seqno, ViewsAt, Current
    <2>4. FloorInv'
      <3> SUFFICES ASSUME NEW k \in Handles
                   PROVE  (/\ InRead(k) \/ pc[k] \in ReadPcs =>
                               \A f \in Files : floor[k][f] <= online[f]
                           /\ InRead(k) /\ ~torn[k] => \A f \in Files :
                                 view[k][f] = Absent \/ floor[k][f] <= view[k][f]
                           /\ reg[k].status # "open" \/ transWNo[k] # 0
                               => \A f \in Files : view[k][f] = Absent)'
        BY DEF FloorInv
      <3>1. CASE k = h
        <4>1. torn'[h] \/ \A f \in Files :
                              view[h][f] = Absent \/ online[f] <= view[h][f]
          <5>1. CASE UpToDate(h) /\ ~torn'[h]
            <6>1. state.val # "t"
              BY <1>25, <5>1 DEF BeginReadClean
            <6>2. reg[h].status = "open" /\ reg[h].seqno = n
              BY <1>n, <5>1, <6>1 DEF UpToDate, SeenByReader, GetState, Seqno,
                 StateFile
            <6> QED BY <6>2, <1>n DEF ViewsAt, Current
          <5>2. CASE reg[h].status = "freed"
            BY <5>2 DEF FloorInv
          <5> QED BY <1>25, <5>1, <5>2 DEF BeginReadClean
        <4>2. /\ floor'[h] = online /\ pc' = pc /\ transWNo' = transWNo /\ reg' = reg
              /\ view' = view /\ online' = online
          BY <1>25 DEF BeginReadClean
        <4> QED BY <3>1, <4>1, <4>2 DEF FloorInv
      <3>2. CASE k # h
        BY <1>25, <3>2 DEF BeginReadClean, FloorInv, InRead
      <3> QED BY <3>1, <3>2
    <2> QED BY <2>1, <2>2, <2>3, <2>4 DEF SeqnoInv
  <1>26. ASSUME NEW h \in Handles, BeginReadDirty(h) PROVE FreshInv'
    <2>1. OrderInv'
      BY <1>26 DEF BeginReadDirty, Call, SeenByReader, GetState,
         OrderInv
    <2>2. OnlineInv'
      BY <1>26 DEF BeginReadDirty, Call, SeenByReader, GetState,
         OnlineInv
    <2>3. Seqno(n)' /\ ViewsAt(n)'
      BY <1>26, <1>n DEF BeginReadDirty, Call, SeenByReader,
         GetState, Seqno, ViewsAt, Current
    <2>4. FloorInv'
      BY <1>26 DEF BeginReadDirty, Call, SeenByReader, GetState,
         FloorInv, InRead
    <2> QED BY <2>1, <2>2, <2>3, <2>4 DEF SeqnoInv
  <1>27. ASSUME NEW h \in Handles, LockForRead(h) PROVE FreshInv'
    <2>1. OrderInv'
      BY <1>27 DEF LockForRead, OrderInv
    <2>2. OnlineInv'
      BY <1>27 DEF LockForRead, OnlineInv
    <2>3. Seqno(n)' /\ ViewsAt(n)'
      BY <1>27, <1>n DEF LockForRead, Seqno, ViewsAt, Current
    <2>4. FloorInv'
      BY <1>27 DEF LockForRead, FloorInv, InRead
    <2> QED BY <2>1, <2>2, <2>3, <2>4 DEF SeqnoInv
  <1>28. ASSUME NEW h \in Handles, NEW f \in Files, ReadFile(h, f) PROVE FreshInv'
    <2>a. /\ view'[h][f] \in Nat /\ online[f] <= view'[h][f]
          /\ \A g \in Files \ {f} : view'[h][g] = view[h][g]
          /\ \A k \in Handles \ {h} : view'[k] = view[k]
      <3>1. (IF reg[h].shadow THEN Overlay[f] ELSE register[f]) \in {shadow[f], register[f]}
        BY DEF Overlay
      <3>2. /\ Overlay[f] \in Nat /\ online[f] <= Overlay[f]
            /\ register[f] \in Nat /\ online[f] <= register[f]
        <4>1. /\ online[f] <= register[f]
              /\ shadow[f] >= 0 => register[f] <= shadow[f]
          BY DEF OrderInv
        <4>2. shadow[f] \in Int /\ register[f] \in Nat /\ online[f] \in Nat
          <5>1. shadow[f] \in Nat \cup {Absent, Blank}
            OBVIOUS
          <5> QED BY <5>1 DEF Absent, Blank
        <4>3. shadow[f] >= 0 => online[f] <= shadow[f] /\ shadow[f] \in Nat
          BY ONLY <4>1, <4>2
        <4>4. Overlay[f] = IF shadow[f] >= 0 THEN shadow[f] ELSE register[f]
          BY DEF Overlay
        <4> QED BY ONLY <4>1, <4>2, <4>3, <4>4
      <3> QED BY <1>28, <3>2 DEF ReadFile
    <2>1. OrderInv'
      BY <1>28 DEF ReadFile, Overlay, OrderInv
    <2>2. OnlineInv'
      BY <1>28 DEF ReadFile, Overlay, OnlineInv
    <2>3. Seqno(n)' /\ ViewsAt(n)'
      <3>1. /\ UNCHANGED <<state, pc, seen, commitSeen, reg, online>>
        BY <1>28 DEF ReadFile
      <3>2. Seqno(n)'
        BY <1>n, <3>1 DEF Seqno
      <3>3. \A k \in Handles : Current(k) => Current(k)'
        BY <2>a, <3>1 DEF Current
      <3> QED BY <1>n, <3>1, <3>2, <3>3 DEF ViewsAt
    <2>4. FloorInv'
      <3> SUFFICES ASSUME NEW k \in Handles
                   PROVE  (/\ InRead(k) \/ pc[k] \in ReadPcs =>
                               \A g \in Files : floor[k][g] <= online[g]
                           /\ InRead(k) /\ ~torn[k] => \A g \in Files :
                                 view[k][g] = Absent \/ floor[k][g] <= view[k][g]
                           /\ reg[k].status # "open" \/ transWNo[k] # 0
                               => \A g \in Files : view[k][g] = Absent)'
        BY DEF FloorInv
      <3>1. CASE k = h
        <4>1. /\ UNCHANGED <<floor, torn, online, pc, reg, transWNo, transNo>>
              /\ InRead(h) /\ reg[h].status = "open" /\ transWNo[h] = 0
          BY <1>28 DEF ReadFile, InRead
        <4>2. \A g \in Files :
                  /\ floor[h][g] <= online[g]
                  /\ torn[h] \/ view[h][g] = Absent \/ floor[h][g] <= view[h][g]
          BY <4>1 DEF FloorInv
        <4>0. f \in Files
          OBVIOUS
        <4>3. floor[h][f] <= view'[h][f]
          <5>1. floor[h][f] \in Nat /\ online[f] \in Nat /\ view'[h][f] \in Nat
            BY <2>a
          <5>2. floor[h][f] <= online[f] /\ online[f] <= view'[h][f]
            BY ONLY <2>a, <4>0, <4>2
          <5> QED BY ONLY <5>1, <5>2
        <4>4. \A g \in Files :
                  torn[h] \/ view'[h][g] = Absent \/ floor[h][g] <= view'[h][g]
          BY ONLY <2>a, <4>0, <4>2, <4>3
        <4> QED BY <3>1, <4>1, <4>2, <4>4
      <3>2. CASE k # h
        BY <1>28, <2>a, <3>2 DEF ReadFile, FloorInv, InRead
      <3> QED BY <3>1, <3>2
    <2> QED BY <2>1, <2>2, <2>3, <2>4 DEF SeqnoInv
  <1>29. ASSUME NEW h \in Handles, CloseHandle(h) PROVE FreshInv'
    <2>1. OrderInv'
      BY <1>29 DEF CloseHandle, NoReg, NoView, OrderInv
    <2>2. OnlineInv'
      BY <1>29 DEF CloseHandle, NoReg, NoView, OnlineInv
    <2>3. Seqno(n)' /\ ViewsAt(n)'
      BY <1>29, <1>n DEF CloseHandle, NoReg, NoView, Seqno, ViewsAt, Current
    <2>4. FloorInv'
      BY <1>29 DEF CloseHandle, NoReg, NoView, FloorInv, InRead
    <2> QED BY <2>1, <2>2, <2>3, <2>4 DEF SeqnoInv
  <1>30. ASSUME NEW h \in Handles, NEW f \in Files, OpenNewFile(h, f) PROVE FreshInv'
    <2>1. OrderInv'
      <3>0. /\ UNCHANGED <<online, ver>>
            /\ \A k \in Handles : Copying(k) => Copying(k)'
        BY <1>30 DEF OpenNewFile
      <3>1. conf.shadow /\ register' = register
        BY <1>30 DEF OpenNewFile, OnlineInv
      <3>2. ASSUME NEW g \in Files
            PROVE  /\ online[g] <= register'[g] /\ register'[g] <= ver
                   /\ shadow'[g] >= 0 => register'[g] <= shadow'[g] /\ shadow'[g] <= ver
                   /\ ~conf.shadow => shadow'[g] = Absent
        <4>0. /\ online[g] <= register[g] /\ register[g] <= ver
              /\ shadow[g] >= 0 => register[g] <= shadow[g] /\ shadow[g] <= ver
              /\ ~conf.shadow => shadow[g] = Absent
              /\ shadow[g] \in Int /\ register[g] \in Nat /\ online[g] \in Nat /\ ver \in Nat
          BY DEF OrderInv, Absent, Blank
        <4>1. CASE g = f
          BY <1>30, <3>1, <4>0, <4>1 DEF OpenNewFile, Absent, Blank
        <4>2. CASE g # f
          BY <1>30, <4>0, <4>2 DEF OpenNewFile
        <4> QED BY <4>1, <4>2
      <3> QED BY <3>0, <3>1, <3>2 DEF OrderInv
    <2>2. OnlineInv'
      BY <1>30 DEF OpenNewFile, Absent, Blank, OnlineInv
    <2>3. Seqno(n)' /\ ViewsAt(n)'
      BY <1>30, <1>n DEF OpenNewFile, Absent, Blank, Seqno, ViewsAt, Current
    <2>4. FloorInv'
      BY <1>30 DEF OpenNewFile, Absent, Blank, FloorInv, InRead
    <2> QED BY <2>1, <2>2, <2>3, <2>4 DEF SeqnoInv
  <1>31. ASSUME NEW h \in Handles, ListFile(h) PROVE FreshInv'
    <2>1. OrderInv'
      BY <1>31 DEF ListFile, OrderInv
    <2>2. OnlineInv'
      BY <1>31 DEF ListFile, OnlineInv
    <2>3. Seqno(n)' /\ ViewsAt(n)'
      BY <1>31, <1>n DEF ListFile, Seqno, ViewsAt, Current
    <2>4. FloorInv'
      BY <1>31 DEF ListFile, FloorInv, InRead
    <2> QED BY <2>1, <2>2, <2>3, <2>4 DEF SeqnoInv
  <1>32. ASSUME NEW h \in Handles, NEW f \in Files, UpdateShadow(h, f) PROVE FreshInv'
    <2>1. OrderInv'
      <3>0. /\ UNCHANGED <<online, ver>>
            /\ \A k \in Handles : Copying(k) => Copying(k)'
        BY <1>32 DEF UpdateShadow
      <3>1. conf.shadow /\ register' = register
        BY <1>32 DEF UpdateShadow, OnlineInv
      <3>2. ASSUME NEW g \in Files
            PROVE  /\ online[g] <= register'[g] /\ register'[g] <= ver
                   /\ shadow'[g] >= 0 => register'[g] <= shadow'[g] /\ shadow'[g] <= ver
                   /\ ~conf.shadow => shadow'[g] = Absent
        <4>0. /\ online[g] <= register[g] /\ register[g] <= ver
              /\ shadow[g] >= 0 => register[g] <= shadow[g] /\ shadow[g] <= ver
              /\ ~conf.shadow => shadow[g] = Absent
              /\ shadow[g] \in Int /\ register[g] \in Nat /\ online[g] \in Nat /\ ver \in Nat
          BY DEF OrderInv, Absent, Blank
        <4>1. CASE g = f
          BY <1>32, <3>1, <4>0, <4>1 DEF UpdateShadow, Absent, Blank
        <4>2. CASE g # f
          BY <1>32, <4>0, <4>2 DEF UpdateShadow
        <4> QED BY <4>1, <4>2
      <3> QED BY <3>0, <3>1, <3>2 DEF OrderInv
    <2>2. OnlineInv'
      BY <1>32 DEF UpdateShadow, Absent, OnlineInv
    <2>3. Seqno(n)' /\ ViewsAt(n)'
      BY <1>32, <1>n DEF UpdateShadow, Absent, Seqno, ViewsAt, Current
    <2>4. FloorInv'
      BY <1>32 DEF UpdateShadow, Absent, FloorInv, InRead
    <2> QED BY <2>1, <2>2, <2>3, <2>4 DEF SeqnoInv
  <1>33. ASSUME NEW h \in Handles, NEW f \in Files, UpdateRegister(h, f) PROVE FreshInv'
    <2>1. OrderInv'
      <3>0. /\ UNCHANGED <<online, ver>>
            /\ \A k \in Handles : Copying(k) => Copying(k)'
        BY <1>33 DEF UpdateRegister
      <3>1. ~conf.shadow /\ shadow' = shadow
        BY <1>33 DEF UpdateRegister, OnlineInv
      <3>2. ASSUME NEW g \in Files
            PROVE  /\ online[g] <= register'[g] /\ register'[g] <= ver
                   /\ shadow'[g] >= 0 => register'[g] <= shadow'[g] /\ shadow'[g] <= ver
                   /\ ~conf.shadow => shadow'[g] = Absent
        <4>0. /\ online[g] <= register[g] /\ register[g] <= ver
              /\ shadow[g] >= 0 => register[g] <= shadow[g] /\ shadow[g] <= ver
              /\ ~conf.shadow => shadow[g] = Absent
              /\ shadow[g] \in Int /\ register[g] \in Nat /\ online[g] \in Nat /\ ver \in Nat
          BY DEF OrderInv, Absent, Blank
        <4>1. CASE g = f
          BY <1>33, <3>1, <4>0, <4>1 DEF UpdateRegister, Absent, Blank
        <4>2. CASE g # f
          BY <1>33, <4>0, <4>2 DEF UpdateRegister
        <4> QED BY <4>1, <4>2
      <3> QED BY <3>0, <3>1, <3>2 DEF OrderInv
    <2>2. OnlineInv'
      BY <1>33 DEF UpdateRegister, OnlineInv
    <2>3. Seqno(n)' /\ ViewsAt(n)'
      BY <1>33, <1>n DEF UpdateRegister, Seqno, ViewsAt, Current
    <2>4. FloorInv'
      BY <1>33 DEF UpdateRegister, FloorInv, InRead
    <2> QED BY <2>1, <2>2, <2>3, <2>4 DEF SeqnoInv
  <1>34. ASSUME NEW h \in Handles, WriteStateAtEnd(h) PROVE FreshInv'
    <2>a. \A k \in Handles : Owns(k) => k = h
      BY <1>34 DEF WriteStateAtEnd
    <2>b. online' = register /\ \A f \in Files : online[f] <= online'[f]
      BY <1>34 DEF WriteStateAtEnd, OrderInv
    <2>1. OrderInv'
      BY <1>34 DEF WriteStateAtEnd, SeqnoStep, OrderInv
    <2>2. OnlineInv'
      BY <1>34 DEF WriteStateAtEnd, SeqnoStep, OnlineInv
    <2>3. SeqnoInv'
      <3>1. seen[h].seqno = n
        BY <1>34, <1>n DEF WriteStateAtEnd, Seqno
      <3>2. CASE conf.shadow
        <4>1. UNCHANGED online
          <5>1. \A k \in Handles : ~Copying(k)
            BY <1>34, <2>a DEF WriteStateAtEnd
          <5> QED BY <3>2, <5>1, <2>b DEF OrderInv
        <4>2. Seqno(n)' /\ ViewsAt(n)'
          BY <1>34, <1>n, <2>a, <3>1, <3>2, <4>1
          DEF WriteStateAtEnd, SeqnoStep, Seqno, ViewsAt, Current
        <4> QED BY <4>2 DEF SeqnoInv
      <3>3. CASE ~conf.shadow
        <4> Seqno(n + 1)'
          BY <1>34, <2>a, <3>1, <3>3 DEF WriteStateAtEnd, SeqnoStep, Seqno
        <4>1. UNCHANGED <<reg, seen>> /\ \A k \in Handles : pc'[k] \in ReadPcs => pc[k] \in ReadPcs
          BY <1>34 DEF WriteStateAtEnd
        <4>2. \A k \in Handles : /\ pc[k] \in ReadPcs => seen[k].seqno <= n
                                 /\ reg[k].status = "open" => reg[k].seqno <= n
          BY <1>n DEF ViewsAt
        <4>3. \A k \in Handles : seen[k].seqno \in Nat /\ reg[k].seqno \in Nat
          BY DEF StateFile, RegTypes
        <4>4. \A m \in Nat : m <= n => m <= n + 1 /\ m # n + 1
          OBVIOUS
        <4>5. ViewsAt(n + 1)'
          BY <4>1, <4>2, <4>3, <4>4 DEF ViewsAt
        <4> QED BY <4>5 DEF SeqnoInv
      <3> QED BY <3>2, <3>3
    <2>4. FloorInv'
      <3> SUFFICES ASSUME NEW k \in Handles
                   PROVE  (/\ InRead(k) \/ pc[k] \in ReadPcs =>
                               \A f \in Files : floor[k][f] <= online[f]
                           /\ InRead(k) /\ ~torn[k] => \A f \in Files :
                                 view[k][f] = Absent \/ floor[k][f] <= view[k][f]
                           /\ reg[k].status # "open" \/ transWNo[k] # 0
                               => \A f \in Files : view[k][f] = Absent)'
        BY DEF FloorInv
      <3>1. \A f \in Files : /\ online[f] \in Int /\ online'[f] \in Int
                             /\ floor[k][f] \in Int /\ online[f] <= online'[f]
        BY <2>b
      <3>2. InRead(k)' => InRead(k)
        BY <1>34 DEF WriteStateAtEnd, InRead, OnlineInv
      <3>3. pc'[k] \in ReadPcs => pc[k] \in ReadPcs
        BY <1>34 DEF WriteStateAtEnd
      <3>4. UNCHANGED <<floor, torn, view, reg, transWNo>>
        BY <1>34 DEF WriteStateAtEnd
      <3> QED BY <3>1, <3>2, <3>3, <3>4 DEF FloorInv
    <2> QED BY <2>1, <2>2, <2>3, <2>4 DEF SeqnoInv
  <1>35. ASSUME NEW h \in Handles, NEW f \in Files, CopyFile(h, f) PROVE FreshInv'
    <2>1. OrderInv'
      BY <1>35 DEF CopyFile, Overlay, OrderInv
    <2>2. OnlineInv'
      BY <1>35 DEF CopyFile, Overlay, OnlineInv
    <2>3. Seqno(n)' /\ ViewsAt(n)'
      BY <1>35, <1>n DEF CopyFile, Overlay, Seqno, ViewsAt, Current
    <2>4. FloorInv'
      BY <1>35 DEF CopyFile, Overlay, FloorInv, InRead
    <2> QED BY <2>1, <2>2, <2>3, <2>4 DEF SeqnoInv
  <1>36. ASSUME NEW h \in Handles, NEW f \in Files, CleanFile(h, f) PROVE FreshInv'
    <2>1. OrderInv'
      BY <1>36 DEF CleanFile, Absent, OrderInv
    <2>2. OnlineInv'
      BY <1>36 DEF CleanFile, Absent, OnlineInv
    <2>3. Seqno(n)' /\ ViewsAt(n)'
      BY <1>36, <1>n DEF CleanFile, Absent, Seqno, ViewsAt, Current
    <2>4. FloorInv'
      BY <1>36 DEF CleanFile, Absent, FloorInv, InRead
    <2> QED BY <2>1, <2>2, <2>3, <2>4 DEF SeqnoInv
  <1>37. ASSUME NEW h \in Handles, CleanDone(h) PROVE FreshInv'
    <2>1. OrderInv'
      BY <1>37 DEF CleanDone, ReturnPc, InBegin, OrderInv
    <2>2. OnlineInv'
      BY <1>37 DEF CleanDone, ReturnPc, InBegin, OnlineInv
    <2>3. Seqno(n)' /\ ViewsAt(n)'
      BY <1>37, <1>n DEF CleanDone, ReturnPc, InBegin, Seqno, ViewsAt, Current
    <2>4. FloorInv'
      <3> SUFFICES ASSUME NEW k \in Handles
                   PROVE  (/\ InRead(k) \/ pc[k] \in ReadPcs =>
                               \A f \in Files : floor[k][f] <= online[f]
                           /\ InRead(k) /\ ~torn[k] => \A f \in Files :
                                 view[k][f] = Absent \/ floor[k][f] <= view[k][f]
                           /\ reg[k].status # "open" \/ transWNo[k] # 0
                               => \A f \in Files : view[k][f] = Absent)'
        BY DEF FloorInv
      <3>1. /\ pc'[h] = Ready /\ transWNo[h] = 0
            /\ \A j \in Handles \ {h} : pc'[j] = pc[j]
        BY <1>37 DEF CleanDone, ReturnPc, InBegin, OnlineInv
      <3>2. pc[h] = "c_clean" /\ transNo[h] = 0
        BY <1>37 DEF CleanDone, OnlineInv
      <3> QED BY <1>37, <3>1, <3>2 DEF CleanDone, FloorInv, InRead
    <2> QED BY <2>1, <2>2, <2>3, <2>4 DEF SeqnoInv
  <1>38. ASSUME NEW h \in Handles, RegisterOpenedForRead(h) PROVE FreshInv'
    <2>1. OrderInv'
      BY <1>38 DEF RegisterOpenedForRead, NoView, OrderInv
    <2>2. OnlineInv'
      BY <1>38 DEF RegisterOpenedForRead, NoView, OnlineInv
    <2>3. Seqno(n)' /\ ViewsAt(n)'
      BY <1>38, <1>n DEF RegisterOpenedForRead, NoView, Seqno, ViewsAt, Current
    <2>4. FloorInv'
      BY <1>38 DEF RegisterOpenedForRead, NoView, FloorInv, InRead
    <2> QED BY <2>1, <2>2, <2>3, <2>4 DEF SeqnoInv
  <1>39. CASE UNCHANGED vars
    <2>1. OrderInv' /\ OnlineInv' /\ FloorInv'
      BY <1>39 DEF vars, OrderInv, OnlineInv, FloorInv, InRead
    <2>2. SeqnoInv'
      <3>1. Seqno(n)' /\ ViewsAt(n)'
        BY <1>39, <1>n DEF vars, Seqno, ViewsAt, Current
      <3> QED BY <3>1 DEF SeqnoInv
    <2> QED BY <2>1, <2>2
  <1>40. ASSUME NEW h \in Handles
         PROVE  /\ ~RegisterOpenFails(h) /\ ~CommitFails(h) /\ ~InitRegister(h)
                /\ ~RegisterOpenForReadFails(h) /\ ~Crash(h)
    BY DEF Steady, IInv, TypeOK, GhostOK, Budget, RegisterOpenFails,
       CommitFails, InitRegister, RegisterOpenForReadFails, Crash, Call
  <1>41. ASSUME NEW h \in Handles PROVE ~InitStep(h)
    BY DEF InitStep, ResetShadowFile, ShadowReset,
       ResetRegisterFile, ResetCache, WriteStateInit, InitPcs
  <1> HIDE DEF FreshInv, Goto, fileVars, lockVars, transVars, commitVars,
         openVars, beganVars, regVars, ghostVars, Ready, UpdatePcs, CommittingPcs, CommitPcs,
         ReadPcs, BeginPcs, EndPcs, Within, Copying, Owns
  <1>42. ASSUME NEW h \in Handles, AdminNext(h) PROVE FreshInv'
    BY <1>42, <1>1, <1>2, <1>3, <1>4, <1>5, <1>6, <1>7, <1>8, <1>9, <1>10, <1>14,
       <1>15, <1>16, <1>17, <1>18, <1>19, <1>20, <1>21, <1>22, <1>23, <1>30,
       <1>31, <1>32, <1>33, <1>34, <1>35, <1>36, <1>37, <1>40, <1>41 DEF
       AdminNext, UpdateStep, CommitStep
  <1>43. ASSUME NEW h \in Handles, ReaderNext(h) PROVE FreshInv'
    BY <1>43, <1>24, <1>25, <1>26, <1>27, <1>28, <1>38, <1>40 DEF ReaderNext,
       ReadStep
  <1>44. ASSUME NEW h \in Handles, EndTrans(h) \/ CloseHandle(h) PROVE FreshInv'
    BY <1>44, <1>11, <1>12, <1>13, <1>29 DEF EndTrans
  <1> QED BY <1>39, <1>40, <1>42, <1>43, <1>44 DEF Next, Handles

\* The invariant holds at first.
LEMMA FreshInit == Init => FreshInv /\ DirtyInv /\ WriterInv
  <1> SUFFICES ASSUME Init PROVE FreshInv /\ DirtyInv /\ WriterInv
    OBVIOUS
  <1>1. \A h \in Handles :
            /\ pc[h] = Ready /\ transNo[h] = 0 /\ transWNo[h] = 0
            /\ reg[h].status = "none"
            /\ \A f \in Files : view[h][f] = Absent
    BY DEF Init, NoReg, NoView
  <1>2. OrderInv
    BY DEF Init, OrderInv, Absent
  <1>3. OnlineInv
    BY <1>1 DEF Init, OnlineInv, Ready, CommitPcs, EndPcs, NoState
  <1>4. SeqnoInv
    <2>1. Seqno(0) /\ ViewsAt(0)
      BY <1>1 DEF Init, Seqno, ViewsAt, NoState, Ready, ReadPcs, Copying
    <2> QED BY <2>1 DEF SeqnoInv
  <1>5. FloorInv
    BY <1>1 DEF FloorInv, InRead, Ready, ReadPcs
  <1>6. DirtyInv /\ WriterInv
    BY <1>1 DEF DirtyInv, NoInit, DirtyWhileUpdating, Updating, WriterInv, Ready,
       InitPcs, EndPcs, Handles
  <1> QED BY <1>2, <1>3, <1>4, <1>5, <1>6 DEF FreshInv

\* The inductive invariant of the seqno.
THEOREM FreshInvAlways == ASSUME Steady PROVE Spec => []FreshInv
  <1>1. Init => FreshInv /\ DirtyInv /\ WriterInv
    BY FreshInit
  <1>2. /\ IInv /\ IInv' /\ FreshInv /\ DirtyInv /\ WriterInv /\ [Next]_vars
        => (FreshInv /\ DirtyInv /\ WriterInv)'
    BY FreshStep, DirtyStep, WriterStep, OwnersConflict DEF Steady, IInv
  <1> QED BY <1>1, <1>2, Invariance, PTL DEF Spec

\* A read transaction never reads a block older than what the last commit
\* completed before it began put online, unless it began without a lock while
\* the state file was truncated: otherwise the seqno of the state file tells it
\* that its open register is out of date.
THEOREM FreshReadAlways == ASSUME Steady PROVE Spec => []FreshRead
  <1>1. IInv /\ FreshInv => FreshRead
    BY DEF FreshInv, FloorInv, FreshRead, Fresh, Handles, IInv, TypeOK, RegOK,
       Contents, Absent
  <1> QED BY <1>1, FreshInvAlways, Invariance, PTL
=============================================================================
