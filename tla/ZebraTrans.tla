----------------------------- MODULE ZebraTrans -----------------------------
(***************************************************************************)
(* The safe-update protocol of Zebra: the transactions of a Zebra handle   *)
(* (zebra_begin_trans, zebra_end_transaction), the commit of the shadow    *)
(* area (zebra_commit_ex), zebra_init, and the parts of bfile.c that these *)
(* drive, over the register and shadow areas, the list of shadow files     *)
(* ("cache"), the state file state.*.LCK and the two lock files.           *)
(*                                                                         *)
(* A handle is the one handle of a process (zebraidx, a zebrasrv child).   *)
(* The contents of a register file are abstracted to the number of the     *)
(* write transaction that last wrote it: 0 is the file of a new register.  *)
(***************************************************************************)
EXTENDS Integers, FiniteSets

CONSTANTS
    Files,        \* the files of a register (dict, isam, records, ...)
    Readers,      \* the handles that begin read transactions
    Admins,       \* the handles that update, commit, clean and init
    Setups,       \* the configurations considered, see conf
    CrashPoints,  \* the program points at which a process may be killed
    Failures,     \* which calls may fail: subset of {"open", "commit"}
    MaxCalls      \* bounds on the number of calls of each kind, see Budget

Handles == Readers \cup Admins

\* A write transaction runs at "ready" with transWNo[h] # 0.
Ready == "ready"
BeginPcs == {"w_lock1", "w_lock2", "w_state", "w_relock1", "w_relock2",
             "w_trunc", "w_set", "w_open", "w_list"}
EndPcs == {"e_state", "e_trunc", "e_set"}
ReadPcs == {"r_lock", "r_open"}
CommitPcs == {"c_lock1", "c_lock2", "c_state", "c_trunc", "c_set", "c_copy",
              "c_otrunc", "c_oset", "c_cleanlock", "c_clean"}
InitPcs == {"i_reset", "i_register", "i_trunc", "i_set"}
PCs == {Ready} \cup BeginPcs \cup EndPcs \cup ReadPcs \cup CommitPcs
               \cup InitPcs

Budget == {"update", "commit", "clean", "init", "read", "nest", "fault"}

ASSUME ConstantsAssumption ==
    /\ IsFiniteSet(Files) /\ Files # {}
    /\ Setups \subseteq [shadow : BOOLEAN, direct : BOOLEAN]
    /\ \A s \in Setups : s.shadow \/ s.direct
    /\ CrashPoints \subseteq PCs
    /\ Failures \subseteq {"open", "commit"}
    /\ MaxCalls \in [Budget -> Nat]

Absent == -2     \* the shadow area has no such file
Blank == -1      \* a shadow file with a header and no blocks
Contents == [Files -> Nat]

VARIABLES
    conf,        \* shadow: is there a "shadow" entry in zebra.cfg?
                 \* direct: do updates run without it (zebraidx -n)?
    state,       \* the file state.*.LCK; val "t" is a truncated file
    lockNormal, lockShadow,   \* lock mode of each handle: "free", "r", "w"
    register, shadow,         \* contents of the two areas
    cache,       \* the names listed in the shadow area's cache file
    pc,          \* where each handle is
    transNo, transWNo,        \* zh->trans_no, zh->trans_w_no
    leaked,      \* how many of trans_no no call of zebra_end_trans will undo
    useShadow,   \* rval of the write transaction of each handle
    seen,        \* what zebra_begin_trans or zebra_end_trans read of state
    commitSeen,  \* what zebra_commit_ex read of state
    cleanOnly,   \* clean_only of zebra_commit_ex
    todo,        \* files not yet opened, copied or removed
    cur,         \* the file being opened for the first time
    known,       \* files that mf_init found in an area, not yet removed
    reg,         \* zh->reg
    view,        \* the file contents that an open register has read
    ver,         \* number of the last write transaction to open the register
    calls,       \* how many calls of each kind were made
    good,        \* the contents that finished write transactions produced
    last,        \* what a commit is to make live, by the last call that ended
    online,      \* what the last completed commit put online
    made,        \* FALSE from the first removal of zebra_init to its end
    floor,       \* what was online when a read transaction began
    torn         \* did it begin without a lock by a truncated state file?

fileVars == <<register, shadow, cache>>
lockVars == <<lockNormal, lockShadow>>
transVars == <<transNo, transWNo, leaked, useShadow>>
commitVars == <<commitSeen, cleanOnly, known>>
openVars == <<todo, cur>>
beganVars == <<floor, torn>>
regVars == <<reg, view, beganVars>>
ghostVars == <<good, last, online, made>>
vars == <<conf, state, fileVars, lockVars, pc, transVars, seen, commitVars,
          openVars, regVars, ver, calls, ghostVars>>

-----------------------------------------------------------------------------
\* Files, locks and registers.

\* bf_read2: a block of the shadow file hides the block of the register.
Overlay == [f \in Files |-> IF shadow[f] >= 0 THEN shadow[f] ELSE register[f]]

\* zebra_get_state: a missing or truncated file reads as 'o', 0.
GetState == IF state.val = "t" THEN [val |-> "o", seqno |-> 0] ELSE state

\* The effect of fopen(fname, "w") in zebra_set_state, before fprintf.
Truncated == [val |-> "t", seqno |-> 0]

\* What server processes are meant to read: the shadow during a commit.
Rewriting(h) == pc[h] = "c_set" /\ commitSeen[h].val = "c"
Live == IF state.val = "c" \/ (\E h \in Admins : Rewriting(h))
        THEN Overlay ELSE register

\* An fcntl lock is granted when no other process holds a conflicting one.
CanLock(lock, h, mode) ==
    \A k \in Handles \ {h} :
        lock[k] = "free" \/ (mode = "r" /\ lock[k] = "r")

Goto(h, p) == pc' = [pc EXCEPT ![h] = p]

\* Another call of kind c; its number is the bound on that kind.
Call(c) == /\ calls[c] < MaxCalls[c]
           /\ calls' = [calls EXCEPT ![c] = @ + 1]

NoReg == [status |-> "none", shadow |-> FALSE, seqno |-> 0, last_val |-> "o"]
FreedReg == [NoReg EXCEPT !.status = "freed"]
NoView == [f \in Files |-> Absent]
NoState == [val |-> "o", seqno |-> 0]

\* A variant that forgets lock_shadow.
UnlockNormalOnly(h) == /\ lockNormal' = [lockNormal EXCEPT ![h] = "free"]
                       /\ UNCHANGED lockShadow

\* zebra_unlock of both locks, which every exit path of a call performs.
UnlockBoth(h) == /\ lockNormal' = [lockNormal EXCEPT ![h] = "free"]
                 /\ lockShadow' = [lockShadow EXCEPT ![h] = "free"]

Init ==
    /\ conf \in Setups
    /\ state = NoState
    /\ lockNormal = [h \in Handles |-> "free"]
    /\ lockShadow = [h \in Handles |-> "free"]
    /\ register = [f \in Files |-> 0]
    /\ shadow = [f \in Files |-> Absent]
    /\ cache = {}
    /\ pc = [h \in Handles |-> Ready]
    /\ transNo = [h \in Handles |-> 0]
    /\ transWNo = [h \in Handles |-> 0]
    /\ leaked = [h \in Handles |-> 0]
    /\ useShadow = [h \in Handles |-> FALSE]
    /\ seen = [h \in Handles |-> NoState]
    /\ commitSeen = [h \in Handles |-> NoState]
    /\ cleanOnly = [h \in Handles |-> FALSE]
    /\ todo = [h \in Handles |-> {}]
    /\ cur = [h \in Handles |-> {}]
    /\ known = [h \in Handles |-> {}]
    /\ reg = [h \in Handles |-> NoReg]
    /\ view = [h \in Handles |-> NoView]
    /\ ver = 0
    /\ calls = [c \in Budget |-> 0]
    /\ good = {[f \in Files |-> 0]}
    /\ last = [f \in Files |-> 0]
    /\ online = [f \in Files |-> 0]
    /\ made = TRUE
    /\ floor = [h \in Handles |-> [f \in Files |-> 0]]
    /\ torn = [h \in Handles |-> FALSE]

-----------------------------------------------------------------------------
\* zebra_begin_trans(zh, 1)

\* A write transaction within a write transaction only counts.
BeginWriteNested(h) ==
    /\ pc[h] = Ready /\ transWNo[h] # 0
    /\ Call("nest")
    /\ transNo' = [transNo EXCEPT ![h] = @ + 1]
    /\ UNCHANGED <<state, fileVars, lockVars, pc, transWNo, leaked, useShadow,
                   seen, commitVars, openVars, regVars, ver, ghostVars>>

\* "no write trans within read": trans_no stays incremented, and a caller
\* whose begin has failed does not call zebra_end_trans for it.
BeginWriteInRead(h) ==
    /\ pc[h] = Ready /\ transWNo[h] = 0
    /\ transNo[h] # 0
    /\ Call("nest")
    /\ transNo' = [transNo EXCEPT ![h] = @ + 1]
    /\ leaked' = [leaked EXCEPT ![h] = @ + 1]
    /\ UNCHANGED <<state, fileVars, lockVars, pc, transWNo, useShadow, seen,
                   commitVars, openVars, regVars, ver, ghostVars>>

\* The outermost begin closes the register; zh->reg keeps the old pointer.
BeginWrite(h, sh) ==
    /\ pc[h] = Ready /\ transNo[h] = 0
    /\ IF sh THEN conf.shadow ELSE conf.direct
    /\ Call("update")
    /\ transNo' = [transNo EXCEPT ![h] = 1]
    /\ transWNo' = [transWNo EXCEPT ![h] = 1]
    /\ useShadow' = [useShadow EXCEPT ![h] = sh]
    /\ reg' = [reg EXCEPT ![h] =
                  IF @.status = "none" THEN NoReg ELSE FreedReg]
    /\ view' = [view EXCEPT ![h] = NoView]
    /\ Goto(h, "w_lock1")
    /\ UNCHANGED <<state, fileVars, lockVars, leaked, seen, commitVars,
                   openVars, beganVars, ver, ghostVars>>

\* An update of the shadow area shares the register with the readers.
UpdateMode(h) == IF useShadow[h] THEN "r" ELSE "w"

\* zebra_lock_r or zebra_lock_w of lock_normal, before and after recovery.
LockNormalForUpdate(h) ==
    /\ pc[h] \in {"w_lock1", "w_relock1"}
    /\ CanLock(lockNormal, h, UpdateMode(h))
    /\ lockNormal' = [lockNormal EXCEPT ![h] = UpdateMode(h)]
    /\ Goto(h, IF pc[h] = "w_lock1" THEN "w_lock2" ELSE "w_relock2")
    /\ UNCHANGED <<state, fileVars, lockShadow, transVars, seen, commitVars,
                   openVars, regVars, ver, calls, ghostVars>>

\* zebra_lock_w of lock_shadow; a variant shares it.
LockShadowShared(h) ==
    /\ pc[h] \in {"w_lock2", "w_relock2"}
    /\ CanLock(lockShadow, h, "r")
    /\ lockShadow' = [lockShadow EXCEPT ![h] = "r"]
    /\ Goto(h, IF pc[h] = "w_lock2" THEN "w_state" ELSE "w_trunc")
    /\ UNCHANGED <<state, fileVars, lockNormal, transVars, seen, commitVars,
                   openVars, regVars, ver, calls, ghostVars>>

LockShadowForUpdate(h) ==
    /\ pc[h] \in {"w_lock2", "w_relock2"}
    /\ CanLock(lockShadow, h, "w")
    /\ lockShadow' = [lockShadow EXCEPT ![h] = "w"]
    /\ Goto(h, IF pc[h] = "w_lock2" THEN "w_state" ELSE "w_trunc")
    /\ UNCHANGED <<state, fileVars, lockNormal, transVars, seen, commitVars,
                   openVars, regVars, ver, calls, ghostVars>>

\* A state other than 'o' means recovery first: zebra_commit without locks.
ReadStateForUpdate(h) ==
    /\ pc[h] = "w_state"
    /\ seen' = [seen EXCEPT ![h] = GetState]
    /\ cleanOnly' = [cleanOnly EXCEPT ![h] = FALSE]
    /\ IF GetState.val = "o" THEN UNCHANGED lockVars ELSE UnlockBoth(h)
    /\ Goto(h, IF GetState.val = "o" THEN "w_trunc" ELSE "c_lock1")
    /\ UNCHANGED <<state, fileVars, transVars, commitSeen, known, openVars,
                   regVars, ver, calls, ghostVars>>

\* The fopen of every zebra_set_state: the file is empty until fclose.
TruncateState(h) ==
    /\ pc[h] \in {"w_trunc", "e_trunc", "c_trunc", "c_otrunc", "i_trunc"}
    /\ state' = Truncated
    /\ Goto(h, CASE pc[h] = "w_trunc" -> "w_set"
                 [] pc[h] = "e_trunc" -> "e_set"
                 [] pc[h] = "c_trunc" -> "c_set"
                 [] pc[h] = "c_otrunc" -> "c_oset"
                 [] pc[h] = "i_trunc" -> "i_set")
    /\ UNCHANGED <<fileVars, lockVars, transVars, seen, commitVars, openVars,
                   regVars, ver, calls, ghostVars>>

\* zebra_set_state(zh, 'd', seqno) with the seqno read before recovery.
WriteStateDirty(h) ==
    /\ pc[h] = "w_set"
    /\ state' = [val |-> "d", seqno |-> seen[h].seqno]
    /\ todo' = [todo EXCEPT ![h] = Files]
    /\ ver' = ver + 1
    /\ Goto(h, "w_open")
    /\ UNCHANGED <<fileVars, lockVars, transVars, seen, commitVars, cur,
                   regVars, calls, ghostVars>>

\* bf_open of a file that needs no listing, or in the register alone.
OpenFile(h, f) ==
    /\ pc[h] = "w_open" /\ f \in todo[h]
    /\ useShadow[h] => shadow[f] # Absent
    /\ todo' = [todo EXCEPT ![h] = @ \ {f}]
    /\ UNCHANGED <<state, fileVars, lockVars, pc, transVars, seen, commitVars,
                   cur, regVars, ver, calls, ghostVars>>

\* bf_open for the first time: cf_open writes the header of a new shadow
\* file, and only then does bf_open know that it is to be listed.
OpenNewFile(h, f) ==
    /\ pc[h] = "w_open" /\ f \in todo[h]
    /\ useShadow[h] /\ shadow[f] = Absent
    /\ shadow' = [shadow EXCEPT ![f] = Blank]
    /\ todo' = [todo EXCEPT ![h] = @ \ {f}]
    /\ cur' = [cur EXCEPT ![h] = {f}]
    /\ Goto(h, "w_list")
    /\ UNCHANGED <<state, register, cache, lockVars, transVars, seen,
                   commitVars, regVars, ver, calls, ghostVars>>

\* bf_open appends the name of a new shadow file to the cache file.
ListFile(h) ==
    /\ pc[h] = "w_list"
    /\ cache' = cache \cup cur[h]
    /\ cur' = [cur EXCEPT ![h] = {}]
    /\ Goto(h, "w_open")
    /\ UNCHANGED <<state, register, shadow, lockVars, transVars, seen,
                   commitVars, todo, regVars, ver, calls, ghostVars>>

RegisterOpened(h) ==
    /\ pc[h] = "w_open" /\ todo[h] = {}
    /\ reg' = [reg EXCEPT ![h] = [status |-> "open", shadow |-> useShadow[h],
                                  seqno |-> seen[h].seqno, last_val |-> "o"]]
    /\ Goto(h, Ready)
    /\ UNCHANGED <<state, fileVars, lockVars, transVars, seen, commitVars,
                   openVars, view, beganVars, ver, calls, ghostVars>>

\* zebra_register_open fails: the state file keeps saying 'd'.
RegisterOpenFails(h) ==
    /\ pc[h] = "w_open" /\ "open" \in Failures /\ Call("fault")
    /\ UnlockBoth(h)
    /\ transNo' = [transNo EXCEPT ![h] = @ - 1]
    /\ transWNo' = [transWNo EXCEPT ![h] = 0]
    /\ reg' = [reg EXCEPT ![h] = NoReg]
    /\ todo' = [todo EXCEPT ![h] = {}]
    /\ Goto(h, Ready)
    /\ UNCHANGED <<state, fileVars, leaked, useShadow, seen, commitVars, cur,
                   view, beganVars, ver, ghostVars>>

\* bf_write2 in a write transaction: cf_write when there is a shadow file,
UpdateShadow(h, f) ==
    /\ pc[h] = Ready /\ transWNo[h] # 0 /\ useShadow[h]
    /\ shadow' = [shadow EXCEPT ![f] = ver]
    /\ UNCHANGED <<state, register, cache, lockVars, pc, transVars, seen,
                   commitVars, openVars, regVars, ver, calls, ghostVars>>

\* and mf_write to the register when the shadow area is disabled.
UpdateRegister(h, f) ==
    /\ pc[h] = Ready /\ transWNo[h] # 0 /\ ~useShadow[h]
    /\ register' = [register EXCEPT ![f] = ver]
    /\ UNCHANGED <<state, shadow, cache, lockVars, pc, transVars, seen,
                   commitVars, openVars, regVars, ver, calls, ghostVars>>

-----------------------------------------------------------------------------
\* zebra_end_transaction

\* Every end but the outermost only counts.
EndNested(h) ==
    /\ pc[h] = Ready /\ reg[h].status # "none"
    /\ transNo[h] > 1
    /\ transNo' = [transNo EXCEPT ![h] = @ - 1]
    /\ UNCHANGED <<state, fileVars, lockVars, pc, transWNo, leaked, useShadow,
                   seen, commitVars, openVars, regVars, ver, calls,
                   ghostVars>>

\* A variant that counts a write transaction down with every end.
EndReadCountsBoth(h) ==
    /\ pc[h] = Ready /\ reg[h].status # "none"
    /\ transNo[h] = 1 /\ transWNo[h] = 0
    /\ transNo' = [transNo EXCEPT ![h] = 0]
    /\ transWNo' = [transWNo EXCEPT ![h] = @ - 1]
    /\ UnlockBoth(h)
    /\ UNCHANGED <<state, fileVars, pc, leaked, useShadow, seen,
                   commitVars, openVars, regVars, ver, calls, ghostVars>>

\* The end of a read transaction unlocks both locks, held or not.
EndRead(h) ==
    /\ pc[h] = Ready /\ reg[h].status # "none"
    /\ transNo[h] = 1 /\ transWNo[h] = 0
    /\ transNo' = [transNo EXCEPT ![h] = 0]
    /\ UnlockBoth(h)
    /\ UNCHANGED <<state, fileVars, pc, transWNo, leaked, useShadow, seen,
                   commitVars, openVars, regVars, ver, calls, ghostVars>>

\* zebra_flush_reg and zebra_register_close: the last blocks are on disk.
EndWrite(h) ==
    /\ pc[h] = Ready /\ reg[h].status = "open"
    /\ transNo[h] = 1 /\ transWNo[h] = 1
    /\ transNo' = [transNo EXCEPT ![h] = 0]
    /\ transWNo' = [transWNo EXCEPT ![h] = 0]
    /\ reg' = [reg EXCEPT ![h] = NoReg]
    /\ last' = Overlay
    /\ Goto(h, "e_state")
    /\ UNCHANGED <<state, fileVars, lockVars, leaked, useShadow, seen,
                   commitVars, openVars, view, beganVars, ver, calls, good,
                   online, made>>

\* A state other than 'd' here makes the code throw the shadow area away; a
\* variant has the test the wrong way round.
InvertedTest == GetState.val # "o" /\ conf.shadow
ShadowUnusable == GetState.val # "d" /\ conf.shadow
ReadStateAtEnd(h) ==
    /\ pc[h] = "e_state"
    /\ seen' = [seen EXCEPT ![h] = GetState]
    /\ IF ShadowUnusable
       THEN shadow' = [f \in Files |-> Absent] /\ cache' = {}
       ELSE UNCHANGED <<shadow, cache>>
    /\ Goto(h, "e_trunc")
    /\ UNCHANGED <<state, register, lockVars, transVars, commitVars, openVars,
                   regVars, ver, calls, ghostVars>>

\* seqno moves only without a shadow entry.
SeqnoStep == IF conf.shadow THEN 0 ELSE 1

\* zebra_set_state(zh, 'o', seqno)
WriteStateAtEnd(h) ==
    /\ pc[h] = "e_set"
    /\ state' = [val |-> "o", seqno |-> seen[h].seqno + SeqnoStep]
    /\ UnlockBoth(h)
    /\ good' = IF made THEN good \cup {Overlay, register} ELSE good
    /\ online' = register
    /\ Goto(h, Ready)
    /\ UNCHANGED <<fileVars, transVars, seen, commitVars, openVars, regVars,
                   ver, calls, last, made>>

-----------------------------------------------------------------------------
\* zebra_commit_ex, called by zebra_commit, zebra_clean and zebra_begin_trans

\* Within zebra_begin_trans the call returns to the second locking.
InBegin(h) == transWNo[h] # 0
ReturnPc(h) == IF InBegin(h) THEN "w_relock1" ELSE Ready

Commit(h) ==
    /\ pc[h] = Ready /\ transNo[h] = 0
    /\ Call("commit")
    /\ cleanOnly' = [cleanOnly EXCEPT ![h] = FALSE]
    /\ Goto(h, "c_lock1")
    /\ UNCHANGED <<state, fileVars, lockVars, transVars, seen, commitSeen,
                   known, openVars, regVars, ver, ghostVars>>

Clean(h) ==
    /\ pc[h] = Ready /\ transNo[h] = 0
    /\ Call("clean")
    /\ cleanOnly' = [cleanOnly EXCEPT ![h] = TRUE]
    /\ Goto(h, "c_lock1")
    /\ UNCHANGED <<state, fileVars, lockVars, transVars, seen, commitSeen,
                   known, openVars, regVars, ver, ghostVars>>

\* zebra_lock_w of lock_normal: no server process reads the register while it
\* is written. Without a shadow entry there is nothing to commit. A variant
\* lets the readers in.
LockNormalShared(h) ==
    /\ pc[h] = "c_lock1"
    /\ CanLock(lockNormal, h, "r")
    /\ lockNormal' = [lockNormal EXCEPT ![h] = "r"]
    /\ Goto(h, "c_lock2")
    /\ UNCHANGED <<state, fileVars, lockShadow, transVars, seen, commitVars,
                   openVars, regVars, ver, calls, ghostVars>>

LockNormalForCommit(h) ==
    /\ pc[h] = "c_lock1"
    /\ IF conf.shadow
       THEN /\ CanLock(lockNormal, h, "w")
            /\ lockNormal' = [lockNormal EXCEPT ![h] = "w"]
       ELSE UNCHANGED lockNormal
    /\ Goto(h, IF conf.shadow THEN "c_lock2" ELSE ReturnPc(h))
    /\ UNCHANGED <<state, fileVars, lockShadow, transVars, seen, commitVars,
                   openVars, regVars, ver, calls, ghostVars>>

LockShadowForCommit(h) ==
    /\ pc[h] = "c_lock2"
    /\ CanLock(lockShadow, h, "r")
    /\ lockShadow' = [lockShadow EXCEPT ![h] = "r"]
    /\ Goto(h, "c_state")
    /\ UNCHANGED <<state, fileVars, lockNormal, transVars, seen, commitVars,
                   openVars, regVars, ver, calls, ghostVars>>

\* A dirty shadow is thrown away, a started commit is finished. A variant
\* commits what an interrupted update left.
CommitDirty(h) == cleanOnly[h] /\ GetState.val # "c"
MustClean(h) == GetState.val = "d" \/ (cleanOnly[h] /\ GetState.val # "c")

\* bf_cache scans the shadow area, bf_commitExists looks for the cache file.
ReadStateForCommit(h) ==
    /\ pc[h] = "c_state"
    /\ commitSeen' = [commitSeen EXCEPT ![h] = GetState]
    /\ cleanOnly' = [cleanOnly EXCEPT ![h] = MustClean(h)]
    /\ known' = [known EXCEPT ![h] = {f \in Files : shadow[f] # Absent}]
    /\ IF cache = {} THEN UnlockBoth(h) ELSE UNCHANGED lockVars
    /\ Goto(h, IF cache = {} THEN ReturnPc(h) ELSE "c_trunc")
    /\ UNCHANGED <<state, fileVars, transVars, seen, openVars, regVars, ver,
                   calls, ghostVars>>

\* zebra_set_state(zh, 'd', seqno) or (zh, 'c', seqno); only 'c' copies.
WriteStateCommit(h) ==
    /\ pc[h] = "c_set"
    /\ state' = [val |-> IF cleanOnly[h] THEN "d" ELSE "c",
                 seqno |-> commitSeen[h].seqno]
    /\ todo' = [todo EXCEPT ![h] = cache]
    /\ Goto(h, IF cleanOnly[h] THEN "c_otrunc" ELSE "c_copy")
    /\ UNCHANGED <<fileVars, lockVars, transVars, seen, commitVars, cur,
                   regVars, ver, calls, ghostVars>>

\* bf_commitExec: cf_commit of one listed file.
CopyFile(h, f) ==
    /\ pc[h] = "c_copy" /\ f \in todo[h]
    /\ register' = [register EXCEPT ![f] = Overlay[f]]
    /\ todo' = [todo EXCEPT ![h] = @ \ {f}]
    /\ known' = [known EXCEPT ![h] = @ \cup {f}]
    /\ UNCHANGED <<state, shadow, cache, lockVars, pc, transVars, seen,
                   commitSeen, cleanOnly, cur, regVars, ver, calls,
                   ghostVars>>

\* bf_commitExec returns after the last listed file; a variant stops early.
CopyEndsEarly(h) ==
    /\ pc[h] = "c_copy"
    /\ Goto(h, "c_otrunc")
    /\ UNCHANGED <<state, fileVars, lockVars, transVars, seen, commitVars,
                   openVars, regVars, ver, calls, ghostVars>>

CopyDone(h) ==
    /\ pc[h] = "c_copy" /\ todo[h] = {}
    /\ Goto(h, "c_otrunc")
    /\ UNCHANGED <<state, fileVars, lockVars, transVars, seen, commitVars,
                   openVars, regVars, ver, calls, ghostVars>>

\* bfs_create or bf_commitExec fails: the state file stays as it is, 'c' in
\* the latter case; zebra_begin_trans gives up.
CommitFails(h) ==
    /\ pc[h] \in {"c_state", "c_copy"} /\ "commit" \in Failures
    /\ Call("fault")
    /\ UnlockBoth(h)
    /\ transNo' = [transNo EXCEPT ![h] = 0]
    /\ transWNo' = [transWNo EXCEPT ![h] = 0]
    /\ todo' = [todo EXCEPT ![h] = {}]
    /\ Goto(h, Ready)
    /\ UNCHANGED <<state, fileVars, leaked, useShadow, seen, commitVars, cur,
                   regVars, ver, ghostVars>>

\* seqno++; zebra_set_state(zh, 'o', seqno); both locks are released.
WriteStateOnline(h) ==
    /\ pc[h] = "c_oset"
    /\ state' = [val |-> "o", seqno |-> commitSeen[h].seqno + 1]
    /\ last' = IF cleanOnly[h] THEN register ELSE Overlay
    /\ online' = register
    /\ UnlockBoth(h)
    /\ Goto(h, "c_cleanlock")
    /\ UNCHANGED <<fileVars, transVars, seen, commitVars, openVars, regVars,
                   ver, calls, good, made>>

LockShadowForClean(h) ==
    /\ pc[h] = "c_cleanlock"
    /\ CanLock(lockShadow, h, "w")
    /\ lockShadow' = [lockShadow EXCEPT ![h] = "w"]
    /\ todo' = [todo EXCEPT ![h] = known[h]]
    /\ Goto(h, "c_clean")
    /\ UNCHANGED <<state, fileVars, lockNormal, transVars, seen, commitVars,
                   cur, regVars, ver, calls, ghostVars>>

\* bf_commitClean: mf_reset unlinks the shadow files that mf_init found ...
CleanFile(h, f) ==
    /\ pc[h] = "c_clean" /\ f \in todo[h]
    /\ shadow' = [shadow EXCEPT ![f] = Absent]
    /\ todo' = [todo EXCEPT ![h] = @ \ {f}]
    /\ UNCHANGED <<state, register, cache, lockVars, pc, transVars, seen,
                   commitVars, cur, regVars, ver, calls, ghostVars>>

\* ... and then the cache file.
CleanDone(h) ==
    /\ pc[h] = "c_clean" /\ todo[h] = {}
    /\ cache' = {}
    /\ lockShadow' = [lockShadow EXCEPT ![h] = "free"]
    /\ Goto(h, ReturnPc(h))
    /\ UNCHANGED <<state, register, shadow, lockNormal, transVars, seen,
                   commitVars, openVars, regVars, ver, calls, ghostVars>>

-----------------------------------------------------------------------------
\* zebra_init takes no lock: it removes all files, then resets the state.

\* bfs_create and bf_cache: mf_init scans the two areas.
InitRegister(h) ==
    /\ pc[h] = Ready /\ transNo[h] = 0
    /\ Call("init")
    /\ todo' = [todo EXCEPT ![h] =
                   {f \in Files : conf.shadow /\ shadow[f] # Absent}]
    /\ known' = [known EXCEPT ![h] = {f \in Files : register[f] # 0}]
    /\ Goto(h, "i_reset")
    /\ UNCHANGED <<state, fileVars, lockVars, transVars, seen, commitSeen,
                   cleanOnly, cur, regVars, ver, ghostVars>>

\* bf_reset: mf_reset unlinks the files of the commit area one by one, ...
ResetShadowFile(h, f) ==
    /\ pc[h] = "i_reset" /\ f \in todo[h]
    /\ shadow' = [shadow EXCEPT ![f] = Absent]
    /\ todo' = [todo EXCEPT ![h] = @ \ {f}]
    /\ made' = FALSE
    /\ UNCHANGED <<state, register, cache, lockVars, pc, transVars, seen,
                   commitVars, cur, regVars, ver, calls, good, last, online>>

ShadowReset(h) ==
    /\ pc[h] = "i_reset" /\ todo[h] = {}
    /\ Goto(h, "i_register")
    /\ UNCHANGED <<state, fileVars, lockVars, transVars, seen, commitVars,
                   openVars, regVars, ver, calls, ghostVars>>

\* ... then those of the register area, ...
ResetRegisterFile(h, f) ==
    /\ pc[h] = "i_register" /\ f \in known[h]
    /\ register' = [register EXCEPT ![f] = 0]
    /\ known' = [known EXCEPT ![h] = @ \ {f}]
    /\ made' = FALSE
    /\ UNCHANGED <<state, shadow, cache, lockVars, pc, transVars, seen,
                   commitSeen, cleanOnly, openVars, regVars, ver, calls, good,
                   last, online>>

\* ... and unlink_cache the cache file.
ResetCache(h) ==
    /\ pc[h] = "i_register" /\ known[h] = {}
    /\ cache' = {}
    /\ made' = FALSE
    /\ Goto(h, "i_trunc")
    /\ UNCHANGED <<state, register, shadow, lockVars, transVars, seen,
                   commitVars, openVars, regVars, ver, calls, good, last,
                   online>>

WriteStateInit(h) ==
    /\ pc[h] = "i_set"
    /\ state' = NoState
    /\ made' = TRUE
    /\ last' = [f \in Files |-> 0]
    /\ online' = [f \in Files |-> 0]
    /\ Goto(h, Ready)
    /\ UNCHANGED <<fileVars, lockVars, transVars, seen, commitVars, openVars,
                   regVars, ver, calls, good>>

-----------------------------------------------------------------------------
\* zebra_begin_trans(zh, 0) and the reads of a read transaction

\* A read transaction within any transaction only counts.
BeginReadNested(h) ==
    /\ pc[h] = Ready /\ transNo[h] # 0
    /\ Call("nest")
    /\ transNo' = [transNo EXCEPT ![h] = @ + 1]
    /\ UNCHANGED <<state, fileVars, lockVars, pc, transWNo, leaked, useShadow,
                   seen, commitVars, openVars, regVars, ver, ghostVars>>

\* 'd' reads as 'o': an update does not concern the readers.
SeenByReader == [GetState EXCEPT !.val = IF @ = "d" THEN "o" ELSE @]

\* Is the open register the one that the state file describes? A variant
\* does not compare the seqno.
SameState(h) == /\ reg[h].status = "open"
                /\ reg[h].last_val = SeenByReader.val
UpToDate(h) == /\ reg[h].status = "open"
               /\ reg[h].seqno = SeenByReader.seqno
               /\ reg[h].last_val = SeenByReader.val

\* The open register is up to date: no lock is taken. A truncated state file
\* says 'o', 0, which an open register of seqno 0 agrees with.
BeginReadClean(h) ==
    /\ pc[h] = Ready /\ transNo[h] = 0
    /\ UpToDate(h) \/ reg[h].status = "freed"
    /\ Call("read")
    /\ transNo' = [transNo EXCEPT ![h] = 1]
    /\ floor' = [floor EXCEPT ![h] = online]
    /\ torn' = [torn EXCEPT ![h] = state.val = "t"]
    /\ UNCHANGED <<state, fileVars, lockVars, pc, transWNo, leaked, useShadow,
                   seen, commitVars, openVars, reg, view, ver, ghostVars>>

\* The register must be opened again, under the lock that its state calls for.
BeginReadDirty(h) ==
    /\ pc[h] = Ready /\ transNo[h] = 0
    /\ ~UpToDate(h)
    /\ Call("read")
    /\ transNo' = [transNo EXCEPT ![h] = 1]
    /\ seen' = [seen EXCEPT ![h] = SeenByReader]
    /\ floor' = [floor EXCEPT ![h] = online]
    /\ torn' = [torn EXCEPT ![h] = FALSE]
    /\ Goto(h, "r_lock")
    /\ UNCHANGED <<state, fileVars, lockVars, transWNo, leaked, useShadow,
                   commitVars, openVars, reg, view, ver, ghostVars>>

LockForRead(h) ==
    /\ pc[h] = "r_lock"
    /\ IF seen[h].val = "c"
       THEN /\ CanLock(lockShadow, h, "r")
            /\ lockShadow' = [lockShadow EXCEPT ![h] = "r"]
            /\ UNCHANGED lockNormal
       ELSE /\ CanLock(lockNormal, h, "r")
            /\ lockNormal' = [lockNormal EXCEPT ![h] = "r"]
            /\ UNCHANGED lockShadow
    /\ Goto(h, "r_open")
    /\ UNCHANGED <<state, fileVars, transVars, seen, commitVars, openVars,
                   regVars, ver, calls, ghostVars>>

\* bf_open for reading: a shadow file without a header counts as opened for
\* the first time, so even a reader lists it in the cache file.
RegisterOpenedForRead(h) ==
    /\ pc[h] = "r_open"
    /\ cache' = IF seen[h].val = "c"
                THEN cache \cup {f \in Files : shadow[f] = Absent}
                ELSE cache
    /\ reg' = [reg EXCEPT ![h] = [status |-> "open",
                                  shadow |-> seen[h].val = "c",
                                  seqno |-> seen[h].seqno,
                                  last_val |-> seen[h].val]]
    /\ view' = [view EXCEPT ![h] = NoView]
    /\ Goto(h, Ready)
    /\ UNCHANGED <<state, register, shadow, lockVars, transVars, seen,
                   commitVars, openVars, beganVars, ver, calls, ghostVars>>

RegisterOpenForReadFails(h) ==
    /\ pc[h] = "r_open" /\ "open" \in Failures /\ Call("fault")
    /\ UnlockBoth(h)
    /\ transNo' = [transNo EXCEPT ![h] = 0]
    /\ reg' = [reg EXCEPT ![h] = NoReg]
    /\ view' = [view EXCEPT ![h] = NoView]
    /\ Goto(h, Ready)
    /\ UNCHANGED <<state, fileVars, transWNo, leaked, useShadow, seen,
                   commitVars, openVars, beganVars, ver, ghostVars>>

\* A block that is not in the register's caches is read from the files.
ReadFile(h, f) ==
    /\ pc[h] = Ready /\ transNo[h] # 0 /\ transWNo[h] = 0
    /\ reg[h].status = "open"
    /\ view' = [view EXCEPT ![h][f] =
                   IF reg[h].shadow THEN Overlay[f] ELSE register[f]]
    /\ UNCHANGED <<state, fileVars, lockVars, pc, transVars, seen, commitVars,
                   openVars, reg, beganVars, ver, calls, ghostVars>>

-----------------------------------------------------------------------------
\* A process is killed: its locks are released, its files stay as they are.
Crash(h) ==
    /\ pc[h] \in CrashPoints
    /\ pc[h] # Ready \/ transNo[h] # 0
    /\ Call("fault")
    /\ UnlockBoth(h)
    /\ transNo' = [transNo EXCEPT ![h] = 0]
    /\ transWNo' = [transWNo EXCEPT ![h] = 0]
    /\ leaked' = [leaked EXCEPT ![h] = 0]
    /\ reg' = [reg EXCEPT ![h] = NoReg]
    /\ view' = [view EXCEPT ![h] = NoView]
    /\ todo' = [todo EXCEPT ![h] = {}]
    /\ cur' = [cur EXCEPT ![h] = {}]
    /\ Goto(h, Ready)
    /\ UNCHANGED <<state, fileVars, useShadow, seen, commitVars, beganVars,
                   ver, ghostVars>>

\* zebra_close, by a caller that has ended its transactions: the register is
\* closed and the two locks, which a leaked trans_no still holds, destroyed.
CloseHandle(h) ==
    /\ pc[h] = Ready /\ transNo[h] = leaked[h] /\ reg[h].status = "open"
    /\ UnlockBoth(h)
    /\ transNo' = [transNo EXCEPT ![h] = 0]
    /\ leaked' = [leaked EXCEPT ![h] = 0]
    /\ reg' = [reg EXCEPT ![h] = NoReg]
    /\ view' = [view EXCEPT ![h] = NoView]
    /\ UNCHANGED <<state, fileVars, pc, transWNo, useShadow, seen, commitVars,
                   openVars, beganVars, ver, calls, ghostVars>>

\* The steps inside a call, as opposed to the decision to make one.
UpdateStep(h) ==
    \/ LockNormalForUpdate(h) \/ LockShadowForUpdate(h)
    \/ ReadStateForUpdate(h) \/ TruncateState(h) \/ WriteStateDirty(h)
    \/ \E f \in Files : OpenFile(h, f) \/ OpenNewFile(h, f)
    \/ ListFile(h) \/ RegisterOpened(h)
    \/ ReadStateAtEnd(h) \/ WriteStateAtEnd(h)

CommitStep(h) ==
    \/ LockNormalForCommit(h) \/ LockShadowForCommit(h)
    \/ ReadStateForCommit(h) \/ WriteStateCommit(h)
    \/ \E f \in Files : CopyFile(h, f) \/ CleanFile(h, f)
    \/ CopyDone(h) \/ WriteStateOnline(h)
    \/ LockShadowForClean(h) \/ CleanDone(h)

ReadStep(h) == LockForRead(h) \/ RegisterOpenedForRead(h)
InitStep(h) ==
    \/ \E f \in Files : ResetShadowFile(h, f) \/ ResetRegisterFile(h, f)
    \/ ShadowReset(h) \/ ResetCache(h) \/ WriteStateInit(h)

\* A caller ends the transactions whose begin has returned ZEBRA_OK.
EndTrans(h) == /\ transNo[h] > leaked[h]
               /\ EndNested(h) \/ EndRead(h) \/ EndWrite(h)

AdminNext(h) ==
    \/ BeginWriteNested(h) \/ BeginWriteInRead(h)
    \/ \E sh \in BOOLEAN : BeginWrite(h, sh)
    \/ \E f \in Files : UpdateShadow(h, f) \/ UpdateRegister(h, f)
    \/ RegisterOpenFails(h) \/ CommitFails(h)
    \/ Commit(h) \/ Clean(h) \/ InitRegister(h)
    \/ UpdateStep(h) \/ CommitStep(h) \/ InitStep(h)

ReaderNext(h) ==
    \/ BeginReadNested(h) \/ BeginReadClean(h) \/ BeginReadDirty(h)
    \/ RegisterOpenForReadFails(h) \/ ReadStep(h)
    \/ \E f \in Files : ReadFile(h, f)

\* The configuration does not change.
SameConf == UNCHANGED conf

Next ==
    /\ SameConf
    /\ \/ \E h \in Admins : AdminNext(h)
       \/ \E h \in Readers : ReaderNext(h)
       \/ \E h \in Handles : EndTrans(h) \/ Crash(h) \/ CloseHandle(h)

Spec == Init /\ [][Next]_vars

\* Fairness: a process that is inside a call keeps running and gets a lock
\* that stays available, and callers end the transactions they begin.
FairSpec ==
    /\ Spec
    /\ \A h \in Admins :
           WF_vars(SameConf /\ (UpdateStep(h) \/ CommitStep(h) \/ InitStep(h)))
    /\ \A h \in Readers : WF_vars(SameConf /\ ReadStep(h))
    /\ \A h \in Handles : WF_vars(SameConf /\ EndTrans(h))

-----------------------------------------------------------------------------
\* Properties.

StateFile == [val : {"o", "d", "c", "t"}, seqno : Nat]
LockModes == {"free", "r", "w"}

RegTypes == [status : {"none", "open", "freed"}, shadow : BOOLEAN,
             seqno : Nat, last_val : {"o", "d", "c", "t"}]

FilesOK == /\ state \in StateFile
           /\ register \in Contents
           /\ shadow \in [Files -> Nat \cup {Absent, Blank}]
           /\ cache \in SUBSET Files
           /\ ver \in Nat
LocksOK == /\ lockNormal \in [Handles -> LockModes]
           /\ lockShadow \in [Handles -> LockModes]
TransOK == /\ transNo \in [Handles -> Nat]
           /\ transWNo \in [Handles -> {0, 1}]
           /\ leaked \in [Handles -> Nat]
           /\ useShadow \in [Handles -> BOOLEAN]
SeenOK == /\ seen \in [Handles -> StateFile]
          /\ commitSeen \in [Handles -> StateFile]
          /\ cleanOnly \in [Handles -> BOOLEAN]
WorkOK == /\ todo \in [Handles -> SUBSET Files]
          /\ cur \in [Handles -> SUBSET Files]
          /\ known \in [Handles -> SUBSET Files]
RegOK == /\ reg \in [Handles -> RegTypes]
         /\ view \in [Handles -> [Files -> Nat \cup {Absent}]]
         /\ floor \in [Handles -> Contents]
         /\ torn \in [Handles -> BOOLEAN]
GhostOK == /\ calls \in [Budget -> Nat]
           /\ good \subseteq Contents
           /\ last \in Contents
           /\ online \in Contents
           /\ made \in BOOLEAN

\* Type invariant: every variable of the protocol has its type.
TypeOK == /\ FilesOK /\ LocksOK /\ TransOK /\ SeenOK /\ WorkOK /\ RegOK
          /\ GhostOK
          /\ conf \in Setups /\ pc \in [Handles -> PCs]

\* h owns the state file, the shadow area and the cache file: it has read
\* the state and will write it, or it updates files.
Updating(h) == \/ pc[h] \in {"w_open", "w_list"} \cup EndPcs
               \/ pc[h] = Ready /\ transWNo[h] # 0
Owner(h) == \/ Updating(h)
            \/ pc[h] \in {"w_state", "w_trunc", "w_set", "c_state", "c_trunc",
                         "c_set", "c_copy", "c_otrunc", "c_oset"}

\* zebra_begin_trans, zebra_end_transaction and zebra_commit_ex read the state
\* file and write it later on the strength of what they read. Whatever
\* processes are killed at whatever points, the two lock files keep any two
\* of them from being between such a read and its write at once.
OneOwner == \A h, k \in Admins : Owner(h) /\ Owner(k) => h = k

\* While a write transaction has the register open the state file says 'd',
\* so zebra_end_transaction never finds another state and never throws the
\* shadow area away (the test val != 'd').
DirtyWhileUpdating ==
    \A h \in Admins : Updating(h) /\ pc[h] # "e_set" => state.val = "d"

InRead(h) == pc[h] = Ready /\ transNo[h] # 0 /\ transWNo[h] = 0
HoldsLock(h) == lockNormal[h] # "free" \/ lockShadow[h] # "free"
SeesOnly(h, g) == \A f \in Files : view[h][f] \in {Absent, g[f]}

\* The blocks that a locked read transaction has read come from one register
\* state that a finished write transaction produced, although the reader
\* chose its lock by a state file that it read without any lock.
SnapshotRead ==
    \A h \in Readers :
        InRead(h) /\ HoldsLock(h) => \E g \in good : SeesOnly(h, g)

Fresh(h) == \A f \in Files : view[h][f] # Absent => view[h][f] >= floor[h][f]

\* A read transaction never reads a block older than what the last commit
\* completed before it began put online: the seqno and the state in the state
\* file tell a reader that its open register is out of date. The one exception
\* is a transaction that begins while zebra_set_state has the state file
\* truncated, and takes the 'o', 0 that it reads for the register it has open.
FreshRead == \A h \in Readers : InRead(h) /\ ~torn[h] => Fresh(h)

\* When the commit phase has completed, running server processes switch to the
\* new register: the same without the exception, as the documentation has it.
SwitchedToNew == \A h \in Readers : InRead(h) => Fresh(h)

\* What the server processes are meant to read is at all times the result of
\* a finished write transaction, killed processes or not, save that nothing is
\* said of a register that zebra_init is removing, or was when it was killed,
\* until zebra_init has run to its end.
LiveConsistent == made => Live \in good

\* When no process is in a call and the shadow area is not marked dirty, what
\* a commit would make live is what the last finished update left, or what is
\* in the register if a commit, a clean, an init or the recovery from a killed
\* update has ended since (that recovery discards every update since the last
\* commit): no other finished update disappears and no killed one shows up.
FinishedUpdatesKept ==
    /\ made /\ state.val # "d"
    /\ \A h \in Admins : pc[h] = Ready /\ transWNo[h] = 0
    => Overlay = last

\* A handle in no transaction and in no call holds no lock, whichever way
\* its last call ended.
LocksReleased ==
    \A h \in Handles : pc[h] = Ready /\ transNo[h] = 0 => ~HoldsLock(h)

\* Every call returns: the locks are taken in an order that cannot deadlock.
\* The exception is that a zebra_begin_trans(zh, 1) within a read transaction
\* has failed and left trans_no incremented: the read lock of its handle is
\* released by no zebra_end_trans, and others may wait for it for good.
CallsReturn ==
    \A h \in Handles :
        pc[h] # Ready ~> pc[h] = Ready \/ \E k \in Handles : leaked[k] > 0
-----------------------------------------------------------------------------
\* Refinement: the protocol implements the atomic updates of SafeUpdate.

\* A shadow area that is being written, or thrown away, can not be committed.
BeingDiscarded(h) ==
    cleanOnly[h] /\ pc[h] \in {"c_set", "c_otrunc", "c_oset", "c_cleanlock",
                              "c_clean"}
DirtyShadow ==
    state.val = "d" \/ \E h \in Admins : pc[h] = "e_set" \/ BeingDiscarded(h)
NotFinished == [f \in Files |-> Absent]
BeingRemoved == [f \in Files |-> Blank]

Abstract == INSTANCE SafeUpdate WITH
    Dirty <- NotFinished,
    Unmade <- BeingRemoved,
    Empty <- [f \in Files |-> 0],
    live <- IF made THEN Live ELSE BeingRemoved,
    pending <- IF ~made THEN BeingRemoved
               ELSE IF DirtyShadow THEN NotFinished ELSE Overlay

\* Every behaviour of one administrator with any number of readers is one of
\* SafeUpdate: commits, updates and discards take effect whole or not at all,
\* and a register whose removal has begun is of no use until it is made anew.
UpdatesAreSafe == Abstract!AbstractSpec
=============================================================================
