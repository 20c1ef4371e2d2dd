------------------------------- MODULE BFile -------------------------------
(***************************************************************************)
(* Block files (bfile.c, commit.c): a file of the register read and        *)
(* written directly or through its shadow file, the commit of the shadow   *)
(* file to the register, and both after a process was killed.              *)
(*                                                                         *)
(* When each of these happens is decided by the protocol of ZebraTrans: an *)
(* update does not begin while a commit is unfinished, and the shadow file *)
(* of an update that did not end is thrown away.  The values written are   *)
(* the numbers of the writes.                                              *)
(***************************************************************************)
EXTENDS CFile

CONSTANTS
    Setups,      \* the areas and bucket sizes considered: [dirs, bucketSize]
    Reads,       \* the blocks that are read
    Writes,      \* what is written: <<block number, offset, length>>
    MaxWrites,   \* bounds on the calls of bf_write, of bf_read and of bf_open,
    MaxReads,    \* and on the processes that end or are killed
    MaxOpens,
    MaxExits

ASSUME BFileAssumption ==
    /\ \A s \in Setups : /\ s.dirs \in Seq(Int) /\ s.dirs # <<>>
                         /\ s.bucketSize \in Nat \ {0}
    /\ Reads \subseteq BlockNos
    /\ \A w \in Writes : /\ w[1] \in BlockNos
                         /\ w[2] \in Nat /\ w[3] \in Nat \ {0}
                         /\ w[2] + w[3] <= BlockSize
    /\ {MaxWrites, MaxReads, MaxOpens, MaxExits} \subseteq Nat

VARIABLES
    mode,        \* how the file is open, see Modes
    committing,  \* has a commit begun that did not finish? (state 'c')
    todo,        \* what a commit has to copy, as <<[no, vno], ...>>
    exp,         \* what was written to each unit, by the updates that count
    base,        \* exp when the last commit finished
    calls        \* how many calls of each kind were made

bfVars == <<mode, committing, todo, exp, base, calls>>
vars == <<bucketSize, rmf, diskVars, cfVars, pc, op, bfVars>>

\* Writing without and with a shadow file, reading likewise, committing, and
\* removing the shadow file after that.
Modes == {"closed", "direct", "shadow", "register", "overlay", "commit",
          "clean"}
Pcs == {"idle", "lookup", "walk", "found", "missing", "append", "fill", "done"}
NoOp == [kind |-> "none", no |-> 0, off |-> 0, units |-> <<>>, vno |-> 0]
Nothing == [no \in BlockNos |-> Zeroes]

Call(c, bound) == calls[c] < bound /\ calls' = [calls EXCEPT ![c] = @ + 1]

Init ==
    /\ \E s \in Setups : rmf = NewMFile(s.dirs) /\ bucketSize = s.bucketSize
    /\ head = NewHead /\ array = NoChains /\ mem = <<>>
    /\ iobuf = Zeroes /\ stats = NoStats /\ dirty = FALSE
    /\ cursor = 0 /\ prev = 0
    /\ saved = NoShadow /\ bucket = <<>> /\ flat = Unmapped /\ blocks = <<>>
    /\ pc = "idle" /\ op = NoOp
    /\ mode = "closed" /\ committing = FALSE /\ todo = <<>>
    /\ exp = Nothing /\ base = Nothing
    /\ calls = [c \in {"write", "read", "open", "exit"} |-> 0]

ShadowExists == saved.head.state # 0
HasShadow == mode \in {"shadow", "overlay"}

-----------------------------------------------------------------------------
\* bf_open and bf_close.

Open(m) ==
    /\ mode = "closed"
    /\ Call("open", MaxOpens)
    /\ mode' = m
    /\ rmf' = MfOpen(rmf)
    /\ UNCHANGED <<pc, op, committing, todo, exp, base>>

OpenUpdate ==
    /\ ~committing
    /\ Open("shadow")
    /\ OpenShadow(TRUE)

OpenDirect ==
    /\ ~committing /\ ~ShadowExists
    /\ Open("direct")
    /\ UNCHANGED <<diskVars, cfVars>>

OpenOverlay ==
    /\ committing
    /\ Open("overlay")
    /\ OpenShadow(FALSE)

OpenRegister ==
    /\ ~committing
    /\ Open("register")
    /\ UNCHANGED <<diskVars, cfVars>>

Close ==
    /\ mode \in {"direct", "shadow", "register", "overlay"} /\ pc = "idle"
    /\ mode' = "closed"
    /\ IF HasShadow THEN CloseShadow ELSE UNCHANGED <<diskVars, cfVars>>
    /\ UNCHANGED <<rmf, pc, op, committing, todo, exp, base, calls>>

\* A process ends and the next one begins with mf_init.
Exit ==
    /\ mode = "closed"
    /\ Call("exit", MaxExits)
    /\ rmf' = MfInit(rmf)
    /\ UNCHANGED <<diskVars, cfVars, pc, op, mode, committing, todo, exp, base>>

\* bf_reset, by a process of its own.
Reset ==
    /\ mode = "closed" /\ exp # Nothing
    /\ Call("exit", MaxExits)
    /\ rmf' = NewMFile(rmf.dirs)
    /\ RemoveShadow
    /\ committing' = FALSE
    /\ exp' = Nothing /\ base' = Nothing
    /\ UNCHANGED <<cfVars, pc, op, mode, todo>>

-----------------------------------------------------------------------------
\* bf_read2 and bf_write2.  Shadow files take the steps of CFile.

StartRead(no) ==
    /\ HasShadow /\ pc = "idle"
    /\ Call("read", MaxReads)
    /\ op' = [NoOp EXCEPT !.kind = "read", !.no = no, !.units = Zeroes]
    /\ Goto("lookup")
    /\ UNCHANGED <<rmf, diskVars, cfVars, mode, committing, todo, exp, base>>

ReadDirect(no) ==
    /\ mode \in {"direct", "register"} /\ pc = "idle"
    /\ Call("read", MaxReads)
    /\ op' = [NoOp EXCEPT !.kind = "read", !.no = no,
                          !.units = MfRead(rmf, no, 0, BlockSize)]
    /\ rmf' = [rmf EXCEPT !.cur = FilePosition(rmf, no).cur]
    /\ Goto("done")
    /\ UNCHANGED <<diskVars, cfVars, mode, committing, todo, exp, base>>

\* The next write puts its number in the units that x says.
Units(x) == [i \in 1..x[3] |-> calls.write + 1]
Expect(x) == exp' = [exp EXCEPT ![x[1]] = Put(@, x[2], Units(x))]

StartWrite(x) ==
    /\ mode = "shadow" /\ pc = "idle"
    /\ Call("write", MaxWrites)
    /\ op' = [NoOp EXCEPT !.kind = "write", !.no = x[1], !.off = x[2],
                          !.units = Units(x)]
    /\ Expect(x)
    /\ Goto("lookup")
    /\ UNCHANGED <<rmf, diskVars, cfVars, mode, committing, todo, base>>

\* The update goes to the register, so it counts at once.
WriteDirect(x) ==
    /\ mode = "direct" /\ pc = "idle"
    /\ Call("write", MaxWrites)
    /\ \E w \in {MfWrite(rmf, x[1], x[2], Units(x))} : w.ok /\ rmf' = w.mf
    /\ Expect(x)
    /\ base' = exp'
    /\ UNCHANGED <<diskVars, cfVars, pc, op, mode, committing, todo>>

\* No more space: bf_write ends the process.
WriteFails(x) ==
    /\ mode = "direct" /\ pc = "idle"
    /\ Call("write", MaxWrites)
    /\ \E w \in {MfWrite(rmf, x[1], x[2], Units(x))} : ~w.ok /\ rmf' = MfInit(w.mf)
    /\ mode' = "closed"
    /\ UNCHANGED <<diskVars, cfVars, pc, op, committing, todo, exp, base>>

Step == CFileStep /\ HasShadow /\ UNCHANGED bfVars

Return ==
    /\ pc = "done"
    /\ op' = NoOp
    /\ cursor' = 0 /\ prev' = 0
    /\ Goto("idle")
    /\ UNCHANGED <<rmf, diskVars, head, array, mem, iobuf, stats, dirty, bfVars>>

-----------------------------------------------------------------------------
\* bf_commitExec and bf_commitClean.

StartCommit ==
    /\ mode = "closed" /\ ShadowExists
    /\ Call("open", MaxOpens)
    /\ mode' = "commit"
    /\ committing' = TRUE
    /\ todo' = CommitPairs
    /\ rmf' = MfOpen(rmf)
    /\ UNCHANGED <<diskVars, cfVars, pc, op, exp, base>>

\* cf_commit_hash and cf_commit_flat, one block.
CopyBlock(x) == MfWrite(rmf, x.no, 0, blocks[x.vno])
CommitBlock ==
    /\ mode = "commit" /\ todo # <<>>
    /\ \E w \in {CopyBlock(Head(todo))} : w.ok /\ rmf' = w.mf
    /\ todo' = Tail(todo)
    /\ UNCHANGED <<diskVars, cfVars, pc, op, mode, committing, exp, base, calls>>

CommitFails ==
    /\ mode = "commit" /\ todo # <<>>
    /\ \E w \in {CopyBlock(Head(todo))} : ~w.ok /\ rmf' = w.mf
    /\ todo' = <<>>
    /\ mode' = "closed"
    /\ UNCHANGED <<diskVars, cfVars, pc, op, committing, exp, base, calls>>

\* The state file says 'o' again ...
CommitDone ==
    /\ mode = "commit" /\ todo = <<>>
    /\ mode' = "clean"
    /\ committing' = FALSE
    /\ base' = exp
    /\ UNCHANGED <<rmf, diskVars, cfVars, pc, op, todo, exp, calls>>

\* ... before bf_commitClean removes the shadow files.
Clean ==
    /\ mode = "clean"
    /\ mode' = "closed"
    /\ RemoveShadow
    /\ UNCHANGED <<rmf, cfVars, pc, op, committing, todo, exp, base, calls>>

\* zebra_clean: an update that is not committed is dropped.
Discard ==
    /\ mode = "closed" /\ ShadowExists /\ ~committing
    /\ RemoveShadow
    /\ exp' = base
    /\ UNCHANGED <<rmf, cfVars, pc, op, mode, committing, todo, base, calls>>

-----------------------------------------------------------------------------
\* A process is killed.  The shadow area of an update is thrown away by the
\* next administrator; a commit is begun again.
Kill ==
    /\ mode # "closed"
    /\ Call("exit", MaxExits)
    /\ rmf' = MfInit(rmf)
    /\ mode' = "closed"
    /\ FreeShadow
    /\ IF mode = "shadow" THEN RemoveShadow /\ exp' = base
       ELSE UNCHANGED <<diskVars, exp>>
    /\ op' = NoOp /\ Goto("idle") /\ todo' = <<>>
    /\ UNCHANGED <<committing, base>>

Next ==
    /\ UNCHANGED bucketSize
    /\ \/ OpenUpdate \/ OpenDirect \/ OpenOverlay \/ OpenRegister \/ Close
       \/ Exit \/ Reset \/ Kill
       \/ \E no \in Reads : StartRead(no) \/ ReadDirect(no)
       \/ \E x \in Writes : StartWrite(x) \/ WriteDirect(x) \/ WriteFails(x)
       \/ Step \/ Return
       \/ StartCommit \/ CommitBlock \/ CommitFails \/ CommitDone
       \/ Clean \/ Discard

Spec == Init /\ [][Next]_vars

-----------------------------------------------------------------------------
\* Properties.

Unit == Nat \cup {Dummy, Short}
Block == [1..BlockSize -> Unit]

\* Type invariant: what is in memory, on disk and under way has its type.
TypeOK ==
    /\ mode \in Modes /\ pc \in Pcs /\ committing \in BOOLEAN
    /\ dirty \in BOOLEAN
    /\ head.state \in 1..2 /\ saved.head.state \in 0..2
    /\ Len(mem) <= MaxInMemory
    /\ \A i, j \in 1..Len(mem) : mem[i].this = mem[j].this => i = j
    /\ rmf.cur \in 1..Len(rmf.parts)
    /\ Range(blocks) \subseteq Block /\ iobuf \in Block
    /\ exp \in [BlockNos -> Block] /\ base \in [BlockNos -> Block]

Agrees(units, want) ==
    \A i \in 1..BlockSize : want[i] = Hole \/ units[i] = want[i]

\* bf_read returns what was last written to each unit, whichever of the memory
\* of buckets, the chains on disk, the flat index and the register has it,
\* after any closing, reopening, commit, kill and recovery; a reader of the
\* register alone gets what the last commit left.
ReadsBack ==
    pc = "done" /\ op.kind = "read" =>
        Agrees(op.units, IF mode = "register" THEN base[op.no] ELSE exp[op.no])

\* Once a commit has finished the register has all that was written, for the
\* process that committed and for one that opens it anew, also if commits
\* before it were killed or failed half way.
Holds(mf, want) == \A no \in BlockNos : Agrees(MfRead(mf, no, 0, BlockSize), want[no])
CommitsAll ==
    mode \in {"closed", "direct", "clean"} /\ ~committing =>
        Holds(rmf, base) /\ Holds(MfOpen(MfInit(rmf)), base)

\* The buckets as cf_lookup sees them: those in memory hide those on disk. A chain
\* is the least set with its first bucket and with the next of each.
Known == DOMAIN bucket \cup {mem[i].this : i \in 1..Len(mem)}
Current(b) == IF InMemory(b) THEN mem[IndexOf(b)] ELSE bucket[b]
Reaches(S, h) == /\ array[h] \in S \cup {0}
                 /\ \A b \in S : Current(b).next \in S \cup {0}
Chain(h) == {b \in Known : \A S \in SUBSET Known : Reaches(S, h) => b \in S}

\* Between calls every bucket is on the chain of its entries and on no other,
\* whatever has been flushed from memory in between, and no block of the
\* register or of the shadow file is entered twice.
OneHome ==
    HasShadow /\ pc = "idle" /\ head.state = 1 =>
        /\ \A b \in Known : \A x \in Range(Current(b).ents) :
               b \in Chain(Hash(x.no)) /\ x.vno < head.nextBlock
        /\ \A h, k \in DOMAIN array : h # k => Chain(h) \cap Chain(k) = {}
        /\ \A b, c \in Known :
               \A x \in Range(Current(b).ents), y \in Range(Current(c).ents) :
                   x.no = y.no \/ x.vno = y.vno => b = c /\ x = y

\* The table of part files in memory is the one a new process would build: no
\* part but the last changes its number of blocks when the file is reopened.
PositionsKept ==
    \A i \in 1..Len(rmf.parts) - 1 :
        /\ rmf.parts[i].blocks = MfInit(rmf).parts[i].blocks
        /\ rmf.parts[i].top = BlocksBefore(rmf.parts, i + 1) - 1
=============================================================================
