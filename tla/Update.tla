------------------------------- MODULE Update -------------------------------
(***************************************************************************)
(* Records from files and from the interface into the register: extract.c, *)
(* reckeys.c, update_file.c, update_path.c, dirs.c, dir.c.                  *)
(*                                                                         *)
(* A path is a sequence of characters below the directory that is indexed; *)
(* 2 is '/', 1 a character before it.  A file is a sequence of documents,  *)
(* each what the filter makes of it: the outcome, the keys in order, the   *)
(* sort keys, an identifier, a match criterion and an action (0 and "" if  *)
(* it sets none), the static rank, the size in the file and the size of    *)
(* what the filter itself stores (-1 if it stores nothing).  Key blocks    *)
(* and isam are the net effect on the index (KeyMerge, IsamB), the sort    *)
(* index is the sort keys by record (SortIdx).                             *)
(***************************************************************************)
EXTENDS Integers, SequencesExt, FiniteSetsExt

CONSTANTS
    Contents,     \* what a file may have: sequences of documents
    FirstFiles,   \* the files at first: path to content
    FilePaths,    \* paths of files that change
    DirPaths,     \* paths of directories, ending in '/'
    Unknown,      \* file paths for which no record type is configured
    BadTypes,     \* file paths whose record type is no filter's name
    RecordIds,    \* m_record_id: subset of {"file", "id", "none"}
    MatchIds,     \* match criteria given by a client; 0 is none
    DirBatch,     \* no_max of dirs.c: entries read by one scan
    MaxTime,      \* bound on the changes of the file system
    MaxUpdates,   \* bound on the updates
    MaxSteps      \* bound on both together

ASSUME UpdateAssumption ==
    /\ RecordIds \subseteq {"file", "id", "none"}
    /\ DirBatch \in Nat \ {0} /\ MaxTime \in Nat /\ MaxUpdates \in Nat
    /\ MaxSteps \in Nat

VARIABLES
    fs,           \* the files: path to [mtime, docs, open, was]; was is the contents
                  \* that could be read under this mtime
    fsDirs,       \* the directories, and whether they can be read
    fsTime,
    ureg,         \* the register, see NoRegister
    fmatch,       \* the dictionary of file matches
    recordId,     \* m_record_id
    synced,       \* the last thing was an update of the whole tree
    updates

updateVars == <<fs, fsDirs, fsTime, ureg, fmatch, recordId, synced, updates>>

NoDoc == [out |-> "none", keys |-> <<>>, sort |-> <<>>, id |-> 0, match |-> 0,
          action |-> "", rank |-> 0, size |-> 0, stored |-> -1]

\* recs: records by number, deleted ones as NoUpdRecord; keys: the index, a key to how
\* often it is there; sort: sort keys by record; matches: matchDict; occ, count and
\* bytes: the statistics of the explain database.  stuck: the handle's m_record_type
\* is left at a name that is no filter's.  aborted: "given" or "matched", where the
\* number came from for which assert(rec) failed.  A history: drift, by how much the
\* sizes added to bytes exceed the sizes that will be taken back.
NoRegister == [recs |-> <<>>, keys |-> <<>>, sort |-> <<>>, matches |-> <<>>,
               occ |-> <<>>, count |-> 0, bytes |-> 0, stuck |-> FALSE,
               aborted |-> "", drift |-> 0]
\* Histories: byNumber, it was deleted by its number; orphan, its file was gone but
\* the deletion failed.
NoUpdRecord == [live |-> FALSE, keys |-> <<>>, sort |-> <<>>, fname |-> <<>>, rank |-> 0,
             size |-> 0, doc |-> NoDoc, byNumber |-> FALSE, orphan |-> FALSE]

ParentDirs(p) == {d \in DirPaths : IsStrictPrefix(d, p)}
UpdateInit ==
    /\ fs = [p \in DOMAIN FirstFiles |->
                 [mtime |-> 1, docs |-> FirstFiles[p], open |-> TRUE,
                  was |-> {FirstFiles[p]}]]
    /\ fsDirs = [d \in {<<>>} \cup UNION {ParentDirs(p) : p \in DOMAIN FirstFiles} |-> TRUE]
    /\ fsTime = 1
    /\ ureg = NoRegister /\ fmatch = <<>> /\ recordId = "" /\ synced = FALSE
    /\ updates = 0

Plus(f, k, n) ==
    LET was == IF k \in DOMAIN f THEN f[k] ELSE 0
        rest == DOMAIN f \ {k}
    IN  IF was + n = 0 THEN [x \in rest |-> f[x]]
        ELSE [x \in rest \cup {k} |-> IF x = k THEN was + n ELSE f[x]]
Bound(f, k, v) == [x \in DOMAIN f \cup {k} |-> IF x = k THEN v ELSE f[x]]
Unbound(f, k) == [x \in DOMAIN f \ {k} |-> f[x]]

-----------------------------------------------------------------------------
\* Keys of a record.

\* zebra_rec_keys_write, which omits a key that is there.
RecKeysWrite(keys, k) == IF k \in Range(keys) THEN keys ELSE Append(keys, k)
\* The keys of a document as extract_add_index_string wrote them.
RecKeys(doc) == FoldLeft(RecKeysWrite, <<>>, doc.keys)
\* all_matches_add.
AllMatches(n) == [ord |-> 0, term |-> 0, seq |-> n]

\* extract_rec_keys_adjust: the ordinals of a record and how often each is there.
Adjust(occ, keys, sign) ==
    LET ords == {keys[i].ord : i \in DOMAIN keys}
        terms(o) == Len(SelectSeq(keys, LAMBDA k : k.ord = o))
        both(f, o) == Plus(Plus(f, <<o, "terms">>, sign * terms(o)), <<o, "docs">>, sign)
    IN  FoldSet(LAMBDA o, f : both(f, o), occ, ords)

\* extract_flush_record_keys2: deletions and insertions in pairs by position; a
\* pair of the same key is left out if the rank is the same too.  A variant does
\* not look at the rank.
PairOfKeys(old, new, i) == i <= Len(old) /\ i <= Len(new) /\ old[i] = new[i]
SameAnyRank(old, new, i, delRank, insRank) == PairOfKeys(old, new, i)
Unchanged(old, new, i, delRank, insRank) == insRank = delRank /\ PairOfKeys(old, new, i)
FlushKeys(r, n, hasIns, ins, insRank, hasDel, del, delRank) ==
    LET at(k, rank) == <<k.ord, k.term, rank, n, k.seq>>
        one(f, i) ==
            LET d == IF i <= Len(del) THEN Plus(f, at(del[i], delRank), -1) ELSE f
            IN  IF Unchanged(del, ins, i, delRank, insRank) THEN f
                ELSE IF i <= Len(ins) THEN Plus(d, at(ins[i], insRank), 1) ELSE d
        longest == IF Len(ins) > Len(del) THEN Len(ins) ELSE Len(del)
    IN  [r EXCEPT !.keys = FoldLeft(one, @, [i \in 1..longest |-> i]),
                  !.occ = Adjust(Adjust(@, ins, 1), del, -1),
                  !.count = @ + (IF hasIns /\ ~hasDel THEN 1
                                 ELSE IF hasDel /\ ~hasIns THEN -1 ELSE 0)]

\* extract_flush_sort_keys.
FlushSort(r, n, cmd, sort) ==
    [r EXCEPT !.sort = IF sort = <<>> THEN @
                       ELSE IF cmd = 1 THEN Bound(@, n, sort) ELSE Unbound(@, n)]

-----------------------------------------------------------------------------
\* zebra_extract_record_stream (not in test mode, storeKeys set).  sys is -1 if the
\* caller gives no number.  The result: the register, whether it is ZEBRA_OK, more,
\* and the number.
Done(r, ok, more, sys) == [r |-> r, ok |-> ok, more |-> more, sys |-> sys]

\* The record is stored with what its extraction gave.  The total grows by the size
\* in the file, but recordSize, which is taken back later, becomes the size of what
\* the filter stored.
RecordSize(doc) == IF doc.stored >= 0 THEN doc.stored ELSE doc.size
PutRecord(r, n, doc, keys, fname) ==
    [r EXCEPT !.recs = [i \in 1..(IF n > Len(@) THEN n ELSE Len(@)) |->
                            IF i # n THEN @[i]
                            ELSE [NoUpdRecord EXCEPT
                                      !.live = TRUE, !.keys = keys, !.sort = doc.sort,
                                      !.fname = fname, !.rank = doc.rank,
                                      !.size = RecordSize(doc), !.doc = doc]],
              !.bytes = @ + doc.size,
              !.drift = @ + doc.size - RecordSize(doc)]

\* The keys and sort keys of a document are put into the place of those of rec, a
\* record that is there if has; rec_new gave n otherwise.
StoreRecord(r, n, doc, keys, fname, has, rec) ==
    Done(PutRecord(FlushKeys(FlushSort(r, n, 1, doc.sort), n, TRUE, keys, doc.rank,
                             has, rec.keys, rec.rank), n, doc, keys, fname), TRUE, TRUE, n)
AllKeys(doc, n) == RecKeysWrite(RecKeys(doc), AllMatches(n))

Matched(r, match, n) == IF match = 0 THEN r ELSE [r EXCEPT !.matches = Bound(@, match, n)]
InsertRecord(r, n, doc, match, fname) ==
    StoreRecord(Matched(r, match, n), n, doc, AllKeys(doc, n), fname, FALSE, NoUpdRecord)

DeleteRecord(r, n, rec, match) ==
    Done([FlushKeys(r, n, FALSE, <<>>, rec.rank, TRUE, rec.keys, rec.rank)
              EXCEPT !.matches = IF match = 0 THEN @ ELSE Unbound(@, match),
                     !.recs[n] = [NoUpdRecord EXCEPT !.byNumber = match = 0]],
         TRUE, TRUE, n)

ReplaceRecord(r, n, doc, fname) ==
    StoreRecord(r, n, doc, AllKeys(doc, n), fname, TRUE, r.recs[n])

\* The sort keys and the size of the old record are taken back.
OldTaken(r, n) ==
    [FlushSort(r, n, 0, r.recs[n].sort) EXCEPT !.bytes = @ - r.recs[n].size]

\* The program ends at assert(rec) if there is no record n.
IsLive(r, n) == n \in DOMAIN r.recs /\ r.recs[n].live
Aborted(r, n, match) ==
    Done([r EXCEPT !.aborted = IF match = 0 THEN "given" ELSE "matched"], FALSE, TRUE, n)

\* The keys of record n, if there is one, are known; match leads to it.
ApplyAction(r, doc, action, n, match, fname) ==
    IF n = 0
    THEN IF action \in {"delete", "replace"} THEN Done(r, FALSE, TRUE, n)
         ELSE IF action = "a_delete" THEN Done(r, TRUE, TRUE, n)
         ELSE InsertRecord(r, Len(r.recs) + 1, doc, match, fname)
    ELSE IF action = "insert" THEN Done(r, FALSE, TRUE, n)
    ELSE IF ~IsLive(r, n) THEN Aborted(r, n, match)
    ELSE IF action \in {"delete", "a_delete"}
    THEN DeleteRecord(OldTaken(r, n), n, r.recs[n], match)
    ELSE ReplaceRecord(OldTaken(r, n), n, doc, fname)

RecordOf(r, sys, match) ==
    IF sys >= 0 THEN sys ELSE IF match \in DOMAIN r.matches THEN r.matches[match] ELSE 0

\* The match criterion: 0 if there is none.
MatchOf(doc, sys, given) ==
    IF sys >= 0 THEN 0
    ELSE IF doc.match # 0 THEN doc.match
    ELSE IF given # 0 THEN given
    ELSE IF recordId = "id" THEN doc.id ELSE 0
ActionOf(doc, action) == IF action = "update" /\ doc.action # "" THEN doc.action ELSE action
ExtractMatched(r, doc, action, sys, match, fname) ==
    IF doc.out \in {"eof", "error"} THEN Done(r, FALSE, FALSE, sys)
    ELSE IF doc.out = "skip" THEN Done(r, TRUE, TRUE, sys)
    ELSE IF sys < 0 /\ match = 0 /\ recordId = "id" THEN Done(r, FALSE, TRUE, sys)
    ELSE ApplyAction(r, doc, action, RecordOf(r, sys, match), match, fname)
ExtractRecord(r, doc, action, sys, given, fname) ==
    ExtractMatched(r, doc, ActionOf(doc, action), sys, MatchOf(doc, sys, given), fname)

\* zebra_extract_records_stream: the documents of a stream up to its end, the first
\* error or, with a number, the first one.
EndOfFile == [NoDoc EXCEPT !.out = "eof"]
RECURSIVE ExtractRecords(_, _, _, _, _, _)
ExtractOn(x, docs, action, sys, given, fname) ==
    IF ~x.more THEN [x EXCEPT !.ok = TRUE]
    ELSE IF ~x.ok \/ sys >= 0 THEN x
    ELSE ExtractRecords(x.r, Tail(docs), action, sys, given, fname)
ExtractRecords(r, docs, action, sys, given, fname) ==
    ExtractOn(ExtractRecord(r, IF docs = <<>> THEN EndOfFile ELSE Head(docs), action, sys,
                            given, fname),
              docs, action, sys, given, fname)

\* zebra_extract_file.  With no such record type it fails and leaves the type in the
\* handle, for every file after it in the transaction.
NoSuchType(r, sys, gone) ==
    Done([r EXCEPT !.stuck = TRUE,
                   !.recs = IF gone /\ sys > 0 THEN [@ EXCEPT ![sys].orphan = TRUE] ELSE @],
         FALSE, FALSE, sys)
ExtractFile(r, sys, path, action) ==
    LET gone == sys >= 0 /\ action \in {"delete", "a_delete"}
    IN  IF r.stuck \/ path \in BadTypes THEN NoSuchType(r, sys, gone)
        ELSE IF path \in Unknown THEN Done(r, TRUE, FALSE, sys)
        ELSE IF ~gone /\ ~fs[path].open THEN Done(r, FALSE, FALSE, sys)
        ELSE ExtractRecords(r, IF gone THEN <<NoDoc>> ELSE fs[path].docs, action, sys, 0, path)

-----------------------------------------------------------------------------
\* Directories (dir.c): the names in one, those of directories ending in '/', in
\* order.
Before(p, q) ==
    \/ IsStrictPrefix(p, q)
    \/ \E i \in DOMAIN p : /\ i \in DOMAIN q /\ p[i] < q[i]
                           /\ \A j \in 1..i - 1 : p[j] = q[j]
InOrder(set) == [i \in 1..Cardinality(set) |->
                    CHOOSE p \in set : Cardinality({q \in set : Before(q, p)}) = i - 1]
Under(dir, p) == IsStrictPrefix(dir, p)
                 /\ \A d \in DirPaths : IsStrictPrefix(d, p) => IsPrefix(d, dir)
DirOpen(dir) == IF ~fsDirs[dir] THEN <<>>
                ELSE InOrder({p \in DOMAIN fs \cup DOMAIN fsDirs : Under(dir, p)})

\* dirs.c: entries of the file match dictionary, DirBatch at a time.  u is the
\* traversal: the register r, the dictionary d and the reader: prefix, nextpath and
\* whether it was deleted, the entries in memory, no_read, no_cur and last_entry.
NoEntry == [kind |-> "none", path |-> <<>>, sysno |-> 0, mtime |-> 0]
AtMost(n, names) == SubSeq(names, 1, IF Len(names) < n THEN Len(names) ELSE n)
DirsEntries(u, own) ==
    [i \in DOMAIN own |-> [kind |-> u.d[own[i]].kind, path |-> own[i],
                           sysno |-> u.d[own[i]].sysno, mtime |-> u.d[own[i]].mtime]]
Scanned(u, cur, shown, stop) ==
    LET own == SubSeq(shown, IF cur < 0 THEN 2 ELSE 1, stop - 1)
    IN  [u EXCEPT !.entries = DirsEntries(u, own),
                  !.cur = IF stop = 1 THEN cur ELSE Len(own),
                  !.nextpath = IF shown = <<>> THEN @
                               ELSE IF stop > Len(shown) THEN Last(shown) ELSE shown[stop]]
ScanTo(u, cur, shown) ==
    Scanned(u, cur, shown, Min({Len(shown) + 1} \cup
                               {i \in DOMAIN shown : ~IsPrefix(u.prefix, shown[i])}))
ScanDirs(u, cur, after) ==
    ScanTo(u, cur, AtMost(after, InOrder({p \in DOMAIN u.d : ~Before(p, u.nextpath)})))
\* dirs_open and dirs_read; a variant reads on as if the last entry were there.
DirsOpen(r, d, top) ==
    ScanDirs([r |-> r, d |-> d, prefix |-> top, nextpath |-> top, deleted |-> FALSE,
              entries |-> <<>>, read |-> 0, cur |-> 0, last |-> NoEntry],
             0, DirBatch)
RescanSkips(u) == ScanDirs(u, -1, DirBatch + 1)
Rescan(u) == IF u.deleted THEN ScanDirs(u, 0, DirBatch) ELSE ScanDirs(u, -1, DirBatch + 1)
FirstRead(u) == [u EXCEPT !.read = 1, !.deleted = FALSE,
                          !.last = IF u.cur >= 1 THEN u.entries[1] ELSE NoEntry]
DirsRead(u) ==
    IF u.read < u.cur THEN [u EXCEPT !.read = @ + 1, !.last = u.entries[u.read + 1]]
    ELSE IF u.cur < DirBatch THEN [u EXCEPT !.last = NoEntry]
    ELSE FirstRead(Rescan(u))

\* dirs_mkdir, dirs_rmdir, dirs_add and dirs_del.
DirsMkdir(u, p) == [u EXCEPT !.d = Bound(@, p, [kind |-> "dir", sysno |-> 0, mtime |-> 0])]
DirsRmdir(u, p) == [u EXCEPT !.d = Unbound(@, p)]
DirsAdd(u, p, n, time) ==
    [u EXCEPT !.d = Bound(@, p, [kind |-> "file", sysno |-> n, mtime |-> time])]
DirsDel(u, p) == [u EXCEPT !.d = Unbound(@, p), !.deleted = @ \/ p = u.nextpath]

\* zebra_extract_file of a file that is new or newer than its entry, and of one gone.
Recorded(u, p, x) ==
    IF x.ok THEN DirsAdd([u EXCEPT !.r = x.r], p, x.sys, fs[p].mtime)
    ELSE [u EXCEPT !.r = x.r]
UpdateOne(u, p, n) == Recorded(u, p, ExtractFile(u.r, n, p, "update"))
DeleteOne(u, e) == [u EXCEPT !.r = ExtractFile(u.r, e.sysno, e.path, "delete").r]

\* fileDelete_r: entries whose path is src, to its end.
RECURSIVE FileDelete(_, _, _)
DeleteOn(u, src) == FileDelete(u, u.last, src)
FileDelete(u, dst, src) ==
    IF dst.kind = "none" \/ dst.path # src THEN u
    ELSE DeleteOn(IF dst.kind = "file" THEN DirsDel(DirsRead(DeleteOne(u, dst)), dst.path)
                  ELSE DirsRmdir(DirsRead(u), dst.path), src)

\* file_update_r of the directory src, with dst the entry of the dictionary to go on
\* with; what the caller goes on with is u.last.
RECURSIVE FileUpdate(_, _, _)
RECURSIVE UpdateLoop(_, _, _, _)
Inside(dst, src) == dst.kind # "none" /\ IsPrefix(src, dst.path)
EnterKnown(u, src) == UpdateLoop(u, u.last, src, DirOpen(src))
FileUpdate(u, dst, src) ==
    LET known == dst.kind # "none" /\ dst.path = src
    IN  IF ~fsDirs[src] THEN IF known THEN FileDelete(u, dst, src) ELSE u
        ELSE IF known THEN EnterKnown(DirsRead(u), src)
        ELSE UpdateLoop(DirsMkdir(u, src), IF Inside(dst, src) THEN dst ELSE NoEntry, src,
                        DirOpen(src))

\* An entry of what is no longer there, and a file that is new or has an entry.
EntryGone(u, dst) ==
    IF dst.kind = "file" THEN DirsRead(DirsDel(DeleteOne(u, dst), dst.path))
    ELSE FileDelete(u, dst, dst.path)
FileThere(u, p, dst, new) ==
    IF new \/ fs[p].mtime > dst.mtime THEN UpdateOne(u, p, IF new THEN 0 ELSE dst.sysno)
    ELSE u
\* What became of a name: the loop goes on with the same entry or with the next one.
NameDone(u, p, dst, new) ==
    IF p \notin DOMAIN fs THEN FileUpdate(u, dst, p)
    ELSE IF new THEN FileThere(u, p, dst, TRUE) ELSE DirsRead(FileThere(u, p, dst, FALSE))
LoopNext(u, same, dst, src, names) ==
    UpdateLoop(u, IF same THEN dst ELSE u.last, src, names)

\* -1, 0 and 1: the entry is before the name, is that of the name, is after it.
EntryVsName(dst, src, names) ==
    IF ~Inside(dst, src) THEN 1 ELSE IF names = <<>> THEN -1
    ELSE IF dst.path = Head(names) THEN 0 ELSE IF Before(dst.path, Head(names)) THEN -1 ELSE 1
UpdateLoop(u, dst, src, names) ==
    LET sd == EntryVsName(dst, src, names)
        p == Head(names)
        same == IF p \in DOMAIN fs THEN sd > 0 ELSE dst.kind = "none"
    IN  IF ~Inside(dst, src) /\ names = <<>> THEN u
        ELSE IF sd < 0 THEN LoopNext(EntryGone(u, dst), FALSE, dst, src, names)
        ELSE LoopNext(NameDone(u, p, dst, sd > 0), same, dst, src, Tail(names))

\* file_update_top of a directory and of a file (dirs_fopen).
UpdateFrom(u, top) == FileUpdate(u, u.last, top)
UpdateTree(r, d, top) ==
    UpdateFrom(DirsRead(DirsOpen(r, d, top)), top)
UpdateFile(r, d, p) ==
    FileThere(DirsOpen(r, d, p), p, d[p], ~(p \in DOMAIN d /\ d[p].kind = "file"))

-----------------------------------------------------------------------------
\* repositoryExtractR: the files of a directory, in any order; here in that of names.
RECURSIVE ExtractTree(_, _, _)
ExtractTree(r, dir, action) ==
    FoldLeft(LAMBDA s, p : IF s.aborted # "" THEN s
                           ELSE IF p \in DOMAIN fs THEN ExtractFile(s, -1, p, action).r
                           ELSE ExtractTree(s, p, action), r, DirOpen(dir))

\* Actions.

\* Each is a transaction; the record type is read again when the next one begins.
WithinSteps == fsTime - 1 + updates < MaxSteps
UpdateCall == /\ ureg.aborted = "" /\ WithinSteps /\ updates < MaxUpdates
              /\ updates' = updates + 1
              /\ UNCHANGED <<fs, fsDirs, fsTime>>
TypeRead(r) == [r EXCEPT !.stuck = FALSE]
SetRecordId(id) == /\ recordId = "" /\ recordId' = id
                   /\ UNCHANGED <<fs, fsDirs, fsTime, ureg, fmatch, synced, updates>>

\* The file system, outside of the program.  A file that is written again within the
\* second, or put there with its old time, keeps its mtime.
FsChange == /\ recordId # "" /\ WithinSteps /\ fsTime < MaxTime /\ fsTime' = fsTime + 1
            /\ synced' = FALSE
            /\ UNCHANGED <<ureg, fmatch, recordId, updates>>
FsWrite(p, docs, open, newer) ==
    /\ FsChange
    /\ newer \/ (p \in DOMAIN fs /\ recordId = "file")    \* else nobody reads mtime
    /\ open \/ docs = <<>>          \* of a file that cannot be opened nothing is read
    /\ p \o <<2>> \notin DOMAIN fsDirs
    /\ \A d \in ParentDirs(p) : SubSeq(d, 1, Len(d) - 1) \notin DOMAIN fs
    /\ fs' = Bound(fs, p, [mtime |-> IF newer THEN fsTime + 1 ELSE fs[p].mtime,
                           docs |-> docs, open |-> open,
                           was |-> (IF open THEN {docs} ELSE {}) \cup
                                       (IF newer THEN {} ELSE fs[p].was)])
    /\ fsDirs' = [d \in DOMAIN fsDirs \cup ParentDirs(p) |->
                     IF d \in DOMAIN fsDirs THEN fsDirs[d] ELSE TRUE]
FsRemove(p) == FsChange /\ p \in DOMAIN fs /\ fs' = Unbound(fs, p) /\ UNCHANGED fsDirs
FsRemoveDir(d) ==
    /\ FsChange /\ d \in DOMAIN fsDirs
    /\ fs' = [p \in {q \in DOMAIN fs : ~IsPrefix(d, q)} |-> fs[p]]
    /\ fsDirs' = [p \in {q \in DOMAIN fsDirs : ~IsPrefix(d, q)} |-> fsDirs[p]]
FsCloseDir(d) == FsChange /\ d \in DOMAIN fsDirs /\ fsDirs' = [fsDirs EXCEPT ![d] = FALSE]
                 /\ UNCHANGED fs

\* zebra_repository_update with recordId: file (whatever the action).
UpdateDir(top) ==
    /\ UpdateCall /\ recordId = "file" /\ top \in DOMAIN fsDirs
    /\ \E u \in {UpdateTree(ureg, fmatch, top)} : 
          /\ ureg' = TypeRead(u.r) /\ fmatch' = u.d
          /\ synced' = (top = <<>> /\ ~u.r.stuck)
    /\ UNCHANGED recordId
UpdatePath(p) ==
    /\ UpdateCall /\ recordId = "file" /\ p \in DOMAIN fs
    /\ \E u \in {UpdateFile(ureg, fmatch, p)} : ureg' = TypeRead(u.r) /\ fmatch' = u.d
    /\ synced' = FALSE /\ UNCHANGED recordId

\* zebra_repository_update otherwise.
RepositoryUpdate(action) ==
    /\ UpdateCall /\ recordId \in {"id", "none"}
    /\ ureg' = TypeRead(ExtractTree(ureg, <<>>, action))
    /\ UNCHANGED <<fmatch, recordId, synced>>

\* zebra_update_record of a document in memory (zebra_buffer_extract_record).
UpdateRecord(docs, action, sys, match) ==
    /\ UpdateCall /\ recordId \in {"id", "none"}
    /\ ureg' = ExtractRecords(ureg, docs, action, sys, match, <<>>).r
    /\ UNCHANGED <<fmatch, recordId, synced>>

UpdateActions == {"insert", "update", "replace", "delete", "a_delete"}
UpdateNext ==
    \/ \E id \in RecordIds : SetRecordId(id)
    \/ \E p \in FilePaths, docs \in Contents, open, newer \in BOOLEAN :
          FsWrite(p, docs, open, newer)
    \/ \E p \in FilePaths : FsRemove(p)
    \/ \E d \in DirPaths : FsRemoveDir(d) \/ FsCloseDir(d)
    \/ \E top \in DOMAIN fsDirs : UpdateDir(top)
    \/ \E p \in DOMAIN fs : UpdatePath(p)
    \/ \E a \in {"update", "insert", "delete"} : RepositoryUpdate(a)
    \/ \E docs \in Contents, a \in UpdateActions, sys \in -1..1, m \in MatchIds :
          UpdateRecord(docs, a, sys, m)

-----------------------------------------------------------------------------
\* Properties.

LiveRecs == {n \in DOMAIN ureg.recs : ureg.recs[n].live}
KeysOfRec(n) == {<<k.ord, k.term, ureg.recs[n].rank, n, k.seq>> : k \in Range(ureg.recs[n].keys)}
SumOver(s, f(_)) == FoldSet(LAMBDA n, a : a + f(n), 0, s)

\* A match leads to a live record unless that record was deleted by its number
\* (extract.c:1063: the match is not known there and stays), and only with such a match,
\* or a number that is no record's, a client's call ends at assert(rec).
MatchesLive ==
    /\ \A m \in DOMAIN ureg.matches :
          IsLive(ureg, ureg.matches[m]) \/ ureg.recs[ureg.matches[m]].byNumber
    /\ ureg.aborted = "matched" => \E m \in DOMAIN ureg.matches : ~IsLive(ureg, ureg.matches[m])
    /\ recordId = "file" => ureg.aborted = ""

\* The index has each key of each live record once, under the rank the record has
\* now, and no other key, however the keys of its versions were paired; the sort keys
\* are those of the live records; and the statistics are the sums over the live
\* records, but that the bytes are off by what filters stored themselves.
IndexOfRecords ==
    /\ MatchesLive
    /\ DOMAIN ureg.keys = UNION {KeysOfRec(n) : n \in LiveRecs}
    /\ \A k \in DOMAIN ureg.keys : ureg.keys[k] = 1
    /\ DOMAIN ureg.sort = {n \in LiveRecs : ureg.recs[n].sort # <<>>}
    /\ \A n \in DOMAIN ureg.sort : ureg.sort[n] = ureg.recs[n].sort
    /\ ureg.count = Cardinality(LiveRecs)
    /\ ureg.bytes - ureg.drift = SumOver(LiveRecs, LAMBDA n : ureg.recs[n].size)
    /\ ureg.occ = FoldSet(LAMBDA n, f : Adjust(f, ureg.recs[n].keys, 1), <<>>, LiveRecs)

\* After an update of the whole tree, in which every record type was known, the
\* register follows the file system, though entries are read in batches while others
\* are added and deleted: each entry of a file names a live record of its own, made
\* from a content the file had under its mtime (the one it has, unless it changed
\* without a newer mtime: update_file.c:172), if that can be extracted; every readable
\* file and directory has an entry, nothing else has one, and no record is left of a
\* file that is gone, unless its deletion met a bad record type (extract.c:668).
Readable(p) == \A d \in DOMAIN fsDirs : IsPrefix(d, p) => fsDirs[d]
HasRecord(docs) == docs # <<>> /\ Head(docs).out = "ok"
Good(p) == fs[p].open /\ p \notin Unknown /\ \A docs \in fs[p].was : HasRecord(docs)
RegisterFollowsFiles ==
    synced =>
        /\ \A p \in DOMAIN fmatch : /\ p \in DOMAIN fs \cup DOMAIN fsDirs /\ Readable(p)
                                    /\ (fmatch[p].kind = "file") = (p \in DOMAIN fs)
        /\ \A p \in DOMAIN fsDirs : Readable(p) => p \in DOMAIN fmatch
        /\ \A p \in DOMAIN fs : (Readable(p) /\ Good(p)) =>
              /\ p \in DOMAIN fmatch
              /\ fmatch[p].sysno \in LiveRecs
              /\ \E docs \in fs[p].was : ureg.recs[fmatch[p].sysno].doc = Head(docs)
        /\ \A n \in LiveRecs : ureg.recs[n].orphan
              \/ Cardinality({p \in DOMAIN fmatch : fmatch[p].kind = "file"
                                                /\ fmatch[p].sysno = n}) = 1
UpdatesExact == IndexOfRecords /\ RegisterFollowsFiles
=============================================================================
