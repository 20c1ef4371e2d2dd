# A verification project for Zebra

Zebra is an indexing and retrieval engine: `zebraidx` builds and updates a
*register* (dictionary, inverted lists, stored records, sort index), and
`zebrasrv` answers Z39.50 and SRU searches from it while updates go on. This
directory holds TLA+ models of the parts of Zebra that are hard to test, the TLC
configurations that check them on small instances, and TLAPS proofs of what
holds for every instance. Paths below are relative to the repository root, which
`PROJECT.json` calls `src/`.

Contents: [1 Inventory](#1-inventory), [2 Plan](#2-plan),
[3 The modules](#3-the-modules), [4 The runs](#4-the-runs),
[5 Fairness](#5-fairness), [6 The proofs](#6-the-proofs),
[7 Findings](#7-findings), [8 Limits](#8-limits).

## 1 Inventory

### 1.1 Components, from the files upwards

**Metafiles** (`bfile/mfile.c`). State: for each file a list of part files with
their sizes in bytes and blocks and the number of their last block (`top`), the
current part, the space left in each directory. Operations: `mf_init` (scan of
the directories), `mf_open`, `mf_read`, `mf_write` (which caps off a part and
goes to the next directory when a limit is reached), `mf_reset`. Correct when
block *n* read is the block *n* written, for this process and for any later one
that finds the sizes of the part files only.

**Shadow files** (`bfile/cfile.c`). State: a header, a hash table of chains of
buckets on disk that map blocks of a register file to blocks of the shadow file,
an LRU list of buckets in memory, or a flat index. Operations: `cf_open`,
`cf_close`, `cf_read`, `cf_write`. Correct when every block written is found
again, whichever buckets have been flushed, and no block has two homes.

**Block files** (`bfile/bfile.c`, `bfile/commit.c`). State: the register area,
the shadow area, the `cache` file that lists the shadow files. Operations:
`bf_open`, `bf_read`, `bf_write`, `bf_commitExec` (copy to the register),
`bf_commitClean`, `bf_reset`. Correct when a commit copies all that was written,
also after a commit before it was interrupted.

**Lock files** (`util/flock.c`, `util/zebra-lock.c`). State: one lock
information per lock file and process with a reference count, counts of the
threads that have the file locked, a reader/writer lock and a mutex. Operations:
create, destroy, lock to read or write, unlock. Correct when it is a
reader/writer lock between all threads of all processes and no call hangs.

**Transactions** (`index/zebraapi.c`). State: the state file `state.*.LCK` with
a letter (`o` online, `d` dirty shadow, `c` commit under way) and a sequence
number; the lock files `norm.*.LCK` and `shadow.*.LCK`; per handle the
transaction counters and the open register. Operations: `zebra_begin_trans`,
`zebra_end_transaction`, `zebra_commit_ex` (commit and clean), `zebra_init`,
`zebra_close`. Correct when servers see whole register states only, updates take
effect whole or not at all whatever process is killed, and every call returns.

**Key blocks and merge** (`index/key_block.c`, `index/kinput.c`). State: two
buffers of keys, one of which a thread sorts and writes to a temporary file; a
heap of the temporary files. Correct when every key given reaches dictionary and
isam once, in order, deletions cancelling insertions.

**Record storage** (`index/records.c`, `index/recindex.c`). State: a cache of
records, an index from system number to blocks, data blocks in several sizes
with free lists and reference counts. Correct when no block is in use and free,
or in two records that do not share it.

**Dictionary** (`dict/*.c`, `dfa/*.c`). State: a tree of pages of strings with
information, an LRU cache of pages. Operations: insert (with page split),
delete, lookup, approximate and regular lookup, scan. Correct when it is a
finite function and scans are in order.

**Isam** (`isamb/isamb.c`; `isamc`, `isams`). State: B-trees of keys in pages of
several categories with free lists. Operations: merge of a stream of insertions
and deletions, sequential read, forward. Correct when a tree is the ordered set
of its keys and unlinked pages are free once.

**Result sets** (`rset/*.c`). State: read cursors over operands. Operations:
read, forward, position, with a priority queue for multi-and/or. Correct when an
operator delivers, in order, the hits of its definition as a set.

**Search and scan** (`index/rpnsearch.c`, `rpnscan.c`, `trunc.c`, `attribute.c`,
`util/xpath.c`). No state of their own: a query becomes patterns, the words of
the dictionary that match, a tree of result sets; a scan walks several
dictionaries at once. Correct when the records found are those the query means,
and every result set made on the way is released whatever fails.

**Sets of a session** (`index/zsets.c`, `rank1.c`, `rankstatic.c`). State: named
sets with their query, their result set, the first records in order, and a
handle kept from the last request. Correct when a position is always the same
record until the set is searched or sorted again.

**Sort index** (`index/sortidx.c`). State: per index a file of blocks or a list,
with a reader that moves forward only. Correct when a record's sort keys are
those of its last update.

**Extraction and update** (`index/extract.c`, `reckeys.c`, `update_*.c`,
`dirs.c`). Keys of the new record against keys of the old, directories against
the stored list of files; text to words and numbers. Correct when the index is
that of the records stored and a tree walked twice changes nothing.

**Character maps and registers** (`util/charmap.c`, `zebramap.c`). State: tries
read from `.chr` files, the list of register types of `.idx` files.

**Explain database** (`index/zinfo.c`, `orddict.c`). State: databases, ordinals
of indexes, counts, in memory and as records of the register itself. Correct
when an ordinal keeps its meaning and counts are exact after a flush.

**Retrieval** (`index/retrieve.c`, `untrans.c`, `util/snippet.c`). Records of a
set for a client, read again when they are asked for.

**Record filters** (`index/mod_*.c`, `recgrs.c`), **data1** (`data1/*.c`),
**utilities**, **programs** (`zebraidx.c`, `zebrasrv.c`).

### 1.2 How they interact

A program makes calls on a handle. A write transaction takes the two lock files,
marks the state file, opens every file of the register through `bf_open` and
works on the register through dictionary, isam, record storage and sort index;
these read and write blocks, which go to shadow files when the configuration has
a `shadow` entry and to the register otherwise. A commit copies the shadow files
to the register. Readers share nothing with writers but the files: they learn of
a commit from the state file. Within a process, `zebrasrv -T` runs a thread per
session; its threads share the lock information of `flock.c`. The sorting thread
of key blocks shares two buffers with the indexing thread.

### 1.3 What is hard

* Processes meet at the state file, which readers read without any lock, and
  which is empty for a moment whenever it is written.
* `zebraidx` may be killed at any point, also while it recovers from an earlier
  kill; what it leaves must be understood by the next process from one letter.
* A commit takes, releases and takes locks again; `zebra_begin_trans` calls a
  commit in the middle of its own locking.
* `fcntl` locks belong to processes and vanish when any descriptor of the file
  is closed, while the users of locks are threads.
* The shadow index evicts buckets that its own functions still work on, and is
  rebuilt in another form in the middle of an update.
* Part files have limits, need not end at block boundaries, and are measured
  again by every process.
* The structures of a register (pages, blocks, shared chains of records) are
  split, moved, freed and used again under small caches that hold them by
  pointers.
* Writing the explain records changes the counts that they hold.
* Result sets are read by handles that hold keys in advance and mix reading with
  jumping ahead; sets of a session keep a handle between requests, and may lose
  the set below them.
* Words are numbered twice by different code, once to index and once to show
  them.
* A record may be gone when it is fetched.

Every such place is a hazard in `PROJECT.json`, with its line and the properties
that would notice if it went wrong.

## 2 Plan

Done so far, in this order:

1. `ZebraTrans`, `SafeUpdate`: the protocol between processes; its proofs in
   `ZebraTransProofs`.
2. `FLock`, `RWLock`: the lock files that `ZebraTrans` takes as atomic.
3. `MFile`, `CFile`, `BFile`: the block files that `ZebraTrans` takes as one
   value for each file.
4. `KeyBlock`, `KeyMerge`: the way of keys from updated records to the index.

5. `Records`, `Dict`, `IsamB`, `IsamC`, `IsamS`, `SortIdx`: the files of a
   register over block files.
6. `Update`, `ZInfo`: what an update does with them, and the explain database.
7. `Dfa`, `Grep`, `RpnTerm`, `RpnSearch`, `RpnScan`, `RSets`, `TempSets`,
   `ZSets`: from a query to the records of a set.
8. `Regx`, `CharMap`, `Tokens`, `Retrieve`: from files to records, from text to
   keys and from keys to what is shown.

9. Proofs: `ZebraTransProofs`, `ZebraTransSafety`, `ZebraTransReaders`,
   `ZebraTransFresh`, `FLockProofs`, `BFileProofs`, `BFileContents`,
   `KeyMergeProofs` (section 6).

To come: the partition of blocks in `Records`, and the parts of `KeysConserved`
that need no induction (that a key leaves the queue for the buffer and the buffer
for the file, once); the composition of `Update` with `Records` and `KeyMerge`,
which now take one another's effect as one step; the paths that `recgrs.c`
indexes and the schemas of data1.

Runs are shared: a later component joins a run of a related one where the
question is the same. The modules that declare RECURSIVE operators (those of
steps 7 and 8, `Dict`, `IsamB`, `IsamC`, `Update`) stay with TLC. Where the code
does not keep what its documentation says, a property that holds names the
exception and a run of its own refutes the statement without it.

## 3 The modules

`PROJECT.json` maps definitions to lines; a helper that stands for part of a
mapped function's lines is covered by that function's entry.

### 3.1 ZebraTrans

One handle stands for one process. `Files` are the files of a register; the
contents of a file are the number of the write transaction that last wrote it
(0 for a new register), so a torn state is one that mixes numbers no finished
transaction mixed. `conf` is the configuration: is there a `shadow` entry, may
updates bypass it (`zebraidx -n`).

| state | code |
|---|---|
| `state` | the file `state.*.LCK`; value `"t"` while `zebra_set_state` has it truncated |
| `lockNormal`, `lockShadow` | the `fcntl` locks on `norm.*.LCK`, `shadow.*.LCK` |
| `register`, `shadow`, `cache` | the areas and the list of shadow files; a shadow file may be absent or a header without blocks |
| `transNo`, `transWNo`, `reg`, `useShadow` | `zh->trans_no`, `trans_w_no`, `reg` (none, open, or a dangling pointer), `rval` |
| `seen`, `commitSeen`, `cleanOnly`, `todo`, `cur`, `known` | locals of the calls: what was read of the state file, loops over files, what `mf_init` found |
| `view` | the blocks that a reader's open register has read |
| `ver`, `good`, `last`, `online`, `floor` | history for the properties: transaction numbers, finished states, what a commit should make live, what was online when a read began |

Each call is a chain of actions, cut where another process can see or change
something: taking a lock, reading the state file, truncating it, writing it,
opening, copying or removing one file (`mf_reset` removes a file part by part; a
file of several parts is one here, so it goes at once). `pc` names the points
`w_...` (`zebra_begin_trans` for writing), `e_...` (`zebra_end_transaction`),
`c_...` (`zebra_commit_ex`), `r_...` (`zebra_begin_trans` for reading) and `i_...`
(`zebra_init`, which removes the shadow files, the files of the register and the
`cache` file one by one, without a lock). A commit within `zebra_begin_trans` is
the same chain with another return (`ReturnPc`). `Crash` kills a process at a
point of `CrashPoints`; the kernel drops its locks and its files stay.
`RegisterOpenFails`, `RegisterOpenForReadFails`, `CommitFails` are the error
returns. A `zebra_begin_trans(zh, 1)` within a read transaction fails and leaves
`trans_no` incremented (1741-1752), and its caller does not end what has not
begun: the handle is `leaked`, keeps its read lock until `zebra_close`, and all
its later transactions are nested ones (`EndTrans` ends only those whose begin
returned `ZEBRA_OK`).

Three variables name exceptions of the properties. `made` is false from the
first removal of a `zebra_init` until one has ended: the register is then of no
use, killed or not, and `LiveConsistent` and `SafeUpdate` say so (`Unmade`).
`torn` marks a read transaction that found the state file truncated and took the
`o` and 0 it reads for the register it has open: `FreshRead` excepts it, and
`SwitchedToNew`, without the exception, is refuted by the run `torn_state`.
`leaked` is the exception of `CallsReturn`.

The recovery from a killed update discards every update since the last commit, not
only the killed one (doc/administration.xml:995-1001); `last`, what a commit
should make live, goes back to the register there, which is what
`FinishedUpdatesKept` says and `Discard` of `SafeUpdate` allows. `SafeUpdate` is
the promise in atomic steps over what is live and what is pending;
`UpdatesAreSafe` maps the protocol to it.

### 3.2 FLock

`FLock` is `flock.c` for one lock file: `refCount`, `noFile`
(`no_file_read_lock`, `no_file_write_lock`), `rdwr` (`readers_reading`,
`writers_writing`), `fileMutex` of each process and the kernel's lock of it.
A lock call enters the reader/writer lock or waits on its condition (`Enter`,
`Wait`), counts itself under `file_mutex` (`CountLock`) and calls `fcntl`
(`LockFile`), which may block with the mutex held; an unlock is `UnlockFile` and
`Leave`, which wakes whom `pthread_cond_signal` or `_broadcast` would
(`Wakes`). `Destroy` of the last handle closes the file; `Kill` ends a process.
`StrayUnlock` is the unlock of a handle that has no lock, as
`zebra_end_transaction` does. `RWLock` is the promise; `ReaderWriterLock` says
that `FLock` implements it.

### 3.3 MFile, CFile, BFile

`MFile` has the metafile as a record (directories with the space left, parts
with blocks, `top`, bytes) and `mf_read`, `mf_write`, `mf_open`, `mf_init` as
operators on it. A part is a sequence of units, several to a block, so partial
blocks and gaps exist.

`CFile` is the shadow file. A read or a write takes the steps of the code:
`cf_lookup_hash` walks a chain, loading buckets and evicting others
(`MaxInMemory`); a missing block is appended by `cf_new_hash`, or, when buckets
were missed too often, the index becomes flat (`cf_moveto_flat`) first; a first
partial write fills the rest of the block from the register (`FillPart`).

`BFile` adds the ways a file is opened, commits block by block, clean-up, and
the end or kill of a process at any of these steps. `exp` is what was written by
updates that count, `base` what the last commit left. When an update or a commit
may begin is decided by `ZebraTrans`: its guards on `committing` are the state
`c` and the recovery there. What it stores is proved (6.5, 6.6).

### 3.4 KeyBlock, KeyMerge

`KeyBlock` is `key_block.c` with its caller in `extract.c`. `UpdateRecord` takes
the old and the new terms of a record and queues a deletion or an insertion for
each that differs at its position (`KeysToWrite`); `WriteKey` puts one into the
current buffer. A full buffer, and the last one, goes to the sorting thread
(`HandOver`), or is sorted in place without threads (`FlushSelf`). The critical
sections under `mutex` are atomic and cut at `pthread_cond_wait`: `wpc` is where
the indexing thread is, `tpc` where the sorting thread is; a wait may return
without a signal (`SpuriousWakeup`). The threads' handshake is proved (6.7). The
file is written key by key, with the term left out when it repeats and the key
as a difference (`Item`, `Encode`).

`KeyMerge` is `zebra_index_merge`: the array of the heap with the two loops that
sift (`SiftDown`, `SiftUp`), `heap_cread_item` (`CreadItem`), which returns the
end of a list when a new term begins and keeps its first key, and
`heap_cread_item2`, whose `ret`, `look_level` and `level` are fields of `hci`
and whose loop that looks ahead is one action per case (`LookSame`,
`LookCancelled`, `LookCancelledEnd`, `LookDeliver`). Dictionary and isam are a
set of records for each term (`index`). `Kill` ends the process at any step:
the index and the records go back to the end of the last transaction, as
`ZebraTrans` shows for a register with shadow files, and the files stay.

### 3.5 The files of a register

`Records` is `records.c` with `recindex.c`: `store` has the index and the data
blocks of two sizes with their free lists, `recCache` the cache, which is flushed
when it is full; the records flushed together share a chain whose first block
counts them. `RecOpen`, `RecNew`, `RecPut`, `RecDel`, `RecGet` and `RecClose` are
the actions; `put` is the history. A record is fields of units, so that its
encoding may cross blocks.

`Dict` is the page tree. A page is a directory of entries with bytes used and
unused; every page that a function touches goes through the cache `lru`, and an
information or pointer that the code keeps across a recursive call is read when
the code reads it. `dict_insert` cleans and splits pages; `dict_delete` and
`dict_delete_subtree` free them; lookup, scan in both directions and the
compacted copy are operators that the properties compare with `inserted`.

Pointers that the code keeps while other pages are read are modelled: a scan is
`stale` once a page it goes back to has left the cache.

`IsamB` is one list through `isamb_merge` (`insert_leaf`, `insert_int`, split,
removal of empty blocks, the change from a small category to a tree) and the
reader with forward. An upper block that is split counts the items of its halves
by the blocks in the store, before the changed one is written, as the code does.
`IsamC` merges into a chain of blocks and rewrites only those that change; `IsamS`
writes lists one behind the other. `SortIdx` has the three formats of `sortidx.c`
with their callers' order of calls.

`Update` is `zebra_extract_record_stream` with its callers: files of several
documents, records found by number, by file or by match criterion, insertion,
replacement, deletion, failures of the filter, a record type that no filter has
(`NoSuchType`, which stays in the handle until the next transaction), and
`repositoryUpdate`, which
walks a tree of files beside the list of files kept in a dictionary
(`dirs_read` in batches). Its index is a bag of keys by record. A record has two
sizes, as in the code: its bytes in the file are added to the total and what the
filter stored is subtracted later (`RecordSize`, `drift`). A file may be written
again without a newer mtime, and a match may lead to a record that is gone
(`Aborted` is the `assert(rec)`).

`ZInfo` is `zinfo.c`: databases read lazily, ordinals, counts, and
`zebraExplain_flush`, which goes through the databases twice, the second time
without keys, because the first changes the counts that it writes; it does not
repeat until nothing is dirty.

### 3.6 From a query to records

`Dfa` is the parser of regular expressions and the construction of an automaton
over sets of positions; `Grep` walks the pages with rows of states for each
number of errors. `RpnTerm` turns a term with its truncation and relation into a
pattern, `RpnSearch` a query into a tree of result sets, with every early return
and the result sets that it has made and deleted. `RpnScan` lists
words around a term.

`RSets` has the handles of `rset/*.c` as nested records: each holds the keys of
its operands that it read in advance. `rset_read`, `rset_forward` and the
limits are those of the code; a behaviour reads or forwards step by step, as the
caller likes. `TempSets` adds the file and the window of a temporary set and the
merge of many lists in chunks. `ZSets` has the session.

### 3.7 Text

`CharMap` has the tries of a `.chr` file as functions from strings, and
`find_entry_x` with its way back to shorter entries; the `.idx` file line by
line. `Tokens` extracts a record field by field (`ExtractField`), then shows its
words (`TextShow`), marks those of a search (`TextRing`) or makes a match key
(`TextMatch`); the two passes share `IndexValueOf` and differ in `TokenAdd` and
`SnippetTokenAdd`, as in the code. `Retrieve` loads a register of such records,
searches it, lets a record or its file go, and fetches: `SpecialFetch` has the
element sets in the order of the code. The order in which a string map gives its
terms is any (`Orders`). What the code does with a stream or record that it
failed to get is `Undefined`.

`Regx` is the `grs.regx` filter: `ReadFileSpec` makes contexts, automata and
actions of a filter file (given as its entries), `LexRoot` reads one record, and
`RgRead` and `RgShow` are extraction and retrieval of it. The filter lives on
from record to record and from file to file, and sees a file through a window
(`FWinGet`) of 4 characters here. `LexNode`, `TryMatch` and `ExecAction` follow
the code read by read, since each reading may move the window. The tree is the
list of its nodes with their parents. `FieldsOf` reads texts and attributes from
it, and `RegxExact` compares them with what the file was made of.

## 4 The runs

| run | instance | shows |
|---|---|---|
| `snapshot` | 2 files, 2 administrators, 1 reader; 2 updates, 2 commits, 2 reads; with a shadow area and without | `SnapshotRead`: a locked read sees one finished state. `FreshRead`: no read is older than the last commit completed before it |
| `owners` | 1 file, 2 administrators, one of which also reads; shadow and direct updates, 1 nested call, 1 fault anywhere | `TypeOK`, `OneOwner`, `DirtyWhileUpdating`, `LocksReleased`, and, with fairness, `CallsReturn` |
| `recovery` | 2 files, 1 administrator with updates, commit, clean, init, 1 reader; 2 kills at recoverable points | `LiveConsistent`, `FinishedUpdatesKept`, refinement `UpdatesAreSafe` |
| `threads` | locks: 3 threads in one process, 1 in another, 1 or 2 lock calls each, 1 kill; or keys: 2 terms, 2 records with no, one or two terms, buffers of 2 keys, 3 updates, 2 flushes or closings, 1 kill, with the sorting thread and without | `TypeOK`, `CountsExact`, `KernelCovers`, `NoUpgrade`, refinement `ReaderWriterLock`; `KeyTypeOK`, `KeysConserved`, `IndexExact`, `DeliveredInOrder`; with fairness `ThreadCallsReturn` of both |
| `register` | one of nine parts. A block file: blocks of 2 units, 4 block numbers, 2 chains, 1 bucket in memory; an area of a limited and an unlimited directory, and one that fills up; 3 writes, 3 reads, 3 openings, 1 end or kill. The files over block files: 3 records in blocks of 3 and 6 units, a cache of 3, 6 calls; pages of 16 bytes, 2 in the cache, 3 updates of an empty dictionary or of one of seven words on three levels; 3 merges of a list into blocks of a few items; 4 merges and lists of the older formats; 6 calls on 3 sort files; 3 updates of a tree of 3 files with changes between; 3 calls on 2 databases with 3 openings | `TypeOK`, `ReadsBack`, `CommitsAll`, `OneHome`, `PositionsKept`; `RecordsSound`, `DictSound`, `IsamBSound`, `OlderLists`, `SortExact`, `UpdatesExact`, `ExplainExact` |
| `query` | one of nine parts: 3283 trees of result sets over lists of up to 4 keys, of every operator below every other, also with a filter, with "between" and with proximity up to distance 3, read with every mix of reads and forwards; 2 handles on a temporary set with a window of 2 keys; 5 calls on 2 sets of a session whose register changes; patterns with up to 2 errors on two-level pages; queries and scans of 2 databases; texts of up to 8 characters under 4 `.idx` files; 3 searches and 21 element sets on 4 records of which one may go; files of 1 to 3 records under 3 filters, 2 files and the records of each shown again | `SetsExact`, `ZSetsExact`, `GrepExact`, `SearchExact`, `ScanExact`, `RecordsRead`, `FetchExact` |
| `lost_update`, `seqno_back`, `torn_state`, `stray_unlock`, `capped`, `less_than` | small instances; `less_than` is the searches of `query` | the findings of section 7 |

Why the bounds are enough. Two files are what a torn state needs, two transactions
what a stale one needs; two administrators and a reader are all the roles, and a
third would only repeat one of them. A second kill strikes during the recovery
from the first; one `zebra_init` of two files has a removal of each kind before
and after a kill. In `threads` three threads of a process let one wait while two
others lock and unlock, and the fourth thread makes the kernel block. In the block
file of `register` one bucket in memory makes every lookup evict, two blocks share
a chain and two do not, three writes overflow a bucket of one entry and force a
second bucket, a reload and the move to the flat index; the limits put a block at,
across and beyond the end of a part. In the keys of `threads` three updates fill
up to five buffers, so that a buffer is full while the other is being sorted, the
heap has two levels and a key is inserted and deleted in several files; the second
flush finds the files of a killed process.

In `register` the sizes make each structure change its form within the calls
allowed: a page splits after three words and is cleaned before that, and the
dictionary of seven words has more pages on a path than the cache, so that pages
are evicted while an insertion, a deletion or a scan above them goes on; a list
leaves its first block, gets a second level and loses it again, a chain of
records is shared, outlives one of its records and is freed. In `query` lists
share records, sections and numbers in all ways that an operator distinguishes,
and the limits lie inside the lists, so that reading changes to jumping in the
middle. The parts of these two runs share no state; a behaviour is about one of
them (`part`), and the run is the sum of their state spaces.

What the compound properties say: `RecordsSound` that records read back as put and
each block is used once, free, or shared as often as its count says; `DictSound`
that lookup, copy and the scans its callers make give what was inserted, from
pages used once and never by a pointer whose page has gone; `IsamBSound` and
`OlderLists` that readers, also those that jump, see the items of a list in order,
and `IsamBSound` that the count of the root, by which an empty list is removed, is
exact although those of split upper blocks are not; `SortExact`, `UpdatesExact`,
`ExplainExact` that sort keys, index and counts are those of the records.
`SetsExact` compares what is read of a tree with its meaning as a set of keys
(between all that must and all that may be returned where the code is known to
fail, see 7.2); `ZSetsExact` the records at positions with the set as searched or
sorted; `GrepExact` the words found with those within the number of errors of a
word that the pattern stands for; `SearchExact` the records of a query with its
meaning on the records' words, and that result sets made are deleted or handed on;
`ScanExact` the list with the sorted words of all indexes. `RecordsRead` is
`RegxExact` and `TextExact`. `RegxExact` says that a file gives the records and
fields it was made of, each where the one before ended, and that a record shown
from its file or from its stored copy is the one indexed. `TextExact` says that
the two passes over a text number it alike, that shown text is the text, that a
word is found by its own text, and that match keys hold the words of their field.
`FetchExact` says that an answer belongs to its position, has the text, the
number, the rank, the words or the sort keys of the record there, marks exactly
the words asked for, counts facet terms right in any order of the map, and is an
error when the record or its text has gone but for the two requests of
`ReadsNothing`. The rows of `GrepExact` are sets of states: the machine words that
hold them and the carry from one to the next (`lookgrep.c:54-75`) are below this
model.

`CHECK_DEADLOCK FALSE` is set everywhere: a system that makes no more calls may
stop. That nobody waits for good is `CallsReturn` and `ThreadCallsReturn`.

`recovery` excludes three windows by `CrashPoints`, each a few system calls
long, in which a kill leaves a state that recovery misreads:

* `Truncating`: the state file is empty between `fopen` and `fclose`
  (`zebraapi.c:1631`), and is read as `o`, 0 afterwards;
* `Unlisted`: a shadow file exists and is not yet in the `cache` file
  (`bfile.c:172`);
* `Removing`: a dirty shadow area has been declared online (`zebraapi.c:2111`)
  and not removed yet (2117).

`owners` kills processes there too. `zebra_init` is no such window: `recovery`
kills it between any two removals, and the next `zebra_init` makes the register
whole. No document promises more, so the windows
are hazards without a finding.

Every property has a mutant in `PROJECT.json`: a variant of one definition, kept
beside it in its module ("a variant ..."), that breaks the property under the
same configuration.

## 5 Fairness

`ZebraTrans!FairSpec`: weak fairness of the steps inside the calls of each
handle, since a process in a call keeps running and `fcntl` with `F_SETLKW`
grants a lock that stays available; and of `EndTrans`, since the programs end
the transactions whose begin returned `ZEBRA_OK`. They do not end one whose
begin failed, so a handle that a failed nested begin has left with its lock is
not assumed to give it up: `CallsReturn` is about behaviours without such a
handle. No fairness on beginning calls, writing or killing.
Weak fairness is enough because the number of calls is bounded: a lock cannot be
taken away for ever. Reader preference, under which an endless stream of readers
keeps a writer waiting, is thus outside the claim.

`LocksRun` of `FLock`: weak fairness of `Step` of each thread: it runs, `fcntl`
grants, and it unlocks what it locked. `pthread_cond_signal` wakes a waiter of
the scheduler's choice; nothing is assumed about which.

`KeysRun` of `KeyMerge`: weak fairness of the steps of the indexing thread on the
key block, of the sorting thread and of the return of `key_block_destroy`: both
threads run while they are not waiting. No fairness on updates, flushes, kills
or wakeups without a signal. `ThreadsSpec` has both; in the part that is not
chosen nothing is enabled that either asks for.

## 6 The proofs

Eight modules prove theorems about four components, for every value of the
constants (any sets of files, processes, threads, terms and records; any sizes,
configurations and bounds). Each finds an inductive invariant, called `IInv` or
named for its subject, that implies the property; TLC checked each of them on the
run's instance before it was proved. A step of the invariant is shown action by
action.

| module | theorems | hypothesis |
|---|---|---|
| `ZebraTransProofs` | `TypeCorrect`, `OneOwnerAlways`, `LocksReleasedAlways` | none |
| | `DirtyAlways` (`DirtyWhileUpdating`) | `NoInit`: no call of `zebra_init` |
| `ZebraTransSafety` | `LiveAlwaysConsistent`, `FinishedUpdatesAlwaysKept`, `UpdatesAlwaysSafe` (refinement of `SafeUpdate`) | `Recoverable` |
| `ZebraTransReaders` | `SnapshotAlways` | `Undisturbed` |
| `ZebraTransFresh` | `FreshReadAlways` | `Steady` |
| `FLockProofs` | `TypeCorrect` | none |
| | `CountsAlwaysExact`, `KernelAlwaysCovers`, `NeverUpgrades`, `ImplementsReaderWriterLock` (refinement of `RWLock`) | `StraysAlone` |
| `BFileProofs` | `OneHomeAlways` | none |
| `BFileContents` | `ReadsBackAlways`, `CommitsAllAlways`, `PositionsKeptAlways`, `TypeOKAlways` | `AreasAssumption` |
| `KeyMergeProofs` | `BuffersAlwaysApart`, `WakeupsNeverLost`, `FilesAlwaysFinished`, `HandoverAlwaysKept` | none |

All use the assumptions on constants of their modules (`ConstantsAssumption`,
`FLockAssumption`, `MFileAssumption`, `CFileAssumption`, `KeyBlockAssumption`),
which TLC evaluates in every run.

### 6.1 Owners, locks and types

None of the properties of `ZebraTransProofs` is inductive. `IInv` adds to
`TypeOK`

* `CountInv`: the relation of `trans_no` and `trans_w_no` to the program point
  (a handle in a call that is not nested has the counters its call set; without
  it the decrements of the error paths could leave the naturals);
* `HeldInv`: which locks a handle must hold, and may not hold, at each point;
* `LockInv`: a write lock excludes every other lock on the same file.

`OneOwner` follows since two owners would hold conflicting locks: an updater has
`shadow.LCK` to write, a commit has `norm.LCK` to write and `shadow.LCK` to
read. `DirtyInv` is `DirtyWhileUpdating` with the absence of `zebra_init`; its
step uses `OneOwner`, as only an owner writes the state file. `zebra_init` takes
no lock and writes `o` over another process's `d`, so `NoInit` is needed.

### 6.2 Recovery with one administrator

`Recoverable` says: one administrator, updates through the shadow area, and no
kill inside the three windows of section 4. Kills everywhere else, failing calls,
`zebra_clean`, `zebra_init` (also killed between two of its removals) and any
number of readers are in. Each part is
needed: two administrators lose an update (`lost_update`), updates that bypass
the shadow area are not atomic, and each window has a counterexample.

`SafeInv` says what is on disk at each program point: what the state file holds
(`StateInv`), whether the handle chose to recover as it should (`ChoiceInv`),
which shadow files are listed in the cache file (`ListInv`), what the handle
knows while it opens them (`OpenInv`), and what register and shadow area contain
(`ContentsInv`: before a copy ends the shadow area is whole, after it the
register is). The refinement maps what readers are meant to read
(`Live`) and what a commit would make live to the two variables of `SafeUpdate`,
both `Unmade` from the first removal of a `zebra_init` to its end;
the copy of a commit and its repetition after a kill are stutters.

### 6.3 Readers

`SnapshotRead` is about any number of administrators, with a shadow area and
without, but `Undisturbed`: with a kill it is false already for direct updates
(the half-written register is read with a lock), and with a failing call or
`zebra_init` as well; TLC has a counterexample to each. `SnapInv` has the lock
modes of writers (`ModeInv`), when both areas are complete (`WholeInv`,
`CommitInv`), that the area a reader with its lock reads is a finished state
(`GoodInv`), and what each reader has seen (`ReadersInv`): the lock that it chose
by a state file read without a lock keeps the area it chose unchanged.

`FreshRead` also covers reads without a lock. `Steady` excludes faults and
`zebra_init`, and setups with a shadow area that updates may bypass, whose updates
go online without a new number (section 7); `seqno_back` shows the first is
needed. The state file may be read at any time, also while it is truncated: the
transaction that does so is `torn` and the theorem speaks of all the others, those
that use a register which a torn one has opened included: its number is 0, so that
`SeqnoInv` asks nothing of what it shows once a commit has ended. In `FreshInv`
versions only grow along shadow area, register and what is online (`OrderInv`), no
update or commit finds a state that calls for recovery (`OnlineInv`), a register
open with the number of the state file has read no block older than what is
online, and none has a greater number (`SeqnoInv`), and what was online at the
beginning of a read is a floor for what it reads (`FloorInv`).

### 6.4 Lock files

`StraysAlone` says that a thread that unlocks what it has not locked has its
process to itself; otherwise the counts drop under another thread
(`stray_unlock`). Such processes are otherwise part of the system. `CountInv`
relates the counters of handles and lockers to cardinalities of sets of threads
by program point; `PcInv` relates flags, modes, the rdwr lock and the mutex to
program points; `KernelInv` says that a process without lockers has no kernel
lock, that a thread with the lock has a kernel lock of its mode, and that a write
lock excludes those of other processes. The refinement maps a
thread to a holder from the return of its lock call to its unlock call.

### 6.5 The index of a shadow file

`OneHome` speaks of chains of buckets on disk, of which memory may hold newer
versions. `Table` is the view of memory over disk, and `IInv` of `BFileProofs`
says that

* the table is sound (`TableInv`, `DiskInv`): buckets are 1 to `next_bucket` - 1,
  none is empty, all entries of one have the same hash value, block numbers and
  numbers in the shadow file are unique, and *the buckets of a hash value are
  linked in the order of their numbers* (`Linear`), since `cf_new_hash` takes the
  next free number and links it at the end;
* memory agrees with disk but for dirty buckets, once each (`MemInv`), and
  whatever differs from the file is marked dirty (`MarkInv`), so that closing
  loses nothing; a reader of the shadow area changes nothing;
* an operation on its way has searched the buckets of its chain up to where it
  stands (`WalkInv`).

Evicting a bucket leaves the table as it is, whether it is flushed or dropped;
this is the lemma that covers `alloc_bucket` at every place it is called, also
between the creation of a bucket and its link (`cfile.c:505`). The order by
number makes "reached along the chain" a statement without recursion: the chain
of `h` is the set of all buckets with that hash value, by the least bucket that
the chain would miss.

### 6.6 The contents of a block file

`ReadsBack` and `CommitsAll` compare what comes back from a block file with a
history of what was written. `CInv` of `BFileContents`, which is inductive
together with `IInv` of the index, relates the two:

* `Register`: a metafile has one part or two; the number of blocks of each is
  what `mf_init` finds in its file, and the first is closed where the second
  begins. So `file_position` is a function of the block alone (`Place`), which is
  `PositionsKept`.
* `MapInv`, `FlatInv`: the index, be it the chains (`Pairs` of the table that
  6.5 is about) or the flat index, is one set of pairs, `Mapped` with the memory
  and `OnDisk` without; no block has two shadow blocks, no shadow block two
  blocks, and all numbers are below the next free one. The move to the flat index
  keeps the set.
* `ShadowRight`, `DiskRight`: every block is as wanted, in its shadow block if
  it has one and in the register otherwise. While a write is under way, what it
  is to write counts for nothing (`Wanted`), and between the entry in the index
  and the data (`"fill"`) the new pair is not relied on (`Placed`).
* `OpInv`: what an operation has found in the index is in it, and a block found
  missing is not; here the search of 6.5 is used.
* `BaseRight`, `CommitRight`: the register holds what the last commit left until
  the next one begins; from then on each block is still to be copied or already
  right, also when the commit is killed or refused and starts again.

The largest part of the proof is about `mf_write`, whose loop grows the part,
caps it off and goes on in the next. It is unrolled with what each round does
(`GrownNow`, `NoRoomIs`, `FitsIs`): the units are written, or the write fails,
and either way no unit of another block is lost (`WriteIs`). Only steps that
keep every block of the register (`Spares`) happen while a shadow exists, but
for the copy of a commit.

`AreasAssumption` is about the area of the register: at most one directory has
a maximum size, and it comes first; some directory takes one block. The default
area and both setups of `register` are such. With two limited directories before
another the code loses data: the area of the run `capped` is the smallest, and
its counterexample (section 7) shows that without the assumption the theorem is
false. The folds of the model over parts need no induction, since there are at
most two parts.

### 6.7 The threads of a key block

What runs check of `KeyMerge` is about data. The theorems are about the
handshake under it, which the data properties rest on: while a buffer is handed
over it is not the one being filled, and nobody replaces or changes it before
all its keys are in the file; a thread waits on a condition only while it does
not hold; the files that the merge counts and opens without the mutex exist and
are closed. They hold with threads and without, with signals that come for no
reason and with kills anywhere.

### 6.8 What stays with TLC

* Liveness: `CallsReturn`, `ThreadCallsReturn`. The prover
  knows neither fairness nor `ENABLED`. `WakeupsNeverLost` is the safety half of
  the last.
* Properties of what folds, sorting and recursive functions compute for any
  input: `KeysConserved`, `IndexExact`, `DeliveredInOrder` and `KeyTypeOK`
  (sorting, heap, decoding), `RecordsSound`, `SortExact`,
  `ExplainExact`. These need induction over data.
* `BFile` in areas with several limited directories.
* `DictSound`, `IsamBSound`, `OlderLists`, `UpdatesExact` and all of `query`:
  their modules have RECURSIVE operators, which the prover does not read.

## 7 Findings

* `lost_update` (`zebraapi.c:2116`): a commit releases both locks before it
  takes one of them again to remove the shadow area; an update that another
  process finishes in between is removed too.
* `seqno_back` (`zebraapi.c:1812`): `zebra_begin_trans` writes back the sequence
  number that it read before the recovery it called incremented it; a later
  commit reuses the number and a server that saw it keeps its old register.
* `torn_state` (`zebraapi.c:1631`): `zebra_set_state` truncates the state file
  before it writes it, and readers read it without a lock. One that reads it then
  sees `o` and 0, takes a register that it opened at number 0 for up to date, and
  reads what a completed commit has replaced.
* `stray_unlock` (`zebraapi.c:1950`): the end of a read transaction unlocks both
  lock files whatever it holds; in a threaded server this takes the kernel lock
  from another thread.
* `capped` (`mfile.c:519`): the byte that caps off a part file is written one
  block too early for every part but the first, over data when a block was
  written there.
* `less_than` (`rpnsearch.c:780`): the pattern made for `<` and `<=` on words
  misses the words that are proper prefixes of the bound, where
  doc/querymodel.xml:910-915 promises lexicographical order.

Other behaviour met while modelling, in the models as the code has it: a read
transaction on an up-to-date register runs without a lock (1878), so
`SnapshotRead` is about locked reads; `zebra_begin_trans` for writing within a
read transaction fails and leaves `trans_no` incremented (1741), so that the
handle keeps its lock until it is closed and every later call on it only nests; a
`zebra_init` takes no lock and removes files one by one, so one that is killed
leaves a register of which parts are missing, with the state file as it was; a
failed
`zebra_register_open` leaves state `d` (1817); direct updates beside a `shadow`
entry do not move the sequence number (1987); a commit after an interrupted
update discards the shadow area and returns success; a reader that opens the
register during a commit lists files without a shadow file in `cache`; the
branch of `cf_new_hash` for a last bucket that is on disk and not full cannot be
reached.

### 7.1 Behaviour met in the register

In the models as the code has it, and left out of what the properties claim.

* `records.c`: a record deleted while the cache still has it as new or written
  is not deleted at the flush, since `rec_cache_lookup` keeps the first flag;
  a deleted record that is still cached is returned by `rec_get`. So
  `RecordsReadBack` is about records that are not deleted.
* `dict`: `scan.c:107` and `scan.c:207` use a page, and an information on it, by
  a pointer read before a recursion that may evict it. This goes wrong in a
  backward scan for two terms or more, and in one for a single term when the
  pages on the path are more than the cache has. `DictExact` claims the scans
  that are made: forward for any number (`dirs.c`, `update_file.c:49`,
  `rpnscan.c`), and backward for one term, (1, 0) in `rpnscan.c`, where the path
  fits into the cache. `delete.c:179` wipes the length of an
  information before the callback gets it; a page with pointers only cannot be
  split (`assert(best_no > 0)`).
* `isamb`: items larger than a quarter of a leaf would let a merge loop
  (`isamb.c:1030`); keys are far smaller. The counts of an upper block that is
  split are taken from the blocks as they are on disk, before the changed one is
  written (`isamb.c:853-885`, 916), so those of its halves are wrong, may fall
  below 0 and be read back as large numbers (the comment at `isamb.c:123` has
  the counts as exact). The count of the root is adjusted by what the blocks
  below return and stays exact.
* `isamc`: a block just begun at a change of category is not released
  (`merge.c:392`), so `OlderLists` claims that no block is used twice and not
  that none is lost. `isams`: a file opened again does not read its last, partly
  filled block, and the next list destroys the tail of the list before it.
* `sortidx.c`: a read for a record without a key consumes the key of the next
  record that has one (`zebra_sort_read`), so that a read right after it may miss
  its key; `SortExact` excepts it.
* Update: errors of a filter end a file silently, and its new time is recorded;
  deleting by system number leaves the entry of the match dictionary, and the
  next call that finds it ends at `assert(rec)`. The total of record bytes grows
  by the size in the file and shrinks by the size of what a filter stored
  (`extract.c:1127-1146`, 1035), so it drifts with the DOM filter; `UpdatesExact`
  claims it up to that. A file written again without a newer mtime keeps its old
  record (`update_file.c:172`). After "No such record type" (`extract.c:668`) the
  type stays in the handle, every later file of the transaction fails too, and a
  record whose file has gone stays without an entry (`orphan`).
  `zebra_update_record` with record IDs from files is not modelled.
* Explain: dropping a database does not lower the record count of
  `IR-Explain-1`; dropping one that was created in the same transaction reaches
  the assertion of `rec_get`.

### 7.2 Behaviour met in search

* `rsisamb.c`: `r_forward` does not use the filter that `r_read_filter` uses
  (135-144), so a filtered list below an operator that forwards it may return
  records the filter leaves out. `rsbetween.c`: forward returns keys of the set
  below it without looking at depths, so an operator over a between set may have
  false hits. `rsprox.c`: ordered proximity with "=" and a distance above 1 reads
  past the first key where the second should be (185-193) and may miss hits;
  unordered proximity of other than two sets finds nothing, and of two gives one
  hit per record. In `SetsExact` the trees have all of these, and what they
  return lies between two meanings that differ in these cases only.
* `zsets.c`: a set sorted in place keeps its handle, and positions behind the
  sorted part may repeat or miss records; a set that refers to another uses its
  memory after that one is deleted (the model ends there); two sets that refer
  to each other would recurse (not among the inputs).
* `rpnsearch.c`: `<` and `<=` on strings are the finding `less_than`, and
  `SearchExact` is exact but for those words; a set of elements in a set of
  elements (a path with two conditions) is forwarded, so no claim is made on it;
  numeric relations are exact for numbers without leading zeros only;
  `//` inside a path is searched as `/`; Boolean conditions in brackets are
  ignored; a word of two letters with two errors also finds the mark for the
  first word of a field; a path `/` with "always matches" has no set and reaches
  an assertion (not among the inputs).
* `rpnscan.c`: a database without the index leaves its diagnostic in the handle
  although the scan succeeds.
* `dfa.c`: the number of the rule at the end of a line becomes 0 when an
  unanchored rule ends in the same state; `a**` is a syntax error.

### 7.3 Behaviour met in text and retrieval

* `mod_grs_regx.c`, which the files of the `query` run stay clear of: at the end
  of a file `lexNode` does not go back to later starts when a match that was
  begun runs into the end, and after a match there it goes on with a byte 0, the
  context of before and the start of that match; a `-element` or `-attribute`
  taken from `$n` points into the window and changes when a later argument moves
  it; an argument longer than the window is cut; `end element` ignores the tag
  that it is given; the stored copy of a record that ends without `end record`
  runs to wherever the window has read to.

* `charmap.c`: a second `lowercase` line uses the values of the first again; more
  values than 250 would run over the table of outputs (not modelled); in `map (Aa)
  (AA)` only the front of a group is mapped. A table that cannot be read is tried
  again at each use, and text is mapped to itself.
* Words are put into a match key without separators, and an index of type `0` or
  `p` that other records have takes precedence over `w` even if this record lacks
  it. Terms are cut at `IT_MAX_WORD` in the index and not in a search. Simple
  chains have no text to show. Words that begin with a character unknown to the
  map are left out of facets, since it shares its byte with the mark for the first
  word.
* `retrieve.c`: `zebra::data` goes on when the stream could not be made and reads
  what is not initialised (1118); a facet over an index reads the null record of a
  record that has gone (771-774). Both are `Undefined` in `Retrieve` and the only
  answers that may be (`ReadsNothing`). Numbers of records are not used again
  (`records.c:965`), so no fetch meets another record; a run of a snippet is not
  closed where the marked words change to another index.

## 8 Limits

* A kill is the end of a process, not a power failure: what was written stays
  written in order, `fsync` is not modelled.
* `fcntl` does not fail; I/O fails only where an action says so (opening, the
  copy of a commit, a full area of the register). The shadow area has room for
  everything and its reads succeed; on a read error `cf_write` and `mf_read`
  return with a mutex locked (not modelled).
* `ZebraTrans` takes locks as atomic and a file of the register as one value,
  also when it has several parts; `FLock` and `BFile`
  justify that separately, and no module composes all three.
* One shadow file at a time in `BFile`; several in `ZebraTrans`.
* In `KeyMerge` a key is a record; positions within a record, static rank and
  record IDs set by filters only make keys longer. The keys of a record are
  distinct, so `look_level` stays 0 and the branch that repeats a key
  (`kinput.c:413`) is not reached. A buffer holds a number of keys instead of
  bytes.
* `Update`, `Records`, `IsamB`, `SortIdx` and `ZInfo` each take the effect of the
  others as one step; none of `register`'s and `query`'s parts is killed, since
  `ZebraTrans` and `BFile` show that a killed transaction is thrown away.
* The list of `IsamB` and of `IsamC` is one list; the free lists are shared by
  all lists in the code; here one list that shrinks and grows goes through them.
* A search in `Retrieve` is for one word; `RpnSearch` has the rest. The break
  handler, hit estimates, term sets and ICU are left out.
* Integers are unbounded: block numbers are 64 bits wide in the code (`zint`),
  and the sequence number of the state file is an `int` that a register would
  need two billion commits to overflow.
* `Regx` has no variants and no Tcl; its patterns are those of `Dfa` without
  blanks or slashes.
* Not modelled: the record filters but for `grs.regx` and the way filters hand
  text to the indexes (parsers of MARC and XML that keep no state between
  records), data1 (trees of structured records and their formatting), similarity
  ranking (floating point), configuration files, passwords, and the programs
  (command lines and the YAZ front end, whose calls are the actions of the
  modules). `PROJECT.json` lists each with the reason.
