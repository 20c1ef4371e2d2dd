------------------------------- MODULE ZInfo -------------------------------
(***************************************************************************)
(* The explain database (index/zinfo.c): the list of databases, the        *)
(* ordinals of their indexes, and their counts.  It is kept in memory,     *)
(* read lazily, and written by zebraExplain_flush as records of the        *)
(* register that are themselves indexed, in the database IR-Explain-1,     *)
(* while they are written: the flush changes what it flushes.              *)
(*                                                                         *)
(* An index stands for a (category, index type, name) triple.  The records *)
(* are kept by Records.tla; here a record is its content and the indexes   *)
(* its keys are in.                                                        *)
(***************************************************************************)
EXTENDS Integers, SequencesExt, FiniteSetsExt

CONSTANTS
  Databases,        \* names of databases, without the explain database
  Explain,          \* the name IR-Explain-1
  XDocs,            \* documents: [keys |-> sequence of indexes, schema |-> oid,
                    \*  size |-> in the file, recordSize |-> what the record keeps of it]
  ExplainKeys,      \* keys of an explain record: [kind -> sequence of indexes]
  MaxXOps,          \* bound: number of calls
  MaxXOpens         \* bound: number of openings

ExplainKinds == {"target", "database", "details", "categories"}

ASSUME ZInfoAssumption ==
  /\ Explain \notin Databases
  /\ DOMAIN ExplainKeys = ExplainKinds
  /\ \A k \in ExplainKinds : ExplainKeys[k] # <<>>

VARIABLES
  zei,              \* the explain information in memory, or ZeiClosed
  xRecords,         \* records of the explain database: [next, at: sysno -> [data, keys]]
  xDocs,            \* ghost: documents of each database, as a sequence
  xBytes,           \* ghost: what the calls added to the bytes of each database
  xOrds,            \* ghost: every <<ordinal, database, index>> ever given
  xCalls            \* bounds: calls and openings made

zinfoVars == <<zei, xRecords, xDocs, xBytes, xOrds, xCalls>>

ZeiClosed == [open |-> FALSE]
RootSysno == 1

(***************************************************************************)
(* A step of this module is computed on s == [z, r]: the information in    *)
(* memory and the records.                                                 *)
(***************************************************************************)
NewDb(name, ordinal) ==
  [name |-> name, sysno |-> 0, count |-> 0, bytes |-> 0, ord |-> ordinal, read |-> FALSE,
   dirty |-> TRUE, schemas |-> {}, sui |-> <<>>, adno |-> 0, adRead |-> FALSE, adDirty |-> TRUE]

ListedDb(e) ==
  [NewDb(e.name, 0) EXCEPT !.sysno = e.id, !.adno = e.aid, !.read = TRUE, !.adRead = TRUE,
                           !.dirty = FALSE, !.adDirty = FALSE]

ReadDatabase(db, r) ==
  LET d == r.at[db.sysno].data
  IN  [db EXCEPT !.count = d.count, !.bytes = d.bytes, !.ord = d.ord, !.read = FALSE,
                 !.schemas = @ \union d.schemas]

ReadAttributeDetails(db, r) == [db EXCEPT !.sui = r.at[db.adno].data, !.adRead = FALSE]

HasDb(z, name) == \E i \in DOMAIN z.dbs : z.dbs[i].name = name
DbIndex(z, name) == CHOOSE i \in DOMAIN z.dbs : z.dbs[i].name = name
CurIndex(z) == DbIndex(z, z.cur)

(* zebraExplain_curDatabase of a database that is there *)
CurDatabase(s, name) ==
  LET i  == DbIndex(s.z, name)
      d1 == IF s.z.dbs[i].read THEN ReadDatabase(s.z.dbs[i], s.r) ELSE s.z.dbs[i]
      d2 == IF d1.adRead THEN ReadAttributeDetails(d1, s.r) ELSE d1
  IN  IF s.z.cur = name THEN s ELSE [s EXCEPT !.z.dbs[i] = d2, !.z.cur = name]

NewDatabase(s, name) ==
  [s EXCEPT !.z.dbs = <<NewDb(name, s.z.ordDb)>> \o @, !.z.ordDb = @ + 1,
            !.z.dirty = TRUE, !.z.cur = name]

(* zebraExplain_lookup_attr_str, or zebraExplain_add_attr_str when it finds none *)
FrontOf(q, k) == <<q[k]>> \o RemoveAt(q, k)

HasAttr(z, a) == \E k \in DOMAIN z.dbs[CurIndex(z)].sui : z.dbs[CurIndex(z)].sui[k].attr = a

LookupAttr(s, a) ==
  LET c == CurIndex(s.z)
      k == CHOOSE k \in DOMAIN s.z.dbs[c].sui : s.z.dbs[c].sui[k].attr = a
  IN  [s EXCEPT !.z.dbs[c].sui = FrontOf(@, k)]

AddAttr(s, a) ==
  LET c == CurIndex(s.z)
  IN  [s EXCEPT !.z.dbs[c].sui = <<[attr |-> a, ord |-> s.z.ordSU, docs |-> 0, terms |-> 0]>> \o @,
                !.z.dbs[c].adDirty = TRUE, !.z.dirty = TRUE, !.z.ordSU = @ + 1]

UseAttr(s, a) == IF HasAttr(s.z, a) THEN LookupAttr(s, a) ELSE AddAttr(s, a)

OrdOf(z, a) ==
  LET q == z.dbs[CurIndex(z)].sui IN q[CHOOSE k \in DOMAIN q : q[k].attr = a].ord

(* zebraExplain_get_sui_info: reads the details of every database it passes *)
WithDetails(s, o) ==
  LET read == [i \in DOMAIN s.z.dbs |-> IF s.z.dbs[i].adRead
                                          THEN ReadAttributeDetails(s.z.dbs[i], s.r)
                                          ELSE s.z.dbs[i]]
      has  == {i \in DOMAIN read : \E k \in DOMAIN read[i].sui : read[i].sui[k].ord = o}
      last == IF has = {} THEN Len(read) ELSE Min(has)
  IN  [s EXCEPT !.z.dbs = SubSeq(read, 1, last) \o SubSeq(s.z.dbs, last + 1, Len(s.z.dbs))]

Counting(s, at, terms, docs) ==
  IF at = {} THEN s
  ELSE LET p == CHOOSE p \in at : TRUE
           q == FrontOf(s.z.dbs[p[1]].sui, p[2])
       IN  [s EXCEPT !.z.dbs[p[1]].sui = [q EXCEPT ![1].terms = @ + terms, ![1].docs = @ + docs],
                     !.z.dbs[p[1]].adDirty = TRUE]

Places(z, o) ==
  UNION {{<<i, k>> : k \in {k \in DOMAIN z.dbs[i].sui : z.dbs[i].sui[k].ord = o}} : i \in DOMAIN z.dbs}

AdjustIn(s, o, terms, docs) == Counting(s, Places(s.z, o), terms, docs)

AdjustOccurrences(s, o, terms, docs) == AdjustIn(WithDetails(s, o), o, terms, docs)

(* extract_rec_keys_adjust: once for each ordinal of the keys, the last found first *)
TimesIn(q, x) == Cardinality({i \in DOMAIN q : q[i] = x})
OrdList(q) == FoldLeft(LAMBDA l, x : IF Contains(l, x) THEN l ELSE <<x>> \o l, <<>>, q)

AdjustKeys(s, ords, sign) ==
  FoldLeft(LAMBDA t, o : AdjustOccurrences(t, o, sign * TimesIn(ords, o), sign), s, OrdList(ords))

(* zebraExplain_recordCountIncrement, _recordBytesIncrement and _addSchema *)
AddCount(s, n) ==
  [s EXCEPT !.z.dbs[CurIndex(s.z)].count = @ + n, !.z.dbs[CurIndex(s.z)].dirty = TRUE]

AddBytes(s, n) ==
  IF n = 0 THEN s
  ELSE [s EXCEPT !.z.dbs[CurIndex(s.z)].bytes = @ + n, !.z.dbs[CurIndex(s.z)].dirty = TRUE]

AddSchema(s, oid) ==
  [s EXCEPT !.z.schemas = @ \union {oid}, !.z.dbs[CurIndex(s.z)].schemas = @ \union {oid}]

UseAttrs(s, keys) == FoldLeft(LAMBDA t, a : UseAttr(t, a), s, keys)
OrdsOf(s, keys) == [i \in DOMAIN keys |-> OrdOf(s.z, keys[i])]

(***************************************************************************)
(* zebra_extract_explain: the keys of an explain record go to the explain  *)
(* database; keys of the record's earlier version are taken back.  A       *)
(* record that is dropped is extracted without content, and is not counted *)
(* out.                                                                    *)
(***************************************************************************)
TakenBack(s, old) == IF old = <<>> THEN AddCount(s, 1) ELSE AdjustKeys(s, old, -1)

FlushExplainKeys(s, sysno, new) ==
  [TakenBack(AdjustKeys(s, new, 1), s.r.at[sysno].keys) EXCEPT !.r.at[sysno].keys = new]

ExplainKeysOf(s, sysno, keys) == FlushExplainKeys(s, sysno, OrdsOf(s, keys))

ExtractExplain(s, sysno, keys) == ExplainKeysOf(UseAttrs(CurDatabase(s, Explain), keys), sysno, keys)

(* createRecord *)
CreateRecord(s) ==
  [s EXCEPT !.r.next = @ + 1,
            !.r.at = @ @@ (s.r.next :> [data |-> <<>>, keys |-> <<>>])]

ExtractedAs(s, sysno, kind, keyFlush) ==
  IF keyFlush THEN ExtractExplain(s, sysno, ExplainKeys[kind]) ELSE s

(* zebraExplain_writeDatabase.  The count was put into the tree before the  *)
(* record is extracted, the bytes are put there after.                      *)
WriteDatabase(s0, name, keyFlush) ==
  LET i  == DbIndex(s0.z, name)
      d  == s0.z.dbs[i]
      no == IF d.sysno = 0 THEN s0.r.next ELSE d.sysno
      s1 == IF d.sysno = 0 THEN CreateRecord(s0) ELSE s0
      s2 == [s1 EXCEPT !.z.dbs[i].dirty = FALSE, !.z.dbs[i].sysno = no]
      put(s3) == [s3 EXCEPT !.r.at[no].data = [count |-> d.count, bytes |-> s3.z.dbs[i].bytes,
                                               ord |-> d.ord, schemas |-> d.schemas]]
  IN  IF ~d.dirty THEN s0 ELSE put(ExtractedAs(s2, no, "database", keyFlush))

(* zebraExplain_writeAttributeDetails: the list is made after the record is extracted *)
WriteAttributeDetails(s0, name, keyFlush) ==
  LET i  == DbIndex(s0.z, name)
      d  == s0.z.dbs[i]
      no == IF d.adno = 0 THEN s0.r.next ELSE d.adno
      s1 == IF d.adno = 0 THEN CreateRecord(s0) ELSE s0
      s2 == [s1 EXCEPT !.z.dbs[i].adDirty = FALSE, !.z.dbs[i].adno = no]
      put(s3) == [s3 EXCEPT !.r.at[no].data = s3.z.dbs[i].sui]
  IN  IF ~d.adDirty THEN s0 ELSE put(ExtractedAs(s2, no, "details", keyFlush))

(* zebraExplain_writeTarget *)
TargetData(z, schemas) ==
  [dbs |-> [i \in DOMAIN z.dbs |-> [name |-> z.dbs[i].name, id |-> z.dbs[i].sysno, aid |-> z.dbs[i].adno]],
   ordSU |-> z.ordSU, ordDb |-> z.ordDb, run |-> z.run, schemas |-> schemas]

WriteTarget(s0, keyFlush) ==
  LET s1 == [s0 EXCEPT !.z.dirty = FALSE]
      put(s2) == [s2 EXCEPT !.r.at[RootSysno].data = TargetData(s2.z, s0.z.schemas)]
  IN  IF ~s0.z.dirty THEN s0 ELSE put(ExtractedAs(s1, RootSysno, "target", keyFlush))

(* zebraExplain_writeCategoryList *)
WriteCategoryList(s0) ==
  LET no == s0.r.next
      s1 == [CreateRecord(s0) EXCEPT !.z.catDirty = FALSE]
  IN  IF ~s0.z.catDirty THEN s0 ELSE ExtractedAs(s1, no, "categories", TRUE)

(* zebraExplain_flush: all is written twice, the second time without keys *)
WriteDatabases(s, keyFlush) ==
  FoldLeft(LAMBDA t, d : WriteAttributeDetails(WriteDatabase(t, d.name, keyFlush), d.name, keyFlush),
           s, s.z.dbs)

(* a flush that writes once *)
FlushOnce(s) == IF s.z.write THEN WriteCategoryList(WriteTarget(WriteDatabases(s, TRUE), TRUE)) ELSE s

FlushAll(s) ==
  LET s1 == WriteCategoryList(WriteTarget(WriteDatabases(s, TRUE), TRUE))
  IN  IF s.z.write THEN WriteTarget(WriteDatabases(s1, FALSE), FALSE) ELSE s

(***************************************************************************)
(* The operations.                                                         *)
(***************************************************************************)
ZInfoInit ==
  /\ zei = ZeiClosed
  /\ xRecords = [next |-> 1, at |-> <<>>]
  /\ xDocs = [d \in Databases |-> <<>>]
  /\ xBytes = [d \in Databases |-> 0]
  /\ xOrds = {}
  /\ xCalls = [ops |-> 0, opens |-> 0]

OrdsGiven(s) ==
  UNION {{<<d.sui[k].ord, d.name, d.sui[k].attr>> : k \in DOMAIN d.sui} : d \in ToSet(s.z.dbs)}

ZeiBecomes(s) == /\ zei' = s.z
               /\ xRecords' = s.r
               /\ xOrds' = xOrds \union OrdsGiven(s)

XCall == /\ zei.open
         /\ xCalls.ops < MaxXOps
         /\ xCalls' = [xCalls EXCEPT !.ops = @ + 1]

ZeiNow == [z |-> zei, r |-> xRecords]

NoZei == [open |-> TRUE, write |-> TRUE, dbs |-> <<>>, cur |-> "none", ordSU |-> 1, ordDb |-> 1,
           run |-> 0, dirty |-> FALSE, catDirty |-> FALSE, schemas |-> {}]

(* zebraExplain_open: an empty register gets its root record, sysno 1, at once *)
OpenedNew ==
  LET s == NewDatabase(CreateRecord([z |-> NoZei, r |-> xRecords]), Explain)
  IN  [s EXCEPT !.z.catDirty = TRUE]

OpenedOld(rw) ==
  LET t == xRecords.at[RootSysno].data
  IN  [z |-> [NoZei EXCEPT !.write = rw, !.dbs = [i \in DOMAIN t.dbs |-> ListedDb(t.dbs[i])], !.ordSU = t.ordSU,
                            !.ordDb = t.ordDb, !.run = t.run, !.schemas = t.schemas],
       r |-> xRecords]

(* a register opened for writing counts one more run (zebra_begin_trans) *)
Counted(s) == [s EXCEPT !.z.run = @ + 1, !.z.dirty = TRUE]

ExplainOpen(rw) ==
  /\ ~zei.open
  /\ xCalls.opens < MaxXOpens
  /\ xCalls' = [xCalls EXCEPT !.opens = @ + 1]
  /\ \/ /\ xRecords.next = 1
        /\ rw
        /\ ZeiBecomes(Counted(OpenedNew))
     \/ /\ xRecords.next > 1
        /\ ZeiBecomes(IF rw THEN Counted(OpenedOld(rw)) ELSE OpenedOld(rw))
  /\ UNCHANGED <<xDocs, xBytes>>

(* zebra_flush_reg in the middle of a transaction, and zebraExplain_close *)
ExplainFlush ==
  /\ XCall
  /\ zei.write
  /\ ZeiBecomes(FlushAll(ZeiNow))
  /\ UNCHANGED <<xDocs, xBytes>>

ExplainClose ==
  /\ zei.open
  /\ \E s \in {FlushAll(ZeiNow)} : /\ xRecords' = s.r
                               /\ xOrds' = xOrds \union OrdsGiven(s)
  /\ zei' = ZeiClosed
  /\ UNCHANGED <<xDocs, xBytes, xCalls>>

(* zebra_create_database *)
CreateDatabase(name) ==
  /\ XCall
  /\ zei.write
  /\ ~HasDb(zei, name)
  /\ ZeiBecomes(NewDatabase(ZeiNow, name))
  /\ UNCHANGED <<xDocs, xBytes>>

(* the part of zebra_extract_record_stream that touches the explain database *)
Selected(name) == IF HasDb(zei, name) THEN CurDatabase(ZeiNow, name) ELSE NewDatabase(ZeiNow, name)

ExplainInsert(name, doc) ==
  /\ XCall
  /\ zei.write
  /\ \E s1 \in {UseAttrs(AddSchema(Selected(name), doc.schema), doc.keys)} :
     \E s2 \in {AddCount(AdjustKeys(s1, OrdsOf(s1, doc.keys), 1), 1)} :
       ZeiBecomes(AddBytes(s2, doc.size))
  /\ xDocs' = [xDocs EXCEPT ![name] = Append(@, doc)]
  /\ xBytes' = [xBytes EXCEPT ![name] = @ + doc.size]

(* a record is replaced: the keys of the new one are counted first *)
ExplainReplace(name, i, doc) ==
  /\ XCall
  /\ zei.write
  /\ i \in DOMAIN xDocs[name]
  /\ \E s1 \in {UseAttrs(AddSchema(Selected(name), doc.schema), doc.keys)} :
     \E s2 \in {AddBytes(s1, 0 - xDocs[name][i].recordSize)} :
     \E s3 \in {AdjustKeys(AdjustKeys(s2, OrdsOf(s1, doc.keys), 1), OrdsOf(s2, xDocs[name][i].keys), -1)} :
       ZeiBecomes(AddBytes(s3, doc.size))
  /\ xDocs' = [xDocs EXCEPT ![name][i] = doc]
  /\ xBytes' = [xBytes EXCEPT ![name] = @ + doc.size - xDocs[name][i].recordSize]

ExplainDelete(name, i) ==
  /\ XCall
  /\ zei.write
  /\ i \in DOMAIN xDocs[name]
  /\ \E s1 \in {AddBytes(CurDatabase(ZeiNow, name), 0 - xDocs[name][i].recordSize)} :
       ZeiBecomes(AddCount(AdjustKeys(s1, OrdsOf(s1, xDocs[name][i].keys), -1), -1))
  /\ xDocs' = [xDocs EXCEPT ![name] = RemoveAt(@, i)]
  /\ xBytes' = [xBytes EXCEPT ![name] = @ - xDocs[name][i].recordSize]

(***************************************************************************)
(* zebra_drop_database, with zebraExplain_removeDatabase: both records are *)
(* extracted once more, without content, and deleted.  A database that was *)
(* not flushed yet has no records (rec_get asserts a number).              *)
(***************************************************************************)
WithoutKeys(s, sysno) ==
  LET s1 == CurDatabase(s, Explain) IN AdjustKeys(s1, s1.r.at[sysno].keys, -1)

RemoveDatabase(s, name) ==
  LET d  == s.z.dbs[DbIndex(s.z, name)]
      s1 == WithoutKeys(WithoutKeys(s, d.adno), d.sysno)
  IN  [s1 EXCEPT !.z.dbs = RemoveAt(@, DbIndex(s1.z, name)), !.z.dirty = TRUE,
                 !.r.at = [n \in DOMAIN s1.r.at \ {d.adno, d.sysno} |-> s1.r.at[n]]]

DropDatabase(name) ==
  /\ XCall
  /\ zei.write
  /\ HasDb(zei, name)
  /\ zei.dbs[DbIndex(zei, name)].sysno # 0
  /\ ZeiBecomes(RemoveDatabase(CurDatabase(ZeiNow, name), name))
  /\ xDocs' = [xDocs EXCEPT ![name] = <<>>]
  /\ xBytes' = [xBytes EXCEPT ![name] = 0]

ZInfoNext ==
  \/ \E rw \in BOOLEAN : ExplainOpen(rw)
  \/ ExplainFlush
  \/ ExplainClose
  \/ \E name \in Databases :
       \/ CreateDatabase(name)
       \/ DropDatabase(name)
       \/ \E doc \in XDocs : ExplainInsert(name, doc)
       \/ \E i \in DOMAIN xDocs[name] : ExplainDelete(name, i)
       \/ \E i \in DOMAIN xDocs[name], doc \in XDocs : ExplainReplace(name, i, doc)

ZInfoSpec == ZInfoInit /\ [][ZInfoNext]_zinfoVars

(***************************************************************************)
(* Properties.  What a reader would be told of a database: from memory     *)
(* where it was read or changed, from the records otherwise.               *)
(***************************************************************************)
ListedDbs == IF zei.open THEN zei.dbs
          ELSE LET t == xRecords.at[RootSysno].data.dbs IN [i \in DOMAIN t |-> ListedDb(t[i])]

SeenDb(d) ==
  LET d1 == IF d.read THEN ReadDatabase(d, xRecords) ELSE d
  IN  IF d1.adRead THEN ReadAttributeDetails(d1, xRecords) ELSE d1

KeysIn(docs) == {docs[i].keys : i \in DOMAIN docs}

Occurrences(q, docs, a) ==
  /\ q.docs = Cardinality({i \in DOMAIN docs : Contains(docs[i].keys, a)})
  /\ q.terms = FoldLeft(LAMBDA n, d : n + TimesIn(d.keys, a), 0, docs)

(* Whatever was flushed, closed and read again, every database is listed    *)
(* with the number of its records, with the bytes its callers added (which *)
(* are the size of its records only if no filter stores them itself, see   *)
(* Update.IndexOfRecords) and, for each index, with its occurrences        *)
(* (zinfo.c:1436, :1563); the indexes of the explain database  *)
(* count the explain records that hold them, those it wrote to tell of     *)
(* itself included.                                                        *)
XCountsExact ==
  (zei.open \/ xRecords.next > 1) =>
    \A i \in DOMAIN ListedDbs : \E d \in {SeenDb(ListedDbs[i])} :
      \/ /\ d.name = Explain
         /\ \A k \in DOMAIN d.sui :
              d.sui[k].docs = Cardinality({n \in DOMAIN xRecords.at : Contains(xRecords.at[n].keys, d.sui[k].ord)})
      \/ /\ d.name \in Databases
         /\ d.count = Len(xDocs[d.name])
         /\ d.bytes = xBytes[d.name]
         /\ {xDocs[d.name][j].schema : j \in DOMAIN xDocs[d.name]} \subseteq d.schemas
         /\ \A k \in DOMAIN d.sui : Occurrences(d.sui[k], xDocs[d.name], d.sui[k].attr)
         /\ \A a \in UNION {ToSet(x) : x \in KeysIn(xDocs[d.name])} :
              \E k \in DOMAIN d.sui : d.sui[k].attr = a

(* An ordinal once given to an index of a database is never given to        *)
(* another, and an index keeps its ordinal: keys in the dictionary begin    *)
(* with it.                                                                 *)
OrdinalsKept ==
  /\ \A x, y \in xOrds : x[1] = y[1] => x = y
  /\ (zei.open \/ xRecords.next > 1) =>
       \A i \in DOMAIN ListedDbs : \A k \in DOMAIN SeenDb(ListedDbs[i]).sui :
         LET e == SeenDb(ListedDbs[i]).sui[k] IN <<e.ord, ListedDbs[i].name, e.attr>> \in xOrds

(* Databases with records are listed, once, and after a close the records   *)
(* named in the list are those that exist: the flush wrote all there was    *)
(* to write.                                                                *)
ListComplete ==
  /\ (zei.open \/ xRecords.next > 1) =>
       /\ \A name \in Databases : xDocs[name] # <<>> => \E i \in DOMAIN ListedDbs : ListedDbs[i].name = name
       /\ \A i, j \in DOMAIN ListedDbs : ListedDbs[i].name = ListedDbs[j].name => i = j
  /\ (~zei.open /\ xRecords.next > 1) =>
       DOMAIN xRecords.at = {RootSysno} \union {ListedDbs[i].sysno : i \in DOMAIN ListedDbs}
                              \union {ListedDbs[i].adno : i \in DOMAIN ListedDbs}
                              \union {n \in DOMAIN xRecords.at : xRecords.at[n].data = <<>>
                                        /\ xRecords.at[n].keys # <<>>}

(* The explain database tells what the databases hold (zinfo.c:165 writes   *)
(* twice because telling it changes it).                                    *)
ExplainExact == XCountsExact /\ OrdinalsKept /\ ListComplete
=============================================================================
