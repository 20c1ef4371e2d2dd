---------------------------- MODULE BFileProofs ----------------------------
(***************************************************************************)
(* Proofs about BFile: while the index of a shadow file is a hash table,   *)
(* every bucket is on the chain of its entries and on no other, and no     *)
(* block is entered twice, however small the memory for buckets, whatever  *)
(* was flushed from it, and after any closing, reopening, commit and kill. *)
(***************************************************************************)
EXTENDS BFile, SequenceTheorems, WellFoundedInduction, TLAPS

\* The types of the index.
Entry == [no : Nat, vno : Nat]
Slot == [ents : Seq(Entry), next : Nat]
Loaded == [this : Nat, ents : Seq(Entry), next : Nat, dirty : BOOLEAN]
Memory == Seq(Loaded)
IsTable(t) == t \in [DOMAIN t -> Slot]
Array == [0..HashSize - 1 -> Nat]
HeadOK(h) ==
    /\ h = [state |-> h.state, nextBlock |-> h.nextBlock,
            nextBucket |-> h.nextBucket, flatBucket |-> h.flatBucket]
    /\ h.nextBlock \in Nat /\ h.nextBucket \in Nat \ {0}
OpOK(o) ==
    /\ o = [kind |-> o.kind, no |-> o.no, off |-> o.off, units |-> o.units,
            vno |-> o.vno]
    /\ o.kind \in {"none", "read", "write"} /\ o.no \in Nat
Typed ==
    /\ mode \in Modes /\ pc \in Pcs /\ OpOK(op)
    /\ HeadOK(head) /\ head.state \in 1..2 /\ array \in Array
    /\ saved = [head |-> saved.head, array |-> saved.array]
    /\ HeadOK(saved.head) /\ saved.head.state \in 0..2 /\ saved.array \in Array
    /\ IsTable(bucket) /\ mem \in Memory /\ dirty \in BOOLEAN

-----------------------------------------------------------------------------
\* The buckets as one table: those in memory hide those on disk.

Image(e) == [ents |-> e.ents, next |-> e.next]
InMem(m) == {m[i].this : i \in 1..Len(m)}
View(m, d) ==
    [b \in DOMAIN d \cup InMem(m) |->
        IF b \in InMem(m)
        THEN Image(m[CHOOSE i \in 1..Len(m) : m[i].this = b]) ELSE d[b]]
Table == View(mem, bucket)

\* What the buckets of a table have, as pairs of a block and its shadow block.
Pairs(t) == UNION {Range(t[b].ents) : b \in DOMAIN t}

\* A bucket is in memory once, and as on disk unless it is dirty.
Once(m) == \A i, j \in 1..Len(m) : m[i].this = m[j].this => i = j
Same(e, d) == e.this \in DOMAIN d /\ d[e.this] = Image(e)
CleanSame(m, d) == \A i \in 1..Len(m) : m[i].dirty \/ Same(m[i], d)
AllClean(m) == \A i \in 1..Len(m) : ~m[i].dirty

\* All entries of a bucket have one hash value.  The chain of a hash value h has
\* the buckets with that value by number: c is the first of them after b, or 0
\* if there is none.
Home(s) == Hash(s.ents[1].no)
Follows(t, h, b, c) ==
    /\ c # 0 => c \in DOMAIN t /\ b < c /\ Home(t[c]) = h
    /\ \A k \in DOMAIN t : b < k /\ Home(t[k]) = h => c # 0 /\ c <= k
Filled(t, n) ==
    \A b \in DOMAIN t :
        /\ t[b].ents # <<>>
        /\ \A x \in Range(t[b].ents) : Hash(x.no) = Home(t[b]) /\ x.vno < n
Linear(a, t) == /\ \A h \in DOMAIN a : Follows(t, h, 0, a[h])
                /\ \A b \in DOMAIN t : Follows(t, Home(t[b]), b, t[b].next)
Unique(t) ==
    \A b, c \in DOMAIN t :
        \A x \in Range(t[b].ents), y \in Range(t[c].ents) :
            x.no = y.no \/ x.vno = y.vno => b = c /\ x = y
Sound(a, t, n) == Filled(t, n) /\ Linear(a, t) /\ Unique(t)

\* Block no is in no bucket of its chain before bucket c, or in none if c is 0.
HasNo(s, no) == \E x \in Range(s.ents) : x.no = no
Searched(t, no, c) ==
    \A b \in DOMAIN t :
        Home(t[b]) = Hash(no) /\ (c = 0 \/ b < c) => ~HasNo(t[b], no)

-----------------------------------------------------------------------------
\* The inductive invariant.

\* What the operation under way may be.
Control ==
    /\ pc # "idle" /\ ~HasShadow => pc = "done"
    /\ pc \in {"walk", "append"} => head.state = 1
    /\ pc \in {"append", "fill"} => op.kind = "write"
    /\ op.kind = "write" => mode = "shadow" /\ pc # "idle"

\* What memory holds: nothing without a shadow file, nothing new for a reader.
MemInv ==
    /\ ~HasShadow => mem = <<>> /\ ~dirty
    /\ mode = "overlay" => AllClean(mem) /\ ~dirty
    /\ Once(mem) /\ CleanSame(mem, bucket)

\* What is not yet written is marked as such.
Unmarked == \/ pc = "append"
            \/ pc = "missing" /\ head.state = 2 /\ op.kind = "write"
MarkInv ==
    mode = "shadow" /\ ~Unmarked =>
        dirty \/ ~AllClean(mem) \/ saved = [head |-> head, array |-> array]

\* The tables on disk and as the operations see it; between giving a block its
\* number and entering it the number is not yet in use.
Used == IF pc = "append" THEN op.vno ELSE head.nextBlock
DiskInv ==
    /\ saved.head.state = 0 => mode # "shadow" /\ saved = NoShadow
    /\ mode # "shadow" /\ saved.head.state # 2 =>
           /\ DOMAIN bucket = 1..saved.head.nextBucket - 1
           /\ Sound(saved.array, bucket, saved.head.nextBlock)
TableInv ==
    HasShadow /\ head.state = 1 =>
        /\ DOMAIN Table = 1..head.nextBucket - 1
        /\ Sound(array, Table, Used)

\* How far an operation has followed the chain of its block.
OnChain(b) == b \in DOMAIN Table /\ Home(Table[b]) = Hash(op.no)
WalkInv ==
    /\ pc = "walk" => /\ Searched(Table, op.no, cursor)
                      /\ cursor # 0 => OnChain(cursor)
                      /\ \A i \in 1..Len(mem) : ~HasNo(mem[i], op.no)
    /\ pc \in {"missing", "append"} /\ head.state = 1 => Searched(Table, op.no, 0)
    /\ pc = "append" =>
           /\ op.vno \in Nat /\ head.nextBlock = op.vno + 1
           /\ prev = 0 => cursor = array[Hash(op.no)]
           /\ prev # 0 => /\ prev \in InMem(mem) /\ OnChain(prev)
                          /\ cursor = Table[prev].next

IInv == Typed /\ Control /\ MemInv /\ MarkInv /\ DiskInv /\ TableInv /\ WalkInv

-----------------------------------------------------------------------------
\* Natural numbers.

\* A set of natural numbers has a least member.
LEMMA Least ==
    ASSUME NEW T \in SUBSET Nat, T # {}
    PROVE  \E x \in T : \A y \in T : x <= y
  <1> DEFINE R == OpToRel(<, Nat)
  <1>1. PICK x \in T : \A y \in T : <<y, x>> \notin R
    <2>1. IsWellFoundedOn(R, Nat)
      BY NatLessThanWellFounded
    <2> HIDE DEF R
    <2> QED BY <2>1, WFMin
  <1>2. ASSUME NEW y \in T PROVE x <= y
    <2>1. ~(y < x)
      BY <1>1 DEF OpToRel
    <2> QED BY <2>1
  <1> QED BY <1>2

\* A set of natural numbers below m has a greatest member.
LEMMA Greatest ==
    ASSUME NEW m \in Nat, NEW T \in SUBSET 0..m, T # {}
    PROVE  \E x \in T : \A y \in T : y <= x
  <1>1. {m - y : y \in T} \in SUBSET Nat /\ {m - y : y \in T} # {}
    <2>1. \A y \in T : m - y \in Nat
      OBVIOUS
    <2>2. PICK y \in T : TRUE
      OBVIOUS
    <2>3. m - y \in {m - x : x \in T}
      BY <2>2
    <2> QED BY <2>1, <2>3
  <1>2. PICK z \in {m - y : y \in T} : \A w \in {m - y : y \in T} : z <= w
    BY <1>1, Least
  <1>3. PICK x \in T : z = m - x
    BY <1>2
  <1>4. \A y \in T : m - x <= m - y
    BY <1>2, <1>3
  <1> QED BY <1>4

-----------------------------------------------------------------------------
\* Tables.

\* Block numbers have hash values.
LEMMA HashType == ASSUME NEW no \in Nat PROVE Hash(no) \in 0..HashSize - 1
  <1>1. no \div HashRun \in Nat
    BY CFileAssumption
  <1> QED BY <1>1, CFileAssumption DEF Hash

\* The entries of a bucket, as a sequence and as a set.
LEMMA EntsType ==
    ASSUME NEW s \in Seq(Entry)
    PROVE  /\ \A x \in Range(s) : x \in Entry
           /\ \A i \in 1..Len(s) : s[i] \in Entry /\ s[i] \in Range(s)
           /\ s # <<>> => 1 \in 1..Len(s) /\ Range(s) # {}
           /\ \A x \in Entry : /\ Append(s, x) \in Seq(Entry)
                               /\ Append(s, x) # <<>>
                               /\ Range(Append(s, x)) = Range(s) \cup {x}
                               /\ s # <<>> => Append(s, x)[1] = s[1]
  <1>1. DOMAIN s = 1..Len(s) /\ \A i \in 1..Len(s) : s[i] \in Entry
    OBVIOUS
  <1>2. ASSUME NEW x \in Entry
        PROVE  /\ Append(s, x) \in Seq(Entry) /\ Append(s, x) # <<>>
               /\ Range(Append(s, x)) = Range(s) \cup {x}
               /\ s # <<>> => Append(s, x)[1] = s[1]
    <2>1. /\ Append(s, x) \in Seq(Entry) /\ Len(Append(s, x)) = Len(s) + 1
          /\ \A i \in 1..Len(s) : Append(s, x)[i] = s[i]
          /\ Append(s, x)[Len(s) + 1] = x
      OBVIOUS
    <2>2. DOMAIN Append(s, x) = 1..Len(s) + 1 /\ Len(s) \in Nat
      BY <2>1
    <2>3. Range(Append(s, x)) \subseteq Range(s) \cup {x}
      <3>1. ASSUME NEW i \in 1..Len(s) + 1
            PROVE  Append(s, x)[i] \in Range(s) \cup {x}
        <4>1. i \in 1..Len(s) \/ i = Len(s) + 1
          BY <2>2
        <4> QED BY <4>1, <1>1, <2>1 DEF Range
      <3> QED BY <3>1, <2>2 DEF Range
    <2>4. Range(s) \cup {x} \subseteq Range(Append(s, x))
      <3>1. \A i \in 1..Len(s) : i \in 1..Len(s) + 1
        BY <2>2
      <3>2. Len(s) + 1 \in 1..Len(s) + 1
        BY <2>2
      <3> QED BY <1>1, <2>1, <2>2, <3>1, <3>2 DEF Range
    <2>5. s # <<>> => 1 \in 1..Len(s)
      OBVIOUS
    <2>6. Append(s, x) # <<>>
      BY <2>1, <2>2, Len(<<>>) = 0
    <2> QED BY <2>1, <2>3, <2>4, <2>5, <2>6
  <1>3. /\ \A x \in Range(s) : x \in Entry
        /\ \A i \in 1..Len(s) : s[i] \in Range(s)
    BY <1>1 DEF Range
  <1>4. s # <<>> => 1 \in 1..Len(s)
    BY EmptySeq
  <1>5. s # <<>> => Range(s) # {}
    BY <1>3, <1>4
  <1> QED BY <1>1, <1>2, <1>3, <1>4, <1>5

\* The entries of a bucket with one more.
LEMMA RangeOfAppend ==
    ASSUME NEW s \in Seq(Entry), NEW x \in Entry
    PROVE  Range(Append(s, x)) = {x} \cup Range(s)
  BY EntsType

\* A bucket of a table has a home and entries of that home.
LEMMA HomeType ==
    ASSUME NEW s \in Slot, s.ents # <<>>
    PROVE  /\ Home(s) \in 0..HashSize - 1
           /\ s.ents \in Seq(Entry) /\ s.next \in Nat
           /\ s.ents[1] \in Range(s.ents)
           /\ \A x \in Range(s.ents) : x \in Entry /\ x.no \in Nat /\ x.vno \in Nat
  <1>1. s.ents \in Seq(Entry) /\ s.next \in Nat
    BY DEF Slot
  <1>2. s.ents[1] \in Entry /\ s.ents[1] \in Range(s.ents)
    BY <1>1, EntsType
  <1>3. s.ents[1].no \in Nat
    BY <1>2 DEF Entry
  <1>4. \A x \in Range(s.ents) : x \in Entry
    BY <1>1, EntsType
  <1>5. \A x \in Range(s.ents) : x.no \in Nat /\ x.vno \in Nat
    BY <1>4 DEF Entry
  <1> QED BY <1>1, <1>2, <1>3, <1>4, <1>5, HashType DEF Home

\* A block that is on no bucket of its chain is on none.
LEMMA SearchedAll ==
    ASSUME NEW t, NEW n, NEW no, Filled(t, n), Searched(t, no, 0)
    PROVE  \A b \in DOMAIN t : ~HasNo(t[b], no)
  BY DEF Filled, Searched, HasNo

\* A pair is added to a bucket of a table, or in a bucket of its own.
Gains(t, u, b, x) ==
    /\ DOMAIN u = DOMAIN t \cup {b}
    /\ \A c \in DOMAIN t : c # b => u[c].ents = t[c].ents
    /\ Range(u[b].ents) = {x} \cup (IF b \in DOMAIN t THEN Range(t[b].ents) ELSE {})

\* Entering one entry in a bucket enters one in the index.
LEMMA PairAdded ==
    ASSUME NEW t, NEW u, NEW b, NEW x, Gains(t, u, b, x)
    PROVE  Pairs(u) = Pairs(t) \cup {x}
  <1> USE DEF Gains
  <1>1. ASSUME NEW y \in Pairs(u) PROVE y \in Pairs(t) \cup {x}
    <2>1. PICK c \in DOMAIN u : y \in Range(u[c].ents)
      BY <1>1 DEF Pairs
    <2>2. CASE c = b
      BY <2>1, <2>2 DEF Pairs
    <2>3. CASE c # b
      BY <2>1, <2>3 DEF Pairs
    <2> QED BY <2>2, <2>3
  <1>2. ASSUME NEW y \in Pairs(t) PROVE y \in Pairs(u)
    <2>1. PICK c \in DOMAIN t : y \in Range(t[c].ents)
      BY <1>2 DEF Pairs
    <2>2. y \in Range(u[c].ents) /\ c \in DOMAIN u
      BY <2>1
    <2> QED BY <2>2 DEF Pairs
  <1>3. x \in Pairs(u)
    BY DEF Pairs
  <1> QED BY <1>1, <1>2, <1>3

\* cf_new_hash may add the block to a bucket with room ...
LEMMA AddEntry ==
    ASSUME NEW k \in Nat \ {0}, NEW t \in [1..k - 1 -> Slot], NEW a \in Array,
           NEW x \in Entry, Sound(a, t, x.vno), Searched(t, x.no, 0),
           NEW b \in 1..k - 1, Home(t[b]) = Hash(x.no),
           NEW u \in [1..k - 1 -> Slot],
           u[b].ents = Append(t[b].ents, x), u[b].next = t[b].next,
           \A c \in 1..k - 1 : c # b => u[c] = t[c]
    PROVE  Sound(a, u, x.vno + 1)
  <1>0. Filled(t, x.vno) /\ Linear(a, t) /\ Unique(t)
    BY DEF Sound
  <1>1. DOMAIN t = 1..k - 1 /\ DOMAIN u = 1..k - 1 /\ x.vno \in Nat
    BY DEF Entry
  <1>2. \A c \in 1..k - 1 : t[c] \in Slot /\ t[c].ents # <<>>
    BY <1>0, <1>1 DEF Filled
  <1>3. /\ u[b].ents # <<>>
        /\ Range(u[b].ents) = Range(t[b].ents) \cup {x}
        /\ u[b].ents[1] = t[b].ents[1]
    <2>1. t[b].ents \in Seq(Entry) /\ t[b].ents # <<>>
      BY <1>2 DEF Slot
    <2> QED BY <2>1, EntsType
  <1>4. \A c \in 1..k - 1 : Home(u[c]) = Home(t[c]) /\ u[c].next = t[c].next
    BY <1>3 DEF Home
  <1>5. ASSUME NEW c \in 1..k - 1, NEW y \in Range(u[c].ents)
        PROVE  y \in Range(t[c].ents) \/ (c = b /\ y = x)
    <2>1. CASE c = b
      BY <1>3, <1>5, <2>1
    <2>2. CASE c # b
      <3>1. u[c] = t[c]
        BY <2>2
      <3> QED BY <3>1, <1>5
    <2> QED BY <2>1, <2>2
  <1>6. ASSUME NEW c \in 1..k - 1, NEW y \in Range(t[c].ents)
        PROVE  /\ y.no # x.no /\ y.vno < x.vno /\ y.vno \in Nat
               /\ Hash(y.no) = Home(t[c])
    <2>1. ~HasNo(t[c], x.no)
      BY <1>0, <1>1, SearchedAll
    <2> QED BY <2>1, <1>0, <1>1, <1>2, HomeType DEF Filled, HasNo
  <1>7. Filled(u, x.vno + 1)
    <2>1. ASSUME NEW c \in 1..k - 1, NEW y \in Range(u[c].ents)
          PROVE  Hash(y.no) = Home(u[c]) /\ y.vno < x.vno + 1
      <3>1. CASE y \in Range(t[c].ents)
        <4>1. y.vno < x.vno /\ y.vno \in Nat /\ Hash(y.no) = Home(t[c])
          BY <3>1, <1>6
        <4> QED BY ONLY <4>1, <1>1, <1>4, c \in 1..k - 1
      <3>2. CASE c = b /\ y = x
        BY <3>2, <1>1, <1>4
      <3> QED BY <3>1, <3>2, <1>5
    <2>2. \A c \in 1..k - 1 : u[c].ents # <<>>
      BY <1>2, <1>3
    <2> QED BY <2>1, <2>2, <1>1 DEF Filled
  <1>8. Linear(a, u)
    <2>1. \A h, c, d : Follows(t, h, c, d) => Follows(u, h, c, d)
      BY <1>1, <1>4 DEF Follows
    <2> QED BY <2>1, <1>0, <1>1, <1>4 DEF Linear
  <1>9. Unique(u)
    <2> SUFFICES ASSUME NEW c \in 1..k - 1, NEW d \in 1..k - 1,
                        NEW y \in Range(u[c].ents), NEW z \in Range(u[d].ents),
                        y.no = z.no \/ y.vno = z.vno
                 PROVE  c = d /\ y = z
      BY <1>1 DEF Unique
    <2>1. CASE y \in Range(t[c].ents) /\ z \in Range(t[d].ents)
      BY <2>1, <1>0, <1>1 DEF Unique
    <2>2. CASE y \in Range(t[c].ents) /\ d = b /\ z = x
      BY <2>2, <1>6, <1>1
    <2>3. CASE z \in Range(t[d].ents) /\ c = b /\ y = x
      BY <2>3, <1>6, <1>1
    <2> QED BY <2>1, <2>2, <2>3, <1>5
  <1> QED BY <1>7, <1>8, <1>9 DEF Sound

\* ... or in a new bucket k behind the last of the chain, p if there is one.
NewLast(k, a, t, p, x, c, u) ==
    /\ k \in Nat \ {0} /\ x \in Entry
    /\ a \in Array /\ t \in [1..k - 1 -> Slot] /\ p \in 0..k - 1
    /\ p = 0 => a[Hash(x.no)] = 0
    /\ p # 0 => Home(t[p]) = Hash(x.no) /\ t[p].next = 0
    /\ c \in Array /\ u \in [1..k -> Slot]
    /\ \A g \in 0..HashSize - 1 :
          c[g] = IF p = 0 /\ g = Hash(x.no) THEN k ELSE a[g]
    /\ \A b \in 1..k - 1 : /\ u[b].ents = t[b].ents
                           /\ u[b].next = IF b = p THEN k ELSE t[b].next
    /\ u[k].ents = <<x>> /\ u[k].next = 0

\* A new bucket behind the last of its chain keeps the table sound.
LEMMA AddBucket ==
    ASSUME NEW k, NEW a, NEW t, NEW p, NEW x, NEW e, NEW u,
           NewLast(k, a, t, p, x, e, u),
           Sound(a, t, x.vno), Searched(t, x.no, 0)
    PROVE  Sound(e, u, x.vno + 1)
  <1> USE DEF NewLast
  <1> DEFINE h == Hash(x.no)
  <1>0. Filled(t, x.vno) /\ Linear(a, t) /\ Unique(t)
    BY DEF Sound
  <1>1. /\ DOMAIN t = 1..k - 1 /\ DOMAIN u = 1..k /\ x.no \in Nat /\ x.vno \in Nat
        /\ \A c \in 1..k : c \in 1..k - 1 \/ c = k
        /\ \A c \in 1..k - 1 : c \in 1..k /\ c < k /\ 0 < c
        /\ DOMAIN e = 0..HashSize - 1 /\ DOMAIN a = 0..HashSize - 1
    BY DEF Entry, Array
  <1>2. \A c \in 1..k - 1 : /\ t[c] \in Slot /\ t[c].ents # <<>>
                            /\ Home(t[c]) \in 0..HashSize - 1
    BY <1>0, <1>1, HomeType DEF Filled
  <1>3. h \in 0..HashSize - 1
    BY <1>1, HashType
  <1>4. <<x>> # <<>> /\ <<x>>[1] = x /\ Range(<<x>>) = {x}
    BY DEF Range
  <1>5. Home(u[k]) = h /\ \A c \in 1..k - 1 : Home(u[c]) = Home(t[c])
    BY <1>4 DEF Home
  <1>6. ASSUME NEW c \in 1..k - 1, NEW y \in Range(t[c].ents)
        PROVE  /\ y.no # x.no /\ y.vno < x.vno /\ y.vno \in Nat
               /\ Hash(y.no) = Home(t[c])
    <2>1. ~HasNo(t[c], x.no)
      BY <1>0, <1>1, SearchedAll
    <2> QED BY <2>1, <1>0, <1>1, <1>2, HomeType DEF Filled, HasNo
  <1> HIDE DEF h
  <1>7. Filled(u, x.vno + 1)
    <2>1. ASSUME NEW c \in 1..k - 1
          PROVE  /\ u[c].ents # <<>>
                 /\ \A y \in Range(u[c].ents) :
                       Hash(y.no) = Home(u[c]) /\ y.vno < x.vno + 1
      <3>1. u[c].ents = t[c].ents /\ Home(u[c]) = Home(t[c]) /\ t[c].ents # <<>>
        BY <1>2, <1>5
      <3>2. ASSUME NEW y \in Range(t[c].ents)
            PROVE  Hash(y.no) = Home(t[c]) /\ y.vno < x.vno + 1
        <4>1. y.vno < x.vno /\ y.vno \in Nat /\ Hash(y.no) = Home(t[c])
          BY <1>6
        <4> QED BY ONLY <4>1, <1>1
      <3> QED BY <3>1, <3>2
    <2>2. /\ u[k].ents # <<>>
          /\ \A y \in Range(u[k].ents) :
                Hash(y.no) = Home(u[k]) /\ y.vno < x.vno + 1
      BY <1>1, <1>4, <1>5 DEF h
    <2> QED BY <2>1, <2>2, <1>1 DEF Filled
  <1>8. Unique(u)
    <2> SUFFICES ASSUME NEW c \in 1..k, NEW d \in 1..k,
                        NEW y \in Range(u[c].ents), NEW z \in Range(u[d].ents),
                        y.no = z.no \/ y.vno = z.vno
                 PROVE  c = d /\ y = z
      BY <1>1 DEF Unique
    <2>0. /\ c # k => c \in 1..k - 1 /\ u[c].ents = t[c].ents
          /\ d # k => d \in 1..k - 1 /\ u[d].ents = t[d].ents
      BY <1>1
    <2>1. CASE c # k /\ d # k
      <3>1. y \in Range(t[c].ents) /\ z \in Range(t[d].ents)
        BY <2>0, <2>1
      <3> QED BY <3>1, <2>0, <2>1, <1>0, <1>1 DEF Unique
    <2>2. CASE c = k /\ d = k
      <3>1. Range(u[k].ents) = {x}
        BY <1>4
      <3> QED BY <2>2, <3>1
    <2>3. CASE c = k /\ d # k
      <3>1. y = x /\ z \in Range(t[d].ents) /\ d \in 1..k - 1
        <4>1. y \in Range(u[k].ents)
          BY <2>3
        <4>2. y = x
          BY <4>1, <1>4
        <4> QED BY <4>2, <2>0, <2>3
      <3>2. y.no # z.no /\ z.vno < y.vno /\ z.vno \in Nat /\ y.vno \in Nat
        BY <3>1, <1>6, <1>1
      <3> QED BY <3>2
    <2>4. CASE c # k /\ d = k
      <3>1. z = x /\ y \in Range(t[c].ents) /\ c \in 1..k - 1
        <4>1. z \in Range(u[k].ents)
          BY <2>4
        <4>2. z = x
          BY <4>1, <1>4
        <4> QED BY <4>2, <2>0, <2>4
      <3>2. y.no # z.no /\ y.vno < z.vno /\ z.vno \in Nat /\ y.vno \in Nat
        BY <3>1, <1>6, <1>1
      <3> QED BY <3>2
    <2> QED BY <2>1, <2>2, <2>3, <2>4
  \* The chains of other hash values, and the buckets before the new one.
  <1>9. ASSUME NEW g, NEW b \in Nat, NEW c \in Nat, Follows(t, g, b, c),
               g # h \/ c # 0
        PROVE  Follows(u, g, b, c)
    <2>1. c # 0 => c \in 1..k - 1 /\ b < c /\ Home(t[c]) = g
      BY <1>9, <1>1 DEF Follows
    <2>2. ASSUME NEW m \in 1..k - 1, b < m, Home(t[m]) = g
          PROVE  c # 0 /\ c <= m
      BY <1>9, <1>1, <2>2 DEF Follows
    <2>3. Home(u[k]) = g => c # 0 /\ c <= k
      BY <1>9, <2>1, <1>5, <1>1
    <2> QED BY <2>1, <2>2, <2>3, <1>1, <1>5 DEF Follows
  <1>10. ASSUME NEW b \in 0..k - 1, Follows(t, h, b, 0)
         PROVE  Follows(u, h, b, k)
    BY <1>10, <1>1, <1>5 DEF Follows
  <1>11. ASSUME NEW g \in DOMAIN e PROVE Follows(u, g, 0, e[g])
    <2>1. Follows(t, g, 0, a[g]) /\ a[g] \in Nat
      BY <1>0, <1>1 DEF Linear, Array
    <2>2. CASE g # h \/ (p # 0 /\ a[g] # 0)
      <3>1. e[g] = a[g]
        BY <2>2, <1>1 DEF h
      <3> QED BY <3>1, <2>1, <2>2, <1>9
    <2>3. CASE g = h /\ p # 0 /\ a[g] = 0
      BY <2>1, <2>3, <1>1 DEF Follows, h
    <2>4. CASE g = h /\ p = 0
      <3>1. e[g] = k /\ a[g] = 0
        BY <2>4, <1>1 DEF h
      <3>2. 0 \in 0..k - 1 /\ Follows(t, h, 0, 0)
        BY <3>1, <2>1, <2>4
      <3>3. Follows(u, h, 0, k)
        BY <3>2, <1>10
      <3> QED BY <3>1, <3>3, <2>4
    <2> QED BY <2>2, <2>3, <2>4
  <1>12. ASSUME NEW b \in 1..k PROVE Follows(u, Home(u[b]), b, u[b].next)
    <2>1. CASE b = k
      BY <2>1, <1>1 DEF Follows
    <2>2. CASE b # k
      <3>1. /\ Follows(t, Home(t[b]), b, t[b].next) /\ b \in 1..k - 1
            /\ t[b].next \in Nat /\ Home(u[b]) = Home(t[b])
        BY <2>2, <1>0, <1>1, <1>2, <1>5 DEF Linear, Slot
      <3>2. CASE b = p
        <4>1. t[b].next = 0 /\ Home(t[b]) = h /\ u[b].next = k
          BY <3>1, <3>2, <1>1 DEF h
        <4> QED BY <4>1, <3>1, <1>10, <1>1
      <3>3. CASE b # p /\ (Home(t[b]) # h \/ t[b].next # 0)
        <4>1. u[b].next = t[b].next
          BY <3>1, <3>3
        <4> QED BY <4>1, <3>1, <3>3, <1>9, <1>1
      <3>4. CASE b # p /\ Home(t[b]) = h /\ t[b].next = 0
        <4>1. p # 0
          <5>1. Follows(t, h, 0, a[h])
            BY <1>0, <1>1, <1>3 DEF Linear
          <5>2. a[h] # 0
            BY <5>1, <3>1, <3>4, <1>1 DEF Follows
          <5> QED BY <5>2 DEF h
        <4>2. Home(t[p]) = h /\ t[p].next = 0 /\ p \in 1..k - 1
          BY <4>1 DEF h
        <4>3. Follows(t, h, p, 0)
          BY <4>2, <1>0, <1>1, SMTT(40) DEF Linear
        <4>4. ~(p < b) /\ ~(b < p)
          BY <4>2, <4>3, <3>1, <3>4, <1>1 DEF Follows
        <4> QED BY <4>4, <4>2, <3>1, <3>4
      <3> QED BY <3>2, <3>3, <3>4
    <2> QED BY <2>1, <2>2
  <1> QED BY <1>1, <1>7, <1>8, <1>11, <1>12 DEF Sound, Linear

-----------------------------------------------------------------------------
\* Buckets in memory and on disk.

\* A bucket in memory has the types of its parts.
LEMMA LoadedType ==
    ASSUME NEW m \in Memory, NEW i \in 1..Len(m)
    PROVE  /\ m[i] \in Loaded /\ m[i].this \in InMem(m) /\ m[i].this \in Nat
           /\ m[i].dirty \in BOOLEAN /\ Image(m[i]) \in Slot
           /\ m[i].ents \in Seq(Entry) /\ m[i].next \in Nat
  <1>1. m[i] \in Loaded /\ m[i].this \in InMem(m)
    BY DEF InMem, Memory
  <1> QED BY <1>1 DEF Loaded, Image, Slot

\* The table has the buckets in memory, and those on disk that are not in memory.
LEMMA ViewIs ==
    ASSUME NEW m \in Memory, Once(m), NEW d, IsTable(d)
    PROVE  /\ DOMAIN View(m, d) = DOMAIN d \cup InMem(m)
           /\ IsTable(View(m, d))
           /\ \A i \in 1..Len(m) : View(m, d)[m[i].this] = Image(m[i])
           /\ \A b \in DOMAIN d : b \notin InMem(m) => View(m, d)[b] = d[b]
  <1>1. ASSUME NEW i \in 1..Len(m) PROVE View(m, d)[m[i].this] = Image(m[i])
    <2>1. m[i].this \in InMem(m)
      BY DEF InMem
    <2>2. (CHOOSE j \in 1..Len(m) : m[j].this = m[i].this) = i
      BY DEF Once
    <2> QED BY <2>1, <2>2 DEF View
  <1>2. \A b \in DOMAIN d : b \notin InMem(m) => View(m, d)[b] = d[b]
    BY DEF View
  <1>3. DOMAIN View(m, d) = DOMAIN d \cup InMem(m)
    BY DEF View
  <1>4. ASSUME NEW b \in DOMAIN d \cup InMem(m) PROVE View(m, d)[b] \in Slot
    <2>1. CASE b \in InMem(m)
      <3>1. PICK i \in 1..Len(m) : b = m[i].this
        BY <2>1 DEF InMem
      <3> QED BY <3>1, <1>1, LoadedType
    <2>2. CASE b \notin InMem(m)
      BY <2>2, <1>2 DEF IsTable
    <2> QED BY <2>1, <2>2
  <1>5. View(m, d) \in [DOMAIN d \cup InMem(m) -> Slot]
    <2>1. View(m, d) = [b \in DOMAIN d \cup InMem(m) |-> View(m, d)[b]]
      BY DEF View
    <2> HIDE DEF View
    <2> QED BY <2>1, <1>4
  <1> QED BY <1>1, <1>2, <1>3, <1>5 DEF IsTable

\* flush_bucket makes the buckets on disk like those it takes from memory.
LEMMA WrittenIs ==
    ASSUME NEW m \in Memory, NEW n \in 0..Len(m), Once(m),
           IsTable(bucket), CleanSame(m, bucket)
    PROVE  /\ IsTable(Written(m, n))
           /\ DOMAIN bucket \subseteq DOMAIN Written(m, n)
           /\ DOMAIN Written(m, n) \subseteq DOMAIN bucket \cup InMem(m)
           /\ \A i \in 1..n : Same(m[i], Written(m, n))
           /\ CleanSame(m, Written(m, n))
           /\ \A b \in DOMAIN bucket : b \notin InMem(m) => Written(m, n)[b] = bucket[b]
           /\ DirtyOf(m, n) = {} => Written(m, n) = bucket
           /\ DirtyOf(m, n) # {} <=> \E i \in 1..n : m[i].dirty
  <1> DEFINE W == Written(m, n)
             out == {e.this : e \in DirtyOf(m, n)}
  <1>0. \A i \in 1..n : i \in 1..Len(m)
    OBVIOUS
  <1>1. \A e : e \in DirtyOf(m, n) <=> \E i \in 1..n : e = m[i] /\ m[i].dirty
    BY DEF DirtyOf
  <1>2. /\ DOMAIN W = DOMAIN bucket \cup out
        /\ \A b \in DOMAIN bucket : b \notin out => W[b] = bucket[b]
        /\ \A b \in out :
              W[b] = Image(CHOOSE g \in DirtyOf(m, n) : g.this = b)
    BY DEF Written, Image
  <1>3. out \subseteq InMem(m)
    BY <1>0, <1>1 DEF InMem
  <1>4. ASSUME NEW i \in 1..n, m[i].dirty
        PROVE  m[i].this \in out /\ W[m[i].this] = Image(m[i])
    <2>1. m[i] \in DirtyOf(m, n) /\ m[i].this \in out
      BY <1>1, <1>4
    <2>2. PICK g \in DirtyOf(m, n) :
              /\ g = (CHOOSE e \in DirtyOf(m, n) : e.this = m[i].this)
              /\ g.this = m[i].this
      BY <2>1
    <2>3. PICK j \in 1..n : g = m[j]
      BY <1>1
    <2>4. g = m[i]
      BY <2>2, <2>3, <1>0 DEF Once
    <2> QED BY <2>1, <2>2, <2>4, <1>2
  <1>5. ASSUME NEW i \in 1..Len(m), m[i].this \in out
        PROVE  m[i].dirty /\ i \in 1..n
    <2>1. PICK j \in 1..n : m[j].this = m[i].this /\ m[j].dirty
      BY <1>1, <1>5
    <2>2. i = j
      BY <2>1, <1>0 DEF Once
    <2> QED BY <2>1, <2>2
  <1>6. ASSUME NEW i \in 1..Len(m), ~m[i].dirty PROVE Same(m[i], W)
    <2>1. m[i].this \notin out /\ Same(m[i], bucket)
      BY <1>5, <1>6 DEF CleanSame
    <2> QED BY <2>1, <1>2 DEF Same
  <1>7. ASSUME NEW i \in 1..n PROVE Same(m[i], W)
    <2>1. CASE m[i].dirty
      BY <2>1, <1>2, <1>4 DEF Same
    <2>2. CASE ~m[i].dirty
      BY <2>2, <1>0, <1>6
    <2> QED BY <2>1, <2>2
  <1>8. ASSUME NEW b \in DOMAIN W PROVE W[b] \in Slot
    <2>1. CASE b \in out
      <3>1. PICK i \in 1..n : b = m[i].this /\ m[i].dirty
        BY <2>1, <1>1
      <3>2. W[b] = Image(m[i])
        BY <3>1, <1>4
      <3> QED BY <3>2, <1>0, LoadedType
    <2>2. CASE b \notin out
      BY <2>2, <1>2 DEF IsTable
    <2> QED BY <2>1, <2>2
  <1>9. W = [b \in DOMAIN W |-> W[b]]
    BY DEF Written
  <1>10. DirtyOf(m, n) = {} => W = bucket
    <2> SUFFICES ASSUME DirtyOf(m, n) = {} PROVE W = bucket
      OBVIOUS
    <2>1. out = {}
      OBVIOUS
    <2>2. DOMAIN W = DOMAIN bucket /\ \A b \in DOMAIN bucket : W[b] = bucket[b]
      BY <1>2, <2>1
    <2>3. bucket = [b \in DOMAIN bucket |-> bucket[b]]
      BY DEF IsTable
    <2> HIDE DEF W
    <2> QED BY <2>2, <2>3, <1>9
  <1>11. DirtyOf(m, n) # {} <=> \E i \in 1..n : m[i].dirty
    BY <1>1
  <1>12. W \in [DOMAIN W -> Slot]
    <2> HIDE DEF W
    <2> QED BY <1>8, <1>9
  <1>13. CleanSame(m, W)
    BY <1>6 DEF CleanSame
  <1>14. \A b \in DOMAIN bucket : b \notin InMem(m) => W[b] = bucket[b]
    BY <1>2, <1>3
  <1>15. DOMAIN bucket \subseteq DOMAIN W /\ DOMAIN W \subseteq DOMAIN bucket \cup InMem(m)
    BY <1>2, <1>3
  <1>16. IsTable(W)
    BY <1>12 DEF IsTable
  <1> QED BY <1>7, <1>10, <1>11, <1>12, <1>13, <1>14, <1>15, <1>16

\* What is left of a sequence without its first n elements.
LEMMA Rest ==
    ASSUME NEW S, NEW s \in Seq(S), NEW n \in 0..Len(s)
    PROVE  /\ SubSeq(s, n + 1, Len(s)) \in Seq(S)
           /\ Len(SubSeq(s, n + 1, Len(s))) = Len(s) - n
           /\ \A i \in 1..Len(s) - n : SubSeq(s, n + 1, Len(s))[i] = s[i + n]
  OBVIOUS

\* alloc_bucket adds a bucket to those in memory, whatever leaves it.
LEMMA Alloc ==
    ASSUME NEW m \in Memory, NEW e \in Loaded, Once(m),
           IsTable(bucket), CleanSame(m, bucket),
           dirty \in BOOLEAN, e.this \notin InMem(m),
           e.dirty \/ Same(e, bucket), AllocBucket(m, e)
    PROVE  /\ mem' \in Memory /\ dirty' \in BOOLEAN
           /\ IsTable(bucket')
           /\ Once(mem') /\ CleanSame(mem', bucket') /\ e.this \in InMem(mem')
           /\ IsTable(View(mem', bucket')) /\ IsTable(View(m, bucket))
           /\ DOMAIN View(mem', bucket') = DOMAIN View(m, bucket) \cup {e.this}
           /\ View(mem', bucket')[e.this] = Image(e)
           /\ \A b \in DOMAIN View(m, bucket) :
                 b # e.this => View(mem', bucket')[b] = View(m, bucket)[b]
           /\ dirty \/ ~AllClean(m) \/ e.dirty => dirty' \/ ~AllClean(mem')
           /\ AllClean(m) /\ ~e.dirty =>
                 AllClean(mem') /\ bucket' = bucket /\ dirty' = dirty
           /\ \A i \in 1..Len(mem') :
                 mem'[i] = e \/ \E j \in 1..Len(m) : mem'[i] = m[j]
  <1>1. PICK n \in 0..Len(m) : /\ FlushBuckets(m, n)
                               /\ mem' = SubSeq(m, n + 1, Len(m)) \o <<e>>
    <2>1. MaxInMemory \in Nat \ {0} /\ Len(m) \in Nat
      BY CFileAssumption
    <2> DEFINE n == IF Len(m) = MaxInMemory THEN 1 ELSE 0
    <2>2. n \in 0..Len(m)
      BY <2>1
    <2>3. FlushBuckets(m, n) /\ mem' = SubSeq(m, n + 1, Len(m)) \o <<e>>
      BY DEF AllocBucket
    <2> QED BY <2>2, <2>3
  <1> DEFINE r == Len(m) - n
  <1>2. /\ mem' \in Memory /\ Len(mem') = r + 1 /\ r \in Nat
        /\ \A i \in 1..r : mem'[i] = m[i + n] /\ i + n \in 1..Len(m)
        /\ mem'[r + 1] = e
    <2>1. /\ SubSeq(m, n + 1, Len(m)) \in Memory
          /\ Len(SubSeq(m, n + 1, Len(m))) = r
          /\ \A i \in 1..r : SubSeq(m, n + 1, Len(m))[i] = m[i + n]
      BY Rest DEF Memory
    <2>2. r \in Nat /\ \A i \in 1..r : i + n \in 1..Len(m)
      OBVIOUS
    <2> DEFINE s == SubSeq(m, n + 1, Len(m))
    <2>3. s \in Memory /\ Len(s) = r /\ r \in Nat /\ e \in Loaded
      BY <2>1, <2>2
    <2> HIDE DEF s, r
    <2>4. /\ s \o <<e>> \in Memory /\ Len(s \o <<e>>) = r + 1
          /\ \A i \in 1..r : (s \o <<e>>)[i] = s[i]
          /\ (s \o <<e>>)[r + 1] = e
      BY <2>3 DEF Memory
    <2>5. mem' = s \o <<e>> /\ \A i \in 1..r : s[i] = m[i + n]
      BY <2>1, <1>1 DEF s
    <2> QED BY <2>2, <2>3, <2>4, <2>5
  <1>3. /\ \A i \in 1..r + 1 : i \in 1..r \/ i = r + 1
        /\ r + 1 \in 1..r + 1
        /\ \A i \in 1..r : i \in 1..r + 1
        /\ \A j \in 1..Len(m) : j \in 1..n \/ (j - n \in 1..r /\ j = (j - n) + n)
    BY <1>2
  <1>4. \A i \in 1..Len(mem') :
           mem'[i] = e \/ \E j \in 1..Len(m) : mem'[i] = m[j]
    BY <1>2, <1>3
  <1>5. \A j \in 1..Len(m) : j \in 1..n \/ \E i \in 1..Len(mem') : mem'[i] = m[j]
    BY <1>2, <1>3
  <1>6. \E i \in 1..Len(mem') : mem'[i] = e
    BY <1>2, <1>3
  <1>7. Once(mem')
    <2> SUFFICES ASSUME NEW i \in 1..r + 1, NEW j \in 1..r + 1,
                        mem'[i].this = mem'[j].this
                 PROVE  i = j
      BY <1>2 DEF Once
    <2>1. \A k \in 1..r : mem'[k].this # e.this
      BY <1>2 DEF InMem
    <2>2. CASE i \in 1..r /\ j \in 1..r
      <3>1. m[i + n].this = m[j + n].this
        BY <2>2, <1>2
      <3>2. i + n = j + n
        BY <3>1, <2>2, <1>2 DEF Once
      <3> QED BY <3>2, <1>1
    <2> QED BY <2>1, <2>2, <1>2, <1>3
  <1>8. /\ bucket' = Written(m, n)
        /\ dirty' = (dirty \/ DirtyOf(m, n) # {})
    BY <1>1 DEF FlushBuckets
  <1>9. /\ IsTable(bucket')
        /\ DOMAIN bucket \subseteq DOMAIN bucket'
        /\ DOMAIN bucket' \subseteq DOMAIN bucket \cup InMem(m)
        /\ \A i \in 1..n : Same(m[i], bucket')
        /\ CleanSame(m, bucket')
        /\ \A b \in DOMAIN bucket : b \notin InMem(m) => bucket'[b] = bucket[b]
        /\ DirtyOf(m, n) = {} => bucket' = bucket
        /\ DirtyOf(m, n) # {} <=> \E i \in 1..n : m[i].dirty
    <2> HIDE DEF r
    <2> QED BY <1>8, WrittenIs
  <1> HIDE DEF r
  <1>10. CleanSame(mem', bucket')
    <2>1. e.dirty \/ Same(e, bucket')
      <3>1. Same(e, bucket) => Same(e, bucket')
        BY <1>9 DEF Same
      <3> QED BY <3>1
    <2> QED BY <2>1, <1>4, <1>9 DEF CleanSame
  <1>11. InMem(mem') \subseteq InMem(m) \cup {e.this} /\ e.this \in InMem(mem')
    BY <1>4, <1>6 DEF InMem
  <1>12. ASSUME NEW j \in 1..Len(m)
         PROVE  m[j].this \in InMem(mem') \/ Same(m[j], bucket')
    BY <1>5, <1>9 DEF InMem
  <1>13. /\ IsTable(View(m, bucket))
         /\ DOMAIN View(m, bucket) = DOMAIN bucket \cup InMem(m)
         /\ \A i \in 1..Len(m) : View(m, bucket)[m[i].this] = Image(m[i])
         /\ \A b \in DOMAIN bucket :
               b \notin InMem(m) => View(m, bucket)[b] = bucket[b]
    BY ViewIs, ZenonT(40)
  <1>14. /\ IsTable(View(mem', bucket'))
         /\ DOMAIN View(mem', bucket') = DOMAIN bucket' \cup InMem(mem')
         /\ \A i \in 1..Len(mem') : View(mem', bucket')[mem'[i].this] = Image(mem'[i])
         /\ \A b \in DOMAIN bucket' :
               b \notin InMem(mem') => View(mem', bucket')[b] = bucket'[b]
    <2>1. PICK w, d : w = mem' /\ d = bucket'
      OBVIOUS
    <2>2. w \in Memory /\ Once(w) /\ IsTable(d)
      BY <2>1, <1>2, <1>7, <1>9
    <2>3. /\ IsTable(View(w, d))
          /\ DOMAIN View(w, d) = DOMAIN d \cup InMem(w)
          /\ \A i \in 1..Len(w) : View(w, d)[w[i].this] = Image(w[i])
          /\ \A b \in DOMAIN d : b \notin InMem(w) => View(w, d)[b] = d[b]
      BY ONLY <2>2, ViewIs, ZenonT(40)
    <2> QED BY ONLY <2>1, <2>3
  <1>15. DOMAIN View(mem', bucket') = DOMAIN View(m, bucket) \cup {e.this}
    <2>1. InMem(m) \subseteq InMem(mem') \cup DOMAIN bucket'
      BY <1>12 DEF InMem, Same
    <2> QED BY <2>1, <1>9, <1>11, <1>13, <1>14
  <1>16. View(mem', bucket')[e.this] = Image(e)
    BY <1>6, <1>14
  <1>17. ASSUME NEW b \in DOMAIN View(m, bucket), b # e.this
         PROVE  View(mem', bucket')[b] = View(m, bucket)[b]
    <2>1. CASE b \in InMem(m)
      <3>1. PICK j \in 1..Len(m) : b = m[j].this
        BY <2>1 DEF InMem
      <3>2. CASE b \in InMem(mem')
        <4>1. PICK i \in 1..Len(mem') : b = mem'[i].this
          BY <3>2 DEF InMem
        <4>2. PICK l \in 1..Len(m) : mem'[i] = m[l]
          BY <4>1, <1>4, <1>17
        <4>3. l = j
          BY <3>1, <4>1, <4>2 DEF Once
        <4> QED BY <3>1, <4>1, <4>2, <4>3, <1>13, <1>14
      <3>3. CASE b \notin InMem(mem')
        <4>1. Same(m[j], bucket')
          BY <3>1, <3>3, <1>12
        <4> QED BY <3>1, <3>3, <4>1, <1>13, <1>14 DEF Same
      <3> QED BY <3>2, <3>3
    <2>2. CASE b \notin InMem(m)
      <3>1. b \in DOMAIN bucket /\ b \in DOMAIN bucket' /\ b \notin InMem(mem')
        BY <2>2, <1>9, <1>11, <1>13, <1>17
      <3> QED BY <3>1, <2>2, <1>9, <1>13, <1>14
    <2> QED BY <2>1, <2>2
  <1>18. dirty \/ ~AllClean(m) \/ e.dirty => dirty' \/ ~AllClean(mem')
    <2>1. e.dirty => ~AllClean(mem')
      BY <1>6 DEF AllClean
    <2>2. ASSUME NEW j \in 1..Len(m), m[j].dirty PROVE dirty' \/ ~AllClean(mem')
      <3>1. CASE j \in 1..n
        <4>1. DirtyOf(m, n) # {}
          BY <3>1, <2>2, <1>9
        <4> QED BY <4>1, <1>8
      <3>2. CASE j \notin 1..n
        BY <3>2, <2>2, <1>5 DEF AllClean
      <3> QED BY <3>1, <3>2
    <2>3. dirty => dirty'
      BY <1>8
    <2> QED BY <2>1, <2>2, <2>3 DEF AllClean
  <1>19. AllClean(m) /\ ~e.dirty =>
            AllClean(mem') /\ bucket' = bucket /\ dirty' = dirty
    <2> SUFFICES ASSUME AllClean(m), ~e.dirty
                 PROVE  AllClean(mem') /\ bucket' = bucket /\ dirty' = dirty
      OBVIOUS
    <2>1. \A i \in 1..n : i \in 1..Len(m)
      BY <1>1
    <2>2. DirtyOf(m, n) = {}
      BY <2>1, <1>9 DEF AllClean
    <2> QED BY <2>2, <1>4, <1>8, <1>9 DEF AllClean
  <1>20. dirty' \in BOOLEAN
    BY <1>8
  <1> QED BY <1>2, <1>4, <1>7, <1>9, <1>10, <1>11, <1>13, <1>14, <1>15, <1>16, <1>17, <1>18,
             <1>19, <1>20

-----------------------------------------------------------------------------
\* The table of the index under way.

\* Every bucket number has one bucket: in memory, or else in the file.
LEMMA TableIs ==
    ASSUME Typed, MemInv
    PROVE  /\ IsTable(Table) /\ DOMAIN Table = DOMAIN bucket \cup InMem(mem)
           /\ \A i \in 1..Len(mem) : Table[mem[i].this] = Image(mem[i])
           /\ \A b \in DOMAIN bucket : b \notin InMem(mem) => Table[b] = bucket[b]
           /\ \A b : InMemory(b) <=> b \in InMem(mem)
           /\ \A b \in InMem(mem) :
                 IndexOf(b) \in 1..Len(mem) /\ mem[IndexOf(b)].this = b
           /\ Known = DOMAIN Table
           /\ \A b \in Known : /\ Current(b).ents = Table[b].ents
                               /\ Current(b).next = Table[b].next
  <1>1. /\ IsTable(Table) /\ DOMAIN Table = DOMAIN bucket \cup InMem(mem)
        /\ \A i \in 1..Len(mem) : Table[mem[i].this] = Image(mem[i])
        /\ \A b \in DOMAIN bucket : b \notin InMem(mem) => Table[b] = bucket[b]
    BY ViewIs, ZenonT(40) DEF Typed, MemInv, Table
  <1>2. \A b : InMemory(b) <=> b \in InMem(mem)
    BY DEF InMemory, InMem
  <1>3. \A b \in InMem(mem) :
           IndexOf(b) \in 1..Len(mem) /\ mem[IndexOf(b)].this = b
    BY DEF IndexOf, InMem
  <1>4. Known = DOMAIN Table
    BY <1>1 DEF Known, InMem
  <1>5. ASSUME NEW b \in Known
        PROVE  Current(b).ents = Table[b].ents /\ Current(b).next = Table[b].next
    <2>1. CASE b \in InMem(mem)
      <3>1. Current(b) = mem[IndexOf(b)] /\ Table[b] = Image(mem[IndexOf(b)])
        BY <2>1, <1>1, <1>2, <1>3 DEF Current
      <3> QED BY <3>1 DEF Image
    <2>2. CASE b \notin InMem(mem)
      BY <2>2, <1>1, <1>2, <1>4 DEF Current
    <2> QED BY <2>1, <2>2
  <1> QED BY <1>1, <1>2, <1>3, <1>4, <1>5

\* While the index is a hash table its buckets are numbered from 1.
LEMMA HashTable ==
    ASSUME IInv, HasShadow, head.state = 1
    PROVE  /\ head.nextBucket \in Nat \ {0} /\ array \in Array
           /\ Table \in [1..head.nextBucket - 1 -> Slot]
           /\ DOMAIN Table = 1..head.nextBucket - 1
           /\ Sound(array, Table, Used)
           /\ Filled(Table, Used) /\ Linear(array, Table) /\ Unique(Table)
           /\ \A b \in DOMAIN Table :
                 /\ b \in Nat /\ 0 < b /\ Table[b].next \in Nat
                 /\ Table[b].ents # <<>> /\ Table[b].ents \in Seq(Entry)
                 /\ Home(Table[b]) \in 0..HashSize - 1
  <1>1. /\ head.nextBucket \in Nat \ {0} /\ array \in Array
        /\ DOMAIN Table = 1..head.nextBucket - 1 /\ Sound(array, Table, Used)
    BY DEF IInv, Typed, TableInv, HeadOK
  <1>2. Table \in [1..head.nextBucket - 1 -> Slot]
    BY <1>1, TableIs DEF IInv, IsTable
  <1>3. Filled(Table, Used) /\ Linear(array, Table) /\ Unique(Table)
    BY <1>1 DEF Sound
  <1>4. ASSUME NEW b \in DOMAIN Table
        PROVE  /\ b \in Nat /\ 0 < b /\ Table[b].next \in Nat
               /\ Table[b].ents # <<>> /\ Table[b].ents \in Seq(Entry)
               /\ Home(Table[b]) \in 0..HashSize - 1
    <2>1. Table[b] \in Slot /\ Table[b].ents # <<>>
      BY <1>1, <1>2, <1>3 DEF Filled
    <2>2. b \in Nat /\ 0 < b
      BY <1>1
    <2> QED BY <2>1, <2>2, HomeType
  <1> QED BY <1>1, <1>2, <1>3, <1>4

\* The entries that an operation looks for.
LEMMA NoEntries ==
    ASSUME NEW s, NEW no, Entries(s, no) = {}
    PROVE  ~HasNo(s, no)
  BY DEF Entries, HasNo

\* A chain is entered at its first bucket ...
LEMMA WalkBegins ==
    ASSUME NEW k \in Nat, NEW t \in [1..k -> Slot], NEW a \in Array,
           NEW no \in Nat, Linear(a, t)
    PROVE  /\ Searched(t, no, a[Hash(no)])
           /\ a[Hash(no)] # 0 => /\ a[Hash(no)] \in DOMAIN t
                                 /\ Home(t[a[Hash(no)]]) = Hash(no)
  <1>1. Hash(no) \in DOMAIN a /\ DOMAIN t = 1..k
    BY HashType DEF Array
  <1>2. Follows(t, Hash(no), 0, a[Hash(no)])
    BY <1>1 DEF Linear
  <1>3. \A b \in DOMAIN t : b \in Nat /\ 0 < b
    BY <1>1
  <1>4. a[Hash(no)] \in Nat
    BY <1>1 DEF Array
  <1> QED BY <1>2, <1>3, <1>4 DEF Follows, Searched

\* ... and followed bucket by bucket.
LEMMA WalkGoesOn ==
    ASSUME NEW k \in Nat, NEW t \in [1..k -> Slot], NEW a \in Array,
           NEW no \in Nat, Linear(a, t),
           NEW c \in 1..k, Home(t[c]) = Hash(no)
    PROVE  /\ Searched(t, no, c) /\ ~HasNo(t[c], no) => Searched(t, no, t[c].next)
           /\ t[c].next # 0 => /\ t[c].next \in DOMAIN t
                               /\ Home(t[t[c].next]) = Hash(no)
  <1>1. DOMAIN t = 1..k /\ t[c].next \in Nat
    BY DEF Slot
  <1>2. Follows(t, Hash(no), c, t[c].next)
    BY <1>1 DEF Linear
  <1>3. ASSUME Searched(t, no, c), ~HasNo(t[c], no) PROVE Searched(t, no, t[c].next)
    <2> SUFFICES ASSUME NEW b \in 1..k, Home(t[b]) = Hash(no),
                        t[c].next = 0 \/ b < t[c].next
                 PROVE  ~HasNo(t[b], no)
      BY <1>1 DEF Searched
    <2>1. ~(c < b)
      BY <1>1, <1>2 DEF Follows
    <2>2. b = c \/ b < c
      BY <2>1
    <2> QED BY <2>2, <1>1, <1>3 DEF Searched
  <1> QED BY <1>2, <1>3 DEF Follows

-----------------------------------------------------------------------------
\* Steps that leave the index alone.

Index == <<head, array, mem, dirty, saved, bucket>>

\* A step that leaves the index alone keeps the invariant.
LEMMA SameIndex ==
    ASSUME IInv, UNCHANGED Index,
           mode' \in Modes, pc' \in Pcs, OpOK(op'), Control', WalkInv',
           mode' = mode \/ (~HasShadow /\ ~HasShadow' /\ mode' # "shadow"),
           Unmarked => Unmarked', HasShadow => Used' = Used
    PROVE  IInv'
  <1>1. Table' = Table
    BY DEF Index, Table
  <1>2. Typed'
    BY DEF Index, IInv, Typed
  <1>3. MemInv'
    BY DEF Index, IInv, MemInv, HasShadow
  <1>4. MarkInv'
    BY DEF Index, IInv, MarkInv, HasShadow
  <1>5. DiskInv'
    BY DEF Index, IInv, DiskInv, HasShadow
  <1>6. TableInv'
    BY <1>1 DEF Index, IInv, TableInv, HasShadow
  <1> QED BY <1>2, <1>3, <1>4, <1>5, <1>6 DEF IInv

\* Steps of processes that have no shadow file open.
LEMMA OutsideStep ==
    ASSUME IInv, ~HasShadow, ~HasShadow', UNCHANGED Index,
           mode' \in Modes, pc' = pc \/ pc' = "done",
           op' = op \/ (OpOK(op') /\ op'.kind = "read")
    PROVE  IInv'
  <1>1. pc \in {"idle", "done"} /\ pc' \in {"idle", "done"} /\ op.kind # "write"
    BY DEF IInv, Typed, Control, Pcs, HasShadow
  <1>2. mode' # "shadow" /\ pc' \in Pcs /\ OpOK(op') /\ op'.kind # "write"
    BY <1>1 DEF HasShadow, Pcs, IInv, Typed
  <1>3. Control' /\ WalkInv' /\ ~Unmarked
    BY <1>1, <1>2 DEF Control, WalkInv, HasShadow, Unmarked
  <1> QED BY <1>2, <1>3, SameIndex

\* Opening without a shadow, a dying process and a commit leave the index alone.
LEMMA OutsideActions ==
    ASSUME IInv, \/ OpenDirect \/ OpenRegister \/ Exit \/ StartCommit
                 \/ CommitBlock \/ CommitFails \/ CommitDone
    PROVE  IInv'
  <1>1. /\ ~HasShadow /\ ~HasShadow' /\ UNCHANGED Index /\ UNCHANGED <<pc, op>>
        /\ mode' \in Modes
    <2>1. CASE OpenDirect
      BY <2>1 DEF OpenDirect, Open, HasShadow, Index, diskVars, cfVars, Modes
    <2>2. CASE OpenRegister
      BY <2>2 DEF OpenRegister, Open, HasShadow, Index, diskVars, cfVars, Modes
    <2>3. CASE Exit
      BY <2>3 DEF Exit, HasShadow, Index, diskVars, cfVars, Modes
    <2>4. CASE StartCommit
      BY <2>4 DEF StartCommit, HasShadow, Index, diskVars, cfVars, Modes
    <2>5. CASE CommitBlock
      BY <2>5 DEF CommitBlock, HasShadow, Index, diskVars, cfVars, Modes
    <2>6. CASE CommitFails
      BY <2>6 DEF CommitFails, HasShadow, Index, diskVars, cfVars, Modes
    <2>7. CASE CommitDone
      BY <2>7 DEF CommitDone, HasShadow, Index, diskVars, cfVars, Modes
    <2> QED BY <2>1, <2>2, <2>3, <2>4, <2>5, <2>6, <2>7
  <1> QED BY <1>1, OutsideStep

\* So do reads and writes of a file without a shadow.
LEMMA OutsideCalls ==
    ASSUME IInv,
           \/ \E no \in Reads : ReadDirect(no)
           \/ \E x \in Writes : WriteDirect(x) \/ WriteFails(x)
    PROVE  IInv'
  <1>1. CASE \E no \in Reads : ReadDirect(no)
    <2>1. PICK no \in Reads : ReadDirect(no)
      BY <1>1
    <2>2. no \in Nat
      BY CFileAssumption, BFileAssumption
    <2>3. OpOK(op') /\ op'.kind = "read"
      BY <2>1, <2>2 DEF ReadDirect, OpOK, NoOp
    <2>4. /\ ~HasShadow /\ ~HasShadow' /\ UNCHANGED Index /\ pc' = "done"
          /\ mode' \in Modes
      BY <2>1 DEF ReadDirect, HasShadow, Index, diskVars, cfVars, Modes, Goto
    <2> QED BY <2>3, <2>4, OutsideStep
  <1>2. CASE \E x \in Writes : WriteDirect(x) \/ WriteFails(x)
    <2>1. PICK x \in Writes : WriteDirect(x) \/ WriteFails(x)
      BY <1>2
    <2>2. /\ ~HasShadow /\ ~HasShadow' /\ UNCHANGED Index /\ UNCHANGED <<pc, op>>
          /\ mode' \in Modes
      <3>1. CASE WriteDirect(x)
        BY <3>1 DEF WriteDirect, HasShadow, Index, diskVars, cfVars, Modes
      <3>2. CASE WriteFails(x)
        BY <3>2 DEF WriteFails, HasShadow, Index, diskVars, cfVars, Modes
      <3> QED BY <2>1, <3>1, <3>2
    <2> QED BY <2>2, OutsideStep
  <1> QED BY <1>1, <1>2

\* Calls begin and end.
LEMMA Calls ==
    ASSUME IInv,
           \/ \E no \in Reads : StartRead(no)
           \/ \E x \in Writes : StartWrite(x)
           \/ Return
    PROVE  IInv'
  <1> USE DEF Goto
  <1>1. CASE \E no \in Reads : StartRead(no)
    <2>1. PICK no \in Reads : StartRead(no)
      BY <1>1
    <2>2. no \in Nat
      BY CFileAssumption, BFileAssumption
    <2>3. OpOK(op') /\ op'.kind = "read"
      BY <2>1, <2>2 DEF StartRead, OpOK, NoOp
    <2>4. /\ HasShadow /\ UNCHANGED Index /\ pc = "idle" /\ pc' = "lookup"
          /\ mode' = mode /\ mode \in Modes /\ pc' \in Pcs
      BY <2>1 DEF StartRead, Index, diskVars, cfVars, IInv, Typed, Pcs
    <2>5. Control' /\ WalkInv' /\ ~Unmarked /\ Used' = Used
      BY <2>3, <2>4 DEF Control, WalkInv, HasShadow, Unmarked, Used, Index
    <2> QED BY <2>3, <2>4, <2>5, SameIndex
  <1>2. CASE \E x \in Writes : StartWrite(x)
    <2>1. PICK x \in Writes : StartWrite(x)
      BY <1>2
    <2>2. x[1] \in Nat
      BY CFileAssumption, BFileAssumption
    <2>3. OpOK(op')
      BY <2>1, <2>2 DEF StartWrite, OpOK, NoOp
    <2>4. /\ UNCHANGED Index /\ pc = "idle" /\ pc' = "lookup"
          /\ mode' = mode /\ mode = "shadow" /\ mode \in Modes /\ pc' \in Pcs
      BY <2>1 DEF StartWrite, Index, diskVars, cfVars, IInv, Typed, Pcs
    <2>5. Control' /\ WalkInv' /\ ~Unmarked /\ Used' = Used
      BY <2>3, <2>4 DEF Control, WalkInv, HasShadow, Unmarked, Used, Index
    <2> QED BY <2>3, <2>4, <2>5, SameIndex
  <1>3. CASE Return
    <2>1. OpOK(op') /\ op'.kind = "none"
      BY <1>3 DEF Return, OpOK, NoOp
    <2>2. /\ UNCHANGED Index /\ pc = "done" /\ pc' = "idle"
          /\ mode' = mode /\ mode \in Modes /\ pc' \in Pcs
      BY <1>3 DEF Return, Index, diskVars, bfVars, IInv, Typed, Pcs
    <2>3. Control' /\ WalkInv' /\ ~Unmarked /\ Used' = Used
      BY <2>1, <2>2 DEF Control, WalkInv, Unmarked, Used, Index
    <2> QED BY <2>1, <2>2, <2>3, SameIndex
  <1> QED BY <1>1, <1>2, <1>3

\* What EXCEPT leaves of an operation.
LEMMA OpExcept ==
    ASSUME NEW o, OpOK(o), NEW v, NEW w, w \in {[o EXCEPT !.vno = v], [o EXCEPT !.units = v]}
    PROVE  OpOK(w) /\ w.kind = o.kind /\ w.no = o.no
  <1>1. CASE w = [o EXCEPT !.vno = v]
    BY <1>1 DEF OpOK
  <1>2. CASE w = [o EXCEPT !.units = v]
    BY <1>2 DEF OpOK
  <1> QED BY <1>1, <1>2

\* What cf_new_hash looks at next is on the chain.
LEMMA OnNext ==
    ASSUME IInv, HasShadow, pc = "append", cursor # 0
    PROVE  OnChain(cursor)
  <1>1. head.state = 1 /\ op.no \in Nat
    BY DEF IInv, Control, Typed, OpOK
  <1>2. /\ head.nextBucket - 1 \in Nat /\ array \in Array
        /\ Table \in [1..head.nextBucket - 1 -> Slot] /\ Linear(array, Table)
    BY <1>1, HashTable
  <1>3. CASE prev = 0
    <2>1. cursor = array[Hash(op.no)]
      BY <1>3 DEF IInv, WalkInv
    <2> QED BY <2>1, <1>1, <1>2, WalkBegins DEF OnChain
  <1>4. CASE prev # 0
    <2>1. OnChain(prev) /\ cursor = Table[prev].next
      BY <1>4 DEF IInv, WalkInv
    <2>2. prev \in 1..head.nextBucket - 1 /\ Home(Table[prev]) = Hash(op.no)
      BY <2>1, <1>2 DEF OnChain
    <2> QED BY <2>1, <2>2, <1>1, <1>2, WalkGoesOn DEF OnChain
  <1> QED BY <1>3, <1>4

\* Operations that look up a block or use one that was found.
LEMMA LookupActions ==
    ASSUME IInv, HasShadow, UNCHANGED mode, LookupFlat \/ LookupHash \/ WalkEnd
    PROVE  IInv'
  <1> USE DEF Goto
  <1>0. OpOK(op) /\ mode \in Modes /\ op.no \in Nat
    BY DEF IInv, Typed, OpOK
  <1>1. CASE LookupFlat
    <2>1. OpOK(op') /\ op'.kind = op.kind
      BY <1>0, <1>1, OpExcept DEF LookupFlat
    <2>2. /\ UNCHANGED Index /\ pc = "lookup" /\ pc' \in {"found", "missing"}
          /\ pc' \in Pcs /\ head.state = 2 /\ head'.state = 2
      BY <1>1 DEF LookupFlat, Index, diskVars, cfVars, Pcs
    <2>3. op.kind = "write" => mode = "shadow"
      BY DEF IInv, Control
    <2>4. Control' /\ WalkInv' /\ ~Unmarked /\ Used' = Used
      BY <2>1, <2>2, <2>3 DEF Control, WalkInv, Unmarked, Used, HasShadow, Index
    <2> QED BY <1>0, <2>1, <2>2, <2>4, SameIndex
  <1>2. CASE LookupHash
    <2>1. /\ UNCHANGED Index /\ pc = "lookup" /\ head.state = 1 /\ head'.state = 1
          /\ op.kind = "write" => mode = "shadow"
      BY <1>2 DEF LookupHash, Index, diskVars, IInv, Control
    <2>2. CASE pc' = "found" /\ OpOK(op') /\ op'.kind = op.kind
      <3>1. Control' /\ WalkInv' /\ ~Unmarked /\ Used' = Used /\ pc' \in Pcs
        BY <2>1, <2>2 DEF Control, WalkInv, Unmarked, Used, HasShadow, Index, Pcs
      <3> QED BY <1>0, <2>1, <2>2, <3>1, SameIndex
    <2>3. CASE /\ pc' = "walk" /\ op' = op /\ cursor' = array[Hash(op.no)]
               /\ \A i \in 1..Len(mem) : Entries(mem[i], op.no) = {}
      <3>1. /\ Searched(Table, op.no, cursor')
            /\ cursor' # 0 => OnChain(cursor')
        <4>1. /\ head.nextBucket - 1 \in Nat /\ array \in Array
              /\ Table \in [1..head.nextBucket - 1 -> Slot] /\ Linear(array, Table)
          BY <2>1, HashTable
        <4> QED BY <4>1, <1>0, <2>3, WalkBegins DEF OnChain
      <3>2. \A i \in 1..Len(mem) : ~HasNo(mem[i], op.no)
        BY <2>3, NoEntries
      <3>3. Table' = Table
        BY <2>1 DEF Index, Table
      <3>4. WalkInv'
        <4>1. /\ Searched(Table', op'.no, cursor')
              /\ cursor' # 0 =>
                    cursor' \in DOMAIN Table' /\ Home(Table'[cursor']) = Hash(op'.no)
              /\ \A i \in 1..Len(mem') : ~HasNo(mem'[i], op'.no)
          BY <2>1, <2>3, <3>1, <3>2, <3>3 DEF OnChain, Index
        <4> QED BY <4>1, <2>3 DEF WalkInv, OnChain
      <3>5. Control' /\ ~Unmarked /\ Used' = Used /\ pc' \in Pcs
        BY <2>1, <2>3 DEF Control, Unmarked, Used, HasShadow, Index, Pcs
      <3> QED BY <1>0, <2>1, <2>3, <3>4, <3>5, SameIndex
    <2>4. \/ pc' = "found" /\ OpOK(op') /\ op'.kind = op.kind
          \/ /\ pc' = "walk" /\ op' = op /\ cursor' = array[Hash(op.no)]
             /\ \A i \in 1..Len(mem) : Entries(mem[i], op.no) = {}
      <3>1. CASE \E i \in 1..Len(mem) : Found(VnoIn(mem[i], op.no))
        <4>1. PICK i \in 1..Len(mem) : Found(VnoIn(mem[i], op.no))
          BY <3>1
        <4> QED BY <4>1, <1>0, OpExcept DEF Found
      <3>2. CASE ~\E i \in 1..Len(mem) : Found(VnoIn(mem[i], op.no))
        BY <1>2, <3>2 DEF LookupHash
      <3> QED BY <3>1, <3>2
    <2> QED BY <2>2, <2>3, <2>4
  <1>3. CASE WalkEnd
    <2>1. /\ UNCHANGED Index /\ op' = op /\ pc = "walk" /\ cursor = 0 /\ pc' = "missing"
          /\ pc' \in Pcs /\ head.state = 1 /\ head'.state = 1
          /\ op.kind = "write" => mode = "shadow"
      BY <1>3 DEF WalkEnd, Index, diskVars, cfVars, Pcs, IInv, Control
    <2>2. Table' = Table /\ Searched(Table, op.no, 0)
      BY <2>1 DEF Index, Table, IInv, WalkInv
    <2>3. WalkInv'
      BY <2>1, <2>2 DEF WalkInv
    <2>4. Control' /\ ~Unmarked /\ Used' = Used
      BY <2>1 DEF Control, Unmarked, Used, HasShadow, Index
    <2> QED BY <1>0, <2>1, <2>3, <2>4, SameIndex
  <1> QED BY <1>1, <1>2, <1>3

\* Following the chain through the buckets in memory.
LEMMA WalkMemoryStep ==
    ASSUME IInv, HasShadow, UNCHANGED mode, WalkMemory
    PROVE  IInv'
  <1>1. /\ UNCHANGED Index /\ op' = op /\ pc = "walk" /\ pc' = "walk" /\ pc' \in Pcs
        /\ cursor # 0 /\ InMemory(cursor) /\ cursor' = mem[IndexOf(cursor)].next
        /\ head.state = 1 /\ head'.state = 1 /\ OpOK(op) /\ op.no \in Nat
        /\ op.kind = "write" => mode = "shadow"
        /\ mode' = mode /\ mode \in Modes
    BY DEF WalkMemory, Index, diskVars, cfVars, Pcs, IInv, Control, Typed, OpOK
  <1>2. /\ Searched(Table, op.no, cursor) /\ OnChain(cursor)
        /\ \A i \in 1..Len(mem) : ~HasNo(mem[i], op.no)
    BY <1>1 DEF IInv, WalkInv
  <1>3. /\ head.nextBucket - 1 \in Nat /\ array \in Array
        /\ Table \in [1..head.nextBucket - 1 -> Slot] /\ Linear(array, Table)
    BY <1>1, HashTable
  <1>4. /\ IndexOf(cursor) \in 1..Len(mem)
        /\ Table[cursor] = Image(mem[IndexOf(cursor)])
    BY <1>1, TableIs DEF IInv
  <1>5. cursor' = Table[cursor].next /\ ~HasNo(Table[cursor], op.no)
    BY <1>1, <1>2, <1>4 DEF Image, HasNo
  <1>6. /\ Searched(Table, op.no, cursor')
        /\ cursor' # 0 => OnChain(cursor')
    <2>1. cursor \in 1..head.nextBucket - 1 /\ Home(Table[cursor]) = Hash(op.no)
      BY <1>2, <1>3 DEF OnChain
    <2> QED BY <2>1, <1>1, <1>2, <1>3, <1>5, WalkGoesOn, SMTT(40) DEF OnChain
  <1>7. Table' = Table
    BY <1>1 DEF Index, Table
  <1>8. WalkInv'
    <2>1. /\ Searched(Table', op'.no, cursor')
          /\ cursor' # 0 =>
                cursor' \in DOMAIN Table' /\ Home(Table'[cursor']) = Hash(op'.no)
          /\ \A i \in 1..Len(mem') : ~HasNo(mem'[i], op'.no)
      BY <1>1, <1>2, <1>6, <1>7 DEF OnChain, Index
    <2> QED BY <2>1, <1>1 DEF WalkInv, OnChain
  <1>9. Control' /\ ~Unmarked /\ Used' = Used
    BY <1>1 DEF Control, Unmarked, Used, HasShadow, Index
  <1> QED BY <1>1, <1>8, <1>9, SameIndex

\* Reading and writing the block leaves the index alone.
LEMMA DataActions ==
    ASSUME IInv, HasShadow, UNCHANGED mode,
           ReadShadow \/ ReadRegister \/ WriteShadow \/ FillWhole \/ FillPart
    PROVE  IInv'
  <1> USE DEF Goto
  <1>0. OpOK(op) /\ mode \in Modes
    BY DEF IInv, Typed
  <1>1. OpOK(op') /\ op'.kind = op.kind
    <2>1. op' = op \/ \E v : op' = [op EXCEPT !.units = v]
      BY DEF ReadShadow, ReadRegister, WriteShadow, FillWhole, FillPart
    <2> QED BY <2>1, <1>0, OpExcept
  <1>2. /\ UNCHANGED Index /\ pc' = "done" /\ pc' \in Pcs /\ head' = head
        /\ pc \in {"found", "fill"} \/ (pc = "missing" /\ op.kind = "read")
    <2>1. CASE ReadShadow
      BY <2>1 DEF ReadShadow, Index, diskVars, cfVars, Pcs
    <2>2. CASE ReadRegister
      BY <2>2 DEF ReadRegister, Index, diskVars, cfVars, Pcs
    <2>3. CASE WriteShadow
      BY <2>3 DEF WriteShadow, Index, cfVars, Pcs
    <2>4. CASE FillWhole
      BY <2>4 DEF FillWhole, Index, cfVars, Pcs
    <2>5. CASE FillPart
      BY <2>5 DEF FillPart, Index, Pcs
    <2> QED BY <2>1, <2>2, <2>3, <2>4, <2>5
  <1>3. op.kind = "write" => mode = "shadow"
    BY DEF IInv, Control
  <1>4. Control' /\ WalkInv' /\ ~Unmarked /\ Used' = Used
    BY <1>1, <1>2, <1>3 DEF Control, WalkInv, Unmarked, Used, HasShadow
  <1> QED BY <1>0, <1>1, <1>2, <1>4, SameIndex

\* Looking for the last bucket of a chain, through a bucket in memory.
LEMMA AppendMemoryStep ==
    ASSUME IInv, HasShadow, UNCHANGED mode, AppendMemory
    PROVE  IInv'
  <1>1. /\ UNCHANGED Index /\ op' = op /\ pc = "append" /\ pc' = "append" /\ pc' \in Pcs
        /\ cursor # 0 /\ InMemory(cursor) /\ prev' = cursor
        /\ cursor' = mem[IndexOf(cursor)].next
        /\ head.state = 1 /\ head'.state = 1 /\ OpOK(op) /\ op.no \in Nat
        /\ op.kind = "write" /\ mode = "shadow" /\ mode' = mode /\ mode \in Modes
    BY DEF AppendMemory, Index, diskVars, Pcs, IInv, Control, Typed, OpOK
  <1>2. /\ Searched(Table, op.no, 0) /\ op.vno \in Nat
        /\ head.nextBlock = op.vno + 1 /\ OnChain(cursor)
    BY <1>1, OnNext DEF IInv, WalkInv
  <1>3. cursor' = Table[cursor].next /\ cursor \in InMem(mem)
    <2>1. /\ IndexOf(cursor) \in 1..Len(mem) /\ cursor \in InMem(mem)
          /\ Table[cursor] = Image(mem[IndexOf(cursor)])
      BY <1>1, TableIs DEF IInv
    <2> QED BY <2>1, <1>1 DEF Image
  <1>4. Table' = Table
    BY <1>1 DEF Index, Table
  <1>5. WalkInv'
    <2>1. /\ Searched(Table', op'.no, 0)
          /\ op'.vno \in Nat /\ head'.nextBlock = op'.vno + 1
          /\ prev' # 0 /\ prev' \in InMem(mem')
          /\ prev' \in DOMAIN Table' /\ Home(Table'[prev']) = Hash(op'.no)
          /\ cursor' = Table'[prev'].next
      BY <1>1, <1>2, <1>3, <1>4 DEF OnChain, Index
    <2> QED BY <2>1, <1>1 DEF WalkInv, OnChain
  <1>6. Control' /\ Unmarked' /\ Used' = Used
    BY <1>1 DEF Control, Unmarked, Used, HasShadow, Index
  <1> QED BY <1>1, <1>5, <1>6, SameIndex

-----------------------------------------------------------------------------
\* Steps that change the index.

\* Where the buckets on disk stay in place for a reader.
LEMMA SameDisk ==
    ASSUME IInv, HasShadow, UNCHANGED <<mode, saved>>,
           mode = "shadow" \/ bucket' = bucket
    PROVE  DiskInv'
  <1>1. CASE mode = "shadow"
    BY <1>1 DEF IInv, DiskInv
  <1>2. CASE mode # "shadow"
    BY <1>2 DEF IInv, DiskInv
  <1> QED BY <1>1, <1>2

\* get_bucket of a bucket that is not in memory: the table stays the same.
LEMMA Load ==
    ASSUME IInv, HasShadow, UNCHANGED <<mode, saved>>,
           head.state = 1, cursor \in DOMAIN Table, ~InMemory(cursor),
           AllocBucket(mem, GetBucket(cursor))
    PROVE  /\ Table' = Table /\ MemInv' /\ DiskInv' /\ cursor \in InMem(mem')
           /\ IsTable(bucket') /\ mem' \in Memory /\ dirty' \in BOOLEAN
           /\ dirty \/ ~AllClean(mem) => dirty' \/ ~AllClean(mem')
           /\ \A i \in 1..Len(mem') : \/ mem'[i].ents = Table[cursor].ents
                                      \/ \E j \in 1..Len(mem) : mem'[i] = mem[j]
           /\ mode = "shadow" \/ bucket' = bucket
  <1> DEFINE e == GetBucket(cursor)
  <1>1. /\ IsTable(Table) /\ DOMAIN Table = DOMAIN bucket \cup InMem(mem)
        /\ \A b \in DOMAIN bucket : b \notin InMem(mem) => Table[b] = bucket[b]
        /\ cursor \notin InMem(mem)
    BY TableIs DEF IInv
  <1>2. /\ cursor \in DOMAIN bucket /\ bucket[cursor] \in Slot /\ IsTable(bucket)
        /\ Table[cursor] = bucket[cursor] /\ mem \in Memory /\ dirty \in BOOLEAN
        /\ Once(mem) /\ CleanSame(mem, bucket)
    BY <1>1 DEF IInv, Typed, MemInv, IsTable
  <1>3. e \in Loaded /\ e.this = cursor /\ ~e.dirty /\ Image(e) = bucket[cursor]
    <2>1. cursor \in Nat
      BY HashTable
    <2> QED BY <2>1, <1>2 DEF GetBucket, Loaded, Slot, Image
  <1>4. Same(e, bucket) /\ e.this \notin InMem(mem)
    BY <1>1, <1>2, <1>3 DEF Same
  <1>5. e.ents = Table[cursor].ents
    BY <1>2 DEF GetBucket
  <1> HIDE DEF e
  <1>6. AllocBucket(mem, e)
    BY DEF e
  <1>7. /\ mem' \in Memory /\ dirty' \in BOOLEAN /\ IsTable(bucket')
        /\ Once(mem') /\ CleanSame(mem', bucket') /\ e.this \in InMem(mem')
        /\ IsTable(Table')
        /\ DOMAIN Table' = DOMAIN Table \cup {e.this}
        /\ Table'[e.this] = Image(e)
        /\ \A b \in DOMAIN Table : b # e.this => Table'[b] = Table[b]
        /\ dirty \/ ~AllClean(mem) \/ e.dirty => dirty' \/ ~AllClean(mem')
        /\ AllClean(mem) /\ ~e.dirty =>
              AllClean(mem') /\ bucket' = bucket /\ dirty' = dirty
        /\ \A i \in 1..Len(mem') :
              mem'[i] = e \/ \E j \in 1..Len(mem) : mem'[i] = mem[j]
    BY <1>2, <1>3, <1>4, <1>6, Alloc DEF Table
  <1>8. Table' = Table
    <2>1. DOMAIN Table' = DOMAIN Table /\ \A b \in DOMAIN Table : Table'[b] = Table[b]
      BY <1>2, <1>3, <1>7
    <2>2. /\ Table' = [b \in DOMAIN Table' |-> Table'[b]]
          /\ Table = [b \in DOMAIN Table |-> Table[b]]
      BY <1>1, <1>7 DEF IsTable
    <2> QED BY <2>1, <2>2
  <1>9. /\ ~HasShadow' => mem' = <<>> /\ ~dirty'
        /\ mode' = "overlay" =>
              AllClean(mem') /\ ~dirty' /\ bucket' = bucket
    BY <1>3, <1>7 DEF IInv, MemInv, HasShadow
  <1>10. MemInv'
    BY <1>7, <1>9 DEF MemInv
  <1>11. mode = "shadow" \/ bucket' = bucket
    BY <1>9 DEF HasShadow
  <1>12. DiskInv'
    BY <1>11, SameDisk
  <1> QED BY <1>3, <1>5, <1>7, <1>8, <1>10, <1>11, <1>12

\* Following the chain into a bucket of the file.
LEMMA WalkDiskStep ==
    ASSUME IInv, HasShadow, UNCHANGED mode, WalkDisk
    PROVE  IInv'
  <1> DEFINE e == GetBucket(cursor)
  <1>1. /\ UNCHANGED <<head, array, saved, mode>> /\ pc = "walk" /\ cursor # 0
        /\ ~InMemory(cursor) /\ AllocBucket(mem, e)
        /\ head.state = 1 /\ OpOK(op) /\ op.no \in Nat /\ mode \in Modes
        /\ op.kind = "write" => mode = "shadow"
    BY DEF WalkDisk, IInv, Control, Typed, OpOK
  <1>2. /\ Searched(Table, op.no, cursor) /\ OnChain(cursor)
        /\ \A i \in 1..Len(mem) : ~HasNo(mem[i], op.no)
    BY <1>1 DEF IInv, WalkInv
  <1>3. /\ Table' = Table /\ MemInv' /\ DiskInv'
        /\ IsTable(bucket') /\ mem' \in Memory /\ dirty' \in BOOLEAN
        /\ dirty \/ ~AllClean(mem) => dirty' \/ ~AllClean(mem')
        /\ \A i \in 1..Len(mem') : \/ mem'[i].ents = Table[cursor].ents
                                   \/ \E j \in 1..Len(mem) : mem'[i] = mem[j]
    BY <1>1, <1>2, Load DEF OnChain
  <1>4. e.ents = Table[cursor].ents /\ bucket[cursor].next = Table[cursor].next
    BY <1>1, <1>2, TableIs DEF IInv, OnChain, GetBucket
  <1>5. \/ pc' = "found" /\ OpOK(op') /\ op'.kind = op.kind
        \/ /\ pc' = "walk" /\ op' = op /\ cursor' = Table[cursor].next
           /\ ~HasNo(Table[cursor], op.no)
    <2>1. CASE Entries(e, op.no) # {}
      <3>1. Found(VnoIn(e, op.no))
        BY <2>1 DEF WalkDisk
      <3> QED BY <3>1, <1>1, OpExcept DEF Found, Goto
    <2>2. CASE Entries(e, op.no) = {}
      <3>1. pc' = "walk" /\ op' = op /\ cursor' = Table[cursor].next
        BY <2>2, <1>1, <1>4 DEF WalkDisk
      <3>2. ~HasNo(e, op.no)
        BY <2>2, NoEntries
      <3> QED BY <3>1, <3>2, <1>4 DEF HasNo
    <2> QED BY <2>1, <2>2
  <1> HIDE DEF e
  <1>6. WalkInv'
    <2>1. CASE pc' = "found"
      BY <2>1 DEF WalkInv
    <2>2. CASE pc' = "walk"
      <3>0. op' = op /\ cursor' = Table[cursor].next /\ ~HasNo(Table[cursor], op.no)
        BY <2>2, <1>5
      <3>1. /\ Searched(Table, op.no, cursor')
            /\ cursor' # 0 => OnChain(cursor')
        <4>1. /\ head.nextBucket - 1 \in Nat /\ array \in Array
              /\ Table \in [1..head.nextBucket - 1 -> Slot] /\ Linear(array, Table)
          BY <1>1, HashTable
        <4>2. cursor \in 1..head.nextBucket - 1 /\ Home(Table[cursor]) = Hash(op.no)
          BY <1>2, <4>1 DEF OnChain
        <4> QED BY <3>0, <4>1, <4>2, <1>1, <1>2, WalkGoesOn DEF OnChain
      <3>2. \A i \in 1..Len(mem') : ~HasNo(mem'[i], op.no)
        BY <3>0, <1>2, <1>3 DEF HasNo
      <3>3. /\ Searched(Table', op'.no, cursor')
            /\ cursor' # 0 =>
                  cursor' \in DOMAIN Table' /\ Home(Table'[cursor']) = Hash(op'.no)
            /\ \A i \in 1..Len(mem') : ~HasNo(mem'[i], op'.no)
        BY <3>0, <3>1, <3>2, <1>3 DEF OnChain
      <3> QED BY <3>3, <2>2 DEF WalkInv, OnChain
    <2> QED BY <2>1, <2>2, <1>5
  <1>7. Typed'
    BY <1>1, <1>3, <1>5 DEF IInv, Typed, Pcs
  <1>8. Control'
    BY <1>1, <1>5 DEF Control, HasShadow
  <1>9. MarkInv'
    BY <1>1, <1>3 DEF IInv, MarkInv, Unmarked
  <1>10. TableInv'
    <2>1. Used' = Used
      BY <1>1, <1>5 DEF Used
    <2> QED BY <2>1, <1>1, <1>3 DEF IInv, TableInv, HasShadow
  <1> QED BY <1>3, <1>6, <1>7, <1>8, <1>9, <1>10 DEF IInv

\* A block has its place in the index.
LEMMA Entered ==
    ASSUME IInv, mode = "shadow", UNCHANGED <<mode, saved>>,
           pc' = "fill", OpOK(op'), op'.kind = "write",
           HeadOK(head'), head'.state \in 1..2, array' \in Array,
           IsTable(bucket'), mem' \in Memory, dirty' \in BOOLEAN,
           Once(mem'), CleanSame(mem', bucket'), dirty' \/ ~AllClean(mem'),
           head'.state = 1 => /\ DOMAIN Table' = 1..head'.nextBucket - 1
                              /\ Sound(array', Table', head'.nextBlock)
    PROVE  IInv'
  <1>1. Typed'
    BY DEF IInv, Typed, Pcs
  <1>2. Control'
    BY DEF Control, HasShadow
  <1>3. MemInv'
    BY DEF MemInv, HasShadow
  <1>4. MarkInv' /\ WalkInv'
    BY DEF MarkInv, WalkInv
  <1>5. DiskInv'
    BY SameDisk DEF HasShadow
  <1>6. TableInv'
    BY DEF TableInv, Used
  <1> QED BY <1>1, <1>2, <1>3, <1>4, <1>5, <1>6 DEF IInv

\* UseBlock and the type of a header.
LEMMA UsedBlock ==
    ASSUME NEW h, HeadOK(h)
    PROVE  /\ HeadOK(UseBlock(h)) /\ UseBlock(h).nextBlock = h.nextBlock + 1
           /\ UseBlock(h).state = h.state /\ UseBlock(h).nextBucket = h.nextBucket
  BY DEF HeadOK, UseBlock

\* A new block whose chain is not all in memory.
LEMMA NewOnDiskStep ==
    ASSUME IInv, HasShadow, UNCHANGED mode, NewOnDisk
    PROVE  IInv'
  <1>1. /\ UNCHANGED <<array, mem, dirty, saved, bucket, mode>> /\ mode = "shadow"
        /\ pc = "missing" /\ pc' = "append" /\ pc' \in Pcs /\ head.state = 1
        /\ op.kind = "write" /\ OpOK(op) /\ op' = [op EXCEPT !.vno = head.nextBlock]
        /\ prev' = 0 /\ cursor' = array[Hash(op.no)]
        /\ HeadOK(head) /\ head' = UseBlock(head)
    BY DEF NewOnDisk, NewBlock, diskVars, Goto, Pcs, IInv, Control, Typed
  <1>2. /\ HeadOK(head') /\ head'.nextBlock = head.nextBlock + 1
        /\ head'.state = 1 /\ head'.nextBucket = head.nextBucket
        /\ head.nextBlock \in Nat
    BY <1>1, UsedBlock DEF HeadOK
  <1>3. OpOK(op') /\ op'.kind = "write" /\ op'.no = op.no
    BY <1>1, OpExcept
  <1>4. op'.vno = head.nextBlock
    BY <1>1 DEF OpOK
  <1>5. Table' = Table /\ Searched(Table, op.no, 0)
    BY <1>1 DEF Table, IInv, WalkInv
  <1>6. Typed'
    BY <1>1, <1>2, <1>3 DEF IInv, Typed
  <1>7. Control'
    BY <1>1, <1>2, <1>3 DEF Control, HasShadow
  <1>8. MemInv'
    BY <1>1 DEF IInv, MemInv, HasShadow
  <1>9. MarkInv'
    BY <1>1 DEF MarkInv, Unmarked
  <1>10. DiskInv'
    BY <1>1, SameDisk
  <1>11. TableInv'
    <2>1. Used' = Used
      BY <1>1, <1>4 DEF Used
    <2> QED BY <2>1, <1>1, <1>2, <1>5 DEF IInv, TableInv, HasShadow
  <1>12. WalkInv'
    <2>1. /\ Searched(Table', op'.no, 0) /\ op'.vno \in Nat
          /\ head'.nextBlock = op'.vno + 1 /\ cursor' = array'[Hash(op'.no)]
      BY <1>1, <1>2, <1>3, <1>4, <1>5
    <2> QED BY <2>1, <1>1 DEF WalkInv
  <1> QED BY <1>6, <1>7, <1>8, <1>9, <1>10, <1>11, <1>12 DEF IInv

\* A new entry in a bucket of memory with room for it.
LEMMA NewInMemoryStep ==
    ASSUME IInv, HasShadow, UNCHANGED mode, NewInMemory
    PROVE  IInv' /\ Pairs(Table') = Pairs(Table) \cup {[no |-> op.no, vno |-> head.nextBlock]}
  <1>1. /\ UNCHANGED <<array, dirty, saved, bucket, mode>> /\ mode = "shadow"
        /\ pc = "missing" /\ pc' = "fill" /\ head.state = 1
        /\ op.kind = "write" /\ OpOK(op) /\ op' = [op EXCEPT !.vno = head.nextBlock]
        /\ op.no \in Nat /\ HeadOK(head) /\ head' = UseBlock(head)
        /\ mem \in Memory /\ dirty \in BOOLEAN /\ IsTable(bucket)
        /\ Once(mem) /\ CleanSame(mem, bucket)
    BY DEF NewInMemory, NewBlock, diskVars, Goto, IInv, Control, Typed, MemInv, OpOK
  <1>2. /\ HeadOK(head') /\ head'.nextBlock = head.nextBlock + 1
        /\ head'.state = 1 /\ head'.nextBucket = head.nextBucket
        /\ head.nextBlock \in Nat
    BY <1>1, UsedBlock DEF HeadOK
  <1>3. OpOK(op') /\ op'.kind = "write"
    BY <1>1, OpExcept
  <1>4. PICK i \in 1..Len(mem) :
            /\ ChainOf(mem[i]) = Hash(op.no)
            /\ mem' = [mem EXCEPT ![i] = Added(@, op.no, head.nextBlock)]
    BY DEF NewInMemory, HasRoom
  <1> DEFINE x == [no |-> op.no, vno |-> head.nextBlock]
             b == mem[i].this
  <1>5. x \in Entry /\ x.no = op.no /\ x.vno = head.nextBlock
    BY <1>1, <1>2 DEF Entry
  <1>6. /\ mem[i] \in Loaded /\ mem[i].ents \in Seq(Entry)
        /\ Append(mem[i].ents, x) \in Seq(Entry)
    BY <1>1, <1>5, LoadedType
  <1>7. /\ Added(mem[i], op.no, head.nextBlock) \in Loaded
        /\ Added(mem[i], op.no, head.nextBlock).this = b
        /\ Added(mem[i], op.no, head.nextBlock).ents = Append(mem[i].ents, x)
        /\ Added(mem[i], op.no, head.nextBlock).next = mem[i].next
        /\ Added(mem[i], op.no, head.nextBlock).dirty
    BY <1>6 DEF Added, Loaded
  <1> HIDE DEF x, b
  <1>8. /\ mem' \in Memory /\ Len(mem') = Len(mem)
        /\ mem'[i] = Added(mem[i], op.no, head.nextBlock)
        /\ \A j \in 1..Len(mem) : j # i => mem'[j] = mem[j]
    BY <1>1, <1>4, <1>7 DEF Memory
  <1>9. \A j \in 1..Len(mem) : mem'[j].this = mem[j].this
    BY <1>7, <1>8 DEF b
  <1>10. Once(mem') /\ CleanSame(mem', bucket') /\ ~AllClean(mem')
    <2>1. Once(mem')
      BY <1>1, <1>8, <1>9 DEF Once
    <2>2. CleanSame(mem', bucket')
      BY <1>1, <1>7, <1>8 DEF CleanSame
    <2>3. ~AllClean(mem')
      BY <1>7, <1>8 DEF AllClean
    <2> QED BY <2>1, <2>2, <2>3
  <1>11. PICK u, w : u = Table' /\ w = mem'
    OBVIOUS
  <1>12. /\ IsTable(u) /\ DOMAIN u = DOMAIN bucket \cup InMem(w)
         /\ \A j \in 1..Len(w) : u[w[j].this] = Image(w[j])
         /\ \A c \in DOMAIN bucket : c \notin InMem(w) => u[c] = bucket[c]
    <2>1. u = View(w, bucket) /\ w \in Memory /\ Once(w)
      BY <1>1, <1>8, <1>10, <1>11 DEF Table
    <2> QED BY <2>1, <1>1, ViewIs
  <1>13. /\ IsTable(Table) /\ DOMAIN Table = DOMAIN bucket \cup InMem(mem)
         /\ \A j \in 1..Len(mem) : Table[mem[j].this] = Image(mem[j])
         /\ \A c \in DOMAIN bucket : c \notin InMem(mem) => Table[c] = bucket[c]
    BY TableIs DEF IInv
  <1>14. InMem(w) = InMem(mem)
    BY <1>8, <1>9, <1>11 DEF InMem
  <1>15. /\ DOMAIN u = DOMAIN Table /\ b \in DOMAIN Table
         /\ u[b].ents = Append(Table[b].ents, x) /\ u[b].next = Table[b].next
         /\ ChainOf(mem[i]) = Home(Table[b])
    <2>1. b \in InMem(mem) /\ Table[b] = Image(mem[i])
      BY <1>13 DEF b, InMem
    <2>2. u[b] = Image(mem'[i])
      BY <1>8, <1>9, <1>11, <1>12 DEF b
    <2> QED BY <2>1, <2>2, <1>7, <1>8, <1>12, <1>13, <1>14 DEF Image, ChainOf, Home
  <1>16. ASSUME NEW c \in DOMAIN Table, c # b PROVE u[c] = Table[c]
    <2>1. CASE c \in InMem(mem)
      <3>1. PICK j \in 1..Len(mem) : c = mem[j].this
        BY <2>1 DEF InMem
      <3>2. j # i /\ w[j] = mem[j] /\ j \in 1..Len(w)
        BY <3>1, <1>8, <1>11, <1>16 DEF b
      <3> QED BY <3>1, <3>2, <1>12, <1>13
    <2>2. CASE c \notin InMem(mem)
      BY <2>2, <1>12, <1>13, <1>14, <1>16
    <2> QED BY <2>1, <2>2
  <1>17. DOMAIN u = 1..head.nextBucket - 1 /\ Sound(array, u, head.nextBlock + 1)
    <2>1. /\ head.nextBucket \in Nat \ {0} /\ array \in Array
          /\ Table \in [1..head.nextBucket - 1 -> Slot]
          /\ DOMAIN Table = 1..head.nextBucket - 1
          /\ Sound(array, Table, Used)
      BY <1>1, HashTable
    <2>2. Used = x.vno /\ Searched(Table, x.no, 0)
      BY <1>1, <1>5 DEF Used, IInv, WalkInv
    <2>3. u \in [1..head.nextBucket - 1 -> Slot]
      BY <2>1, <1>12, <1>15 DEF IsTable
    <2>4. Sound(array, Table, x.vno)
      BY <2>1, <2>2
    <2>5. b \in 1..head.nextBucket - 1 /\ Home(Table[b]) = Hash(x.no)
      BY <2>1, <1>4, <1>5, <1>15
    <2>6. \A c \in 1..head.nextBucket - 1 : c # b => u[c] = Table[c]
      BY <2>1, <1>16
    <2>7. Sound(array, u, x.vno + 1)
      BY <2>1, <2>2, <2>3, <2>4, <2>5, <2>6, <1>5, <1>15, AddEntry
    <2> QED BY <2>1, <2>7, <1>5, <1>15
  <1>18. /\ DOMAIN Table' = 1..head'.nextBucket - 1
         /\ Sound(array', Table', head'.nextBlock)
    BY <1>1, <1>2, <1>11, <1>17
  <1>19. IInv'
    BY <1>1, <1>2, <1>3, <1>8, <1>10, <1>18, Entered DEF IInv, Typed
  <1>20. Pairs(u) = Pairs(Table) \cup {x}
    <2>1. DOMAIN u = DOMAIN Table \cup {b} /\ \A c \in DOMAIN Table : c # b => u[c] = Table[c]
      BY <1>15, <1>16
    <2>2. Table[b].ents \in Seq(Entry)
      BY <1>13, <1>15 DEF IsTable, Slot
    <2>3. Range(u[b].ents) = {x} \cup Range(Table[b].ents)
      <3>1. Range(Append(Table[b].ents, x)) = {x} \cup Range(Table[b].ents)
        BY <2>2, <1>5, RangeOfAppend
      <3>2. u[b].ents = Append(Table[b].ents, x)
        BY <1>15
      <3> QED BY ONLY <3>1, <3>2, Zenon
    <2> HIDE DEF b
    <2>4. b \in DOMAIN Table
      BY <1>15
    <2>5. Gains(Table, u, b, x)
      BY ONLY <2>1, <2>3, <2>4 DEF Gains
    <2> QED BY ONLY <2>5, PairAdded
  <1> QED BY <1>11, <1>19, <1>20 DEF x

\* A new entry in the last bucket of a chain, which may be in the file.
LEMMA AppendDiskStep ==
    ASSUME IInv, HasShadow, UNCHANGED mode, AppendDisk
    PROVE  /\ IInv'
           /\ \/ pc' = "append" /\ Table' = Table
              \/ pc' = "fill" /\ Pairs(Table') = Pairs(Table) \cup {[no |-> op.no, vno |-> op.vno]}
  <1> USE DEF Goto
  <1> DEFINE e == GetBucket(cursor)
  <1>1. /\ UNCHANGED <<head, array, saved, op, mode>> /\ pc = "append" /\ cursor # 0
        /\ ~InMemory(cursor) /\ mode = "shadow" /\ mode \in Modes /\ op.kind = "write"
        /\ head.state = 1 /\ OpOK(op) /\ op.no \in Nat /\ array \in Array
        /\ HeadOK(head) /\ mem \in Memory /\ dirty \in BOOLEAN /\ IsTable(bucket)
        /\ Once(mem) /\ CleanSame(mem, bucket)
    BY DEF AppendDisk, IInv, Control, Typed, OpOK, MemInv
  <1>2. /\ Searched(Table, op.no, 0) /\ OnChain(cursor) /\ op.vno \in Nat
        /\ head.nextBlock = op.vno + 1
    BY <1>1, OnNext DEF IInv, WalkInv
  <1>3. /\ IsTable(Table) /\ DOMAIN Table = DOMAIN bucket \cup InMem(mem)
        /\ cursor \in DOMAIN bucket /\ cursor \notin InMem(mem)
        /\ Table[cursor] = bucket[cursor] /\ bucket[cursor] \in Slot
    BY <1>1, <1>2, TableIs DEF IInv, OnChain, IsTable
  <1>4. /\ head.nextBucket \in Nat \ {0}
        /\ Table \in [1..head.nextBucket - 1 -> Slot]
        /\ DOMAIN Table = 1..head.nextBucket - 1
        /\ Sound(array, Table, op.vno)
    BY <1>1, HashTable DEF Used
  <1>5. CASE AllocBucket(mem, e) /\ cursor' = e.next /\ prev' = cursor /\ pc' = pc
    <2>1. /\ Table' = Table /\ MemInv' /\ DiskInv' /\ cursor \in InMem(mem')
          /\ IsTable(bucket') /\ mem' \in Memory /\ dirty' \in BOOLEAN
      BY <1>1, <1>2, <1>5, Load DEF OnChain
    <2>2. cursor' = Table[cursor].next
      BY <1>3, <1>5 DEF GetBucket
    <2>3. Typed'
      BY <1>1, <1>5, <2>1 DEF IInv, Typed, Pcs
    <2>4. Control' /\ MarkInv'
      BY <1>1, <1>5 DEF Control, HasShadow, MarkInv, Unmarked
    <2>5. TableInv'
      BY <1>1, <1>5, <2>1 DEF IInv, TableInv, HasShadow, Used
    <2>6. WalkInv'
      <3>1. /\ Searched(Table', op'.no, 0)
            /\ op'.vno \in Nat /\ head'.nextBlock = op'.vno + 1
            /\ prev' # 0 /\ prev' \in InMem(mem')
            /\ prev' \in DOMAIN Table' /\ Home(Table'[prev']) = Hash(op'.no)
            /\ cursor' = Table'[prev'].next
        BY <1>1, <1>2, <1>5, <2>1, <2>2 DEF OnChain
      <3> QED BY <3>1, <1>1, <1>5 DEF WalkInv, OnChain
    <2> QED BY <1>1, <1>5, <2>1, <2>3, <2>4, <2>5, <2>6 DEF IInv
  <1>6. CASE AllocBucket(mem, Added(e, op.no, op.vno)) /\ pc' = "fill"
    <2> DEFINE x == [no |-> op.no, vno |-> op.vno]
               f == Added(e, op.no, op.vno)
    <2>1. x \in Entry /\ x.no = op.no /\ x.vno = op.vno
      BY <1>1, <1>2 DEF Entry
    <2>2. /\ f \in Loaded /\ f.this = cursor /\ f.dirty
          /\ f.ents = Append(Table[cursor].ents, x) /\ f.next = Table[cursor].next
      <3>1. cursor \in Nat
        BY <1>3, <1>4
      <3>2. bucket[cursor].ents \in Seq(Entry) /\ bucket[cursor].next \in Nat
        BY <1>3 DEF Slot
      <3>3. Append(bucket[cursor].ents, x) \in Seq(Entry)
        BY <2>1, <3>2
      <3> QED BY <3>1, <3>2, <3>3, <1>3 DEF GetBucket, Added, Loaded
    <2> HIDE DEF x, f
    <2>3. AllocBucket(mem, f)
      BY <1>6 DEF f
    <2>4. /\ mem' \in Memory /\ dirty' \in BOOLEAN /\ IsTable(bucket')
          /\ Once(mem') /\ CleanSame(mem', bucket')
          /\ IsTable(Table')
          /\ DOMAIN Table' = DOMAIN Table \cup {f.this}
          /\ Table'[f.this] = Image(f)
          /\ \A b \in DOMAIN Table : b # f.this => Table'[b] = Table[b]
          /\ dirty' \/ ~AllClean(mem')
      BY <1>1, <1>3, <2>2, <2>3, Alloc DEF Table
    <2>5. PICK u : u = Table'
      OBVIOUS
    <2>6. Sound(array, u, x.vno + 1) /\ DOMAIN u = DOMAIN Table
      <3>1. u \in [1..head.nextBucket - 1 -> Slot]
        BY <1>3, <1>4, <2>2, <2>4, <2>5 DEF IsTable
      <3>2. /\ u[cursor].ents = Append(Table[cursor].ents, x)
            /\ u[cursor].next = Table[cursor].next
            /\ \A c \in 1..head.nextBucket - 1 : c # cursor => u[c] = Table[c]
        BY <1>4, <2>2, <2>4, <2>5, SMTT(40) DEF Image
      <3>3. /\ cursor \in 1..head.nextBucket - 1 /\ Home(Table[cursor]) = Hash(x.no)
            /\ Searched(Table, x.no, 0) /\ Sound(array, Table, x.vno)
        BY <1>2, <1>4, <2>1 DEF OnChain
      <3>4. Sound(array, u, x.vno + 1)
        BY <1>1, <1>4, <2>1, <3>1, <3>2, <3>3, AddEntry
      <3> QED BY <3>1, <3>4, <1>4
    <2>7. /\ DOMAIN Table' = 1..head'.nextBucket - 1
          /\ Sound(array', Table', head'.nextBlock)
      BY <1>1, <1>2, <1>4, <2>1, <2>5, <2>6
    <2>8. Pairs(u) = Pairs(Table) \cup {x}
      <3>1. /\ DOMAIN u = DOMAIN Table \cup {cursor} /\ cursor \in DOMAIN Table
            /\ \A c \in DOMAIN Table : c # cursor => u[c] = Table[c]
        BY <1>2, <2>2, <2>4, <2>5 DEF OnChain
      <3>2. u[cursor].ents = Append(Table[cursor].ents, x)
        BY <2>2, <2>4, <2>5 DEF Image
      <3>3. Table[cursor].ents \in Seq(Entry)
        BY <1>3, <3>1 DEF IsTable, Slot
      <3>4. Range(u[cursor].ents) = {x} \cup Range(Table[cursor].ents)
        <4>1. Range(Append(Table[cursor].ents, x)) = {x} \cup Range(Table[cursor].ents)
          BY <2>1, <3>3, RangeOfAppend
        <4> QED BY ONLY <3>2, <4>1, Zenon
      <3>5. Gains(Table, u, cursor, x)
        BY ONLY <3>1, <3>4 DEF Gains
      <3> QED BY ONLY <3>5, PairAdded
    <2>9. IInv'
      BY <1>1, <1>6, <2>4, <2>7, Entered
    <2> QED BY <1>6, <2>5, <2>8, <2>9 DEF x
  <1>7. \/ AllocBucket(mem, e) /\ cursor' = e.next /\ prev' = cursor /\ pc' = pc
        \/ AllocBucket(mem, Added(e, op.no, op.vno)) /\ pc' = "fill"
    BY DEF AppendDisk
  <1> QED BY <1>5, <1>6, <1>7

\* The flat index is no business of these proofs.
LEMMA FlatSteps ==
    ASSUME IInv, HasShadow, UNCHANGED mode, NewFlat \/ MoveToFlat
    PROVE  IInv'
  <1>1. /\ mode = "shadow" /\ UNCHANGED <<mode, saved, array>>
        /\ pc = "missing" /\ op.kind = "write" /\ OpOK(op) /\ HeadOK(head)
        /\ array \in Array /\ mem \in Memory /\ IsTable(bucket) /\ dirty \in BOOLEAN
        /\ Once(mem) /\ CleanSame(mem, bucket)
    BY DEF NewFlat, MoveToFlat, NewBlock, IInv, Control, Typed, MemInv
  <1>2. CASE NewFlat
    <2>1. /\ UNCHANGED <<mem, bucket>> /\ dirty' = TRUE /\ pc' = "fill"
          /\ op' = [op EXCEPT !.vno = head.nextBlock]
          /\ head' = UseBlock(WithFlat(head, op.no)) /\ head.state = 2
      BY <1>2 DEF NewFlat, NewBlock, Goto
    <2>2. OpOK(op') /\ op'.kind = "write"
      BY <1>1, <2>1, OpExcept
    <2>3. HeadOK(WithFlat(head, op.no)) /\ WithFlat(head, op.no).state = 2
      BY <1>1, <2>1 DEF WithFlat, HeadOK
    <2>4. HeadOK(head') /\ head'.state = 2
      BY <2>1, <2>3, UsedBlock
    <2> QED BY <1>1, <2>1, <2>2, <2>4, Entered
  <1>3. CASE MoveToFlat
    <2>1. /\ UNCHANGED <<pc, op>> /\ mem' = <<>>
          /\ bucket' = Written(mem, Len(mem))
          /\ dirty' = (dirty \/ DirtyOf(mem, Len(mem)) # {})
          /\ \E v : head' = [head EXCEPT !.state = 2, !.flatBucket = v]
      BY <1>3 DEF MoveToFlat, FlushBuckets
    <2>2. HeadOK(head') /\ head'.state = 2
      BY <1>1, <2>1 DEF HeadOK
    <2>3. IsTable(bucket')
      <3>1. Len(mem) \in 0..Len(mem)
        BY <1>1 DEF Memory
      <3> QED BY <3>1, <1>1, <2>1, WrittenIs
    <2>4. Typed'
      <3>1. mem' \in Memory /\ dirty' \in BOOLEAN
        BY <2>1 DEF Memory
      <3> QED BY <3>1, <1>1, <2>1, <2>2, <2>3 DEF IInv, Typed
    <2>5. Control' /\ MarkInv' /\ TableInv' /\ WalkInv'
      BY <1>1, <2>1, <2>2 DEF Control, MarkInv, Unmarked, TableInv, WalkInv, HasShadow
    <2>6. MemInv'
      <3>1. Once(mem') /\ CleanSame(mem', bucket')
        BY <2>1 DEF Once, CleanSame
      <3> QED BY <3>1, <1>1 DEF MemInv, HasShadow
    <2>7. DiskInv'
      BY <1>1, SameDisk
    <2> QED BY <2>4, <2>5, <2>6, <2>7 DEF IInv
  <1> QED BY <1>2, <1>3

\* The link from the last bucket of a chain to a new one.
LEMMA LinkedIs ==
    ASSUME IInv, prev \in InMem(mem), NEW b \in Nat
    PROVE  /\ Linked(b) \in Memory /\ Once(Linked(b)) /\ CleanSame(Linked(b), bucket)
           /\ InMem(Linked(b)) = InMem(mem) /\ Len(Linked(b)) = Len(mem)
           /\ DOMAIN View(Linked(b), bucket) = DOMAIN Table
           /\ prev \in DOMAIN Table
           /\ View(Linked(b), bucket)[prev].ents = Table[prev].ents
           /\ View(Linked(b), bucket)[prev].next = b
           /\ \A c \in DOMAIN Table :
                 c # prev => View(Linked(b), bucket)[c] = Table[c]
  <1> DEFINE i == IndexOf(prev)
             w == Linked(b)
  <1>1. /\ mem \in Memory /\ IsTable(bucket) /\ Once(mem) /\ CleanSame(mem, bucket)
        /\ i \in 1..Len(mem) /\ mem[i].this = prev
        /\ DOMAIN Table = DOMAIN bucket \cup InMem(mem)
        /\ \A j \in 1..Len(mem) : Table[mem[j].this] = Image(mem[j])
        /\ \A c \in DOMAIN bucket : c \notin InMem(mem) => Table[c] = bucket[c]
    BY TableIs DEF IInv, Typed, MemInv
  <1> HIDE DEF i
  <1>2. mem[i] \in Loaded
    BY <1>1, LoadedType
  <1>3. /\ w \in Memory /\ Len(w) = Len(mem)
        /\ w[i].this = prev /\ w[i].ents = mem[i].ents /\ w[i].next = b /\ w[i].dirty
        /\ \A j \in 1..Len(mem) : j # i => w[j] = mem[j]
    <2> DEFINE l == [[mem[i] EXCEPT !.next = b] EXCEPT !.dirty = TRUE]
    <2>1. /\ l \in Loaded /\ l.this = prev /\ l.ents = mem[i].ents /\ l.next = b
          /\ l.dirty
      BY <1>1, <1>2 DEF Loaded
    <2>2. w = [mem EXCEPT ![i] = l]
      BY <1>1 DEF Linked, i, Memory
    <2> HIDE DEF l, w
    <2> QED BY <1>1, <2>1, <2>2 DEF Memory
  <1> HIDE DEF w
  <1>4. \A j \in 1..Len(mem) : w[j].this = mem[j].this
    BY <1>1, <1>3
  <1>5. Once(w) /\ CleanSame(w, bucket) /\ InMem(w) = InMem(mem)
    <2>1. Once(w)
      BY <1>1, <1>3, <1>4 DEF Once
    <2>2. CleanSame(w, bucket)
      BY <1>1, <1>3 DEF CleanSame
    <2>3. InMem(w) = InMem(mem)
      BY <1>3, <1>4 DEF InMem
    <2> QED BY <2>1, <2>2, <2>3
  <1>6. /\ DOMAIN View(w, bucket) = DOMAIN bucket \cup InMem(w)
        /\ \A j \in 1..Len(w) : View(w, bucket)[w[j].this] = Image(w[j])
        /\ \A c \in DOMAIN bucket : c \notin InMem(w) => View(w, bucket)[c] = bucket[c]
    <2>1. w \in Memory /\ Once(w) /\ IsTable(bucket)
      BY <1>1, <1>3, <1>5
    <2> QED BY ONLY <2>1, ViewIs, ZenonT(40)
  <1>7. /\ prev \in DOMAIN Table
        /\ View(w, bucket)[prev].ents = Table[prev].ents
        /\ View(w, bucket)[prev].next = b
    <2>1. View(w, bucket)[prev] = Image(w[i]) /\ Table[prev] = Image(mem[i])
      BY <1>1, <1>3, <1>6
    <2> QED BY <2>1, <1>1, <1>3 DEF Image
  <1>8. ASSUME NEW c \in DOMAIN Table, c # prev PROVE View(w, bucket)[c] = Table[c]
    <2>1. CASE c \in InMem(mem)
      <3>1. PICK j \in 1..Len(mem) : c = mem[j].this
        BY <2>1 DEF InMem
      <3>2. j # i /\ w[j] = mem[j] /\ j \in 1..Len(w)
        BY <3>1, <1>1, <1>3, <1>8
      <3> QED BY <3>1, <3>2, <1>1, <1>6
    <2>2. CASE c \notin InMem(mem)
      BY <2>2, <1>1, <1>5, <1>6, <1>8
    <2> QED BY <2>1, <2>2
  <1> QED BY <1>1, <1>3, <1>5, <1>6, <1>7, <1>8 DEF w

\* A new entry in a new bucket.
LEMMA NewBucketStep ==
    ASSUME IInv, HasShadow, UNCHANGED mode, NewBucket
    PROVE  IInv' /\ Pairs(Table') = Pairs(Table) \cup {[no |-> op.no, vno |-> op.vno]}
  <1> DEFINE b == head.nextBucket
             x == [no |-> op.no, vno |-> op.vno]
             e == [this |-> b, ents |-> <<x>>, next |-> 0, dirty |-> TRUE]
             m == IF prev = 0 THEN mem ELSE Linked(b)
  <1>1. /\ UNCHANGED <<saved, op, mode>> /\ pc = "append" /\ cursor = 0 /\ pc' = "fill"
        /\ mode = "shadow" /\ op.kind = "write" /\ head.state = 1
        /\ OpOK(op) /\ op.no \in Nat /\ array \in Array /\ HeadOK(head)
        /\ mem \in Memory /\ dirty \in BOOLEAN /\ IsTable(bucket)
        /\ Once(mem) /\ CleanSame(mem, bucket)
        /\ head' = [head EXCEPT !.nextBucket = b + 1]
        /\ array' = IF prev = 0 THEN [array EXCEPT ![Hash(op.no)] = b] ELSE array
        /\ AllocBucket(m, e)
    BY DEF NewBucket, Goto, IInv, Control, Typed, OpOK, MemInv
  <1>2. /\ Searched(Table, op.no, 0) /\ op.vno \in Nat
        /\ head.nextBlock = op.vno + 1
        /\ prev = 0 => array[Hash(op.no)] = 0
        /\ prev # 0 => /\ prev \in InMem(mem) /\ OnChain(prev)
                       /\ Table[prev].next = 0
    BY <1>1 DEF IInv, WalkInv
  <1>3. /\ b \in Nat \ {0} /\ Table \in [1..b - 1 -> Slot]
        /\ DOMAIN Table = 1..b - 1 /\ Sound(array, Table, op.vno)
    BY <1>1, HashTable DEF Used
  <1>4. IsTable(Table) /\ DOMAIN Table = DOMAIN bucket \cup InMem(mem)
    BY TableIs DEF IInv
  <1>5. x \in Entry /\ x.no = op.no /\ x.vno = op.vno
    BY <1>1, <1>2 DEF Entry
  <1>6. /\ e \in Loaded /\ e.this = b /\ e.dirty /\ e.next = 0 /\ e.ents = <<x>>
        /\ <<x>> # <<>>
    <2> HIDE DEF x, b
    <2>1. <<x>> \in Seq(Entry)
      BY <1>5
    <2> QED BY <2>1, <1>3 DEF Loaded
  <1>7. /\ m \in Memory /\ Once(m) /\ CleanSame(m, bucket)
        /\ InMem(m) = InMem(mem) /\ DOMAIN View(m, bucket) = DOMAIN Table
        /\ \A c \in DOMAIN Table :
              /\ View(m, bucket)[c].ents = Table[c].ents
              /\ View(m, bucket)[c].next = IF c = prev THEN b ELSE Table[c].next
    <2>1. CASE prev = 0
      <3>1. \A c \in DOMAIN Table : c # prev
        BY <2>1, <1>3
      <3> QED BY <2>1, <3>1, <1>1 DEF Table
    <2>2. CASE prev # 0
      <3>1. m = Linked(b) /\ prev \in InMem(mem) /\ b \in Nat
        BY <2>2, <1>2, <1>3
      <3> HIDE DEF m, b
      <3>2. /\ m \in Memory /\ Once(m) /\ CleanSame(m, bucket)
            /\ InMem(m) = InMem(mem) /\ DOMAIN View(m, bucket) = DOMAIN Table
            /\ View(m, bucket)[prev].ents = Table[prev].ents
            /\ View(m, bucket)[prev].next = b
            /\ \A c \in DOMAIN Table : c # prev => View(m, bucket)[c] = Table[c]
        BY <3>1, LinkedIs
      <3> QED BY <3>2
    <2> QED BY <2>1, <2>2
  <1> HIDE DEF x, e, m
  <1>8. e.this \notin InMem(m)
    <2>1. InMem(m) \subseteq 1..b - 1 /\ b \notin 1..b - 1
      BY <1>3, <1>4, <1>7
    <2> QED BY <2>1, <1>6
  <1>9. /\ mem' \in Memory /\ dirty' \in BOOLEAN /\ IsTable(bucket')
        /\ Once(mem') /\ CleanSame(mem', bucket')
        /\ IsTable(Table')
        /\ DOMAIN Table' = DOMAIN View(m, bucket) \cup {e.this}
        /\ Table'[e.this] = Image(e)
        /\ \A c \in DOMAIN View(m, bucket) :
              c # e.this => Table'[c] = View(m, bucket)[c]
        /\ dirty' \/ ~AllClean(mem')
    BY <1>1, <1>6, <1>7, <1>8, Alloc DEF Table
  <1>10. HeadOK(head') /\ head'.state = 1 /\ head'.nextBlock = head.nextBlock
         /\ head'.nextBucket = b + 1
    BY <1>1 DEF HeadOK
  <1>11. Hash(op.no) \in 0..HashSize - 1 /\ array' \in Array
    <2>1. Hash(op.no) \in 0..HashSize - 1
      BY <1>1, HashType
    <2> QED BY <2>1, <1>1, <1>3 DEF Array
  <1>12. PICK u, a : u = Table' /\ a = array'
    OBVIOUS
  <1>13. DOMAIN u = 1..b /\ Sound(a, u, x.vno + 1)
    <2>0. \A c \in 1..b - 1 : c # b /\ c \in 1..b
      BY <1>3
    <2>1. DOMAIN u = 1..b /\ u \in [1..b -> Slot]
      <3>1. DOMAIN u = (1..b - 1) \cup {b}
        BY <1>3, <1>6, <1>7, <1>9, <1>12
      <3>2. (1..b - 1) \cup {b} = 1..b
        BY <1>3
      <3> QED BY <3>1, <3>2, <1>9, <1>12 DEF IsTable
    <2>2. u[b].ents = <<x>> /\ u[b].next = 0
      BY <1>6, <1>9, <1>12 DEF Image
    <2>3. \A c \in 1..b - 1 : /\ u[c].ents = Table[c].ents
                              /\ u[c].next = IF c = prev THEN b ELSE Table[c].next
      BY <2>0, <1>3, <1>6, <1>7, <1>9, <1>12
    <2>4. a \in Array /\ \A g \in 0..HashSize - 1 :
             a[g] = IF prev = 0 /\ g = Hash(x.no) THEN b ELSE array[g]
      BY <1>1, <1>5, <1>11, <1>12 DEF Array
    <2>5. /\ prev \in 0..b - 1
          /\ prev = 0 => array[Hash(x.no)] = 0
          /\ prev # 0 => Home(Table[prev]) = Hash(x.no) /\ Table[prev].next = 0
      BY <1>2, <1>3, <1>5 DEF OnChain
    <2>6. Searched(Table, x.no, 0) /\ Sound(array, Table, x.vno)
      BY <1>2, <1>3, <1>5
    <2> HIDE DEF b
    <2>7. Sound(a, u, x.vno + 1)
      <3>1. PICK t, c, p : t = Table /\ c = array /\ p = prev
        OBVIOUS
      <3>2. /\ NewLast(b, c, t, p, x, a, u)
            /\ Sound(c, t, x.vno) /\ Searched(t, x.no, 0)
        BY <1>1, <1>3, <1>5, <2>1, <2>2, <2>3, <2>4, <2>5, <2>6, <3>1 DEF NewLast
      <3> QED BY ONLY <3>2, AddBucket
    <2> QED BY <2>1, <2>7
  <1>14. /\ DOMAIN Table' = 1..head'.nextBucket - 1
         /\ Sound(array', Table', head'.nextBlock)
    <2>1. head'.nextBucket - 1 = b /\ head'.nextBlock = x.vno + 1
      BY <1>2, <1>3, <1>5, <1>10
    <2> QED BY ONLY <2>1, <1>12, <1>13
  <1>15. IInv'
    BY <1>1, <1>9, <1>10, <1>11, <1>14, Entered
  <1>16. Pairs(u) = Pairs(Table) \cup {x}
    <2>1. DOMAIN u = DOMAIN Table \cup {b} /\ b \notin DOMAIN Table
      <3>1. b \notin 1..b - 1
        BY <1>3
      <3> QED BY <3>1, <1>3, <1>6, <1>7, <1>9, <1>12
    <2>2. \A c \in DOMAIN Table : c # b => u[c].ents = Table[c].ents
      BY <1>6, <1>7, <1>9, <1>12
    <2>3. Range(u[b].ents) = {x}
      <3>1. u[b].ents = <<x>>
        BY <1>6, <1>9, <1>12 DEF Image
      <3>2. Range(<<x>>) = {x}
        <4>1. DOMAIN <<x>> = {1} /\ <<x>>[1] = x
          OBVIOUS
        <4> QED BY <4>1 DEF Range
      <3> QED BY <3>1, <3>2
    <2> HIDE DEF b
    <2>4. Gains(Table, u, b, x)
      BY ONLY <2>1, <2>2, <2>3 DEF Gains
    <2> QED BY ONLY <2>4, PairAdded
  <1> QED BY <1>12, <1>15, <1>16 DEF x

-----------------------------------------------------------------------------
\* Opening, closing, removing and losing the shadow file.

\* An index that was just read from disk.
LEMMA Opened ==
    ASSUME IInv, ~HasShadow, mode' \in {"shadow", "overlay"},
           UNCHANGED <<pc, op, bucket, mem, dirty>>, OpenShadow(mode' = "shadow")
    PROVE  IInv'
  <1>1. /\ pc \in {"idle", "done"} /\ op.kind # "write" /\ mem = <<>> /\ ~dirty
        /\ mode # "shadow" /\ IsTable(bucket)
        /\ saved = [head |-> saved.head, array |-> saved.array]
        /\ HeadOK(saved.head) /\ saved.head.state \in 0..2 /\ saved.array \in Array
    BY DEF IInv, Typed, Control, MemInv, HasShadow, Pcs
  <1>2. /\ HeadOK(head') /\ head'.state \in 1..2 /\ array' \in Array
        /\ head'.nextBlock = saved.head.nextBlock
        /\ head'.nextBucket = saved.head.nextBucket
        /\ array' = saved.array
        /\ saved.head.state # 2 => head'.state = 1
        /\ saved.head.state = 2 => head'.state = 2
        /\ saved' = [head |-> head', array |-> array'] \/ (saved' = saved /\ mode' = "overlay")
        /\ saved' = saved \/ saved' = [head |-> head', array |-> array']
    <2>1. CASE saved.head.state = 0
      <3>1. saved = NoShadow
        BY <2>1 DEF IInv, DiskInv
      <3>2. head' = NewHead /\ array' = NoChains
        BY <2>1 DEF OpenShadow
      <3>3. mode' = "shadow" => saved' = [head |-> head', array |-> array']
        BY <2>1 DEF OpenShadow
      <3>4. mode' = "overlay" => saved' = saved
        BY DEF OpenShadow
      <3>5. /\ HeadOK(NewHead) /\ NewHead.state = 1 /\ saved.array = NoChains
            /\ NewHead.nextBlock = saved.head.nextBlock
            /\ NewHead.nextBucket = saved.head.nextBucket
        BY <3>1 DEF NoShadow, NewHead, HeadOK
      <3> QED BY <2>1, <3>2, <3>3, <3>4, <3>5, <1>1
    <2>2. CASE saved.head.state # 0
      <3>1. head' = saved.head /\ array' = saved.array /\ saved' = saved
        BY <2>2 DEF OpenShadow
      <3> QED BY <2>2, <3>1, <1>1
    <2> QED BY <2>1, <2>2
  <1>3. Typed'
    <2>1. /\ saved' = [head |-> saved'.head, array |-> saved'.array]
          /\ HeadOK(saved'.head) /\ saved'.head.state \in 0..2 /\ saved'.array \in Array
      BY <1>1, <1>2
    <2> QED BY <2>1, <1>2 DEF IInv, Typed, Modes
  <1>4. Control' /\ MemInv' /\ WalkInv'
    BY <1>1 DEF IInv, Control, MemInv, WalkInv, HasShadow, AllClean
  <1>5. MarkInv'
    BY <1>2 DEF MarkInv
  <1>6. Table' = bucket
    <2>1. InMem(mem) = {}
      BY <1>1 DEF InMem
    <2>2. Table' = [b \in DOMAIN bucket |-> bucket[b]]
      BY <2>1 DEF Table, View
    <2> QED BY <2>2, <1>1 DEF IsTable
  <1>7. saved.head.state # 2 =>
            /\ DOMAIN bucket = 1..saved.head.nextBucket - 1
            /\ Sound(saved.array, bucket, saved.head.nextBlock)
    BY <1>1 DEF IInv, DiskInv
  <1>8. TableInv'
    <2>1. Used' = head'.nextBlock
      BY <1>1 DEF Used
    <2> QED BY <2>1, <1>2, <1>6, <1>7 DEF TableInv
  <1>9. DiskInv'
    <2>1. CASE mode' = "shadow"
      BY <2>1, <1>2 DEF DiskInv
    <2>2. CASE mode' = "overlay" /\ saved' = saved
      BY <2>2, <1>1, <1>7 DEF IInv, DiskInv
    <2>3. CASE mode' = "overlay" /\ saved' = [head |-> head', array |-> array']
      BY <2>3, <1>2, <1>7 DEF DiskInv
    <2> QED BY <2>1, <2>2, <2>3, <1>2
  <1> QED BY <1>3, <1>4, <1>5, <1>8, <1>9 DEF IInv

\* mf_reset of the shadow area leaves no index.
LEMMA Removed ==
    ASSUME RemoveShadow
    PROVE  /\ HeadOK(saved'.head) /\ saved'.head.state \in 0..2 /\ saved'.array \in Array
           /\ saved' = [head |-> saved'.head, array |-> saved'.array]
           /\ saved' = NoShadow /\ IsTable(bucket')
           /\ DOMAIN bucket' = 1..saved'.head.nextBucket - 1
           /\ Sound(saved'.array, bucket', saved'.head.nextBlock)
  <1>1. bucket' = <<>> /\ DOMAIN bucket' = {} /\ saved' = NoShadow
    BY DEF RemoveShadow
  <1>2. /\ NoShadow.head.state = 0 /\ NoShadow.head.nextBlock = 1
        /\ NoShadow.head.nextBucket = 1 /\ NoShadow.array = NoChains
        /\ HeadOK(NoShadow.head)
        /\ NoShadow = [head |-> NoShadow.head, array |-> NoShadow.array]
    BY DEF NoShadow, NewHead, HeadOK
  <1>3. NoChains \in Array /\ \A h \in 0..HashSize - 1 : NoChains[h] = 0
    BY DEF NoChains, Array
  <1>4. IsTable(bucket')
    BY <1>1 DEF IsTable
  <1>5. Sound(NoChains, bucket', 1)
    <2>1. Filled(bucket', 1) /\ Unique(bucket')
      BY <1>1 DEF Filled, Unique
    <2>2. Linear(NoChains, bucket')
      BY <1>1, <1>3 DEF Linear, Follows, Array
    <2> QED BY <2>1, <2>2 DEF Sound
  <1> QED BY <1>1, <1>2, <1>3, <1>4, <1>5

\* Without a shadow file open.
LEMMA Nobody ==
    ASSUME mode' \in Modes, ~HasShadow', mode' # "shadow",
           pc' \in {"idle", "done"}, OpOK(op'), op'.kind # "write",
           HeadOK(head'), head'.state \in 1..2, array' \in Array,
           mem' = <<>>, dirty' = FALSE,
           saved' = [head |-> saved'.head, array |-> saved'.array],
           HeadOK(saved'.head), saved'.head.state \in 0..2, saved'.array \in Array,
           saved'.head.state = 0 => saved' = NoShadow, IsTable(bucket'),
           saved'.head.state # 2 =>
               /\ DOMAIN bucket' = 1..saved'.head.nextBucket - 1
               /\ Sound(saved'.array, bucket', saved'.head.nextBlock)
    PROVE  IInv'
  <1>1. Typed'
    <2>1. mem' \in Memory /\ pc' \in Pcs
      BY DEF Memory, Pcs
    <2>2. dirty' \in BOOLEAN
      BY Zenon
    <2> QED BY <2>1, <2>2, Zenon DEF Typed
  <1>2. Control' /\ WalkInv' /\ MarkInv' /\ TableInv' /\ DiskInv'
    BY DEF Control, WalkInv, MarkInv, TableInv, DiskInv, HasShadow
  <1>3. MemInv'
    BY DEF MemInv, HasShadow, Once, CleanSame
  <1> QED BY <1>1, <1>2, <1>3 DEF IInv

\* Freeing a shadow leaves a header and an array that are in order.
LEMMA Freed ==
    ASSUME FreeShadow
    PROVE  /\ HeadOK(head') /\ head'.state \in 1..2 /\ array' \in Array
           /\ mem' = <<>> /\ dirty' = FALSE
  BY DEF FreeShadow, NewHead, HeadOK, NoChains, Array

\* Removing the shadow removes its index with it.
LEMMA RemoveActions ==
    ASSUME IInv, Reset \/ Clean \/ Discard
    PROVE  IInv'
  <1>1. /\ RemoveShadow /\ UNCHANGED <<cfVars, pc, op>> /\ ~HasShadow /\ ~HasShadow'
        /\ mode' \in Modes /\ mode' # "shadow"
    BY DEF Reset, Clean, Discard, HasShadow, Modes
  <1>2. /\ pc \in {"idle", "done"} /\ op.kind # "write" /\ OpOK(op)
        /\ mem = <<>> /\ dirty = FALSE
        /\ HeadOK(head) /\ head.state \in 1..2 /\ array \in Array
    BY <1>1 DEF IInv, Typed, Control, MemInv, HasShadow, Pcs
  <1>3. UNCHANGED <<pc, op, mem, dirty, head, array>>
    BY <1>1 DEF cfVars
  <1> QED BY <1>1, <1>2, <1>3, Removed, Nobody

\* Opening a shadow reads its index from the file.
LEMMA OpenActions ==
    ASSUME IInv, OpenUpdate \/ OpenOverlay
    PROVE  IInv'
  <1>1. CASE OpenUpdate
    <2>1. /\ ~HasShadow /\ mode' = "shadow" /\ UNCHANGED <<pc, op, bucket, mem, dirty>>
          /\ OpenShadow(TRUE)
      BY <1>1 DEF OpenUpdate, Open, OpenShadow, HasShadow
    <2>2. OpenShadow(mode' = "shadow")
      BY <2>1 DEF OpenShadow
    <2> QED BY <2>1, <2>2, Opened
  <1>2. CASE OpenOverlay
    <2>1. /\ ~HasShadow /\ mode' = "overlay" /\ UNCHANGED <<pc, op, bucket, mem, dirty>>
          /\ OpenShadow(FALSE)
      BY <1>2 DEF OpenOverlay, Open, OpenShadow, HasShadow
    <2>2. OpenShadow(mode' = "shadow")
      BY <2>1 DEF OpenShadow
    <2> QED BY <2>1, <2>2, Opened
  <1> QED BY <1>1, <1>2

\* When all buckets are written the table is on disk.
LEMMA Flushed ==
    ASSUME IInv
    PROVE  Written(mem, Len(mem)) = Table
  <1> DEFINE n == Len(mem)
             d == Written(mem, n)
  <1>1. /\ mem \in Memory /\ IsTable(bucket) /\ Once(mem) /\ CleanSame(mem, bucket)
        /\ n \in 0..n
    BY DEF IInv, Typed, MemInv, Memory
  <1>2. /\ IsTable(d) /\ DOMAIN bucket \subseteq DOMAIN d
        /\ DOMAIN d \subseteq DOMAIN bucket \cup InMem(mem)
        /\ \A i \in 1..n : Same(mem[i], d)
        /\ \A b \in DOMAIN bucket : b \notin InMem(mem) => d[b] = bucket[b]
    BY <1>1, WrittenIs
  <1> HIDE DEF d
  <1>3. /\ IsTable(Table) /\ DOMAIN Table = DOMAIN bucket \cup InMem(mem)
        /\ \A i \in 1..n : Table[mem[i].this] = Image(mem[i])
        /\ \A b \in DOMAIN bucket : b \notin InMem(mem) => Table[b] = bucket[b]
    BY TableIs DEF IInv
  <1>4. ASSUME NEW b \in DOMAIN Table
        PROVE  b \in DOMAIN d /\ d[b] = Table[b]
    <2>1. CASE b \in InMem(mem)
      <3>1. PICK i \in 1..n : b = mem[i].this
        BY <2>1 DEF InMem
      <3> QED BY <3>1, <1>2, <1>3 DEF Same
    <2>2. CASE b \notin InMem(mem)
      BY <2>2, <1>2, <1>3
    <2> QED BY <2>1, <2>2
  <1>5. DOMAIN d = DOMAIN Table
    BY <1>2, <1>3, <1>4
  <1>6. /\ d = [b \in DOMAIN d |-> d[b]]
        /\ Table = [b \in DOMAIN Table |-> Table[b]]
    BY <1>2, <1>3 DEF IsTable
  <1>7. d = Table
    BY <1>4, <1>5, <1>6
  <1> QED BY <1>7 DEF d

\* cf_close writes what is in memory, so that the table is on disk.
LEMMA CloseStep ==
    ASSUME IInv, Close
    PROVE  IInv'
  <1>1. /\ pc = "idle" /\ pc' = pc /\ op' = op /\ mode' = "closed" /\ OpOK(op)
        /\ op.kind # "write" /\ ~HasShadow'
    BY DEF Close, IInv, Control, Typed, HasShadow
  <1>2. CASE ~HasShadow
    BY <1>1, <1>2, OutsideStep DEF Close, Index, diskVars, cfVars, Modes
  <1>3. CASE HasShadow
    <2>1. CloseShadow
      BY <1>3 DEF Close
    <2>2. /\ mem \in Memory /\ IsTable(bucket) /\ Once(mem) /\ CleanSame(mem, bucket)
          /\ HeadOK(head) /\ head.state \in 1..2 /\ array \in Array
          /\ saved = [head |-> saved.head, array |-> saved.array]
          /\ HeadOK(saved.head) /\ saved.head.state \in 0..2 /\ saved.array \in Array
      BY DEF IInv, Typed, MemInv
    <2>3. Len(mem) \in 0..Len(mem)
      BY <2>2 DEF Memory
    <2> DEFINE n == Len(mem)
    <2>4. /\ bucket' = Written(mem, n)
          /\ saved' = IF dirty \/ DirtyOf(mem, n) # {}
                      THEN [head |-> head, array |-> array] ELSE saved
          /\ FreeShadow
      BY <2>1 DEF CloseShadow
    <2>5. /\ IsTable(bucket') /\ DOMAIN bucket \subseteq DOMAIN bucket'
          /\ DOMAIN bucket' \subseteq DOMAIN bucket \cup InMem(mem)
          /\ \A i \in 1..n : Same(mem[i], bucket')
          /\ \A b \in DOMAIN bucket : b \notin InMem(mem) => bucket'[b] = bucket[b]
          /\ DirtyOf(mem, n) = {} => bucket' = bucket
          /\ DirtyOf(mem, n) # {} <=> ~AllClean(mem)
      <3>1. DirtyOf(mem, n) # {} <=> \E i \in 1..n : mem[i].dirty
        BY <2>2, <2>3, WrittenIs
      <3>2. DirtyOf(mem, n) # {} <=> ~AllClean(mem)
        BY <3>1 DEF AllClean
      <3> QED BY <2>2, <2>3, <2>4, <3>2, WrittenIs
    <2>6. bucket' = Table
      BY <2>4, Flushed
    <2>7. /\ saved' = [head |-> saved'.head, array |-> saved'.array]
          /\ HeadOK(saved'.head) /\ saved'.head.state \in 0..2 /\ saved'.array \in Array
      BY <2>2, <2>4
    <2>8. CASE mode = "shadow"
      <3>1. saved' = [head |-> head, array |-> array]
        <4>1. ~Unmarked
          BY <1>1 DEF Unmarked
        <4>2. dirty \/ ~AllClean(mem) \/ saved = [head |-> head, array |-> array]
          BY <2>8, <4>1 DEF IInv, MarkInv
        <4> QED BY <4>2, <2>4, <2>5
      <3>2. saved'.head = head /\ saved'.array = array
        BY <3>1
      <3>3. head.state = 1 => /\ DOMAIN Table = 1..head.nextBucket - 1
                              /\ Sound(array, Table, head.nextBlock)
        BY <1>1, <1>3 DEF IInv, TableInv, Used
      <3>4. saved'.head.state # 0 /\
            (saved'.head.state # 2 =>
               /\ DOMAIN bucket' = 1..saved'.head.nextBucket - 1
               /\ Sound(saved'.array, bucket', saved'.head.nextBlock))
        BY <2>2, <2>6, <3>2, <3>3
      <3> QED BY <1>1, <2>4, <2>5, <2>7, <3>4, Freed, Nobody DEF Modes
    <2>9. CASE mode = "overlay"
      <3>1. AllClean(mem) /\ ~dirty
        BY <2>9 DEF IInv, MemInv
      <3>2. bucket' = bucket /\ saved' = saved
        BY <2>4, <2>5, <3>1
      <3>3. /\ saved.head.state = 0 => saved = NoShadow
            /\ saved.head.state # 2 =>
               /\ DOMAIN bucket = 1..saved.head.nextBucket - 1
               /\ Sound(saved.array, bucket, saved.head.nextBlock)
        BY <2>9 DEF IInv, DiskInv
      <3>4. /\ saved'.head.state = 0 => saved' = NoShadow
            /\ saved'.head.state # 2 =>
               /\ DOMAIN bucket' = 1..saved'.head.nextBucket - 1
               /\ Sound(saved'.array, bucket', saved'.head.nextBlock)
        BY <3>2, <3>3
      <3> QED BY <1>1, <2>4, <2>5, <2>7, <3>4, Freed, Nobody DEF Modes
    <2> QED BY <1>3, <2>8, <2>9 DEF HasShadow
  <1> QED BY <1>2, <1>3

\* A process that is killed leaves the shadow file of a reader as it was.
LEMMA KillStep ==
    ASSUME IInv, Kill
    PROVE  IInv'
  <1>1. /\ FreeShadow /\ mode' = "closed" /\ op' = NoOp /\ pc' = "idle"
        /\ mode = "shadow" => RemoveShadow
        /\ mode # "shadow" => UNCHANGED diskVars
    BY DEF Kill, Goto
  <1>2. OpOK(op') /\ op'.kind # "write" /\ mode' \in Modes /\ ~HasShadow'
    BY <1>1 DEF NoOp, OpOK, Modes, HasShadow
  <1>3. CASE mode = "shadow"
    BY <1>1, <1>2, <1>3, Removed, Freed, Nobody
  <1>4. CASE mode # "shadow"
    <2>1. saved' = saved /\ bucket' = bucket
      BY <1>1, <1>4 DEF diskVars
    <2>2. /\ saved = [head |-> saved.head, array |-> saved.array]
          /\ HeadOK(saved.head) /\ saved.head.state \in 0..2 /\ saved.array \in Array
          /\ saved.head.state = 0 => saved = NoShadow
          /\ saved.head.state # 2 =>
               /\ DOMAIN bucket = 1..saved.head.nextBucket - 1
               /\ Sound(saved.array, bucket, saved.head.nextBlock)
          /\ IsTable(bucket)
      BY <1>4 DEF IInv, Typed, DiskInv
    <2>3. /\ saved' = [head |-> saved'.head, array |-> saved'.array]
          /\ HeadOK(saved'.head) /\ saved'.head.state \in 0..2 /\ saved'.array \in Array
          /\ saved'.head.state = 0 => saved' = NoShadow
          /\ saved'.head.state # 2 =>
               /\ DOMAIN bucket' = 1..saved'.head.nextBucket - 1
               /\ Sound(saved'.array, bucket', saved'.head.nextBlock)
          /\ IsTable(bucket')
      BY <2>1, <2>2
    <2> QED BY <1>1, <1>2, <2>3, Freed, Nobody
  <1> QED BY <1>3, <1>4

-----------------------------------------------------------------------------
\* The theorems.

\* The index of a file without a shadow is empty.
LEMMA InitIInv == ASSUME Init PROVE IInv
  <1>1. /\ head = NewHead /\ array = NoChains /\ mem = <<>> /\ dirty = FALSE
        /\ saved = NoShadow /\ bucket = <<>> /\ pc = "idle" /\ op = NoOp
        /\ mode = "closed"
    BY DEF Init
  <1>2. /\ HeadOK(NewHead) /\ NewHead.state = 1 /\ NoChains \in Array
        /\ \A h \in 0..HashSize - 1 : NoChains[h] = 0
        /\ NoShadow.head.state = 0 /\ NoShadow.head.nextBlock = 1
        /\ NoShadow.head.nextBucket = 1 /\ NoShadow.array = NoChains
        /\ HeadOK(NoShadow.head)
        /\ NoShadow = [head |-> NoShadow.head, array |-> NoShadow.array]
    BY DEF NoShadow, NewHead, HeadOK, NoChains, Array
  <1>3. IsTable(<<>>) /\ <<>> \in Memory /\ DOMAIN <<>> = {}
    BY DEF IsTable, Memory
  <1>4. Sound(NoChains, <<>>, 1)
    BY <1>2, <1>3 DEF Sound, Filled, Unique, Linear, Follows, Array
  <1>5. OpOK(NoOp) /\ NoOp.kind = "none"
    BY DEF OpOK, NoOp
  <1>6. Typed
    <2>1. /\ mode \in Modes /\ pc \in Pcs /\ OpOK(op)
          /\ head.state \in 1..2 /\ saved.head.state \in 0..2
      BY <1>1, <1>2, <1>5 DEF Modes, Pcs
    <2>4. dirty \in BOOLEAN
      BY <1>1, Zenon
    <2>2. HeadOK(head) /\ array \in Array /\ IsTable(bucket) /\ mem \in Memory
      BY <1>1, <1>2, <1>3
    <2>3. /\ saved = [head |-> saved.head, array |-> saved.array]
          /\ HeadOK(saved.head) /\ saved.array \in Array
      BY <1>1, <1>2
    <2> QED BY <2>1, <2>2, <2>3, <2>4, Zenon DEF Typed
  <1>7. Control /\ MemInv /\ MarkInv /\ TableInv /\ WalkInv
    BY <1>1, <1>5 DEF Control, MemInv, MarkInv, TableInv, WalkInv, HasShadow,
                      Once, CleanSame
  <1>8. DiskInv
    BY <1>1, <1>2, <1>3, <1>4 DEF DiskInv
  <1> QED BY <1>6, <1>7, <1>8 DEF IInv

\* Every step keeps the invariant.
LEMMA NextIInv == ASSUME IInv, [Next]_vars PROVE IInv'
  <1>1. CASE UNCHANGED vars
    <2>1. /\ head' = head /\ array' = array /\ mem' = mem /\ dirty' = dirty
          /\ saved' = saved /\ bucket' = bucket /\ mode' = mode /\ pc' = pc
          /\ op' = op /\ cursor' = cursor /\ prev' = prev
      BY <1>1 DEF vars, diskVars, cfVars, bfVars
    <2>2. /\ UNCHANGED Index /\ Table' = Table
      BY <2>1 DEF Index, Table
    <2>3. /\ mode' \in Modes /\ pc' \in Pcs /\ OpOK(op') /\ Control'
          /\ Unmarked' <=> Unmarked
          /\ Used' = Used
      BY <2>1 DEF IInv, Typed, Control, HasShadow, Unmarked, Used
    <2>4. WalkInv'
      <3>1. WalkInv
        BY DEF IInv
      <3> QED BY <2>1, <2>2, <3>1 DEF WalkInv, OnChain
    <2> QED BY <2>1, <2>2, <2>3, <2>4, SameIndex
  <1>2. CASE Next
    <2>1. CASE \/ OpenDirect \/ OpenRegister \/ Exit \/ StartCommit
               \/ CommitBlock \/ CommitFails \/ CommitDone
      BY <2>1, OutsideActions
    <2>2. CASE OpenUpdate \/ OpenOverlay
      BY <2>2, OpenActions
    <2>3. CASE Close
      BY <2>3, CloseStep
    <2>4. CASE Kill
      BY <2>4, KillStep
    <2>5. CASE Reset \/ Clean \/ Discard
      BY <2>5, RemoveActions
    <2>6. CASE \/ \E no \in Reads : ReadDirect(no)
               \/ \E x \in Writes : WriteDirect(x) \/ WriteFails(x)
      BY <2>6, OutsideCalls
    <2>7. CASE \/ \E no \in Reads : StartRead(no)
               \/ \E x \in Writes : StartWrite(x)
               \/ Return
      BY <2>7, Calls
    <2>8. CASE Step
      <3>1. HasShadow /\ UNCHANGED mode /\ CFileStep
        BY <2>8 DEF Step, bfVars
      <3>2. CASE LookupFlat \/ LookupHash \/ WalkEnd
        BY <3>1, <3>2, LookupActions
      <3>3. CASE WalkMemory
        BY <3>1, <3>3, WalkMemoryStep
      <3>4. CASE WalkDisk
        BY <3>1, <3>4, WalkDiskStep
      <3>5. CASE ReadShadow \/ ReadRegister \/ WriteShadow \/ FillWhole \/ FillPart
        BY <3>1, <3>5, DataActions
      <3>6. CASE NewFlat \/ MoveToFlat
        BY <3>1, <3>6, FlatSteps
      <3>7. CASE NewInMemory
        BY <3>1, <3>7, NewInMemoryStep
      <3>8. CASE NewOnDisk
        BY <3>1, <3>8, NewOnDiskStep
      <3>9. CASE AppendMemory
        BY <3>1, <3>9, AppendMemoryStep
      <3>10. CASE AppendDisk
        BY <3>1, <3>10, AppendDiskStep
      <3>11. CASE NewBucket
        BY <3>1, <3>11, NewBucketStep
      <3> QED BY <3>1, <3>2, <3>3, <3>4, <3>5, <3>6, <3>7, <3>8, <3>9, <3>10, <3>11
              DEF CFileStep, LookupStep, NewStep
    <2> QED BY <1>2, <2>1, <2>2, <2>3, <2>4, <2>5, <2>6, <2>7, <2>8 DEF Next
  <1> QED BY <1>1, <1>2

\* IInv holds for every size of the buckets, of the hash table and of the memory
\* for buckets: cf_lookup, cf_new_hash, alloc_bucket, flush_bucket, cf_close.
THEOREM Invariance == Spec => []IInv
  <1>1. Init => IInv
    BY InitIInv
  <1>2. IInv /\ [Next]_vars => IInv'
    BY NextIInv
  <1> QED BY <1>1, <1>2, PTL DEF Spec

\* A set that has the first bucket of a chain and the next of each has all of
\* the chain: if not, take the last bucket that it has before one it has not.
LEMMA ChainHas ==
    ASSUME IInv, HasShadow, head.state = 1, NEW b \in Known,
           NEW S \in SUBSET Known, Reaches(S, Home(Table[b]))
    PROVE  b \in S
  <1> DEFINE h == Home(Table[b])
             T == {c \in S : Home(Table[c]) = h /\ c < b}
  <1>1. /\ Known = DOMAIN Table /\ \A c \in Known : Current(c).next = Table[c].next
    BY TableIs DEF IInv
  <1>2. /\ array \in Array /\ Linear(array, Table)
        /\ \A c \in DOMAIN Table : c \in Nat /\ 0 < c /\ Table[c].next \in Nat
        /\ h \in 0..HashSize - 1
    BY <1>1, HashTable
  <1>3. array[h] \in S \cup {0} /\ \A c \in S : Table[c].next \in S \cup {0}
    BY <1>1 DEF Reaches
  <1>4. Follows(Table, h, 0, array[h]) /\ array[h] \in Nat
    BY <1>2 DEF Linear, Array
  <1>5. \A c \in S : Home(Table[c]) = h => Follows(Table, h, c, Table[c].next)
    BY <1>1, <1>2 DEF Linear
  <1> SUFFICES ASSUME b \notin S PROVE FALSE
    OBVIOUS
  <1>6. array[h] \in T
    BY <1>1, <1>2, <1>3, <1>4 DEF Follows
  <1>7. b \in Nat /\ T \in SUBSET (0..b)
    BY <1>1, <1>2
  <1>8. PICK c \in T : \A d \in T : d <= c
    BY <1>6, <1>7, Greatest
  <1>9. Table[c].next \in T /\ c < Table[c].next /\ c \in Nat /\ Table[c].next \in Nat
    <2>1. /\ c \in S /\ Home(Table[c]) = h /\ c < b /\ c \in Nat /\ Table[c].next \in Nat
          /\ Follows(Table, h, c, Table[c].next)
      BY <1>1, <1>2, <1>5, <1>8
    <2>2. /\ Table[c].next # 0 /\ Table[c].next <= b /\ c < Table[c].next
          /\ Home(Table[Table[c].next]) = h
      BY <2>1, <1>1 DEF Follows
    <2>3. Table[c].next \in S
      BY <2>1, <2>2, <1>3
    <2>4. Table[c].next < b
      BY <2>1, <2>2, <2>3, <1>7
    <2> QED BY <2>1, <2>2, <2>3, <2>4
  <1> QED BY <1>8, <1>9

\* The buckets of one hash value are such a set.
LEMMA ChainIn ==
    ASSUME IInv, HasShadow, head.state = 1,
           NEW h \in DOMAIN array, NEW b \in Chain(h)
    PROVE  Home(Table[b]) = h
  <1> DEFINE S == {c \in Known : Home(Table[c]) = h}
  <1>1. /\ Known = DOMAIN Table /\ \A c \in Known : Current(c).next = Table[c].next
    BY TableIs DEF IInv
  <1>2. Linear(array, Table)
    BY HashTable
  <1>3. array[h] \in S \cup {0}
    BY <1>1, <1>2 DEF Linear, Follows
  <1>4. ASSUME NEW c \in S PROVE Current(c).next \in S \cup {0}
    <2>1. Follows(Table, h, c, Table[c].next)
      BY <1>1, <1>2 DEF Linear
    <2> QED BY <2>1, <1>1 DEF Follows
  <1>5. Reaches(S, h)
    BY <1>3, <1>4 DEF Reaches
  <1>6. S \in SUBSET Known
    OBVIOUS
  <1> QED BY <1>5, <1>6 DEF Chain

\* OneHome for every size of the buckets, of the hash table and of the memory for
\* buckets: between calls each bucket of a shadow file is on the chain of its
\* entries and on no other, and no block is entered twice.
THEOREM OneHomeAlways == Spec => []OneHome
  <1>1. IInv => OneHome
    <2> SUFFICES ASSUME IInv, HasShadow, pc = "idle", head.state = 1
                 PROVE  OneHome
      BY DEF OneHome
    <2>1. /\ Known = DOMAIN Table
          /\ \A b \in Known : Current(b).ents = Table[b].ents
      BY TableIs DEF IInv
    <2>2. /\ Filled(Table, head.nextBlock) /\ Unique(Table) /\ array \in Array
          /\ \A b \in DOMAIN Table : Home(Table[b]) \in 0..HashSize - 1
      BY HashTable DEF Used
    <2>3. ASSUME NEW b \in Known, NEW x \in Range(Current(b).ents)
          PROVE  b \in Chain(Hash(x.no)) /\ x.vno < head.nextBlock
      <3>1. Hash(x.no) = Home(Table[b]) /\ x.vno < head.nextBlock
        BY <2>1, <2>2 DEF Filled
      <3>2. \A S \in SUBSET Known : Reaches(S, Home(Table[b])) => b \in S
        BY ChainHas
      <3> QED BY <3>1, <3>2 DEF Chain
    <2>4. \A h, k \in DOMAIN array : h # k => Chain(h) \cap Chain(k) = {}
      BY ChainIn
    <2>5. \A b, c \in Known :
             \A x \in Range(Current(b).ents), y \in Range(Current(c).ents) :
                 x.no = y.no \/ x.vno = y.vno => b = c /\ x = y
      BY <2>1, <2>2 DEF Unique
    <2> QED BY <2>3, <2>4, <2>5 DEF OneHome
  <1> QED BY <1>1, Invariance, PTL
=============================================================================
