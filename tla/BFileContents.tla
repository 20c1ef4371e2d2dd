--------------------------- MODULE BFileContents ---------------------------
(***************************************************************************)
(* Proofs about BFile: what bf_read returns is what was last written, from *)
(* the buckets in memory, the chains on disk, the flat index or the        *)
(* register, and a commit that finishes leaves all of it in the register,  *)
(* after any closing, reopening, commit, failure and kill.                 *)
(***************************************************************************)
EXTENDS BFileProofs, FiniteSetTheorems

\* In an area of a single directory with a maximum size, if any, before the
\* others (as "dir:size" or the default, the current directory without a size)
\* a metafile has at most two parts.
OneLimit(dirs) == /\ \A d \in 2..Len(dirs) : dirs[d] < 0
                  /\ \E d \in 1..Len(dirs) : dirs[d] < 0 \/ dirs[d] >= BlockSize
AreasAssumption == \A s \in Setups : OneLimit(s.dirs)

-----------------------------------------------------------------------------
\* The register.

\* What a unit of a part file or of a shadow block may be.
Datum == Nat \cup {Dummy}
Content == [1..BlockSize -> Datum]
Part == [dir : Nat, blocks : Nat, top : Int, disk : Seq(Datum)]

\* The first part is closed where the second begins, and the number of blocks
\* of each is what mf_init finds in its file.
Register(mf) ==
    /\ mf = [dirs |-> mf.dirs, avail |-> mf.avail, cur |-> mf.cur,
             parts |-> mf.parts]
    /\ mf.dirs \in Seq(Int) /\ OneLimit(mf.dirs)
    /\ mf.avail \in [1..Len(mf.dirs) -> Int]
    /\ mf.parts \in Seq(Part) /\ Len(mf.parts) \in 1..2
    /\ mf.cur \in 1..Len(mf.parts)
    /\ \A i \in 1..Len(mf.parts) :
          /\ mf.parts[i].dir \in 1..Len(mf.dirs)
          /\ mf.parts[i].blocks = RoundUp(Len(mf.parts[i].disk))
    /\ Len(mf.parts) = 2 => /\ mf.parts[2].dir # 1
                            /\ mf.parts[1].top = mf.parts[1].blocks - 1

Cell(mf, no) == MfRead(mf, no, 0, BlockSize)

-----------------------------------------------------------------------------
\* The index, as the pairs of a block and its shadow block.

FlatMap(f) == {[no |-> n, vno |-> f[n]] : n \in {m \in BlockNos : f[m] # 0}}
Mapping(state, t, f) == IF state = 2 THEN FlatMap(f) ELSE Pairs(t)
Mapped == Mapping(head.state, Table, flat)
OnDisk == Mapping(saved.head.state, bucket, flat)

\* No block has two shadow blocks and no shadow block two blocks; all shadow
\* blocks have numbers below n.
OneToOne(M) ==
    \A x, y \in M : x.no = y.no \/ x.vno = y.vno => x = y
Numbered(M, n) ==
    \A x \in M : x \in Entry /\ x.no \in BlockNos /\ 0 < x.vno /\ x.vno < n
Indexed(M, n) == 0 < n /\ OneToOne(M) /\ Numbered(M, n)

\* The flat index, where its header ends and when there is none.
FlatWithin(h, f) == \A no \in BlockNos : f[no] # 0 => no < h.flatBucket * FlatSize
FlatIs(h, f) == IF h.state = 2 THEN FlatWithin(h, f) ELSE f = Unmapped

\* A block has no shadow block.
Fresh(M, no) == \A x \in M : x.no # no

\* Every block is as wanted: its shadow block if it has one, else in the register.
Right(bl, mf, M, want) ==
    \A no \in BlockNos :
        /\ \A x \in M : x.no = no =>
               x.vno \in DOMAIN bl /\ Agrees(bl[x.vno], want[no])
        /\ Fresh(M, no) => Agrees(Cell(mf, no), want[no])

-----------------------------------------------------------------------------
\* The invariant, beside that of the index.

\* The index in memory and on disk.
FlatInv ==
    /\ flat \in [BlockNos -> Nat]
    /\ head.flatBucket \in Nat /\ saved.head.flatBucket \in Nat
    /\ HasShadow => FlatIs(head, flat)
    /\ mode # "shadow" => FlatIs(saved.head, flat)
MapInv ==
    /\ HasShadow => Indexed(Mapped, Used)
    /\ mode # "shadow" => Indexed(OnDisk, saved.head.nextBlock)

\* What an operation was called with, ...
Stored(off, units) == /\ off \in Nat /\ units \in Seq(Datum) /\ units # <<>>
                      /\ off + Len(units) <= BlockSize
Asked(o, l) ==
    /\ l = "idle" <=> o.kind = "none"
    /\ o.kind # "none" => o.no \in BlockNos
    /\ o.kind = "write" => Stored(o.off, o.units) /\ o.units \in Seq(Nat)
    /\ o.kind = "read" /\ l # "done" => o.off = 0 /\ Len(o.units) = BlockSize

\* ... what it is to leave behind, and what it has found in the index.
Pending(o, l) == o.kind = "write" /\ l # "done"
Within(o, i) == o.off < i /\ i <= o.off + Len(o.units)
Given(o, l, e) ==
    Pending(o, l) => \A i \in 1..BlockSize : Within(o, i) => e[o.no][i] = o.units[i - o.off]
PairOf(o) == [no |-> o.no, vno |-> o.vno]
Finds(o, l, M) == /\ l \in {"found", "fill"} => PairOf(o) \in M
                  /\ l \in {"missing", "append"} => Fresh(M, o.no)
OpInv == Asked(op, pc) /\ Given(op, pc, exp) /\ Finds(op, pc, Mapped)

\* Where the modes stand towards operations and commits.
ModeInv ==
    /\ committing \in BOOLEAN
    /\ mode \in {"closed", "commit", "clean"} => pc = "idle"
    /\ mode \in {"commit", "overlay"} => committing
    /\ mode \in {"shadow", "direct", "register", "clean"} => ~committing
    /\ mode = "direct" => saved.head.state = 0
    /\ mode = "clean" => base = exp

\* The types of what is stored, and the limit of the buckets in memory.
Wish == [1..BlockSize -> Nat]
DataOK ==
    /\ exp \in [BlockNos -> Wish] /\ base \in [BlockNos -> Wish]
    /\ iobuf \in Content
    /\ blocks \in [DOMAIN blocks -> Content]
    /\ calls = [c \in DOMAIN calls |-> calls[c]] /\ calls.write \in Nat
MemFits == Len(mem) <= MaxInMemory

\* Until a write is done its units may be what they like.
Wanted(o, l, e) ==
    [no \in BlockNos |->
        [i \in 1..BlockSize |->
            IF Pending(o, l) /\ no = o.no /\ Within(o, i) THEN Hole ELSE e[no][i]]]
Placed == IF pc = "fill" THEN Mapped \ {PairOf(op)} ELSE Mapped
ShadowRight == HasShadow => Right(blocks, rmf, Placed, Wanted(op, pc, exp))
DiskRight == mode # "shadow" => Right(blocks, rmf, OnDisk, exp)
BaseRight == ~committing => Holds(rmf, base)

\* A commit has copied the blocks that it need not copy any more.
Copying(mf, M, t, e) ==
    /\ t \in Seq(Entry) /\ Range(t) \subseteq M
    /\ \A no \in BlockNos : \/ \E x \in Range(t) : x.no = no
                            \/ Agrees(Cell(mf, no), e[no])
CommitRight == mode = "commit" => Copying(rmf, OnDisk, todo, exp)

CInv == /\ Register(rmf) /\ FlatInv /\ MapInv /\ OpInv /\ ModeInv /\ DataOK
        /\ MemFits /\ ShadowRight /\ DiskRight /\ BaseRight /\ CommitRight
        /\ ReadsBack

-----------------------------------------------------------------------------
\* Units and blocks.

\* Multiples of the size of a block, ...
LEMMA Scaled == ASSUME NEW a \in Nat PROVE a * BlockSize \in Nat
  BY MFileAssumption

\* How multiples of a block add up and compare.
LEMMA Times ==
    ASSUME NEW a \in Int, NEW b \in Int
    PROVE  /\ a * BlockSize \in Int /\ (a + b) * BlockSize = a * BlockSize + b * BlockSize
           /\ (a + 1) * BlockSize = a * BlockSize + BlockSize
           /\ (a - 1) * BlockSize = a * BlockSize - BlockSize
           /\ 0 * BlockSize = 0
           /\ a < b => a * BlockSize + BlockSize <= b * BlockSize
           /\ a <= b => a * BlockSize <= b * BlockSize
           /\ a * BlockSize < b * BlockSize => a < b
           /\ a * BlockSize <= b * BlockSize => a <= b
  <1> USE MFileAssumption
  <1>1. ASSUME NEW c \in Int, NEW d \in Int, c < d
        PROVE c * BlockSize + BlockSize <= d * BlockSize
    <2>1. (d - c) - 1 \in Nat
      BY <1>1
    <2>2. ((d - c) - 1) * BlockSize >= 0
      BY <2>1
    <2> QED BY <2>2
  <1>2. a < b => a * BlockSize + BlockSize <= b * BlockSize
    BY <1>1
  <1>3. b < a => b * BlockSize + BlockSize <= a * BlockSize
    BY <1>1
  <1>4. a * BlockSize \in Int /\ b * BlockSize \in Int
    OBVIOUS
  <1> QED BY <1>2, <1>3, <1>4

\* ... what is left of a division by it ...
LEMMA Divided ==
    ASSUME NEW n \in Int
    PROVE  /\ n \div BlockSize \in Int
           /\ (n \div BlockSize) * BlockSize <= n
           /\ n < (n \div BlockSize) * BlockSize + BlockSize
  BY MFileAssumption

\* ... and the blocks that a number of units takes.
LEMMA RoundedUp ==
    ASSUME NEW n \in Nat
    PROVE  /\ RoundUp(n) \in Nat /\ n <= RoundUp(n) * BlockSize
           /\ RoundUp(n) * BlockSize - BlockSize < n
           /\ \A p \in Int : p * BlockSize < n /\ n <= p * BlockSize + BlockSize => RoundUp(n) = p + 1
           /\ n = 0 => RoundUp(n) = 0
  <1> DEFINE m == n + BlockSize - 1
             q == m \div BlockSize
  <1>1. m \in Int /\ q \in Int /\ q * BlockSize <= m /\ m < q * BlockSize + BlockSize /\ RoundUp(n) = q
    <2>1. m \in Int
      BY MFileAssumption
    <2> HIDE DEF m
    <2>2. q \in Int /\ q * BlockSize <= m /\ m < q * BlockSize + BlockSize
      BY <2>1, Divided
    <2> QED BY <2>1, <2>2 DEF m, RoundUp
  <1> HIDE DEF q
  <1>2. q * BlockSize \in Int /\ 0 * BlockSize = 0 /\ (-1) * BlockSize = 0 - BlockSize
    BY <1>1, MFileAssumption
  <1>3. q \in Nat
    <2>1. CASE q < 0
      <3>1. q * BlockSize + BlockSize <= 0
        BY <2>1, <1>1, <1>2, Times
      <3> QED BY <3>1, <1>1, <1>2, MFileAssumption
    <2> QED BY <2>1, <1>1
  <1>4. n <= q * BlockSize
    BY <1>1, <1>2, MFileAssumption
  <1>5. ASSUME NEW p \in Int, p * BlockSize < n, n <= p * BlockSize + BlockSize
        PROVE  q = p + 1
    <2>1. p * BlockSize \in Int /\ (p + 1) * BlockSize = p * BlockSize + BlockSize
      BY Times
    <2>2. p * BlockSize < q * BlockSize
      BY <1>4, <1>5, <2>1, <1>2
    <2>3. p < q
      BY <2>2, <1>1, Times
    <2>4. CASE p + 1 < q
      <3>1. (p + 1) * BlockSize + BlockSize <= q * BlockSize
        BY <2>4, <1>1, Times
      <3> QED BY <3>1, <2>1, <1>1, <1>2, <1>5, MFileAssumption
    <2> QED BY <2>3, <2>4, <1>1
  <1>6. n = 0 => q = 0
    <2>1. CASE n = 0 /\ 0 < q
      <3>1. BlockSize <= q * BlockSize
        <4>1. q - 1 \in Nat
          BY <2>1, <1>1
        <4>2. (q - 1) * BlockSize >= 0
          BY <4>1, MFileAssumption
        <4> QED BY <4>2, <1>1, MFileAssumption
      <3> QED BY <3>1, <2>1, <1>1, <1>2, MFileAssumption
    <2> QED BY <2>1, <1>3
  <1>7. RoundUp(n) = q
    BY <1>1
  <1>8. /\ RoundUp(n) \in Nat /\ n <= RoundUp(n) * BlockSize
        /\ RoundUp(n) * BlockSize - BlockSize < n
    BY <1>1, <1>2, <1>3, <1>4, <1>7, MFileAssumption
  <1>9. ASSUME NEW p \in Int, p * BlockSize < n, n <= p * BlockSize + BlockSize
        PROVE  RoundUp(n) = p + 1
    BY <1>5, <1>7, <1>9
  <1>10. n = 0 => RoundUp(n) = 0
    BY <1>6, <1>7
  <1> QED BY <1>8, <1>9, <1>10

-----------------------------------------------------------------------------
\* Sums over the parts of a metafile.  The fold is the one function that adds
\* the greatest index of a set last; for one or two parts it can be written down.

\* The greatest member of a set of numbers.
LEMMA MaxIs ==
    ASSUME NEW S \in SUBSET Int, NEW m \in S, \A y \in S : y <= m
    PROVE  Max(S) = m
  <1> DEFINE c == CHOOSE x \in S : \A y \in S : x >= y
  <1>1. \A y \in S : m >= y
    OBVIOUS
  <1>2. c \in S /\ \A y \in S : c >= y
    BY <1>1
  <1>3. c = m
    <2>1. c >= m /\ m >= c /\ c \in Int /\ m \in Int
      BY <1>1, <1>2
    <2> QED BY <2>1
  <1> QED BY <1>3 DEF Max

\* No block lies before the first part, ...
LEMMA BeforeFirst == ASSUME NEW parts PROVE BlocksBefore(parts, 1) = 0
  <1> DEFINE S == SubSeq(parts, 1, 1 - 1)
             Fold(f) == f = [s \in SUBSET DOMAIN S |->
                                IF s = {} THEN 0
                                ELSE f[s \ {Max(s)}] + S[Max(s)].blocks]
  <1>1. DOMAIN S = {}
    OBVIOUS
  <1>2. Fold([s \in {{}} |-> 0])
    BY <1>1
  <1>3. Fold(CHOOSE f : Fold(f))
    BY <1>2
  <1>4. (CHOOSE f : Fold(f))[{}] = 0
    BY <1>3
  <1> QED BY <1>4, <1>1 DEF BlocksBefore, FoldLeft, MapThenFoldSet

\* ... and those of the first part before the second.
LEMMA BeforeSecond ==
    ASSUME NEW parts \in Seq(Part), Len(parts) \in 1..2
    PROVE  BlocksBefore(parts, 2) = parts[1].blocks
  <1> DEFINE S == SubSeq(parts, 1, 2 - 1)
             Fold(f) == f = [s \in SUBSET DOMAIN S |->
                                IF s = {} THEN 0
                                ELSE f[s \ {Max(s)}] + S[Max(s)].blocks]
             b == parts[1].blocks
  <1>1. DOMAIN S = {1} /\ S[1] = parts[1]
    <2>1. S \in Seq(Part) /\ Len(S) = 1 /\ S[1] = parts[1]
      OBVIOUS
    <2>2. 1..1 = {1}
      OBVIOUS
    <2> QED BY <2>1, <2>2
  <1>2. b \in Nat /\ S[1].blocks = b
    <2>1. parts[1] \in Part
      OBVIOUS
    <2> QED BY <1>1, <2>1 DEF Part
  <1>3. Max({1}) = 1 /\ {1} \ {Max({1})} = {}
    <2>1. {1} \in SUBSET Int /\ 1 \in {1} /\ \A y \in {1} : y <= 1
      OBVIOUS
    <2>2. Max({1}) = 1
      BY <2>1, MaxIs
    <2>3. {1} \ {1} = {}
      OBVIOUS
    <2> QED BY ONLY <2>2, <2>3, Zenon
  <1> HIDE DEF S, b
  <1>4. \E f : Fold(f)
    <2> DEFINE g == [s \in SUBSET {1} |-> IF s = {} THEN 0 ELSE b]
    <2>1. g[{}] = 0 /\ g[{1}] = b /\ g[{1} \ {Max({1})}] + S[Max({1})].blocks = b
      BY <1>2, <1>3
    <2>2. ASSUME NEW s \in SUBSET {1}
          PROVE  g[s] = IF s = {} THEN 0 ELSE g[s \ {Max(s)}] + S[Max(s)].blocks
      <3>1. s = {} \/ s = {1}
        OBVIOUS
      <3> QED BY <2>1, <3>1
    <2> HIDE DEF g
    <2>3. g = [s \in SUBSET {1} |-> g[s]]
      BY DEF g
    <2>4. Fold(g)
      BY <1>1, <2>2, <2>3
    <2> QED BY <2>4
  <1>5. Fold(CHOOSE f : Fold(f))
    BY <1>4
  <1>6. (CHOOSE f : Fold(f))[{1}] = b
    <2> DEFINE g == CHOOSE f : Fold(f)
    <2> HIDE DEF g
    <2>1. g = [s \in SUBSET {1} |-> IF s = {} THEN 0 ELSE g[s \ {Max(s)}] + S[Max(s)].blocks]
      BY <1>1, <1>5 DEF g
    <2>2. g[{}] = 0
      BY <2>1
    <2>3. g[{1}] = g[{1} \ {Max({1})}] + S[Max({1})].blocks
      BY <2>1
    <2>4. g[{1} \ {Max({1})}] = 0 /\ S[Max({1})].blocks = b
      BY <1>2, <1>3, <2>2
    <2>5. g[{1}] = b
      BY <1>2, <2>3, <2>4
    <2> QED BY <2>5 DEF g
  <1> QED BY <1>1, <1>6 DEF BlocksBefore, FoldLeft, MapThenFoldSet, S, b

\* The sum of the sizes that mf_init takes from a directory is a number.
UsedOf(parts, d) ==
    FoldLeft(LAMBDA n, p : IF p.dir = d THEN n + Len(p.disk) ELSE n, 0, parts)

\* What the parts of a directory hold is a number of units.
LEMMA UsedIs ==
    ASSUME NEW parts \in Seq(Part), Len(parts) \in 1..2, NEW d
    PROVE  UsedOf(parts, d) \in Int
  <1> DEFINE D == DOMAIN parts
             Next1(f, s) == IF parts[Max(s)].dir = d
                            THEN f[s \ {Max(s)}] + Len(parts[Max(s)].disk)
                            ELSE f[s \ {Max(s)}]
             Fold(f) == f = [s \in SUBSET D |-> IF s = {} THEN 0 ELSE Next1(f, s)]
             a(i) == IF parts[i].dir = d THEN Len(parts[i].disk) ELSE 0
  <1>1. D = {1} \/ D = {1, 2}
    <2>1. D = 1..Len(parts) /\ (Len(parts) = 1 \/ Len(parts) = 2)
      OBVIOUS
    <2>2. 1..1 = {1} /\ 1..2 = {1, 2}
      OBVIOUS
    <2> QED BY <2>1, <2>2
  <1>2. \A i \in D : Len(parts[i].disk) \in Int /\ a(i) \in Int
    <2>1. \A i \in D : parts[i] \in Part
      OBVIOUS
    <2> QED BY <2>1 DEF Part
  <1>3. ASSUME NEW s \in SUBSET D, s # {}
        PROVE  /\ Max(s) \in s
               /\ Max(s) = 1 => s \ {Max(s)} = {}
               /\ Max(s) = 2 => s \ {Max(s)} \in SUBSET {1}
    <2>1. CASE 2 \in s
      <3>1. s \in SUBSET Int /\ \A y \in s : y <= 2
        BY <1>1
      <3>2. Max(s) = 2
        BY <2>1, <3>1, MaxIs
      <3> QED BY <1>1, <2>1, <3>2
    <2>2. CASE 2 \notin s
      <3>1. s = {1}
        BY <1>1, <1>3, <2>2
      <3>2. s \in SUBSET Int /\ 1 \in s /\ \A y \in s : y <= 1
        BY <3>1
      <3>3. Max(s) = 1
        BY <3>2, MaxIs
      <3> QED BY <3>1, <3>3
    <2> QED BY <2>1, <2>2
  <1>4. \E f : Fold(f)
    <2> DEFINE g == [s \in SUBSET D |-> (IF 1 \in s THEN a(1) ELSE 0)
                                        + (IF 2 \in s THEN a(2) ELSE 0)]
    <2>1. ASSUME NEW s \in SUBSET D, s # {} PROVE g[s] = Next1(g, s)
      <3> DEFINE m == Max(s)
                 r == s \ {m}
      <3>1. m \in s /\ m \in D /\ r \in SUBSET D /\ (m = 1 \/ m = 2)
        BY <1>1, <1>3, <2>1
      <3>2. g[s] = (IF 1 \in s THEN a(1) ELSE 0) + (IF 2 \in s THEN a(2) ELSE 0)
        BY <2>1
      <3>3. g[r] = (IF 1 \in r THEN a(1) ELSE 0) + (IF 2 \in r THEN a(2) ELSE 0)
        BY <3>1
      <3>4. Next1(g, s) = g[r] + a(m)
        <4>1. g[r] \in Int
          <5>1. 1 \in r => a(1) \in Int
            BY <1>2, <3>1
          <5>2. 2 \in r => a(2) \in Int
            BY <1>2, <3>1
          <5> HIDE DEF a, g, r
          <5> QED BY <3>3, <5>1, <5>2
        <4> HIDE DEF g, r
        <4> QED BY <4>1, <1>2, <3>1 DEF r
      <3>5. CASE m = 1
        <4>1. r = {} /\ 2 \notin s
          BY <3>1, <3>5, <1>3, <2>1
        <4>2. a(1) \in Int
          BY <1>2, <3>1, <3>5
        <4> HIDE DEF a, g, r, m
        <4> QED BY <3>1, <3>2, <3>3, <3>4, <3>5, <4>1, <4>2
      <3>6. CASE m = 2
        <4>1. 2 \notin r /\ (1 \in r <=> 1 \in s)
          BY <3>6
        <4>2. a(2) \in Int /\ (1 \in s => a(1) \in Int)
          BY <1>2, <3>1, <3>6
        <4> HIDE DEF a, g, r, m, Next1
        <4> QED BY <3>1, <3>2, <3>3, <3>4, <3>6, <4>1, <4>2
      <3> QED BY <3>1, <3>5, <3>6
    <2>2. g[{}] = 0
      OBVIOUS
    <2>3. g = [s \in SUBSET D |-> g[s]]
      OBVIOUS
    <2> HIDE DEF g, Next1, D
    <2>4. Fold(g)
      BY <2>1, <2>2, <2>3
    <2> QED BY <2>4
  <1> DEFINE g == CHOOSE f : Fold(f)
  <1>5. Fold(g)
    BY <1>4
  <1> HIDE DEF g
  <1>6. g = [s \in SUBSET D |-> IF s = {} THEN 0 ELSE Next1(g, s)]
    BY <1>5
  <1>7. g[{}] = 0
    BY <1>6
  <1>8. \A s \in SUBSET D : s # {} => g[s] = Next1(g, s)
    BY <1>6
  <1>9. ASSUME NEW s \in SUBSET D, s # {}, g[s \ {Max(s)}] \in Int PROVE g[s] \in Int
    <2>1. g[s] = Next1(g, s) /\ Max(s) \in D
      BY <1>3, <1>8, <1>9
    <2>2. Len(parts[Max(s)].disk) \in Int
      BY <1>2, <2>1
    <2>3. PICK v : v = g[s \ {Max(s)}]
      OBVIOUS
    <2>4. g[s] = IF parts[Max(s)].dir = d THEN v + Len(parts[Max(s)].disk) ELSE v
      BY <2>1, <2>3
    <2>5. v \in Int
      BY <1>9, <2>3
    <2> QED BY ONLY <2>2, <2>4, <2>5
  <1>10. ASSUME NEW s \in SUBSET D, s \in SUBSET {1} PROVE g[s] \in Int
    <2>1. CASE s = {}
      BY <1>7, <2>1
    <2>2. CASE s # {}
      <3>1. s \ {Max(s)} = {}
        <4>1. Max(s) \in s /\ (Max(s) = 1 => s \ {Max(s)} = {})
          BY <1>3, <2>2
        <4>2. Max(s) = 1
          BY <4>1, <1>10
        <4> QED BY <4>1, <4>2
      <3>2. g[s \ {Max(s)}] \in Int
        <4>1. g[s \ {Max(s)}] = g[{}]
          BY <3>1, Zenon
        <4> QED BY <4>1, <1>7
      <3> QED BY <3>2, <1>9, <2>2
    <2> QED BY <2>1, <2>2
  <1>11. g[D] \in Int
    <2>1. D # {} /\ D \in SUBSET D
      BY <1>1
    <2>2. Max(D) = 1 \/ Max(D) = 2
      BY <1>1, <1>3, <2>1
    <2>3. g[D \ {Max(D)}] \in Int
      <3>1. D \ {Max(D)} \in SUBSET {1} /\ D \ {Max(D)} \in SUBSET D
        BY <1>3, <2>1, <2>2
      <3> HIDE DEF D
      <3> QED BY <3>1, <1>10
    <2> QED BY <2>1, <2>3, <1>9
  <1>12. UsedOf(parts, d) = g[D]
    BY DEF UsedOf, FoldLeft, MapThenFoldSet, g
  <1> QED BY <1>11, <1>12

-----------------------------------------------------------------------------
\* Units on disk.

UnitAt(disk, k) == IF k <= Len(disk) THEN disk[k] ELSE Short

\* A write changes the units it is for, and a gap before them reads as zero.
LEMMA PutIs ==
    ASSUME NEW disk \in Seq(Datum), NEW at \in Nat, NEW units \in Seq(Datum),
           units # <<>>
    PROVE  /\ Put(disk, at, units) \in Seq(Datum)
           /\ Len(Put(disk, at, units)) \in {Len(disk), at + Len(units)}
           /\ Len(disk) <= Len(Put(disk, at, units))
           /\ at + Len(units) <= Len(Put(disk, at, units))
           /\ \A k \in Nat \ {0} :
                 UnitAt(Put(disk, at, units), k) =
                     IF k > at /\ k <= at + Len(units) THEN units[k - at]
                     ELSE IF k <= Len(disk) THEN disk[k]
                     ELSE IF k <= at + Len(units) THEN Hole ELSE Short
  <1> DEFINE a == Len(disk)
             b == at + Len(units)
             n == IF a <= b THEN b ELSE a
             u == [i \in 1..n |-> IF i > at /\ i <= b THEN units[i - at]
                                  ELSE IF i <= a THEN disk[i] ELSE Hole]
  <1>1. a \in Nat /\ b \in Nat /\ n \in Nat /\ Len(units) \in Nat
    OBVIOUS
  <1>2. Max({a, b}) = n
    <2>1. {a, b} \in SUBSET Int /\ n \in {a, b} /\ \A y \in {a, b} : y <= n
      BY <1>1
    <2> HIDE DEF a, b, n
    <2> QED BY <2>1, MaxIs
  <1>3. Put(disk, at, units) = u
    BY <1>2 DEF Put
  <1>4. \A i \in 1..n : u[i] \in Datum
    <2>1. ASSUME NEW i \in 1..n PROVE u[i] \in Datum
      <3>1. CASE i > at /\ i <= b
        <4>1. i - at \in 1..Len(units)
          BY <1>1, <3>1
        <4>2. units[i - at] \in Datum
          BY <4>1
        <4> QED BY <3>1, <4>2
      <3>2. CASE ~(i > at /\ i <= b) /\ i <= a
        <4>1. i \in 1..Len(disk)
          BY <1>1, <3>2
        <4>2. disk[i] \in Datum
          BY <4>1
        <4> QED BY <3>2, <4>2
      <3>3. CASE ~(i > at /\ i <= b) /\ ~(i <= a)
        <4>1. u[i] = Hole
          BY <3>3
        <4> QED BY <4>1 DEF Hole, Datum
      <3> QED BY <3>1, <3>2, <3>3
    <2> QED BY <2>1
  <1>5. u \in Seq(Datum) /\ Len(u) = n
    <2>1. u \in [1..n -> Datum]
      <3> HIDE DEF n
      <3> QED BY <1>4
    <2> HIDE DEF u, n
    <2> QED BY <1>1, <2>1
  <1>6. ASSUME NEW k \in Nat \ {0}
        PROVE  UnitAt(u, k) = IF k > at /\ k <= b THEN units[k - at]
                              ELSE IF k <= a THEN disk[k]
                              ELSE IF k <= b THEN Hole ELSE Short
    <2>1. CASE k \in 1..n
      <3>1. UnitAt(u, k) = u[k]
        BY <1>1, <1>5, <2>1 DEF UnitAt
      <3> QED BY <1>1, <2>1, <3>1
    <2>2. CASE k \notin 1..n
      <3>1. UnitAt(u, k) = Short /\ ~(k <= a) /\ ~(k <= b)
        BY <1>1, <1>5, <2>2 DEF UnitAt
      <3> QED BY <3>1
    <2> QED BY <2>1, <2>2
  <1> HIDE DEF u
  <1>7. Len(u) \in {a, b} /\ a <= Len(u) /\ b <= Len(u)
    BY <1>1, <1>5
  <1> QED BY <1>3, <1>5, <1>6, <1>7

-----------------------------------------------------------------------------
\* Rounds of the loop of mf_write.

\* A set of numbers from 1 on has its greatest member.
LEMMA MaxIn ==
    ASSUME NEW n \in Nat, NEW s \in SUBSET (1..n), s # {}
    PROVE  Max(s) \in s /\ \A y \in s : y <= Max(s)
  <1>1. s \in SUBSET (0..n) /\ s \in SUBSET Int
    OBVIOUS
  <1>2. PICK x \in s : \A y \in s : y <= x
    BY <1>1, Greatest
  <1>3. Max(s) = x
    BY <1>1, <1>2, MaxIs
  <1> QED BY <1>2, <1>3

\* Two rounds are enough when a third changes nothing.
LEMMA Rounds ==
    ASSUME NEW no, NEW w, NEW n \in Nat, 2 <= n,
           GrowStep(GrowStep(GrowStep(w, no), no), no) = GrowStep(GrowStep(w, no), no)
    PROVE  FoldLeft(LAMBDA v, i : GrowStep(v, no), w, [i \in 1..n |-> i])
               = GrowStep(GrowStep(w, no), no)
  <1> DEFINE D == DOMAIN [i \in 1..n |-> i]
             G(v) == GrowStep(v, no)
             Fold(f) == f = [s \in SUBSET D |-> IF s = {} THEN w ELSE G(f[s \ {Max(s)}])]
  <1>1. D = 1..n
    OBVIOUS
  <1>2. G(G(G(w))) = G(G(w))
    OBVIOUS
  <1> HIDE DEF D, G
  <1>3. \E f : Fold(f)
    <2> DEFINE g == [s \in SUBSET D |-> IF s = {} THEN w
                                        ELSE IF s = {Max(s)} THEN G(w) ELSE G(G(w))]
    <2>1. ASSUME NEW s \in SUBSET D, s # {} PROVE g[s] = G(g[s \ {Max(s)}])
      <3>1. PICK r : r = s \ {Max(s)}
        OBVIOUS
      <3>2. Max(s) \in s
        BY <1>1, <2>1, MaxIn
      <3>3. r \in SUBSET D /\ (r = {} <=> s = {Max(s)})
        BY <3>1, <3>2
      <3>4. g[r] = IF r = {} THEN w ELSE IF r = {Max(r)} THEN G(w) ELSE G(G(w))
        BY <3>3
      <3>5. g[s] = IF s = {Max(s)} THEN G(w) ELSE G(G(w))
        BY <2>1
      <3> HIDE DEF g
      <3>6. CASE r = {}
        <4>1. g[r] = w /\ g[s] = G(w)
          BY <3>3, <3>4, <3>5, <3>6
        <4> QED BY <3>1, <4>1
      <3>7. CASE r # {}
        <4>1. g[r] \in {G(w), G(G(w))} /\ g[s] = G(G(w))
          BY <3>3, <3>4, <3>5, <3>7
        <4> QED BY <1>2, <3>1, <4>1
      <3> QED BY <3>6, <3>7
    <2>2. g[{}] = w /\ g = [s \in SUBSET D |-> g[s]]
      OBVIOUS
    <2> HIDE DEF g
    <2>3. Fold(g)
      BY <2>1, <2>2
    <2> QED BY <2>3
  <1> DEFINE g == CHOOSE f : Fold(f)
             Value(k) == IF k = 0 THEN w ELSE IF k = 1 THEN G(w) ELSE G(G(w))
  <1>4. Fold(g)
    BY <1>3
  <1> HIDE DEF g
  <1>5. g = [s \in SUBSET D |-> IF s = {} THEN w ELSE G(g[s \ {Max(s)}])]
    BY <1>4
  <1>6. ASSUME NEW k \in 1..n
        PROVE  g[1..k] = G(g[1..k - 1])
    <2>1. 1..k \in SUBSET D /\ k \in 1..k
      BY <1>1
    <2>2. Max(1..k) = k
      <3>1. 1..k \in SUBSET Int /\ \A y \in 1..k : y <= k
        OBVIOUS
      <3> QED BY <2>1, <3>1, MaxIs
    <2>3. (1..k) \ {k} = 1..k - 1
      OBVIOUS
    <2>4. g[1..k] = G(g[(1..k) \ {Max(1..k)}])
      <3>1. 1..k # {}
        BY <2>1
      <3> QED BY <1>5, <2>1, <3>1
    <2>5. (1..k) \ {Max(1..k)} = 1..k - 1
      BY ONLY <2>2, <2>3, Zenon
    <2> QED BY ONLY <2>4, <2>5, Zenon
  <1>7. g[1..0] = w
    <2>1. 1..0 = {} /\ {} \in SUBSET D
      OBVIOUS
    <2>2. g[{}] = w
      BY <1>5
    <2> QED BY <2>1, <2>2
  <1> DEFINE T == {k \in 0..n : g[1..k] # Value(k)}
  <1>8. T = {}
    <2> SUFFICES ASSUME T # {} PROVE FALSE
      OBVIOUS
    <2>1. T \in SUBSET Nat
      OBVIOUS
    <2>2. PICK k \in T : \A j \in T : k <= j
      BY <2>1, Least
    <2>3. k \in 1..n
      <3>1. k # 0
        BY <1>7, <2>2
      <3> QED BY <3>1, <2>2
    <2>4. PICK j : j = k - 1
      OBVIOUS
    <2>5. j \in 0..n /\ j \notin T /\ g[1..k] = G(g[1..j])
      BY <1>6, <2>2, <2>3, <2>4
    <2>6. g[1..j] = Value(j)
      BY <2>5
    <2>7. G(Value(j)) = Value(k)
      BY <1>2, <2>3, <2>4
    <2> HIDE DEF Value
    <2> QED BY <2>2, <2>5, <2>6, <2>7
  <1>9. g[1..n] = G(G(w))
    <2>1. n \in 0..n /\ n \notin T
      BY <1>8
    <2> QED BY <2>1
  <1>10. FoldLeft(LAMBDA v, i : GrowStep(v, no), w, [i \in 1..n |-> i]) = g[1..n]
    BY <1>1 DEF FoldLeft, MapThenFoldSet, g, G, D
  <1> QED BY <1>9, <1>10 DEF G

-----------------------------------------------------------------------------
\* Where a block is.

\* The least member of a set of numbers.
LEMMA MinIs ==
    ASSUME NEW S \in SUBSET Int, NEW m \in S, \A y \in S : m <= y
    PROVE  Min(S) = m
  <1> DEFINE c == CHOOSE x \in S : \A y \in S : x <= y
  <1>1. c \in S /\ \A y \in S : c <= y
    OBVIOUS
  <1>2. c = m
    <2>1. c <= m /\ m <= c /\ c \in Int /\ m \in Int
      BY <1>1
    <2> QED BY <2>1
  <1> QED BY <1>2 DEF Min

\* The parts of a register, one by one.
LEMMA PartsOf ==
    ASSUME NEW mf, Register(mf)
    PROVE  /\ Len(mf.parts) \in {1, 2} /\ mf.cur \in {1, 2} /\ mf.cur <= Len(mf.parts)
           /\ \A i \in 1..Len(mf.parts) :
                 /\ mf.parts[i] \in Part /\ mf.parts[i].disk \in Seq(Datum)
                 /\ mf.parts[i].blocks \in Nat /\ mf.parts[i].top \in Int
                 /\ Len(mf.parts[i].disk) \in Nat
                 /\ mf.parts[i].dir \in 1..Len(mf.dirs)
                 /\ mf.parts[i].blocks = RoundUp(Len(mf.parts[i].disk))
           /\ 1 \in 1..Len(mf.parts)
           /\ Len(mf.parts) = 2 => 2 \in 1..Len(mf.parts)
  <1>1. /\ mf.parts \in Seq(Part) /\ Len(mf.parts) \in 1..2
        /\ mf.cur \in 1..Len(mf.parts)
        /\ \A i \in 1..Len(mf.parts) :
              /\ mf.parts[i].dir \in 1..Len(mf.dirs)
              /\ mf.parts[i].blocks = RoundUp(Len(mf.parts[i].disk))
    BY DEF Register
  <1>2. ASSUME NEW i \in 1..Len(mf.parts)
        PROVE  /\ mf.parts[i] \in Part /\ mf.parts[i].disk \in Seq(Datum)
               /\ mf.parts[i].blocks \in Nat /\ mf.parts[i].top \in Int
               /\ Len(mf.parts[i].disk) \in Nat
    <2>1. mf.parts[i] \in Part
      BY <1>1
    <2>2. mf.parts[i].disk \in Seq(Datum)
      BY <2>1 DEF Part
    <2> QED BY <2>1, <2>2 DEF Part
  <1>3. Len(mf.parts) \in {1, 2} /\ mf.cur \in {1, 2} /\ mf.cur <= Len(mf.parts)
    BY <1>1
  <1>4. 1 \in 1..Len(mf.parts) /\ (Len(mf.parts) = 2 => 2 \in 1..Len(mf.parts))
    BY <1>3
  <1> QED BY <1>1, <1>2, <1>3, <1>4

\* The place of a block does not depend on the part that is current.
InSecond(mf, no) == Len(mf.parts) = 2 /\ mf.parts[1].top < no
Place(mf, no) == IF InSecond(mf, no) THEN [cur |-> 2, ps |-> no - mf.parts[1].top - 1]
                 ELSE [cur |-> 1, ps |-> no]

\* file_position finds that place, whichever part is current.
LEMMA PlaceIs ==
    ASSUME NEW mf, Register(mf), NEW no \in Nat
    PROVE  /\ FilePosition(mf, no) = Place(mf, no)
           /\ Place(mf, no).cur \in 1..Len(mf.parts) /\ Place(mf, no).ps \in Nat
           /\ Place(mf, no).cur = IF InSecond(mf, no) THEN 2 ELSE 1
           /\ Place(mf, no).ps = IF InSecond(mf, no) THEN no - mf.parts[1].top - 1 ELSE no
  <1> DEFINE n == Len(mf.parts)
             c == mf.cur
             top == mf.parts[1].top
             part == Min({i \in 1..n : i = n \/ mf.parts[i].top >= no})
  <1>1. /\ n \in {1, 2} /\ c \in {1, 2} /\ c <= n /\ top \in Int
        /\ n = 2 => top = mf.parts[1].blocks - 1
    BY PartsOf DEF Register
  <1>2. BlocksBefore(mf.parts, 1) = 0
    BY BeforeFirst
  <1>3. n = 2 => BlocksBefore(mf.parts, 2) = top + 1
    <2>1. mf.parts \in Seq(Part) /\ n \in 1..2 /\ mf.parts[1].blocks \in Nat
      BY PartsOf DEF Register
    <2> QED BY <2>1, <1>1, BeforeSecond
  <1>4. CASE n = 1
    BY <1>1, <1>4 DEF FilePosition, Place, InSecond
  <1>5. CASE n = 2 /\ no <= top
    <2>1. part = 1
      <3>1. {i \in 1..n : i = n \/ mf.parts[i].top >= no} = {1, 2}
        BY <1>1, <1>5
      <3>2. {1, 2} \in SUBSET Int /\ 1 \in {1, 2} /\ \A y \in {1, 2} : 1 <= y
        OBVIOUS
      <3>3. Min({1, 2}) = 1
        BY <3>2, MinIs
      <3> QED BY <3>1, <3>3
    <2>2. FilePosition(mf, no) = [cur |-> 1, ps |-> no]
      <3>1. CASE c = 1
        BY <1>1, <1>5, <3>1 DEF FilePosition
      <3>2. CASE c = 2
        <4>1. c > 1 /\ no <= mf.parts[c - 1].top
          BY <1>5, <3>2
        <4>2. FilePosition(mf, no) = [cur |-> part, ps |-> no - BlocksBefore(mf.parts, part)]
          BY <4>1 DEF FilePosition
        <4> QED BY <4>2, <2>1, <1>2
      <3> QED BY <1>1, <3>1, <3>2
    <2> QED BY <1>1, <1>5, <2>2 DEF Place, InSecond
  <1>6. CASE n = 2 /\ top < no
    <2>1. part = 2
      <3>1. {i \in 1..n : i = n \/ mf.parts[i].top >= no} = {2}
        BY <1>1, <1>6
      <3>2. {2} \in SUBSET Int /\ 2 \in {2} /\ \A y \in {2} : 2 <= y
        OBVIOUS
      <3>3. Min({2}) = 2
        BY <3>2, MinIs
      <3> QED BY <3>1, <3>3
    <2>2. FilePosition(mf, no) = [cur |-> 2, ps |-> no - top - 1]
      <3>1. CASE c = 1
        <4>1. c < n /\ no > mf.parts[c].top
          BY <1>1, <1>6, <3>1
        <4>2. FilePosition(mf, no) = [cur |-> part, ps |-> no - BlocksBefore(mf.parts, part)]
          BY <4>1 DEF FilePosition
        <4>3. no - BlocksBefore(mf.parts, part) = no - top - 1
          BY <1>1, <1>3, <1>6, <2>1
        <4> QED BY <4>2, <4>3, <2>1
      <3>2. CASE c = 2
        BY <1>1, <1>6, <3>2 DEF FilePosition
      <3> QED BY <1>1, <3>1, <3>2
    <2> QED BY <1>1, <1>6, <2>2 DEF Place, InSecond
  <1>7. InSecond(mf, no) <=> n = 2 /\ top < no
    BY DEF InSecond
  <1>8. /\ Place(mf, no).cur = IF InSecond(mf, no) THEN 2 ELSE 1
        /\ Place(mf, no).ps = IF InSecond(mf, no) THEN no - top - 1 ELSE no
    BY DEF Place
  <1>9. Place(mf, no).cur \in 1..n /\ Place(mf, no).ps \in Nat
    <2> HIDE DEF n, top, Place
    <2> QED BY <1>1, <1>7, <1>8
  <1> QED BY <1>1, <1>4, <1>5, <1>6, <1>8, <1>9

\* What mf_read delivers for a block.
LEMMA CellIs ==
    ASSUME NEW mf, Register(mf), NEW no \in Nat
    PROVE  Cell(mf, no) =
             [i \in 1..BlockSize |->
                UnitAt(mf.parts[Place(mf, no).cur].disk, Place(mf, no).ps * BlockSize + i)]
  <1>1. FilePosition(mf, no) = Place(mf, no) /\ Place(mf, no).ps \in Nat
    BY PlaceIs
  <1>2. PICK p : p = Place(mf, no).ps * BlockSize
    OBVIOUS
  <1>3. p \in Nat
    BY <1>1, <1>2, MFileAssumption
  <1>4. \A i \in 1..BlockSize : p + 0 + i = p + i
    BY <1>3
  <1> QED BY <1>1, <1>2, <1>4 DEF Cell, MfRead, UnitAt

-----------------------------------------------------------------------------
\* Opening a metafile, by the same process or by a new one.

\* What is in a register is in its part files and where the first ends.
Alike(mf, nf) ==
    /\ nf.dirs = mf.dirs /\ Len(nf.parts) = Len(mf.parts)
    /\ \A i \in 1..Len(mf.parts) : nf.parts[i].disk = mf.parts[i].disk
    /\ Len(mf.parts) = 2 => nf.parts[1].top = mf.parts[1].top

\* Registers that are alike deliver the same for every block.
LEMMA AlikeCells ==
    ASSUME NEW mf, Register(mf), NEW nf, Register(nf), Alike(mf, nf), NEW no \in Nat
    PROVE  Cell(nf, no) = Cell(mf, no)
  <1>1. InSecond(nf, no) <=> InSecond(mf, no)
    BY DEF Alike, InSecond
  <1>2. Place(nf, no) = Place(mf, no)
    BY <1>1 DEF Alike, Place, InSecond
  <1>3. Place(mf, no).cur \in 1..Len(mf.parts)
    BY PlaceIs
  <1>4. nf.parts[Place(nf, no).cur].disk = mf.parts[Place(mf, no).cur].disk
    BY <1>2, <1>3 DEF Alike
  <1>5. PICK a, b : a = Place(mf, no).cur /\ b = Place(mf, no).ps * BlockSize
    OBVIOUS
  <1>6. Cell(mf, no) = [i \in 1..BlockSize |-> UnitAt(mf.parts[a].disk, b + i)]
    BY <1>5, CellIs, Zenon
  <1>7. Cell(nf, no) = [i \in 1..BlockSize |-> UnitAt(nf.parts[a].disk, b + i)]
    <2>1. a = Place(nf, no).cur /\ b = Place(nf, no).ps * BlockSize
      BY ONLY <1>2, <1>5
    <2> QED BY <2>1, CellIs, Zenon
  <1>8. nf.parts[a].disk = mf.parts[a].disk
    BY ONLY <1>2, <1>4, <1>5
  <1> QED BY ONLY <1>6, <1>7, <1>8

\* mf_open keeps the parts, and the end of the first is where it was ... 
LEMMA OpenIs ==
    ASSUME NEW mf, Register(mf)
    PROVE  Register(MfOpen(mf)) /\ Alike(mf, MfOpen(mf))
  <1> DEFINE n == Len(mf.parts)
             q == [i \in 1..n |-> [mf.parts[i] EXCEPT
                      !.top = IF i = n THEN -1 ELSE BlocksBefore(mf.parts, i + 1) - 1]]
  <1>1. /\ mf = [dirs |-> mf.dirs, avail |-> mf.avail, cur |-> mf.cur,
                 parts |-> mf.parts]
        /\ mf.dirs \in Seq(Int) /\ OneLimit(mf.dirs)
        /\ mf.avail \in [1..Len(mf.dirs) -> Int]
        /\ mf.parts \in Seq(Part) /\ n \in 1..2
        /\ n = 2 => mf.parts[2].dir # 1 /\ mf.parts[1].top = mf.parts[1].blocks - 1
    BY DEF Register
  <1>2. MfOpen(mf) = [dirs |-> mf.dirs, avail |-> mf.avail, cur |-> 1, parts |-> q]
    <2>1. MfOpen(mf) = [mf EXCEPT !.cur = 1, !.parts = q]
      BY DEF MfOpen
    <2> HIDE DEF q
    <2>2. PICK d, a, c, s : mf = [dirs |-> d, avail |-> a, cur |-> c, parts |-> s]
      BY ONLY <1>1
    <2> QED BY ONLY <2>1, <2>2
  <1>3. ASSUME NEW i \in 1..n
        PROVE  /\ q[i] \in Part /\ q[i].disk = mf.parts[i].disk
               /\ q[i].dir = mf.parts[i].dir /\ q[i].blocks = mf.parts[i].blocks
               /\ n = 2 /\ i = 1 => q[i].top = mf.parts[i].top
    <2> DEFINE t == IF i = n THEN -1 ELSE BlocksBefore(mf.parts, i + 1) - 1
    <2>1. mf.parts[i] \in Part /\ mf.parts[i].blocks \in Nat
      BY PartsOf
    <2>2. i # n => i = 1 /\ n = 2 /\ BlocksBefore(mf.parts, 2) = mf.parts[1].blocks
      <3>1. n = 1 \/ n = 2
        BY PartsOf
      <3>2. i = 1 \/ i = 2
        <4>1. i \in 1..n
          OBVIOUS
        <4> HIDE DEF n
        <4> QED BY ONLY <3>1, <4>1
      <3>3. BlocksBefore(mf.parts, 2) = mf.parts[1].blocks
        BY <1>1, BeforeSecond
      <3> HIDE DEF n
      <3> QED BY <3>1, <3>2, <3>3
    <2>3. t \in Int /\ (n = 2 /\ i = 1 => t = mf.parts[1].top)
      BY <1>1, <2>1, <2>2
    <2>4. q[i] = [mf.parts[i] EXCEPT !.top = t]
      OBVIOUS
    <2> HIDE DEF q, t, n
    <2> QED BY <2>1, <2>3, <2>4 DEF Part
  <1> HIDE DEF q
  <1>4. q \in Seq(Part) /\ Len(q) = n
    <2>1. q \in [1..n -> Part] /\ n \in Nat
      <3>1. q = [i \in 1..n |-> q[i]]
        BY DEF q
      <3> QED BY <1>1, <1>3, <3>1
    <2> HIDE DEF n
    <2> QED BY <2>1
  <1>5. \A i \in 1..n : q[i].dir \in 1..Len(mf.dirs)
                        /\ q[i].blocks = RoundUp(Len(q[i].disk))
    <2>1. \A i \in 1..n : mf.parts[i].dir \in 1..Len(mf.dirs)
                          /\ mf.parts[i].blocks = RoundUp(Len(mf.parts[i].disk))
      BY PartsOf
    <2> QED BY <1>3, <2>1
  <1>6. n = 2 => q[2].dir # 1 /\ q[1].top = q[1].blocks - 1
    BY <1>1, <1>3
  <1>7. Register(MfOpen(mf))
    BY <1>1, <1>2, <1>4, <1>5, <1>6 DEF Register
  <1>8. Alike(mf, MfOpen(mf))
    <2>1. n = 2 => 1 \in 1..n
      BY <1>1
    <2> QED BY <1>2, <1>3, <1>4, <2>1 DEF Alike
  <1> QED BY <1>7, <1>8

\* ... and so does mf_init.
LEMMA InitIs ==
    ASSUME NEW mf, Register(mf)
    PROVE  /\ Register(MfInit(mf)) /\ Alike(mf, MfInit(mf))
           /\ MfInit(mf).parts = mf.parts
  <1> DEFINE n == Len(mf.parts)
             q == [i \in 1..n |-> [mf.parts[i] EXCEPT
                      !.blocks = RoundUp(Len(mf.parts[i].disk))]]
             a == [d \in 1..Len(mf.dirs) |->
                      IF Limited(mf, d) THEN mf.dirs[d] - UsedOf(mf.parts, d)
                      ELSE mf.avail[d]]
  <1>1. /\ mf = [dirs |-> mf.dirs, avail |-> mf.avail, cur |-> mf.cur,
                 parts |-> mf.parts]
        /\ mf.dirs \in Seq(Int) /\ OneLimit(mf.dirs)
        /\ mf.avail \in [1..Len(mf.dirs) -> Int]
        /\ mf.parts \in Seq(Part) /\ n \in 1..2 /\ mf.cur \in 1..n
        /\ n = 2 => mf.parts[2].dir # 1 /\ mf.parts[1].top = mf.parts[1].blocks - 1
    BY DEF Register
  <1>2. MfInit(mf) = [dirs |-> mf.dirs, avail |-> a, cur |-> mf.cur, parts |-> q]
    <2>1. MfInit(mf) = [mf EXCEPT !.parts = q, !.avail = a]
      BY DEF MfInit, UsedOf
    <2> HIDE DEF q, a
    <2>2. PICK d, v, c, s : mf = [dirs |-> d, avail |-> v, cur |-> c, parts |-> s]
      BY ONLY <1>1
    <2> QED BY ONLY <2>1, <2>2
  <1>3. \A i \in 1..n : q[i] = mf.parts[i]
    <2>1. ASSUME NEW i \in 1..n PROVE q[i] = mf.parts[i]
      <3>1. mf.parts[i] \in Part /\ mf.parts[i].blocks = RoundUp(Len(mf.parts[i].disk))
        BY PartsOf
      <3> QED BY <3>1 DEF Part
    <2> QED BY <2>1
  <1>4. q = mf.parts
    <2>1. mf.parts = [i \in 1..n |-> mf.parts[i]]
      BY <1>1
    <2>2. q = [i \in 1..n |-> q[i]]
      OBVIOUS
    <2> HIDE DEF q
    <2> QED BY <1>3, <2>1, <2>2
  <1>5. a \in [1..Len(mf.dirs) -> Int]
    <2>1. ASSUME NEW d \in 1..Len(mf.dirs) PROVE a[d] \in Int
      <3>1. mf.dirs[d] \in Int /\ mf.avail[d] \in Int /\ UsedOf(mf.parts, d) \in Int
        BY <1>1, UsedIs
      <3> QED BY <3>1
    <2> HIDE DEF a
    <2>2. a = [d \in 1..Len(mf.dirs) |-> a[d]]
      BY DEF a
    <2> QED BY <2>1, <2>2
  <1> HIDE DEF q, a
  <1>6. Register(MfInit(mf))
    BY <1>1, <1>2, <1>4, <1>5 DEF Register
  <1>7. Alike(mf, MfInit(mf)) /\ MfInit(mf).parts = mf.parts
    BY <1>2, <1>4 DEF Alike
  <1> QED BY <1>6, <1>7

\* A new metafile is empty.
LEMMA NewIs ==
    ASSUME NEW dirs \in Seq(Int), OneLimit(dirs)
    PROVE  /\ Register(NewMFile(dirs)) /\ NewMFile(dirs).dirs = dirs
           /\ \A no \in Nat : \A i \in 1..BlockSize : Cell(NewMFile(dirs), no)[i] = Short
  <1> DEFINE mf == [dirs |-> dirs, avail |-> dirs, cur |-> 1, parts |-> <<>>]
             d == RoomFor(mf, BlockSize)
             nf == NewMFile(dirs)
  <1>1. d \in 1..Len(dirs)
    <2> DEFINE fits == {e \in 1..Len(dirs) : ~Limited(mf, e) \/ mf.avail[e] >= BlockSize}
    <2>1. PICK e \in 1..Len(dirs) : dirs[e] < 0 \/ dirs[e] >= BlockSize
      BY DEF OneLimit
    <2>2. dirs[e] \in Int
      BY <2>1
    <2>3. e \in fits
      BY <2>1, <2>2 DEF Limited
    <2>4. fits \in SUBSET Nat /\ fits # {}
      BY <2>3
    <2>5. PICK x \in fits : \A y \in fits : x <= y
      BY <2>4, Least
    <2>6. Min(fits) = x
      <3>1. fits \in SUBSET Int
        BY <2>4
      <3> QED BY <2>5, <3>1, MinIs
    <2>7. d = Min(fits)
      BY <2>4 DEF RoomFor
    <2> QED BY <2>5, <2>6, <2>7
  <1> HIDE DEF d
  <1>2. nf = [dirs |-> dirs, avail |-> dirs, cur |-> 1, parts |-> <<NewPart(d)>>]
    BY DEF NewMFile, d
  <1>3. /\ NewPart(d) \in Part /\ NewPart(d).dir = d /\ NewPart(d).blocks = 0
        /\ NewPart(d).disk = <<>>
    BY <1>1 DEF NewPart, Part
  <1>4. <<NewPart(d)>> \in Seq(Part) /\ Len(<<NewPart(d)>>) = 1
    BY <1>3
  <1>5. RoundUp(Len(<<>>)) = 0
    BY RoundedUp
  <1>6. dirs \in [1..Len(dirs) -> Int]
    OBVIOUS
  <1>7. Register(nf)
    BY <1>1, <1>2, <1>3, <1>4, <1>5, <1>6 DEF Register
  <1>8. ASSUME NEW no \in Nat, NEW i \in 1..BlockSize PROVE Cell(nf, no)[i] = Short
    <2>1. Cell(nf, no)[i] = UnitAt(nf.parts[Place(nf, no).cur].disk,
                                   Place(nf, no).ps * BlockSize + i)
      BY <1>7, CellIs
    <2>2. Place(nf, no).cur = 1 /\ Place(nf, no).ps \in Nat
      <3>1. Len(nf.parts) = 1
        BY <1>2, <1>4
      <3>2. Place(nf, no).cur = 1
        BY <3>1 DEF Place, InSecond
      <3> QED BY <3>2, <1>7, PlaceIs
    <2>3. nf.parts[1].disk = <<>>
      BY <1>2, <1>3
    <2>4. ~(Place(nf, no).ps * BlockSize + i <= 0)
      <3>1. Place(nf, no).ps * BlockSize \in Nat
        BY <2>2, MFileAssumption
      <3> QED BY <3>1
    <2> QED BY <2>1, <2>2, <2>3, <2>4 DEF UnitAt
  <1> QED BY <1>2, <1>7, <1>8

-----------------------------------------------------------------------------
\* Writing a metafile.

\* The number of blocks of a part file after a write to its block p.
LEMMA PutBlocks ==
    ASSUME NEW disk \in Seq(Datum), NEW p \in Nat, NEW off \in Nat,
           NEW units \in Seq(Datum), units # <<>>, off + Len(units) <= BlockSize,
           NEW at, at = p * BlockSize + off
    PROVE  RoundUp(Len(Put(disk, at, units)))
               = IF p < RoundUp(Len(disk)) THEN RoundUp(Len(disk)) ELSE p + 1
  <1>2. PICK q : q = p * BlockSize
    OBVIOUS
  <1>3. q \in Nat /\ at \in Nat /\ at = q + off
    BY <1>2, MFileAssumption
  <1>4. PICK a : a = Len(disk)
    OBVIOUS
  <1>5. PICK n : n = Len(units)
    OBVIOUS
  <1>6. a \in Nat /\ n \in Nat /\ 0 < n /\ BlockSize \in Nat
    BY <1>4, <1>5, MFileAssumption
  <1>7. PICK l : l = Len(Put(disk, at, units))
    OBVIOUS
  <1>8. l \in {a, at + n} /\ a <= l /\ at + n <= l /\ l \in Nat
    BY <1>3, <1>4, <1>5, <1>6, <1>7, PutIs
  <1>9. PICK b : b = RoundUp(a)
    OBVIOUS
  <1>10. /\ b \in Nat /\ a <= b * BlockSize /\ b * BlockSize - BlockSize < a
         /\ b * BlockSize \in Int
    BY <1>6, <1>9, RoundedUp, MFileAssumption
  <1>11. q < at + n /\ at + n <= q + BlockSize
    BY <1>3, <1>5, <1>6
  <1>12. \A c \in Int : c * BlockSize < l /\ l <= c * BlockSize + BlockSize => RoundUp(l) = c + 1
    BY <1>8, RoundedUp
  <1>13. CASE p < b
    <2>1. q + BlockSize <= b * BlockSize
      BY <1>2, <1>10, <1>13, Times
    <2>2. l <= b * BlockSize /\ b * BlockSize - BlockSize < l
      BY <1>3, <1>6, <1>8, <1>10, <1>11, <2>1
    <2>3. (b - 1) * BlockSize = b * BlockSize - BlockSize /\ b - 1 \in Int
      BY <1>10, Times
    <2>4. RoundUp(l) = b
      BY <1>6, <1>8, <1>10, <1>12, <2>2, <2>3
    <2> QED BY <1>4, <1>7, <1>9, <1>13, <2>4
  <1>14. CASE ~(p < b)
    <2>1. b * BlockSize <= q
      BY <1>2, <1>10, <1>14, Times
    <2>2. l = at + n
      BY <1>3, <1>6, <1>8, <1>10, <1>11, <2>1
    <2>3. RoundUp(l) = p + 1
      BY <1>2, <1>11, <1>12, <2>2
    <2> QED BY <1>4, <1>7, <1>9, <1>14, <2>3
  <1> QED BY <1>13, <1>14

\* A write to the place of a block: what changes beside the block was never
\* written.
PutIn(mf, c, p, off, units, a) ==
    [dirs |-> mf.dirs, avail |-> a, cur |-> mf.cur,
     parts |-> [i \in 1..Len(mf.parts) |->
        IF i = c
        THEN [dir |-> mf.parts[i].dir, top |-> mf.parts[i].top,
              blocks |-> IF p < mf.parts[i].blocks THEN mf.parts[i].blocks ELSE p + 1,
              disk |-> Put(mf.parts[i].disk, p * BlockSize + off, units)]
        ELSE mf.parts[i]]]
Kept(mf, nf, no) ==
    \A i \in 1..BlockSize : Cell(nf, no)[i] = Cell(mf, no)[i] \/ Cell(mf, no)[i] = Short
Changed(mf, nf, no, off, units) ==
    \A n \in Nat : \A i \in 1..BlockSize :
        IF n = no /\ off < i /\ i <= off + Len(units)
        THEN Cell(nf, n)[i] = units[i - off]
        ELSE Cell(nf, n)[i] = Cell(mf, n)[i] \/ Cell(mf, n)[i] = Short

\* A write that fits its part leaves a register and changes that block only.
LEMMA PutInIs ==
    ASSUME NEW mf, Register(mf), NEW no \in Nat, NEW off \in Nat,
           NEW units \in Seq(Datum), units # <<>>, off + Len(units) <= BlockSize,
           NEW a \in [1..Len(mf.dirs) -> Int], NEW c, NEW p,
           c = Place(mf, no).cur, p = Place(mf, no).ps
    PROVE  /\ Register(PutIn(mf, c, p, off, units, a))
           /\ Changed(mf, PutIn(mf, c, p, off, units, a), no, off, units)
  <1> DEFINE nf == PutIn(mf, c, p, off, units, a)
             n == Len(mf.parts)
             at == p * BlockSize + off
             disk == mf.parts[c].disk
             b == mf.parts[c].blocks
  <1>1. c \in 1..n /\ p \in Nat /\ c = (IF InSecond(mf, no) THEN 2 ELSE 1)
        /\ p = (IF InSecond(mf, no) THEN no - mf.parts[1].top - 1 ELSE no)
    BY PlaceIs
  <1>2. at \in Nat /\ p * BlockSize \in Nat
    <2>1. p * BlockSize \in Nat
      BY <1>1, Scaled
    <2> QED BY <2>1
  <1>3. disk \in Seq(Datum) /\ b = RoundUp(Len(disk)) /\ b \in Nat /\ mf.parts[c] \in Part
    BY <1>1, PartsOf
  <1>4. Put(disk, at, units) \in Seq(Datum)
    BY <1>2, <1>3, PutIs
  <1>5. RoundUp(Len(Put(disk, at, units))) = IF p < b THEN b ELSE p + 1
    <2>1. RoundUp(Len(Put(disk, at, units)))
              = IF p < RoundUp(Len(disk)) THEN RoundUp(Len(disk)) ELSE p + 1
      <3>1. p \in Nat /\ at = p * BlockSize + off
        BY <1>1
      <3> HIDE DEF disk, at
      <3> QED BY <1>3, <3>1, PutBlocks
    <2> HIDE DEF disk, b, at
    <2> QED BY <2>1, <1>3
  <1>6. /\ Len(nf.parts) = n /\ nf.dirs = mf.dirs /\ nf.avail = a /\ nf.cur = mf.cur
        /\ nf = [dirs |-> nf.dirs, avail |-> nf.avail, cur |-> nf.cur, parts |-> nf.parts]
        /\ \A i \in 1..n : i # c => nf.parts[i] = mf.parts[i]
        /\ nf.parts[c].dir = mf.parts[c].dir /\ nf.parts[c].top = mf.parts[c].top
        /\ nf.parts[c].blocks = (IF p < b THEN b ELSE p + 1)
        /\ nf.parts[c].disk = Put(disk, at, units)
        /\ nf.parts[c] \in Part /\ nf.parts \in [1..n -> Part]
    <2>1. n \in Nat
      BY DEF Register
    <2> DEFINE e == [dir |-> mf.parts[c].dir, top |-> mf.parts[c].top,
                     blocks |-> IF p < b THEN b ELSE p + 1,
                     disk |-> Put(disk, at, units)]
               q == [i \in 1..n |-> IF i = c THEN e ELSE mf.parts[i]]
    <2>2. e \in Part
      <3>1. mf.parts[c].dir \in Nat /\ mf.parts[c].top \in Int
        BY ONLY <1>3 DEF Part
      <3> HIDE DEF b, disk, at
      <3>2. (IF p < b THEN b ELSE p + 1) \in Nat
        BY ONLY <1>1, <1>3
      <3> QED BY ONLY <3>1, <3>2, <1>4 DEF Part
    <2>3. nf = [dirs |-> mf.dirs, avail |-> a, cur |-> mf.cur, parts |-> q]
      BY DEF PutIn
    <2>4. \A i \in 1..n : mf.parts[i] \in Part
      BY PartsOf
    <2>5. q \in [1..n -> Part] /\ Len(q) = n /\ q[c] = e /\ \A i \in 1..n : i # c => q[i] = mf.parts[i]
      <3> HIDE DEF e, n
      <3> QED BY <1>1, <2>1, <2>2, <2>4
    <2>6. /\ e.dir = mf.parts[c].dir /\ e.top = mf.parts[c].top
          /\ e.blocks = (IF p < b THEN b ELSE p + 1) /\ e.disk = Put(disk, at, units)
      OBVIOUS
    <2> HIDE DEF q
    <2>7. /\ nf.dirs = mf.dirs /\ nf.avail = a /\ nf.cur = mf.cur /\ nf.parts = q
          /\ nf = [dirs |-> nf.dirs, avail |-> nf.avail, cur |-> nf.cur, parts |-> nf.parts]
      BY ONLY <2>3
    <2> HIDE DEF nf, e, b, disk, at, n
    <2> QED BY ONLY <2>2, <2>5, <2>6, <2>7
  <1> HIDE DEF nf
  <1>7. Register(nf)
    <2>1. /\ mf.dirs \in Seq(Int) /\ OneLimit(mf.dirs) /\ n \in 1..2 /\ mf.cur \in 1..n
          /\ n = 2 => mf.parts[2].dir # 1 /\ mf.parts[1].top = mf.parts[1].blocks - 1
          /\ n = 2 => 1 \in 1..n /\ 2 \in 1..n
      BY PartsOf DEF Register
    <2>2. nf.parts \in Seq(Part)
      <3> HIDE DEF n
      <3> QED BY <1>6, <2>1
    <2>3. \A i \in 1..n : nf.parts[i].dir \in 1..Len(mf.dirs)
                          /\ nf.parts[i].blocks = RoundUp(Len(nf.parts[i].disk))
      <3>1. \A i \in 1..n : mf.parts[i].dir \in 1..Len(mf.dirs)
                            /\ mf.parts[i].blocks = RoundUp(Len(mf.parts[i].disk))
        BY PartsOf
      <3> HIDE DEF n, at, disk, b
      <3> QED BY <1>1, <1>5, <1>6, <3>1 DEF disk
    <2>4. n = 2 => nf.parts[2].dir # 1 /\ nf.parts[1].top = nf.parts[1].blocks - 1
      <3>1. n = 2 /\ c = 1 => p < b
        <4>1. n = 2 /\ c = 1 => ~InSecond(mf, no)
          BY <1>1
        <4>2. mf.parts[1].top \in Int
          BY PartsOf
        <4>3. n = 2 /\ c = 1 => p = no /\ ~(mf.parts[1].top < no)
          BY <1>1, <4>1 DEF InSecond
        <4>4. n = 2 /\ c = 1 => mf.parts[1].top = b - 1
          BY <2>1
        <4> HIDE DEF n, b
        <4> QED BY ONLY <4>2, <4>3, <4>4, <1>3, no \in Nat
      <3> HIDE DEF n, at, disk
      <3> QED BY <1>6, <2>1, <3>1
    <2> QED BY <1>6, <2>1, <2>2, <2>3, <2>4 DEF Register
  <1>8. ASSUME NEW m \in Nat, NEW i \in 1..BlockSize
        PROVE  IF m = no /\ off < i /\ i <= off + Len(units)
               THEN Cell(nf, m)[i] = units[i - off]
               ELSE Cell(nf, m)[i] = Cell(mf, m)[i] \/ Cell(mf, m)[i] = Short
    <2> DEFINE d == Place(mf, m).cur
               r == Place(mf, m).ps
               k == r * BlockSize + i
    <2>1. /\ d \in 1..n /\ r \in Nat /\ d = (IF InSecond(mf, m) THEN 2 ELSE 1)
          /\ r = (IF InSecond(mf, m) THEN m - mf.parts[1].top - 1 ELSE m)
      BY PlaceIs
    <2>2. Place(nf, m) = Place(mf, m)
      <3>1. n = 2 => nf.parts[1].top = mf.parts[1].top
        <4>1. n = 2 => 1 \in 1..n
          BY PartsOf
        <4> QED BY <1>6, <4>1
      <3> QED BY <1>6, <3>1 DEF Place, InSecond
    <2>3. Cell(mf, m)[i] = UnitAt(mf.parts[d].disk, k)
      <3>1. Cell(mf, m) = [j \in 1..BlockSize |->
                             UnitAt(mf.parts[d].disk, r * BlockSize + j)]
        BY CellIs
      <3> HIDE DEF d, r
      <3> QED BY <3>1
    <2>4. Cell(nf, m)[i] = UnitAt(nf.parts[d].disk, k)
      <3>1. Cell(nf, m) = [j \in 1..BlockSize |->
               UnitAt(nf.parts[Place(nf, m).cur].disk, Place(nf, m).ps * BlockSize + j)]
        BY <1>7, CellIs
      <3>2. Place(nf, m).cur = d /\ Place(nf, m).ps = r
        BY <2>2
      <3> HIDE DEF d, r
      <3> QED BY <3>1, <3>2
    <2>5. k \in Nat \ {0} /\ r * BlockSize \in Nat
      <3>1. r * BlockSize \in Nat
        <4> HIDE DEF r
        <4> QED BY <2>1, Scaled
      <3> QED BY <3>1, MFileAssumption
    <2>6. d = c /\ r = p <=> m = no
      <3>1. mf.parts[1].top \in Int
        BY PartsOf
      <3>2. d = c /\ r = p => m = no
        <4> HIDE DEF d, r
        <4>1. CASE InSecond(mf, no) /\ InSecond(mf, m)
          <5>1. PICK t \in Int : t = mf.parts[1].top
            BY <3>1
          <5>2. p = no - t - 1 /\ r = m - t - 1
            BY <4>1, <1>1, <2>1, <5>1
          <5> QED BY ONLY <5>2, no \in Nat, m \in Nat, t \in Int
        <4>2. CASE ~InSecond(mf, no) \/ ~InSecond(mf, m)
          <5>1. d = c => ~InSecond(mf, no) /\ ~InSecond(mf, m)
            BY <4>2, <1>1, <2>1
          <5> QED BY <5>1, <1>1, <2>1
        <4> QED BY <4>1, <4>2
      <3> QED BY <3>2
    <2> HIDE DEF d, r, n, disk, b
    <2>7. CASE d # c
      <3>1. Cell(nf, m)[i] = Cell(mf, m)[i]
        BY <1>6, <2>1, <2>3, <2>4, <2>7
      <3> QED BY <2>6, <2>7, <3>1
    <2>8. CASE d = c /\ r # p
      <3>1. ~(k > at /\ k <= at + Len(units))
        <4>1. PICK x : x = r * BlockSize
          OBVIOUS
        <4>2. PICK y : y = p * BlockSize
          OBVIOUS
        <4>3. x + BlockSize <= y \/ y + BlockSize <= x
          <5>1. r < p \/ p < r
            BY <1>1, <2>1, <2>8
          <5>2. r \in Int /\ p \in Int
            BY <1>1, <2>1
          <5> QED BY <5>2, <4>1, <4>2, <5>1, Times
        <4>4. x \in Nat /\ y \in Nat /\ k = x + i /\ at = y + off /\ Len(units) \in Nat
          BY <1>2, <2>5, <4>1, <4>2
        <4> HIDE DEF k, at
        <4> QED BY <4>3, <4>4, MFileAssumption
      <3>2. UnitAt(Put(disk, at, units), k) =
                IF k <= Len(disk) THEN disk[k]
                ELSE IF k <= at + Len(units) THEN Hole ELSE Short
        <4> HIDE DEF k, at
        <4>1. UnitAt(Put(disk, at, units), k) =
                IF k > at /\ k <= at + Len(units) THEN units[k - at]
                ELSE IF k <= Len(disk) THEN disk[k]
                ELSE IF k <= at + Len(units) THEN Hole ELSE Short
          BY <1>2, <1>3, <2>5, PutIs
        <4> QED BY <3>1, <4>1
      <3>3. Cell(mf, m)[i] = UnitAt(disk, k) /\ Cell(nf, m)[i] = UnitAt(Put(disk, at, units), k)
        BY <1>6, <2>3, <2>4, <2>8 DEF disk
      <3> QED BY <2>6, <2>8, <3>2, <3>3 DEF UnitAt
    <2>9. CASE d = c /\ r = p
      <3>1. k > at /\ k <= at + Len(units) <=> off < i /\ i <= off + Len(units)
        BY <1>2, <2>9
      <3>2. k > at => k - at = i - off
        BY <1>2, <2>9
      <3>3. Cell(mf, m)[i] = UnitAt(disk, k) /\ Cell(nf, m)[i] = UnitAt(Put(disk, at, units), k)
        BY <1>6, <2>3, <2>4, <2>9 DEF disk
      <3>4. UnitAt(Put(disk, at, units), k) =
                IF k > at /\ k <= at + Len(units) THEN units[k - at]
                ELSE IF k <= Len(disk) THEN disk[k]
                ELSE IF k <= at + Len(units) THEN Hole ELSE Short
        <4> HIDE DEF k, at
        <4> QED BY <1>2, <1>3, <2>5, PutIs
      <3> HIDE DEF k, at
      <3> QED BY <2>6, <2>9, <3>1, <3>2, <3>3, <3>4 DEF UnitAt
    <2> QED BY <2>7, <2>8, <2>9
  <1> QED BY <1>7, <1>8 DEF nf, Changed

\* What was never written may change, in several steps too.
LEMMA KeptTwice ==
    ASSUME NEW mf, NEW nf, NEW lf, NEW no, Kept(mf, nf, no), Kept(nf, lf, no)
    PROVE  Kept(mf, lf, no)
  BY DEF Kept

\* Registers that are alike keep each other's blocks.
LEMMA KeptAlike ==
    ASSUME NEW mf, Register(mf), NEW nf, Register(nf), Alike(mf, nf), NEW no \in Nat
    PROVE  Kept(mf, nf, no)
  BY AlikeCells DEF Kept

\* The part that is current does not matter.
LEMMA CurIs ==
    ASSUME NEW mf, Register(mf), NEW c \in 1..Len(mf.parts), NEW nf,
           nf = [mf EXCEPT !.cur = c]
    PROVE  /\ Register(nf) /\ Alike(mf, nf) /\ nf.cur = c /\ nf.parts = mf.parts
           /\ \A no \in Nat : Place(nf, no) = Place(mf, no)
  <1>1. PICK d, a, x, s : mf = [dirs |-> d, avail |-> a, cur |-> x, parts |-> s]
    BY DEF Register
  <1>2. nf = [dirs |-> d, avail |-> a, cur |-> c, parts |-> s]
    BY <1>1
  <1>3. Register(nf)
    BY <1>1, <1>2 DEF Register
  <1> QED BY <1>1, <1>2, <1>3 DEF Alike, Place, InSecond

\* The part before its disk is written.
Grown(mf, c, p, a) ==
    [dirs |-> mf.dirs, avail |-> a, cur |-> c,
     parts |-> [i \in 1..Len(mf.parts) |->
        IF i = c
        THEN [dir |-> mf.parts[i].dir, top |-> mf.parts[i].top,
              blocks |-> IF p < mf.parts[i].blocks THEN mf.parts[i].blocks ELSE p + 1,
              disk |-> mf.parts[i].disk]
        ELSE mf.parts[i]]]
InPart(m, p, ok) == [mf |-> m, ps |-> p, ok |-> ok]

\* The loop ends once the part has the block, and the block is written there.
Around(mf, c, p) == Register(mf) /\ c \in 1..Len(mf.parts) /\ p \in Nat /\ mf.cur = c
IsGrown(w, mf, c, p, a) == Around(mf, c, p) /\ w = InPart(Grown(mf, c, p, a), p, TRUE)
Stays(w) == \A no : GrowStep(w, no) = w
Puts(w, mf, c, p, a) ==
    \A off, units :
       WriteUnits(w, off, units) = InPart(PutIn(mf, c, p, off, units, a), p, TRUE)

\* A part that has grown far enough is not grown again, and takes the write.
LEMMA GrownEnds ==
    ASSUME NEW mf, NEW c, NEW p, NEW a, NEW w, IsGrown(w, mf, c, p, a)
    PROVE  Stays(w) /\ Puts(w, mf, c, p, a)
  <1> SUFFICES ASSUME NEW no, NEW off, NEW units
               PROVE  /\ GrowStep(w, no) = w
                      /\ WriteUnits(w, off, units) = InPart(PutIn(mf, c, p, off, units, a), p, TRUE)
    BY Zenon DEF Stays, Puts
  <1> USE DEF IsGrown, Around
  <1>1. /\ mf.parts[c] \in Part /\ mf.parts[c].blocks \in Nat
        /\ Len(mf.parts) \in Nat
    BY PartsOf
  <1> DEFINE n == Len(mf.parts)
             e == [dir |-> mf.parts[c].dir, top |-> mf.parts[c].top,
                   blocks |-> IF p < mf.parts[c].blocks THEN mf.parts[c].blocks ELSE p + 1,
                   disk |-> mf.parts[c].disk]
             f == [dir |-> mf.parts[c].dir, top |-> mf.parts[c].top,
                   blocks |-> IF p < mf.parts[c].blocks THEN mf.parts[c].blocks ELSE p + 1,
                   disk |-> Put(mf.parts[c].disk, p * BlockSize + off, units)]
             q == [i \in 1..n |-> IF i = c THEN e ELSE mf.parts[i]]
             g == [i \in 1..n |-> IF i = c THEN f ELSE mf.parts[i]]
  <1>2. w = [mf |-> [dirs |-> mf.dirs, avail |-> a, cur |-> c, parts |-> q],
             ps |-> p, ok |-> TRUE]
    BY DEF InPart, Grown
  <1>3. p < e.blocks
    <2>1. e.blocks = IF p < mf.parts[c].blocks THEN mf.parts[c].blocks ELSE p + 1
      OBVIOUS
    <2> HIDE DEF e
    <2> QED BY <1>1, <2>1
  <1>4. f = [e EXCEPT !.disk = Put(@, p * BlockSize + off, units)]
    OBVIOUS
  <1> HIDE DEF e, f
  <1>5. q[c] = e /\ g = [q EXCEPT ![c] = f]
    OBVIOUS
  <1> HIDE DEF q
  <1>6. GrowStep(w, no) = w
    <2>1. w.mf.parts = q /\ w.mf.cur = c /\ w.ps = p
      BY ONLY <1>2
    <2>2. w.ok
      BY ONLY <1>2
    <2>3. w.ps < w.mf.parts[w.mf.cur].blocks
      BY <1>3, <1>5, <2>1
    <2> QED BY ONLY <2>2, <2>3 DEF GrowStep
  <1>7. WriteUnits(w, off, units) =
            [mf |-> [dirs |-> mf.dirs, avail |-> a, cur |-> c, parts |-> g],
             ps |-> p, ok |-> TRUE]
    <2>1. w.mf.parts = q /\ w.mf.cur = c /\ w.ps = p
      BY ONLY <1>2
    <2>2. w.ok
      BY ONLY <1>2
    <2>3. WriteUnits(w, off, units) = [w EXCEPT !.mf = [w.mf EXCEPT !.parts =
              [q EXCEPT ![c] = [q[c] EXCEPT !.disk = Put(q[c].disk, p * BlockSize + off, units)]]]]
      <3>1. PICK at : at = p * BlockSize + off
        OBVIOUS
      <3>2. at = w.ps * BlockSize + off
        BY ONLY <2>1, <3>1
      <3>3. WriteUnits(w, off, units) = [w EXCEPT !.mf.parts[w.mf.cur].disk =
                 Put(w.mf.parts[w.mf.cur].disk, w.ps * BlockSize + off, units)]
        BY <2>2, Zenon DEF WriteUnits
      <3>4. WriteUnits(w, off, units) = [w EXCEPT !.mf.parts[w.mf.cur].disk =
                 Put(w.mf.parts[w.mf.cur].disk, at, units)]
        BY ONLY <3>2, <3>3, Zenon
      <3>5. WriteUnits(w, off, units) = [w EXCEPT !.mf = [w.mf EXCEPT !.parts =
                 [w.mf.parts EXCEPT ![w.mf.cur] = [w.mf.parts[w.mf.cur] EXCEPT !.disk =
                     Put(w.mf.parts[w.mf.cur].disk, at, units)]]]]
        BY ONLY <3>4, Zenon
      <3> QED BY ONLY <2>1, <3>1, <3>5, Zenon
    <2>4. WriteUnits(w, off, units) = [w EXCEPT !.mf = [w.mf EXCEPT !.parts = g]]
      BY <2>3, <1>4, <1>5
    <2> HIDE DEF g
    <2>5. PICK y : w = [mf |-> y, ps |-> p, ok |-> TRUE]
                   /\ y = [dirs |-> mf.dirs, avail |-> a, cur |-> c, parts |-> q]
      BY ONLY <1>2
    <2>6. [w.mf EXCEPT !.parts = g] = [dirs |-> mf.dirs, avail |-> a, cur |-> c, parts |-> g]
      BY ONLY <2>5
    <2> QED BY ONLY <2>4, <2>5, <2>6
  <1> QED BY <1>6, <1>7 DEF InPart, PutIn, f, g

\* The part takes blocks of its directory.
More(mf, p) == p - mf.parts[mf.cur].blocks + 1
Left(mf, p) == LET dir == mf.parts[mf.cur].dir
               IN  IF Limited(mf, dir) THEN mf.avail[dir] - More(mf, p) * BlockSize
                   ELSE mf.avail[dir]
Extended(mf, p) ==
    [dirs |-> mf.dirs,
     avail |-> [mf.avail EXCEPT ![mf.parts[mf.cur].dir] = Left(mf, p)],
     cur |-> mf.cur,
     parts |-> [mf.parts EXCEPT ![mf.cur] =
                   [mf.parts[mf.cur] EXCEPT !.blocks = mf.parts[mf.cur].blocks + More(mf, p)]]]

\* What extending the current part makes of the register.
LEMMA ExtendIs ==
    ASSUME NEW mf, NEW p, Register(mf)
    PROVE  Extend(InPart(mf, p, TRUE)) = InPart(Extended(mf, p), p, TRUE)
  <1>a. PICK d, v, c, s : mf = [dirs |-> d, avail |-> v, cur |-> c, parts |-> s]
    BY DEF Register
  <1>b. PICK w : w = InPart(mf, p, TRUE)
    OBVIOUS
  <1>c. w = [mf |-> mf, ps |-> p, ok |-> TRUE]
    BY <1>b DEF InPart
  <1>0. PICK more, dir, left :
           more = More(mf, p) /\ dir = s[c].dir /\ left = Left(mf, p)
    OBVIOUS
  <1>1. PICK x : x = [w EXCEPT !.mf.parts[w.mf.cur].blocks =
                                   w.mf.parts[w.mf.cur].blocks + more]
    OBVIOUS
  <1>2. w.mf = mf /\ w.ps = p /\ mf.cur = c /\ mf.parts = s /\ mf.avail = v
    BY ONLY <1>a, <1>c
  <1>3. x = [w EXCEPT !.mf = [w.mf EXCEPT !.parts = [w.mf.parts EXCEPT ![w.mf.cur] =
               [w.mf.parts[w.mf.cur] EXCEPT !.blocks = w.mf.parts[w.mf.cur].blocks + more]]]]
    BY <1>1, Zenon
  <1>4. PICK q : q = [s EXCEPT ![c] = [s[c] EXCEPT !.blocks = s[c].blocks + more]]
    OBVIOUS
  <1>5. x = [w EXCEPT !.mf = [mf EXCEPT !.parts = q]]
    BY ONLY <1>2, <1>3, <1>4
  <1>6. x = [mf |-> [dirs |-> d, avail |-> v, cur |-> c, parts |-> q], ps |-> p, ok |-> TRUE]
    BY ONLY <1>5, <1>a, <1>c
  <1>7. Extend(w) = [x EXCEPT !.mf.avail[dir] = left]
    <2>1. Extend(w) = [w EXCEPT
             !.mf.parts[w.mf.cur].blocks = @ + (w.ps - w.mf.parts[w.mf.cur].blocks + 1),
             !.mf.avail[w.mf.parts[w.mf.cur].dir] =
                  IF Limited(w.mf, w.mf.parts[w.mf.cur].dir)
                  THEN @ - (w.ps - w.mf.parts[w.mf.cur].blocks + 1) * BlockSize ELSE @]
      BY Zenon DEF Extend
    <2>2. w.ps - w.mf.parts[w.mf.cur].blocks + 1 = more /\ w.mf.parts[w.mf.cur].dir = dir
      BY <1>0, <1>2 DEF More
    <2>3. Extend(w) = [w EXCEPT !.mf.parts[w.mf.cur].blocks = @ + more,
             !.mf.avail[dir] = IF Limited(mf, dir) THEN @ - more * BlockSize ELSE @]
      BY ONLY <2>1, <2>2, <1>2
    <2>4. PICK k : k = more * BlockSize
      OBVIOUS
    <2>5. Extend(w) = [w EXCEPT !.mf.parts[w.mf.cur].blocks = @ + more,
             !.mf.avail[dir] = IF Limited(mf, dir) THEN @ - k ELSE @]
      BY ONLY <2>3, <2>4
    <2>6. Extend(w) = [x EXCEPT !.mf.avail[dir] =
                          IF Limited(mf, dir) THEN x.mf.avail[dir] - k ELSE x.mf.avail[dir]]
      <3>0. x = [w EXCEPT !.mf.parts[c].blocks = w.mf.parts[c].blocks + more]
        BY ONLY <1>1, <1>2
      <3>1. CASE Limited(mf, dir)
        <4>1. Extend(w) = [w EXCEPT !.mf.parts[c].blocks = @ + more,
                                    !.mf.avail[dir] = @ - k]
          BY ONLY <2>5, <3>1, <1>2
        <4>2. [w EXCEPT !.mf.parts[c].blocks = @ + more, !.mf.avail[dir] = @ - k]
                 = [x EXCEPT !.mf.avail[dir] = x.mf.avail[dir] - k]
          BY ONLY <3>0
        <4>3. Extend(w) = [x EXCEPT !.mf.avail[dir] = x.mf.avail[dir] - k]
          BY ONLY <4>1, <4>2, Zenon
        <4> QED BY ONLY <4>3, <3>1
      <3>2. CASE ~Limited(mf, dir)
        <4>1. Extend(w) = [w EXCEPT !.mf.parts[c].blocks = @ + more,
                                    !.mf.avail[dir] = @]
          BY ONLY <2>5, <3>2, <1>2
        <4>2. [w EXCEPT !.mf.parts[c].blocks = @ + more, !.mf.avail[dir] = @]
                 = [x EXCEPT !.mf.avail[dir] = x.mf.avail[dir]]
          BY ONLY <3>0
        <4>3. Extend(w) = [x EXCEPT !.mf.avail[dir] = x.mf.avail[dir]]
          BY ONLY <4>1, <4>2, Zenon
        <4> QED BY ONLY <4>3, <3>2
      <3> QED BY <3>1, <3>2
    <2>7. x.mf.avail = v
      BY ONLY <1>6
    <2> QED BY ONLY <2>4, <2>6, <2>7,
               <1>0, <1>2 DEF Left
  <1>8. Extend(w) = [x EXCEPT !.mf = [x.mf EXCEPT !.avail = [x.mf.avail EXCEPT ![dir] = left]]]
    BY <1>7, Zenon
  <1>9. Extend(w) = [mf |-> [dirs |-> d, avail |-> [v EXCEPT ![dir] = left], cur |-> c, parts |-> q],
                     ps |-> p, ok |-> TRUE]
    BY ONLY <1>6, <1>8
  <1>10. Extended(mf, p) = [dirs |-> d, avail |-> [v EXCEPT ![dir] = left], cur |-> c, parts |-> q]
    BY ONLY <1>0, <1>2, <1>4, <1>a DEF Extended
  <1> QED BY ONLY <1>b, <1>9, <1>10 DEF InPart

\* One round is enough when the part has room.
Room(mf, c, p) == \/ p < mf.parts[c].blocks
                  \/ ~Limited(mf, mf.parts[c].dir)
                  \/ (p - mf.parts[c].blocks + 1) * BlockSize <= mf.avail[mf.parts[c].dir]
IsIn(w, mf, c, p) == Around(mf, c, p) /\ w = InPart(mf, p, TRUE)

\* One step of mf_write makes the room for a block whose part may grow.
LEMMA GrownNow ==
    ASSUME NEW mf, NEW c, NEW p, NEW w, IsIn(w, mf, c, p), Room(mf, c, p), NEW no
    PROVE  \E a \in [1..Len(mf.dirs) -> Int] : IsGrown(GrowStep(w, no), mf, c, p, a)
  <1>a. Register(mf) /\ c \in 1..Len(mf.parts) /\ p \in Nat /\ mf.cur = c /\ w = InPart(mf, p, TRUE)
    BY DEF IsIn, Around
  <1>b. \/ p < mf.parts[c].blocks
        \/ ~Limited(mf, mf.parts[c].dir)
        \/ (p - mf.parts[c].blocks + 1) * BlockSize <= mf.avail[mf.parts[c].dir]
    BY DEF Room
  <1> SUFFICES \E a \in [1..Len(mf.dirs) -> Int] :
                  GrowStep(w, no) = InPart(Grown(mf, c, p, a), p, TRUE)
    BY <1>a DEF IsGrown, Around
  <1> USE <1>a, <1>b
  <1>1. /\ mf.parts[c] \in Part /\ mf.parts[c].blocks \in Nat /\ Len(mf.parts) \in Nat
        /\ mf.parts[c].dir \in 1..Len(mf.dirs) /\ mf.avail \in [1..Len(mf.dirs) -> Int]
        /\ mf.parts \in Seq(Part)
    <2>1. mf.avail \in [1..Len(mf.dirs) -> Int] /\ mf.parts \in Seq(Part)
      BY DEF Register
    <2>2. Len(mf.parts) \in Nat
      BY ONLY <2>1
    <2> QED BY <2>1, <2>2, PartsOf
  <1>2. PICK d, v, s : mf = [dirs |-> d, avail |-> v, cur |-> c, parts |-> s]
    BY DEF Register
  <1>3. w = [mf |-> mf, ps |-> p, ok |-> TRUE]
    BY DEF InPart
  <1> DEFINE more == p - mf.parts[c].blocks + 1
             nb == IF p < mf.parts[c].blocks THEN mf.parts[c].blocks ELSE p + 1
             e == [dir |-> mf.parts[c].dir, top |-> mf.parts[c].top,
                   blocks |-> nb, disk |-> mf.parts[c].disk]
             q == [i \in 1..Len(mf.parts) |-> IF i = c THEN e ELSE mf.parts[i]]
  <1>4. CASE p < mf.parts[c].blocks
    <2>1. e = mf.parts[c]
      BY <1>1, <1>4 DEF Part
    <2>2. q = mf.parts
      <3> HIDE DEF e
      <3> QED BY ONLY <1>1, <2>1
    <2>3. Grown(mf, c, p, mf.avail) = mf
      <3>1. Grown(mf, c, p, mf.avail) = [dirs |-> mf.dirs, avail |-> mf.avail, cur |-> c, parts |-> q]
        BY DEF Grown
      <3> HIDE DEF q
      <3> QED BY <1>2, <2>2, <3>1
    <2>4. GrowStep(w, no) = w
      <3>1. w.ps = p /\ w.mf = mf
        BY ONLY <1>3
      <3>2. w.ok
        BY ONLY <1>3
      <3>3. w.ps < w.mf.parts[w.mf.cur].blocks
        BY <1>4, <3>1
      <3> QED BY ONLY <3>2, <3>3 DEF GrowStep
    <2> QED BY <1>1, <1>3, <2>3, <2>4 DEF InPart
  <1>5. CASE ~(p < mf.parts[c].blocks)
    <2> DEFINE dir == mf.parts[c].dir
               left == IF Limited(mf, dir) THEN mf.avail[dir] - more * BlockSize
                       ELSE mf.avail[dir]
               a == [mf.avail EXCEPT ![dir] = left]
    <2>1. a \in [1..Len(mf.dirs) -> Int]
      <3>1. left \in Int
        <4>1. more * BlockSize \in Int
          <5>1. more \in Int
            BY <1>1
          <5> HIDE DEF more
          <5> QED BY <5>1, Times
        <4>2. mf.avail[dir] \in Int
          BY <1>1
        <4> HIDE DEF more
        <4> QED BY <4>1, <4>2
      <3> HIDE DEF left
      <3> QED BY <1>1, <3>1
    <2>2. e = [mf.parts[c] EXCEPT !.blocks = @ + more]
      <3>1. mf.parts[c].blocks + more = nb
        BY <1>1, <1>5
      <3>2. PICK x \in Part : x = mf.parts[c]
        BY <1>1
      <3> HIDE DEF nb, more
      <3>3. e = [x EXCEPT !.blocks = nb]
        BY <3>2 DEF Part
      <3> QED BY <3>1, <3>2, <3>3
    <2>3. q = [mf.parts EXCEPT ![c] = [mf.parts[c] EXCEPT !.blocks = mf.parts[c].blocks + more]]
      <3> HIDE DEF e, more
      <3>1. q = [mf.parts EXCEPT ![c] = e]
        <4>1. DOMAIN mf.parts = 1..Len(mf.parts)
          BY ONLY <1>1
        <4> QED BY ONLY <4>1
      <3> QED BY <2>2, <3>1
    <2>4. GrowStep(w, no) = Extend(w)
      <3>1. Limited(mf, dir) => more * BlockSize <= mf.avail[dir] /\ ~(more * BlockSize > mf.avail[dir])
        <4>1. more * BlockSize \in Int /\ mf.avail[dir] \in Int
          <5>1. more \in Int
            BY <1>1
          <5>2. mf.avail[dir] \in Int
            BY <1>1
          <5> HIDE DEF more
          <5> QED BY <5>1, <5>2, Times
        <4>2. Limited(mf, dir) => more * BlockSize <= mf.avail[dir]
          BY <1>5
        <4> HIDE DEF more
        <4> QED BY <4>1, <4>2
      <3>2. w.mf = mf /\ w.ps = p
        BY ONLY <1>3
      <3>4. w.ok
        BY ONLY <1>3
      <3>3. ~(Limited(mf, dir) /\ (p - mf.parts[c].blocks + 1) * BlockSize > mf.avail[dir])
        BY <3>1
      <3> QED BY <1>5, <3>2, <3>3, <3>4 DEF GrowStep
    <2>5. PICK g : g = [mf.parts EXCEPT ![c] = [mf.parts[c] EXCEPT !.blocks = mf.parts[c].blocks + more]]
      OBVIOUS
    <2>6. Extend(w) = [mf |-> [dirs |-> d, avail |-> a, cur |-> c, parts |-> g],
                       ps |-> p, ok |-> TRUE]
      <3>1. s = mf.parts /\ v = mf.avail /\ d = mf.dirs
        BY ONLY <1>2
      <3>2. More(mf, p) = more /\ Left(mf, p) = left /\ s[c].dir = dir
        BY <1>2, <3>1 DEF More, Left
      <3>3. Extend(w) = InPart(Extended(mf, p), p, TRUE)
        BY ExtendIs
      <3> HIDE DEF left, dir, more
      <3>4. mf.parts[c].dir = dir /\ mf.cur = c
        BY ONLY <3>1, <3>2, <1>2
      <3>5. Extended(mf, p) = [dirs |-> mf.dirs, avail |-> [mf.avail EXCEPT ![dir] = left],
               cur |-> c, parts |-> [mf.parts EXCEPT ![c] =
                                       [mf.parts[c] EXCEPT !.blocks = mf.parts[c].blocks + more]]]
        BY ONLY <3>2, <3>4, Zenon DEF Extended
      <3>6. Extended(mf, p) = [dirs |-> mf.dirs, avail |-> a, cur |-> c, parts |-> g]
        BY ONLY <3>5, <2>5 DEF a
      <3> HIDE DEF a
      <3>7. Extended(mf, p) = [dirs |-> d, avail |-> a, cur |-> c, parts |-> g]
        BY ONLY <3>1, <3>6
      <3> QED BY ONLY <3>3, <3>7 DEF InPart
    <2>7. Extend(w) = [mf |-> [dirs |-> mf.dirs, avail |-> a, cur |-> c, parts |-> q],
                       ps |-> p, ok |-> TRUE]
      <3>1. g = q
        BY <2>3, <2>5
      <3>2. d = mf.dirs
        BY ONLY <1>2
      <3> QED BY ONLY <2>6, <3>1, <3>2
    <2> HIDE DEF q, a
    <2>8. Grown(mf, c, p, a) = [dirs |-> mf.dirs, avail |-> a, cur |-> c, parts |-> q]
      BY DEF Grown, q
    <2> QED BY <2>1, <2>4, <2>7, <2>8 DEF InPart
  <1> QED BY <1>4, <1>5

\* A part is capped off by a write of one unit to its last block.
Cap(mf, nb) ==
    LET p == mf.parts[1].blocks + nb - 1
    IN  PutIn(mf, 1, p, 0, <<Dummy>>,
              [mf.avail EXCEPT ![mf.parts[1].dir] = mf.avail[mf.parts[1].dir] - nb * BlockSize])

\* Capping the first part writes the last block there is room for, and no more.
LEMMA CappedIs ==
    ASSUME NEW mf, Register(mf), Len(mf.parts) = 1, NEW nb \in Nat \ {0}
    PROVE  /\ Capped(mf, nb, FilePosition(mf, CapAt(mf, nb))) = Cap(mf, nb)
           /\ Place(mf, mf.parts[1].blocks + nb - 1) =
                 [cur |-> 1, ps |-> mf.parts[1].blocks + nb - 1]
  <1>1. /\ mf.parts[1] \in Part /\ mf.parts[1].blocks \in Nat /\ mf.cur = 1
        /\ mf.parts \in Seq(Part)
    <2>1. mf.parts \in Seq(Part) /\ mf.cur \in 1..1
      BY DEF Register
    <2>2. mf.cur = 1
      BY ONLY <2>1
    <2>3. 1 \in 1..Len(mf.parts)
      OBVIOUS
    <2> QED BY <2>1, <2>2, <2>3, PartsOf
  <1>2. PICK p : p = mf.parts[1].blocks + nb - 1
    OBVIOUS
  <1>3. p \in Nat /\ CapAt(mf, nb) = p
    BY <1>1, <1>2 DEF CapAt
  <1>4. Place(mf, p) = [cur |-> 1, ps |-> p]
    BY DEF Place, InSecond
  <1>5. FilePosition(mf, CapAt(mf, nb)) = [cur |-> 1, ps |-> p]
    BY <1>3, <1>4, PlaceIs
  <1>6. PICK dir, q, b, k :
           /\ dir = mf.parts[1].dir
           /\ q = Put(mf.parts[1].disk, p * BlockSize, <<Dummy>>)
           /\ b = mf.parts[1].blocks + nb /\ k = mf.avail[dir] - nb * BlockSize
    OBVIOUS
  <1>7. PICK at : at = [cur |-> 1, ps |-> p]
    OBVIOUS
  <1>8. at.cur = 1 /\ at.ps = p
    BY ONLY <1>7
  <1>9. Capped(mf, nb, at) =
          [mf EXCEPT !.cur = 1, !.parts[1].disk = q, !.parts[1].blocks = b, !.avail[dir] = k]
    <2>1. Capped(mf, nb, at) =
            [mf EXCEPT !.cur = at.cur,
               !.parts[at.cur].disk = Put(mf.parts[at.cur].disk, at.ps * BlockSize, <<Dummy>>),
               !.parts[at.cur].blocks = mf.parts[at.cur].blocks + nb,
               !.avail[mf.parts[at.cur].dir] = mf.avail[mf.parts[at.cur].dir] - nb * BlockSize]
      BY DEF Capped
    <2>2. Put(mf.parts[at.cur].disk, at.ps * BlockSize, <<Dummy>>) = q
      BY ONLY <1>6, <1>8, Zenon
    <2>3. mf.parts[at.cur].blocks + nb = b
      BY ONLY <1>6, <1>8, Zenon
    <2>4. mf.parts[at.cur].dir = dir
      BY <1>6, <1>8
    <2>5. mf.avail[mf.parts[at.cur].dir] - nb * BlockSize = k
      BY ONLY <1>6, <2>4, Zenon
    <2> QED BY ONLY <2>1, <2>2, <2>3, <2>4, <2>5, <1>8, Zenon
  <1>10. PICK d, v, s : mf = [dirs |-> d, avail |-> v, cur |-> 1, parts |-> s]
    BY <1>1 DEF Register
  <1>11. PICK x : x = [mf EXCEPT !.cur = 1, !.parts[1].disk = q]
    OBVIOUS
  <1>12. Capped(mf, nb, at) = [[x EXCEPT !.parts[1].blocks = b] EXCEPT !.avail[dir] = k]
    BY ONLY <1>9, <1>11
  <1>13. x = [mf EXCEPT !.cur = 1, !.parts = [mf.parts EXCEPT ![1] = [mf.parts[1] EXCEPT !.disk = q]]]
    BY ONLY <1>11, Zenon
  <1>14. PICK g : g = [s EXCEPT ![1] = [s[1] EXCEPT !.disk = q]]
    OBVIOUS
  <1>15. x = [dirs |-> d, avail |-> v, cur |-> 1, parts |-> g]
    BY ONLY <1>10, <1>13, <1>14
  <1>16. PICK y : y = [x EXCEPT !.parts[1].blocks = b]
    OBVIOUS
  <1>17. y = [x EXCEPT !.parts = [x.parts EXCEPT ![1] = [x.parts[1] EXCEPT !.blocks = b]]]
    BY ONLY <1>16, Zenon
  <1>18. PICK f : f = [g EXCEPT ![1] = [g[1] EXCEPT !.blocks = b]]
    OBVIOUS
  <1>19. y = [dirs |-> d, avail |-> v, cur |-> 1, parts |-> f]
    BY ONLY <1>15, <1>17, <1>18
  <1>20. Capped(mf, nb, at) = [y EXCEPT !.avail = [y.avail EXCEPT ![dir] = k]]
    <2>1. Capped(mf, nb, at) = [y EXCEPT !.avail[dir] = k]
      BY ONLY <1>12, <1>16, Zenon
    <2> QED BY ONLY <2>1, Zenon
  <1>21. Capped(mf, nb, at) = [dirs |-> d, avail |-> [v EXCEPT ![dir] = k], cur |-> 1, parts |-> f]
    BY ONLY <1>19, <1>20
  <1>22. s = mf.parts /\ v = mf.avail /\ d = mf.dirs
    BY ONLY <1>10
  <1>23. f = [i \in 1..1 |-> [dir |-> s[1].dir, top |-> s[1].top, blocks |-> b, disk |-> q]]
    <2>1. s[1] \in Part /\ s \in Seq(Part) /\ Len(s) = 1
      BY ONLY <1>1, <1>22, Len(mf.parts) = 1
    <2>2. PICK e : e = [dir |-> s[1].dir, top |-> s[1].top, blocks |-> b, disk |-> q]
      OBVIOUS
    <2>3. [[s[1] EXCEPT !.disk = q] EXCEPT !.blocks = b] = e
      <3>1. PICK d1, b1, t1, k1 : s[1] = [dir |-> d1, blocks |-> b1, top |-> t1, disk |-> k1]
        BY ONLY <2>1 DEF Part
      <3>2. PICK x1 : x1 = [s[1] EXCEPT !.disk = q]
        OBVIOUS
      <3>3. x1 = [dir |-> d1, blocks |-> b1, top |-> t1, disk |-> q]
        BY ONLY <3>1, <3>2
      <3>4. [x1 EXCEPT !.blocks = b] = [dir |-> d1, blocks |-> b, top |-> t1, disk |-> q]
        BY ONLY <3>3
      <3>5. s[1].dir = d1 /\ s[1].top = t1
        BY ONLY <3>1
      <3> QED BY ONLY <3>2, <3>4, <3>5, <2>2
    <2>4. g[1] = [s[1] EXCEPT !.disk = q] /\ DOMAIN g = 1..1 /\ g = [i \in 1..1 |-> g[i]]
      <3>1. DOMAIN s = 1..1 /\ 1 \in 1..1
        BY ONLY <2>1
      <3> QED BY ONLY <1>14, <3>1
    <2>5. f = [i \in 1..1 |-> e]
      <3>1. f = [g EXCEPT ![1] = e]
        BY ONLY <1>18, <2>3, <2>4
      <3>2. \A i \in 1..1 : i = 1
        OBVIOUS
      <3> QED BY ONLY <3>1, <3>2, <2>4
    <2> QED BY ONLY <2>2, <2>5
  <1>24. Cap(mf, nb) = [dirs |-> d, avail |-> [v EXCEPT ![dir] = k], cur |-> 1, parts |->
            [i \in 1..1 |-> [dir |-> s[1].dir, top |-> s[1].top, blocks |-> b, disk |-> q]]]
    <2>1. Cap(mf, nb) = PutIn(mf, 1, p, 0, <<Dummy>>, [v EXCEPT ![dir] = k])
      BY ONLY <1>2, <1>6, <1>22 DEF Cap
    <2>2. p * BlockSize + 0 = p * BlockSize
      <3>1. p * BlockSize \in Nat
        BY <1>3, Scaled
      <3> QED BY <3>1
    <2>3. (IF p < s[1].blocks THEN s[1].blocks ELSE p + 1) = b
      <3>1. PICK sb : sb = s[1].blocks
        OBVIOUS
      <3> QED BY ONLY <1>1, <1>2, <1>6, <1>22, <3>1, nb \in Nat \ {0}, SMTT(60)
    <2>4. Put(s[1].disk, p * BlockSize + 0, <<Dummy>>) = q
      BY ONLY <1>6, <1>22, <2>2, Zenon
    <2>5. \A i \in 1..1 : i = 1
      OBVIOUS
    <2>6. PutIn(mf, 1, p, 0, <<Dummy>>, [v EXCEPT ![dir] = k]) =
            [dirs |-> mf.dirs, avail |-> [v EXCEPT ![dir] = k], cur |-> mf.cur,
             parts |-> [i \in 1..Len(mf.parts) |->
                IF i = 1
                THEN [dir |-> mf.parts[i].dir, top |-> mf.parts[i].top,
                      blocks |-> IF p < mf.parts[i].blocks THEN mf.parts[i].blocks ELSE p + 1,
                      disk |-> Put(mf.parts[i].disk, p * BlockSize + 0, <<Dummy>>)]
                ELSE mf.parts[i]]]
      BY Zenon DEF PutIn
    <2>7. [i \in 1..Len(mf.parts) |->
                IF i = 1
                THEN [dir |-> mf.parts[i].dir, top |-> mf.parts[i].top,
                      blocks |-> IF p < mf.parts[i].blocks THEN mf.parts[i].blocks ELSE p + 1,
                      disk |-> Put(mf.parts[i].disk, p * BlockSize + 0, <<Dummy>>)]
                ELSE mf.parts[i]]
            = [i \in 1..1 |-> [dir |-> s[1].dir, top |-> s[1].top, blocks |-> b, disk |-> q]]
      <3>1. ASSUME NEW i \in 1..1
            PROVE  (IF i = 1
                    THEN [dir |-> mf.parts[i].dir, top |-> mf.parts[i].top,
                          blocks |-> IF p < mf.parts[i].blocks THEN mf.parts[i].blocks ELSE p + 1,
                          disk |-> Put(mf.parts[i].disk, p * BlockSize + 0, <<Dummy>>)]
                    ELSE mf.parts[i])
                   = [dir |-> s[1].dir, top |-> s[1].top, blocks |-> b, disk |-> q]
        <4>1. i = 1
          BY <2>5
        <4> QED BY ONLY <4>1, <2>3, <2>4, <1>22, Zenon
      <3>2. 1..Len(mf.parts) = 1..1
        OBVIOUS
      <3> QED BY ONLY <3>1, <3>2, Zenon
    <2> QED BY ONLY <2>1, <2>6, <2>7, <1>1, <1>22, Zenon
  <1> QED BY <1>2, <1>4, <1>5, <1>7, <1>21, <1>23, <1>24

\* Capping off changes nothing that was written, and leaves too little room
\* for what had too little before.
LEMMA CapOffIs ==
    ASSUME NEW mf, Register(mf), Len(mf.parts) = 1, NEW m, m = CapOff(mf),
           NEW dir, dir = mf.parts[1].dir
    PROVE  /\ Register(m) /\ m.dirs = mf.dirs /\ Len(m.parts) = 1
           /\ \A no \in Nat : Kept(mf, m, no)
           /\ \A q \in Nat \ {0} : mf.avail[dir] < q * BlockSize =>
                 m.avail[dir] < q * BlockSize /\ m.parts[1].blocks < mf.parts[1].blocks + q
  <1> DEFINE nb == mf.avail[dir] \div BlockSize
             b == mf.parts[1].blocks
             p == b + nb - 1
             left == mf.avail[dir] - nb * BlockSize
  <1>1. /\ mf.parts[1] \in Part /\ b \in Nat /\ dir \in 1..Len(mf.dirs)
        /\ Len(mf.parts[1].disk) \in Nat /\ b = RoundUp(Len(mf.parts[1].disk))
    <2>1. 1 \in 1..Len(mf.parts)
      OBVIOUS
    <2> QED BY <2>1, PartsOf
  <1>2. mf.avail \in [1..Len(mf.dirs) -> Int] /\ mf.cur = 1
    <2>1. mf.avail \in [1..Len(mf.dirs) -> Int] /\ mf.cur \in 1..1
      BY DEF Register
    <2> QED BY <2>1
  <1>3. mf.avail[dir] \in Int
    BY <1>1, <1>2
  <1>4. nb \in Int /\ nb * BlockSize \in Int /\ nb * BlockSize <= mf.avail[dir]
    <2>1. nb \in Int /\ nb * BlockSize <= mf.avail[dir]
      BY <1>3, Divided
    <2> HIDE DEF nb
    <2> QED BY <2>1, Times
  <1>5. CapOff(mf) = IF nb <= 0 THEN mf
                     ELSE Capped(mf, nb, FilePosition(mf, CapAt(mf, nb)))
    BY <1>2, Zenon DEF CapOff
  <1> HIDE DEF nb
  <1>6. CASE nb <= 0
    <2>1. m = mf
      BY <1>5, <1>6
    <2>2. \A no \in Nat : Kept(mf, mf, no)
      BY DEF Kept
    <2> QED BY <2>1, <2>2, <1>1
  <1>7. CASE ~(nb <= 0)
    <2>1. nb \in Nat \ {0} /\ p \in Nat
      BY <1>1, <1>4, <1>7
    <2>2. m = Cap(mf, nb) /\ Place(mf, p) = [cur |-> 1, ps |-> p]
      BY <1>5, <1>7, <2>1, CappedIs
    <2>3. PICK a : a = [mf.avail EXCEPT ![dir] = left]
      OBVIOUS
    <2>4. a \in [1..Len(mf.dirs) -> Int] /\ a[dir] = left /\ left \in Int
      BY <1>1, <1>2, <1>3, <1>4, <2>3
    <2>5. m = PutIn(mf, 1, p, 0, <<Dummy>>, a)
      BY <2>2, <2>3 DEF Cap
    <2>6. /\ <<Dummy>> \in Seq(Datum) /\ <<Dummy>> # <<>> /\ 0 + Len(<<Dummy>>) <= BlockSize
          /\ Len(<<Dummy>>) = 1
      BY MFileAssumption DEF Datum, Dummy
    <2>7. Register(m) /\ Changed(mf, m, p, 0, <<Dummy>>)
      <3>1. Place(mf, p).cur = 1 /\ Place(mf, p).ps = p
        BY <2>2
      <3> HIDE DEF p
      <3> QED BY <2>1, <2>4, <2>5, <2>6, <3>1, PutInIs
    <2>8. m.dirs = mf.dirs /\ m.avail = a /\ Len(m.parts) = 1 /\ m.parts[1].blocks = b + nb
      <3>1. m = [dirs |-> mf.dirs, avail |-> a, cur |-> mf.cur,
                 parts |-> [i \in 1..1 |->
                    [dir |-> mf.parts[1].dir, top |-> mf.parts[1].top,
                     blocks |-> IF p < b THEN b ELSE p + 1,
                     disk |-> Put(mf.parts[1].disk, p * BlockSize + 0, <<Dummy>>)]]]
        <4>1. \A i \in 1..1 : i = 1
          OBVIOUS
        <4> QED BY <2>5, <4>1 DEF PutIn
      <3>2. (IF p < b THEN b ELSE p + 1) = b + nb
        BY <1>1, <2>1
      <3> HIDE DEF p, b
      <3>3. PICK k : k = Put(mf.parts[1].disk, p * BlockSize + 0, <<Dummy>>)
        OBVIOUS
      <3>4. m = [dirs |-> mf.dirs, avail |-> a, cur |-> mf.cur,
                 parts |-> [i \in 1..1 |->
                    [dir |-> mf.parts[1].dir, top |-> mf.parts[1].top,
                     blocks |-> b + nb, disk |-> k]]]
        BY <3>1, <3>2, <3>3
      <3> QED BY ONLY <3>4
    <2>9. Cell(mf, p)[1] = Short
      <3>1. Cell(mf, p) = [i \in 1..BlockSize |->
               UnitAt(mf.parts[Place(mf, p).cur].disk, Place(mf, p).ps * BlockSize + i)]
        BY <2>1, CellIs
      <3>2. Cell(mf, p)[1] = UnitAt(mf.parts[1].disk, p * BlockSize + 1)
        <4>1. 1 \in 1..BlockSize
          BY MFileAssumption
        <4> HIDE DEF p
        <4> QED BY <2>2, <3>1, <4>1
      <3>3. Len(mf.parts[1].disk) <= b * BlockSize
        BY <1>1, RoundedUp
      <3>4. b * BlockSize <= p * BlockSize /\ p * BlockSize \in Nat /\ b * BlockSize \in Nat
        <4>1. b <= p
          BY <1>1, <2>1
        <4> HIDE DEF p, b
        <4> QED BY <1>1, <2>1, <4>1, Times, Scaled
      <3>5. ~(p * BlockSize + 1 <= Len(mf.parts[1].disk))
        <4> HIDE DEF p, b
        <4> QED BY <1>1, <3>3, <3>4
      <3> QED BY <3>2, <3>5 DEF UnitAt
    <2>10. ASSUME NEW no \in Nat PROVE Kept(mf, m, no)
      <3>1. ASSUME NEW i \in 1..BlockSize
            PROVE  Cell(m, no)[i] = Cell(mf, no)[i] \/ Cell(mf, no)[i] = Short
        <4>1. CASE no = p /\ i = 1
          BY <2>9, <4>1
        <4>2. CASE ~(no = p /\ i = 1)
          <5>1. ~(no = p /\ 0 < i /\ i <= 0 + Len(<<Dummy>>))
            BY <2>6, <4>2
          <5> HIDE DEF p
          <5> QED BY <2>7, <5>1 DEF Changed
        <4> QED BY <4>1, <4>2
      <3> QED BY <3>1 DEF Kept
    <2>11. ASSUME NEW q \in Nat \ {0}, mf.avail[dir] < q * BlockSize
           PROVE  m.avail[dir] < q * BlockSize /\ m.parts[1].blocks < b + q
      <3>1. q * BlockSize \in Int /\ 0 <= nb * BlockSize
        BY <2>1, Times, Scaled
      <3>2. nb * BlockSize < q * BlockSize
        BY <1>3, <1>4, <2>11, <3>1
      <3>3. nb < q
        BY <1>4, <3>2, Times
      <3>4. left <= mf.avail[dir]
        BY <1>3, <1>4, <3>1
      <3>5. left < q * BlockSize
        <4> HIDE DEF left
        <4> QED BY <1>3, <2>4, <2>11, <3>1, <3>4
      <3> QED BY <1>1, <1>4, <2>4, <2>8, <3>3, <3>5
    <2> QED BY <2>7, <2>8, <2>10, <2>11
  <1> QED BY <1>4, <1>6, <1>7

\* A part added behind the first has what the first part does not have.
LEMMA AddPartIs ==
    ASSUME NEW mf, Register(mf), Len(mf.parts) = 1, NEW dp \in 2..Len(mf.dirs),
           NEW m, m = AddPart(mf, dp)
    PROVE  /\ Register(m) /\ m.dirs = mf.dirs /\ Len(m.parts) = 2 /\ m.cur = 2
           /\ m.parts[2].dir = dp /\ m.parts[2].blocks = 0
           /\ m.parts[1].top = mf.parts[1].blocks - 1
           /\ \A no \in Nat : Kept(mf, m, no)
  <1> DEFINE b == mf.parts[1].blocks
             e == [dir |-> mf.parts[1].dir, top |-> b - 1, blocks |-> b,
                   disk |-> mf.parts[1].disk]
             f == NewPart(dp)
  <1>1. /\ mf.parts[1] \in Part /\ b \in Nat /\ mf.parts[1].dir \in 1..Len(mf.dirs)
        /\ b = RoundUp(Len(mf.parts[1].disk)) /\ mf.parts[1].disk \in Seq(Datum)
        /\ Len(mf.parts[1].disk) \in Nat
    <2>1. 1 \in 1..Len(mf.parts)
      OBVIOUS
    <2> QED BY <2>1, PartsOf
  <1>2. /\ mf = [dirs |-> mf.dirs, avail |-> mf.avail, cur |-> mf.cur, parts |-> mf.parts]
        /\ mf.dirs \in Seq(Int) /\ OneLimit(mf.dirs) /\ mf.parts \in Seq(Part)
        /\ mf.avail \in [1..Len(mf.dirs) -> Int] /\ mf.cur = 1
    <2>1. mf.cur \in 1..1
      BY DEF Register
    <2> QED BY <2>1 DEF Register
  <1>3. e \in Part /\ f \in Part /\ f.dir = dp /\ f.blocks = 0 /\ f.disk = <<>>
    <2>1. e \in Part
      BY <1>1 DEF Part
    <2>2. dp \in Nat
      OBVIOUS
    <2> QED BY <2>1, <2>2 DEF Part, NewPart
  <1>4. m = [dirs |-> mf.dirs, avail |-> mf.avail, cur |-> 2, parts |-> <<e, f>>]
    <2>1. [mf.parts[1] EXCEPT !.top = -1 + b] = e
      <3>1. PICK d1, b1, t1, k1 :
               mf.parts[1] = [dir |-> d1, blocks |-> b1, top |-> t1, disk |-> k1]
        BY ONLY <1>1 DEF Part
      <3>2. -1 + b = b - 1
        BY <1>1
      <3> QED BY ONLY <3>1, <3>2
    <2>2. AddPart(mf, dp) = [mf EXCEPT !.parts = SubSeq(mf.parts, 1, 0) \o <<e, f>>, !.cur = 2]
      <3> HIDE DEF e, f
      <3>1. AddPart(mf, dp) = [mf EXCEPT !.parts = SubSeq(mf.parts, 1, mf.cur - 1) \o
               <<[mf.parts[mf.cur] EXCEPT !.top =
                     (IF mf.cur > 1 THEN mf.parts[mf.cur - 1].top ELSE -1)
                        + mf.parts[mf.cur].blocks], NewPart(dp)>>, !.cur = mf.cur + 1]
        BY Zenon DEF AddPart
      <3>2. (IF mf.cur > 1 THEN mf.parts[mf.cur - 1].top ELSE -1) + mf.parts[mf.cur].blocks
               = -1 + b
        BY <1>2
      <3>3. mf.cur - 1 = 0 /\ mf.cur + 1 = 2
        BY <1>2
      <3>4. NewPart(dp) = f
        BY DEF f
      <3> HIDE DEF b
      <3> QED BY ONLY <3>1, <3>2, <3>3, <3>4, <2>1, <1>2, Zenon
    <2>3. SubSeq(mf.parts, 1, 0) \o <<e, f>> = <<e, f>>
      <3> HIDE DEF e, f
      <3>1. SubSeq(mf.parts, 1, 0) = <<>>
        BY <1>2
      <3>2. <<e, f>> \in Seq(Part)
        BY <1>3
      <3>3. <<>> \o <<e, f>> = <<e, f>>
        BY <3>2, ConcatEmptySeq
      <3> QED BY <3>1, <3>3, Zenon
    <2> HIDE DEF e, f
    <2>4. PICK d, v, c, s : mf = [dirs |-> d, avail |-> v, cur |-> c, parts |-> s]
      BY ONLY <1>2
    <2>5. PICK g : g = <<e, f>>
      OBVIOUS
    <2>6. AddPart(mf, dp) = [mf EXCEPT !.parts = g, !.cur = 2]
      BY ONLY <2>2, <2>3, <2>5
    <2>7. AddPart(mf, dp) = [dirs |-> mf.dirs, avail |-> mf.avail, cur |-> 2, parts |-> g]
      BY ONLY <2>4, <2>6
    <2> QED BY <2>5, <2>7
  <1>5. PICK g : g = <<e, f>>
    OBVIOUS
  <1>6. g \in Seq(Part) /\ Len(g) = 2 /\ g[1] = e /\ g[2] = f
    <2> HIDE DEF e, f
    <2> QED BY <1>3, <1>5
  <1>7. m.dirs = mf.dirs /\ m.avail = mf.avail /\ m.cur = 2 /\ m.parts = g
    BY <1>4, <1>5
  <1>8. RoundUp(Len(<<>>)) = 0
    BY RoundedUp
  <1>9. /\ e.dir = mf.parts[1].dir /\ e.top = b - 1 /\ e.blocks = b
        /\ e.disk = mf.parts[1].disk
    OBVIOUS
  <1> HIDE DEF e, f, b
  <1>10. Register(m)
    <2>1. m = [dirs |-> m.dirs, avail |-> m.avail, cur |-> m.cur, parts |-> m.parts]
      BY <1>4
    <2>2. \A i \in 1..2 : /\ g[i].dir \in 1..Len(mf.dirs)
                          /\ g[i].blocks = RoundUp(Len(g[i].disk))
      <3>1. \A i \in 1..2 : i = 1 \/ i = 2
        OBVIOUS
      <3>2. dp \in 1..Len(mf.dirs)
        OBVIOUS
      <3>3. f.blocks = RoundUp(Len(f.disk)) /\ f.dir \in 1..Len(mf.dirs)
        BY <1>3, <1>8, <3>2
      <3>4. e.blocks = RoundUp(Len(e.disk)) /\ e.dir \in 1..Len(mf.dirs)
        BY <1>1, <1>9
      <3> QED BY <1>6, <3>1, <3>3, <3>4
    <2>3. g[2].dir # 1 /\ g[1].top = g[1].blocks - 1
      <3>1. dp # 1
        OBVIOUS
      <3> QED BY <1>3, <1>6, <1>9, <3>1
    <2>4. PICK d, v, s : d = m.dirs /\ v = m.avail /\ s = m.parts
      OBVIOUS
    <2>5. d = mf.dirs /\ v = mf.avail /\ s = g
      BY <1>7, <2>4
    <2>6. d \in Seq(Int) /\ OneLimit(d) /\ v \in [1..Len(d) -> Int]
      BY <1>2, <2>5
    <2>7. s \in Seq(Part) /\ Len(s) = 2
      BY <1>6, <2>5
    <2>8. \A i \in 1..Len(s) : s[i].dir \in 1..Len(d) /\ s[i].blocks = RoundUp(Len(s[i].disk))
      BY <2>2, <2>5, <2>7
    <2>9. s[2].dir # 1 /\ s[1].top = s[1].blocks - 1
      BY <2>3, <2>5
    <2>10. m.cur \in 1..Len(s) /\ Len(s) \in 1..2
      BY <1>7, <2>7
    <2> QED BY ONLY <2>1, <2>4, <2>6, <2>7, <2>8, <2>9, <2>10 DEF Register
  <1>11. ASSUME NEW no \in Nat, NEW i \in 1..BlockSize
         PROVE  Cell(m, no)[i] = Cell(mf, no)[i] \/ Cell(mf, no)[i] = Short
    <2>1. Place(mf, no) = [cur |-> 1, ps |-> no]
      BY DEF Place, InSecond
    <2>2. Cell(mf, no)[i] = UnitAt(mf.parts[1].disk, no * BlockSize + i)
      <3>1. Cell(mf, no) = [j \in 1..BlockSize |->
               UnitAt(mf.parts[Place(mf, no).cur].disk, Place(mf, no).ps * BlockSize + j)]
        BY CellIs
      <3> QED BY <2>1, <3>1
    <2>3. CASE b - 1 < no
      <3>1. b <= no
        BY <1>1, <2>3
      <3>2. Len(mf.parts[1].disk) <= b * BlockSize
        BY <1>1, RoundedUp
      <3>3. b * BlockSize <= no * BlockSize /\ no * BlockSize \in Nat /\ b * BlockSize \in Nat
        BY <1>1, <3>1, Times, Scaled
      <3>4. ~(no * BlockSize + i <= Len(mf.parts[1].disk))
        BY <1>1, <3>2, <3>3
      <3> QED BY <2>2, <3>4 DEF UnitAt
    <2>4. CASE ~(b - 1 < no)
      <3>1. Place(m, no) = [cur |-> 1, ps |-> no]
        BY <1>6, <1>7, <1>9, <2>4 DEF Place, InSecond
      <3>2. Cell(m, no) = [j \in 1..BlockSize |->
               UnitAt(m.parts[Place(m, no).cur].disk, Place(m, no).ps * BlockSize + j)]
        BY <1>10, CellIs
      <3>3. Cell(m, no)[i] = UnitAt(m.parts[1].disk, no * BlockSize + i)
        BY <3>1, <3>2
      <3> QED BY <2>2, <3>3, <1>6, <1>7, <1>9
    <2> QED BY <2>3, <2>4
  <1> QED BY <1>3, <1>6, <1>7, <1>9, <1>10, <1>11 DEF Kept, b

-----------------------------------------------------------------------------
\* mf_write as a whole.

At(mf, no, c, p) == c = Place(mf, no).cur /\ p = Place(mf, no).ps /\ mf.cur = c
Wrote(mf, m, no, off, units) ==
    Register(m) /\ m.dirs = mf.dirs /\ Changed(mf, m, no, off, units)

\* With room a round makes the part long enough, and the block is written.
Fits(mf, w, no, c, p) == /\ Register(mf) /\ no \in Nat /\ At(mf, no, c, p) /\ Room(mf, c, p)
                         /\ w = InPart(mf, p, TRUE)
Fitted(mf, v, no, off, units) ==
    /\ GrowStep(v, no) = v
    /\ \E m, p : /\ WriteUnits(v, off, units) = InPart(m, p, TRUE)
                 /\ Wrote(mf, m, no, off, units)

\* A write to a part with room succeeds at once and stays done.
LEMMA FitsIs ==
    ASSUME NEW mf, NEW w, NEW no, NEW c, NEW p, Fits(mf, w, no, c, p),
           NEW off, NEW units, Stored(off, units)
    PROVE  Fitted(mf, GrowStep(w, no), no, off, units)
  <1>a. /\ Register(mf) /\ no \in Nat /\ At(mf, no, c, p) /\ Room(mf, c, p)
        /\ w = InPart(mf, p, TRUE)
    BY DEF Fits
  <1> USE <1>a
  <1>1. c \in 1..Len(mf.parts) /\ p \in Nat /\ mf.cur = c
    BY PlaceIs DEF At
  <1>2. PICK a \in [1..Len(mf.dirs) -> Int] : IsGrown(GrowStep(w, no), mf, c, p, a)
    <2>1. IsIn(w, mf, c, p)
      BY <1>1 DEF IsIn, Around
    <2> QED BY <2>1, GrownNow
  <1>3. PICK v : v = GrowStep(w, no)
    OBVIOUS
  <1>4. IsGrown(v, mf, c, p, a)
    BY <1>2, <1>3
  <1>5. /\ GrowStep(v, no) = v
        /\ WriteUnits(v, off, units) = InPart(PutIn(mf, c, p, off, units, a), p, TRUE)
    <2>1. Stays(v) /\ Puts(v, mf, c, p, a)
      BY <1>4, GrownEnds
    <2>2. GrowStep(v, no) = v
      BY <2>1, Zenon DEF Stays
    <2>3. WriteUnits(v, off, units) = InPart(PutIn(mf, c, p, off, units, a), p, TRUE)
      BY <2>1, Zenon DEF Puts
    <2> QED BY <2>2, <2>3
  <1>6. PICK m : m = PutIn(mf, c, p, off, units, a)
    OBVIOUS
  <1>7. c = Place(mf, no).cur /\ p = Place(mf, no).ps
    BY DEF At
  <1>8. /\ Register(PutIn(mf, c, p, off, units, a))
        /\ Changed(mf, PutIn(mf, c, p, off, units, a), no, off, units)
    BY <1>7, PutInIs DEF Stored
  <1>9. m.dirs = mf.dirs
    BY <1>6 DEF PutIn
  <1> QED BY <1>3, <1>5, <1>6, <1>8, <1>9 DEF Wrote, Fitted

\* Without room the block is in the first and only part, and a part is added for
\* it in another directory with room, if there is one.
Begins(mf, w, no, c, p) == /\ Register(mf) /\ no \in Nat /\ At(mf, no, c, p)
                           /\ w = InPart(mf, p, TRUE)
Moved(mf, v, no) ==
    \E m, q : /\ Register(m) /\ m.dirs = mf.dirs /\ \A n \in Nat : Kept(mf, m, n)
             /\ \/ v = InPart(m, q, FALSE)
                \/ v = InPart(m, q, TRUE) /\ At(m, no, 2, q) /\ Room(m, 2, q)

\* A write without room caps the first part and goes on in the second, or fails.
LEMMA NoRoomIs ==
    ASSUME NEW mf, NEW w, NEW no, NEW c, NEW p, Begins(mf, w, no, c, p), ~Room(mf, c, p)
    PROVE  Moved(mf, GrowStep(w, no), no)
  <1>a. Register(mf) /\ no \in Nat /\ At(mf, no, c, p) /\ w = InPart(mf, p, TRUE)
    BY DEF Begins
  <1> USE <1>a
  <1> DEFINE dir == mf.parts[1].dir
             b == mf.parts[1].blocks
             q == no - b + 1
             needed == q * BlockSize
             f == CapOff(mf)
             dp == RoomFor(f, needed)
  <1>1. /\ c \in {1, 2} /\ c <= Len(mf.parts) /\ c \in 1..Len(mf.parts) /\ p \in Nat
        /\ mf.cur = c /\ Len(mf.parts) \in {1, 2}
    BY PlaceIs, PartsOf DEF At
  <1>2. /\ mf.parts[c].dir \in 1..Len(mf.dirs) /\ mf.dirs[mf.parts[c].dir] >= 0
        /\ ~(p < mf.parts[c].blocks) /\ mf.parts[c].blocks \in Nat
    BY <1>1, PartsOf DEF Room, Limited
  <1>3. mf.parts[c].dir = 1
    <2>1. mf.dirs \in Seq(Int) /\ \A d \in 2..Len(mf.dirs) : mf.dirs[d] < 0
      BY DEF Register, OneLimit
    <2>2. mf.parts[c].dir \in 2..Len(mf.dirs) => mf.dirs[mf.parts[c].dir] < 0
      BY <2>1
    <2>3. mf.parts[c].dir # 1 => mf.parts[c].dir \in 2..Len(mf.dirs)
      BY <1>2
    <2>4. mf.dirs[mf.parts[c].dir] \in Int
      BY <1>2, <2>1
    <2> QED BY <1>2, <2>2, <2>3, <2>4
  <1>4. c = 1 /\ Len(mf.parts) = 1 /\ p = no
    <2>1. CASE Len(mf.parts) = 1
      <3>1. ~InSecond(mf, no)
        BY <2>1 DEF InSecond
      <3>2. p = no
        BY <3>1, PlaceIs DEF At
      <3> QED BY <1>1, <2>1, <3>2
    <2>2. CASE Len(mf.parts) = 2
      <3>1. mf.parts[2].dir # 1 /\ mf.parts[1].top = mf.parts[1].blocks - 1
        BY <2>2 DEF Register
      <3>2. c = 1
        BY <1>1, <1>3, <3>1
      <3>3. ~InSecond(mf, no) /\ p = no
        <4>1. /\ Place(mf, no).cur = IF InSecond(mf, no) THEN 2 ELSE 1
              /\ Place(mf, no).ps = IF InSecond(mf, no) THEN no - mf.parts[1].top - 1 ELSE no
          BY PlaceIs
        <4>2. Place(mf, no).cur = 1 /\ p = Place(mf, no).ps
          BY <3>2 DEF At
        <4> QED BY ONLY <4>1, <4>2
      <3>4. ~(mf.parts[1].top < no)
        BY <2>2, <3>3 DEF InSecond
      <3> QED BY <1>2, <3>1, <3>2, <3>3, <3>4
    <2> QED BY <1>1, <2>1, <2>2
  <1>5. dir = 1 /\ b \in Nat /\ b <= no /\ q \in Nat \ {0} /\ mf.cur = 1
    BY <1>1, <1>2, <1>3, <1>4
  <1>6. /\ mf.dirs \in Seq(Int) /\ mf.avail \in [1..Len(mf.dirs) -> Int]
        /\ OneLimit(mf.dirs) /\ 1 \in 1..Len(mf.dirs)
    BY <1>2, <1>3 DEF Register
  <1>7. mf.avail[dir] < needed /\ needed \in Nat /\ mf.avail[dir] \in Int
    <2>1. ~(q * BlockSize <= mf.avail[dir])
      BY <1>4 DEF Room
    <2>2. q * BlockSize \in Nat
      <3> HIDE DEF q
      <3> QED BY <1>5, Scaled
    <2>3. mf.avail[dir] \in Int
      BY <1>5, <1>6
    <2> HIDE DEF q
    <2> QED BY <2>1, <2>2, <2>3
  <1>8. PICK m : m = f
    OBVIOUS
  <1>9. /\ Register(m) /\ m.dirs = mf.dirs /\ Len(m.parts) = 1
        /\ \A n \in Nat : Kept(mf, m, n)
        /\ m.avail[dir] < needed /\ m.parts[1].blocks < b + q
    <2>1. Register(m) /\ m.dirs = mf.dirs /\ Len(m.parts) = 1
      BY <1>4, <1>8, CapOffIs
    <2>2. \A n \in Nat : Kept(mf, m, n)
      BY <1>4, <1>8, CapOffIs
    <2>3. \A r \in Nat \ {0} : mf.avail[dir] < r * BlockSize =>
             m.avail[dir] < r * BlockSize /\ m.parts[1].blocks < mf.parts[1].blocks + r
      <3> HIDE DEF q
      <3> QED BY <1>4, <1>8, CapOffIs
    <2>4. m.avail[dir] < needed /\ m.parts[1].blocks < b + q
      <3> HIDE DEF q
      <3> QED BY <1>5, <1>7, <2>3
    <2> QED BY <2>1, <2>2, <2>4
  <1>10. GrowStep(w, no) = OverflowTo(w, no, m, RoomFor(m, needed))
    <2>1. w.mf = mf /\ w.ps = p /\ w.ok = TRUE
      BY DEF InPart
    <2>2. w.mf.parts[w.mf.cur] = mf.parts[1] /\ w.ps - mf.parts[1].blocks + 1 = q
      BY <1>4, <1>5, <2>1
    <2>3. Limited(mf, dir) /\ needed > mf.avail[dir] /\ ~(p < b)
      <3>1. Limited(mf, dir)
        BY <1>2, <1>3, <1>4 DEF Limited
      <3>2. ~(p < b)
        BY <1>2, <1>4
      <3> HIDE DEF q
      <3> QED BY <1>7, <3>1, <3>2
    <2> HIDE DEF q, b, dir
    <2>4. GrowStep(w, no) = Overflow(w, no, q * BlockSize)
      <3>1. PICK g : g = mf.parts[1]
        OBVIOUS
      <3>2. w.mf.parts[w.mf.cur] = g /\ g.dir = dir /\ g.blocks = b /\ w.ps - g.blocks + 1 = q
        BY <2>2, <3>1 DEF b, dir
      <3>3. ~(~w.ok \/ w.ps < g.blocks) /\ Limited(w.mf, g.dir) /\ q * BlockSize > w.mf.avail[g.dir]
        BY <2>1, <2>3, <3>2
      <3> QED BY ONLY <3>2, <3>3, Zenon DEF GrowStep
    <2> QED BY <2>1, <2>4, <1>8 DEF Overflow
  <1>11. dp = RoomFor(m, needed)
    BY <1>8
  <1> HIDE DEF q, dp
  <1>12. dp = 0 \/ dp \in 2..Len(mf.dirs)
    <2> DEFINE fits == {d \in 1..Len(m.dirs) : ~Limited(m, d) \/ m.avail[d] >= needed}
    <2>1. dp = IF fits = {} THEN 0 ELSE Min(fits)
      BY <1>11 DEF RoomFor
    <2>2. 1 \notin fits
      <3>1. Limited(m, 1)
        BY <1>2, <1>3, <1>4, <1>9 DEF Limited
      <3>2. m.avail[1] \in Int
        <4>1. m.avail \in [1..Len(m.dirs) -> Int]
          BY <1>9 DEF Register
        <4> QED BY <4>1, <1>6, <1>9
      <3>3. m.avail[1] < needed
        BY <1>5, <1>9
      <3>4. ~(m.avail[1] >= needed)
        <4> HIDE DEF needed
        <4> QED BY <1>7, <3>2, <3>3
      <3> QED BY <3>1, <3>4
    <2>3. fits # {} => Min(fits) \in fits
      <3>1. ASSUME fits # {} PROVE Min(fits) \in fits
        <4>1. fits \in SUBSET Nat
          OBVIOUS
        <4> HIDE DEF fits
        <4>2. \E x \in fits : \A y \in fits : x <= y
          BY <3>1, <4>1, Least
        <4>3. PICK x \in fits : \A y \in fits : x <= y
          BY <4>2
        <4>4. fits \in SUBSET Int
          BY <4>1
        <4>5. Min(fits) = x
          BY <4>3, <4>4, MinIs
        <4> QED BY <4>5
      <3> QED BY <3>1
    <2>4. \A d \in fits : d \in 2..Len(mf.dirs)
      BY <2>2, <1>9
    <2> HIDE DEF fits
    <2> QED BY <2>1, <2>3, <2>4
  <1>13. CASE dp = 0
    <2>1. GrowStep(w, no) = [w EXCEPT !.mf = m, !.ok = FALSE]
      BY <1>10, <1>11, <1>13 DEF OverflowTo
    <2>2. GrowStep(w, no) = InPart(m, p, FALSE)
      BY <2>1 DEF InPart
    <2> QED BY <2>2, <1>9 DEF Moved
  <1>14. CASE dp \in 2..Len(mf.dirs)
    <2>1. PICK g : g = AddPart(m, dp)
      OBVIOUS
    <2>2. /\ Register(g) /\ g.dirs = m.dirs /\ Len(g.parts) = 2 /\ g.cur = 2
          /\ g.parts[2].dir = dp /\ g.parts[2].blocks = 0
          /\ g.parts[1].top = m.parts[1].blocks - 1
          /\ \A n \in Nat : Kept(m, g, n)
      <3>1. dp \in 2..Len(m.dirs)
        BY <1>9, <1>14
      <3> QED BY <1>9, <2>1, <3>1, AddPartIs
    <2>3. InSecond(g, no)
      <3>1. m.parts[1].blocks \in Nat
        BY <1>9, PartsOf
      <3>2. m.parts[1].blocks <= no
        BY <1>5, <1>9, <3>1 DEF q
      <3> QED BY <2>2, <3>1, <3>2 DEF InSecond
    <2>4. PICK r : r = Place(g, no).ps
      OBVIOUS
    <2>5. At(g, no, 2, r)
      BY <2>2, <2>3, <2>4, PlaceIs DEF At
    <2>6. Room(g, 2, r)
      <3>1. g.dirs = mf.dirs /\ g.parts[2].dir = dp /\ mf.dirs[dp] < 0
        BY <2>2, <1>6, <1>9, <1>14 DEF OneLimit
      <3>2. mf.dirs[dp] \in Int
        BY <1>6, <1>14
      <3> QED BY <3>1, <3>2 DEF Room, Limited
    <2>7. GrowStep(w, no) = Positioned(w, g, Place(g, no))
      <3>1. dp # 0
        BY <1>14
      <3>2. FilePosition(g, no) = Place(g, no)
        BY <2>2, PlaceIs
      <3>3. GrowStep(w, no) = Positioned(w, g, FilePosition(g, no))
        BY <1>10, <1>11, <2>1, <3>1, Zenon DEF OverflowTo
      <3> QED BY <3>2, <3>3
    <2>8. GrowStep(w, no) = InPart(g, r, TRUE)
      <3>1. PICK d, v, s : g = [dirs |-> d, avail |-> v, cur |-> 2, parts |-> s]
        BY <2>2 DEF Register
      <3>2. Place(g, no).cur = 2
        BY <2>5 DEF At
      <3>3. [g EXCEPT !.cur = Place(g, no).cur] = g
        BY <3>1, <3>2
      <3> QED BY <2>4, <2>7, <3>3 DEF Positioned, InPart
    <2>9. g.dirs = mf.dirs /\ \A n \in Nat : Kept(mf, g, n)
      BY <1>9, <2>2, KeptTwice
    <2> QED BY <2>2, <2>5, <2>6, <2>8, <2>9 DEF Moved
  <1> QED BY <1>12, <1>13, <1>14

\* mf_write puts the units in their block or says that there is no space; nothing
\* that was written before is lost either way.
Result(mf, w, no, off, units) ==
    /\ w.ok \in BOOLEAN /\ Register(w.mf) /\ w.mf.dirs = mf.dirs
    /\ w.ok => Changed(mf, w.mf, no, off, units)
    /\ ~w.ok => \A n \in Nat : Kept(mf, w.mf, n)

\* Two rounds end the loop.
LEMMA RoundsIs ==
    ASSUME NEW mf, NEW w, NEW no, NEW c, NEW p, Begins(mf, w, no, c, p), NEW v,
           v = GrowStep(GrowStep(w, no), no), NEW off, NEW units, Stored(off, units)
    PROVE  GrowStep(v, no) = v /\ Result(mf, WriteUnits(v, off, units), no, off, units)
  <1>a. Register(mf) /\ no \in Nat /\ At(mf, no, c, p) /\ w = InPart(mf, p, TRUE)
    BY DEF Begins
  <1> USE <1>a
  <1>1. CASE Room(mf, c, p)
    <2>1. Fitted(mf, GrowStep(w, no), no, off, units)
      <3>1. Fits(mf, w, no, c, p)
        BY <1>1 DEF Fits
      <3> QED BY <3>1, FitsIs
    <2>2. GrowStep(w, no) = v /\ Fitted(mf, v, no, off, units) /\ GrowStep(v, no) = v
      BY <2>1 DEF Fitted
    <2>3. PICK m, q : WriteUnits(v, off, units) = InPart(m, q, TRUE) /\ Wrote(mf, m, no, off, units)
      BY <2>2 DEF Fitted
    <2>4. WriteUnits(v, off, units).mf = m /\ WriteUnits(v, off, units).ok = TRUE
      BY <2>3 DEF InPart
    <2> QED BY <2>2, <2>3, <2>4 DEF Result, Wrote
  <1>2. CASE ~Room(mf, c, p)
    <2>1. Moved(mf, GrowStep(w, no), no)
      BY <1>2, NoRoomIs
    <2>2. PICK m, q : /\ Register(m) /\ m.dirs = mf.dirs /\ \A n \in Nat : Kept(mf, m, n)
                      /\ \/ GrowStep(w, no) = InPart(m, q, FALSE)
                         \/ /\ GrowStep(w, no) = InPart(m, q, TRUE)
                            /\ At(m, no, 2, q) /\ Room(m, 2, q)
      BY <2>1 DEF Moved
    <2>3. CASE GrowStep(w, no) = InPart(m, q, FALSE)
      <3>1. PICK u : u = InPart(m, q, FALSE)
        OBVIOUS
      <3>2. u.ok = FALSE /\ u.mf = m
        BY <3>1 DEF InPart
      <3>3. GrowStep(u, no) = u /\ WriteUnits(u, off, units) = u
        BY <3>2 DEF GrowStep, WriteUnits
      <3>4. v = u
        BY <2>3, <3>1, <3>3
      <3> QED BY <2>2, <3>2, <3>3, <3>4 DEF Result
    <2>4. CASE GrowStep(w, no) = InPart(m, q, TRUE) /\ At(m, no, 2, q) /\ Room(m, 2, q)
      <3>1. PICK u : u = InPart(m, q, TRUE)
        OBVIOUS
      <3>2. v = GrowStep(u, no)
        BY <2>4, <3>1
      <3>3. Fitted(m, v, no, off, units) /\ GrowStep(v, no) = v
        <4>1. Fits(m, u, no, 2, q)
          BY <2>2, <2>4, <3>1 DEF Fits
        <4>2. Fitted(m, v, no, off, units)
          BY <4>1, <3>2, FitsIs
        <4> QED BY <4>2 DEF Fitted
      <3>4. PICK l, k : WriteUnits(v, off, units) = InPart(l, k, TRUE) /\ Wrote(m, l, no, off, units)
        BY <3>3 DEF Fitted
      <3>5. WriteUnits(v, off, units).mf = l /\ WriteUnits(v, off, units).ok = TRUE
        BY <3>4 DEF InPart
      <3>6. Register(l) /\ l.dirs = mf.dirs
        BY <2>2, <3>4 DEF Wrote
      <3>7. Changed(mf, l, no, off, units)
        <4>1. Changed(m, l, no, off, units)
          BY <3>4 DEF Wrote
        <4> QED BY <2>2, <4>1 DEF Changed, Kept
      <3> QED BY <3>2, <3>3, <3>5, <3>6, <3>7 DEF Result
    <2> QED BY <2>2, <2>3, <2>4
  <1> QED BY <1>1, <1>2

\* What mf_write does: the block is written, or nothing that was there is lost.
LEMMA WriteIs ==
    ASSUME NEW mf, Register(mf), NEW no \in Nat, NEW off, NEW units, Stored(off, units)
    PROVE  Result(mf, MfWrite(mf, no, off, units), no, off, units)
  <1>1. PICK c, p : c = Place(mf, no).cur /\ p = Place(mf, no).ps
    OBVIOUS
  <1>2. c \in 1..Len(mf.parts) /\ FilePosition(mf, no) = Place(mf, no)
    BY <1>1, PlaceIs
  <1>3. PICK m : m = [mf EXCEPT !.cur = c]
    OBVIOUS
  <1>4. /\ Register(m) /\ Alike(mf, m) /\ m.cur = c /\ m.parts = mf.parts
        /\ Place(m, no) = Place(mf, no)
    BY <1>2, <1>3, CurIs
  <1>5. At(m, no, c, p)
    BY <1>1, <1>4 DEF At
  <1>6. PICK w : w = InPart(m, p, TRUE)
    OBVIOUS
  <1>7. PICK v : v = GrowStep(GrowStep(w, no), no)
    OBVIOUS
  <1>8. GrowStep(v, no) = v /\ Result(m, WriteUnits(v, off, units), no, off, units)
    <2>1. Begins(m, w, no, c, p)
      BY <1>4, <1>5, <1>6 DEF Begins
    <2> QED BY <1>7, <2>1, RoundsIs
  <1>9. Len(mf.dirs) + 1 \in Nat /\ 2 <= Len(mf.dirs) + 1
    <2>1. mf.dirs \in Seq(Int) /\ mf.parts[1].dir \in 1..Len(mf.dirs)
      BY PartsOf DEF Register
    <2> QED BY <2>1
  <1>10. FoldLeft(LAMBDA u, i : GrowStep(u, no), w, [i \in 1..Len(mf.dirs) + 1 |-> i]) = v
    BY <1>7, <1>8, <1>9, Rounds
  <1>11. Positioned([mf |-> mf, ps |-> 0, ok |-> TRUE], mf, FilePosition(mf, no)) = w
    <2>1. PICK r : r = [mf |-> mf, ps |-> 0, ok |-> TRUE]
      OBVIOUS
    <2>2. Positioned(r, mf, Place(mf, no)) = [r EXCEPT !.mf = m, !.ps = p]
      BY <1>1, <1>3, Zenon DEF Positioned
    <2>3. [r EXCEPT !.mf = m, !.ps = p] = InPart(m, p, TRUE)
      <3>1. PICK x : x = [r EXCEPT !.mf = m, !.ps = p]
        OBVIOUS
      <3>2. x = InPart(m, p, TRUE)
        BY ONLY <2>1, <3>1 DEF InPart
      <3> QED BY <3>1, <3>2
    <2> QED BY <1>2, <1>6, <2>1, <2>2, <2>3
  <1>12. MfWrite(mf, no, off, units) = WriteUnits(v, off, units)
    BY <1>10, <1>11, Zenon DEF MfWrite
  <1>13. m.dirs = mf.dirs /\ \A n \in Nat : Kept(mf, m, n)
    BY <1>4, KeptAlike DEF Alike
  <1>14. PICK x : x = WriteUnits(v, off, units)
    OBVIOUS
  <1>15. /\ x.ok \in BOOLEAN /\ Register(x.mf) /\ x.mf.dirs = mf.dirs
         /\ x.ok => Changed(m, x.mf, no, off, units)
         /\ ~x.ok => \A n \in Nat : Kept(m, x.mf, n)
    BY <1>8, <1>13, <1>14 DEF Result
  <1>16. x.ok => Changed(mf, x.mf, no, off, units)
    BY <1>13, <1>15 DEF Changed, Kept
  <1>17. ~x.ok => \A n \in Nat : Kept(mf, x.mf, n)
    BY <1>13, <1>15, KeptTwice
  <1> QED BY <1>12, <1>14, <1>15, <1>16, <1>17 DEF Result

-----------------------------------------------------------------------------
\* What is stored, when the register or the index changes.

\* Nothing that was ever written to a register is lost.
Spares(mf, nf) == \A no \in Nat : Kept(mf, nf, no)

\* A register that is alike loses nothing.
LEMMA SparesAlike ==
    ASSUME NEW mf, Register(mf), NEW nf, Register(nf), Alike(mf, nf)
    PROVE  Spares(mf, nf)
  BY KeptAlike DEF Spares

\* A block of the register has units that were written, zeroes or no end.
LEMMA CellType ==
    ASSUME NEW mf, Register(mf), NEW no \in Nat
    PROVE  Cell(mf, no) \in [1..BlockSize -> Datum \cup {Short}]
  <1>1. Place(mf, no).cur \in 1..Len(mf.parts) /\ Place(mf, no).ps \in Nat
    BY PlaceIs
  <1>2. PICK d, p : d = mf.parts[Place(mf, no).cur].disk /\ p = Place(mf, no).ps
    OBVIOUS
  <1>3. PICK q : q = p * BlockSize
    OBVIOUS
  <1>4. q \in Nat
    BY <1>1, <1>2, <1>3, MFileAssumption
  <1>5. d \in Seq(Datum)
    <2>1. mf.parts[Place(mf, no).cur] \in Part
      BY <1>1 DEF Register
    <2> QED BY <1>2, <2>1 DEF Part
  <1>6. \A i \in 1..BlockSize : UnitAt(d, q + i) \in Datum \cup {Short}
    <2>1. ASSUME NEW i \in 1..BlockSize, q + i <= Len(d) PROVE d[q + i] \in Datum
      <3>1. q + i \in 1..Len(d)
        BY <1>4, <2>1
      <3> QED BY <1>5, <3>1
    <2> QED BY <2>1 DEF UnitAt
  <1>7. Cell(mf, no) = [i \in 1..BlockSize |-> UnitAt(d, q + i)]
    BY <1>2, <1>3, CellIs
  <1> QED BY <1>6, <1>7

\* A block that is kept still agrees with what was asked for.
LEMMA AgreesKept ==
    ASSUME NEW mf, NEW nf, NEW no \in Nat, Kept(mf, nf, no), NEW want \in Wish,
           Agrees(Cell(mf, no), want)
    PROVE  Agrees(Cell(nf, no), want)
  <1> SUFFICES ASSUME NEW i \in 1..BlockSize, want[i] # Hole
               PROVE  Cell(nf, no)[i] = want[i]
    BY DEF Agrees
  <1>1. Cell(mf, no)[i] = want[i]
    BY DEF Agrees
  <1>2. want[i] # Short
    <2>1. want[i] \in Nat
      BY DEF Wish
    <2> QED BY <2>1 DEF Short
  <1> QED BY <1>1, <1>2 DEF Kept

\* A register that loses nothing keeps an index right, ...
LEMMA RightKept ==
    ASSUME NEW bl, NEW mf, NEW nf, NEW M, NEW want \in [BlockNos -> Wish],
           Spares(mf, nf), Right(bl, mf, M, want)
    PROVE  Right(bl, nf, M, want)
  <1>1. ASSUME NEW no \in BlockNos, Agrees(Cell(mf, no), want[no])
        PROVE  Agrees(Cell(nf, no), want[no])
    <2>1. no \in Nat /\ want[no] \in Wish
      BY CFileAssumption
    <2> QED BY <1>1, <2>1, AgreesKept DEF Spares
  <1> QED BY <1>1 DEF Right

\* ... and the register still holds what it held.
LEMMA HoldsKept ==
    ASSUME NEW mf, NEW nf, NEW want \in [BlockNos -> Wish],
           Spares(mf, nf), Holds(mf, want)
    PROVE  Holds(nf, want)
  <1>1. ASSUME NEW no \in BlockNos PROVE Agrees(Cell(nf, no), want[no])
    <2>1. no \in Nat /\ want[no] \in Wish
      BY CFileAssumption
    <2>2. Agrees(Cell(mf, no), want[no])
      BY DEF Holds, Cell
    <2> QED BY <2>1, <2>2, AgreesKept DEF Spares
  <1> QED BY <1>1 DEF Holds, Cell

\* While nothing is pending the wanted is what was written.
LEMMA WantedIs ==
    ASSUME NEW o, NEW l, NEW e \in [BlockNos -> Wish]
    PROVE  /\ Wanted(o, l, e) \in [BlockNos -> Wish]
           /\ ~Pending(o, l) => Wanted(o, l, e) = e
           /\ \A no \in BlockNos : no # o.no => Wanted(o, l, e)[no] = e[no]
  <1>1. \A no \in BlockNos : e[no] \in Wish /\ e[no] = [i \in 1..BlockSize |-> e[no][i]]
    BY DEF Wish
  <1>2. \A no \in BlockNos : Wanted(o, l, e)[no] \in Wish
    <2> SUFFICES ASSUME NEW no \in BlockNos PROVE Wanted(o, l, e)[no] \in Wish
      OBVIOUS
    <2>1. e[no] \in Wish
      BY <1>1
    <2>2. Wanted(o, l, e)[no] = [i \in 1..BlockSize |->
              IF Pending(o, l) /\ no = o.no /\ Within(o, i) THEN Hole ELSE e[no][i]]
      BY DEF Wanted
    <2> QED BY <2>1, <2>2 DEF Wish, Hole
  <1>3. Wanted(o, l, e) = [no \in BlockNos |-> Wanted(o, l, e)[no]]
    BY DEF Wanted
  <1>4. ASSUME NEW no \in BlockNos, ~Pending(o, l) \/ no # o.no
        PROVE  Wanted(o, l, e)[no] = e[no]
    <2>1. Wanted(o, l, e)[no] = [i \in 1..BlockSize |-> e[no][i]]
      BY <1>4 DEF Wanted
    <2> QED BY <2>1, <1>1
  <1>5. Wanted(o, l, e) \in [BlockNos -> Wish]
    BY <1>2, <1>3
  <1>6. ~Pending(o, l) => Wanted(o, l, e) = e
    BY <1>3, <1>4
  <1> QED BY <1>4, <1>5, <1>6

-----------------------------------------------------------------------------
\* Steps of an operation on a shadow file: what such a step has to show.

\* What a step leaves in the index, in the data and of the operation.
IndexKept ==
    /\ saved' = saved /\ (mode = "shadow" \/ UNCHANGED <<bucket, flat, blocks>>)
    /\ flat' \in [BlockNos -> Nat] /\ head'.flatBucket \in Nat /\ FlatIs(head', flat')
    /\ Indexed(Mapped', Used') /\ Len(mem') <= MaxInMemory
DataKept ==
    /\ Register(rmf') /\ Spares(rmf, rmf')
    /\ iobuf' \in Content /\ blocks' \in [DOMAIN blocks' -> Content]
    /\ Right(blocks', rmf', Placed', Wanted(op', pc', exp))
OpKept ==
    /\ Asked(op', pc') /\ Given(op', pc', exp) /\ Finds(op', pc', Mapped') /\ pc' # "idle"
    /\ pc' = "done" /\ op'.kind = "read" => Agrees(op'.units, exp[op'.no])

\* A step inside bf_read or bf_write that only moves on in the index or the data.
LEMMA Inside ==
    ASSUME IInv, CInv, HasShadow, UNCHANGED bfVars, IndexKept, DataKept, OpKept
    PROVE  CInv'
  <1>1. /\ mode' = mode /\ committing' = committing /\ todo' = todo /\ exp' = exp
        /\ base' = base /\ calls' = calls /\ mode \in {"shadow", "overlay"}
    BY DEF bfVars, HasShadow
  <1>2. /\ exp \in [BlockNos -> Wish] /\ base \in [BlockNos -> Wish]
        /\ calls = [c \in DOMAIN calls |-> calls[c]] /\ calls.write \in Nat
    BY DEF CInv, DataOK
  <1>3. FlatInv'
    BY <1>1 DEF CInv, FlatInv, IndexKept, HasShadow
  <1>4. mode # "shadow" => OnDisk' = OnDisk /\ saved' = saved
    BY DEF IndexKept, OnDisk
  <1>5. MapInv'
    BY <1>1, <1>4 DEF CInv, MapInv, IndexKept, HasShadow
  <1>6. OpInv'
    BY <1>1 DEF OpInv, OpKept
  <1>7. ModeInv'
    BY <1>1 DEF CInv, ModeInv, IndexKept
  <1>8. DataOK' /\ MemFits'
    BY <1>1, <1>2 DEF DataOK, DataKept, MemFits, IndexKept
  <1>9. ShadowRight'
    BY <1>1 DEF ShadowRight, DataKept
  <1>10. DiskRight'
    <2>1. CASE mode = "shadow"
      BY <2>1, <1>1 DEF DiskRight
    <2>2. CASE mode # "shadow"
      <3>1. Right(blocks, rmf, OnDisk, exp)
        BY <2>2 DEF CInv, DiskRight
      <3>2. Right(blocks, rmf', OnDisk, exp)
        BY <3>1, <1>2, RightKept DEF DataKept
      <3>3. blocks' = blocks
        BY <2>2 DEF IndexKept
      <3> QED BY <3>2, <3>3, <2>2, <1>1, <1>4 DEF DiskRight
    <2> QED BY <2>1, <2>2
  <1>11. BaseRight'
    <2>1. Holds(rmf, base) => Holds(rmf', base)
      BY <1>2, HoldsKept DEF DataKept
    <2> QED BY <2>1, <1>1 DEF CInv, BaseRight
  <1>12. CommitRight' /\ ReadsBack'
    BY <1>1 DEF CommitRight, ReadsBack, OpKept
  <1>13. Register(rmf')
    BY DEF DataKept
  <1> QED BY <1>3, <1>5, <1>6, <1>7, <1>8, <1>9, <1>10, <1>11, <1>12, <1>13 DEF CInv

\* A step that only looks at the index, or moves it.
Looks ==
    /\ UNCHANGED <<rmf, blocks, iobuf>>
    /\ Mapped' = Mapped /\ Used' = Used
    /\ op'.kind = op.kind /\ op'.no = op.no /\ op'.off = op.off /\ op'.units = op.units
    /\ {pc, pc'} \cap {"idle", "fill", "done"} = {}
    /\ Finds(op', pc', Mapped)
IndexStays ==
    /\ saved' = saved /\ (mode = "shadow" \/ UNCHANGED <<bucket, flat, blocks>>)
    /\ flat' \in [BlockNos -> Nat] /\ head'.flatBucket \in Nat /\ FlatIs(head', flat')
    /\ Len(mem') <= MaxInMemory

\* A step of the lookup changes neither the index nor a block.
LEMMA Looked ==
    ASSUME IInv, CInv, HasShadow, UNCHANGED bfVars, Looks, IndexStays
    PROVE  CInv'
  <1>1. /\ exp' = exp /\ pc \notin {"idle", "fill", "done"}
        /\ pc' \notin {"idle", "fill", "done"}
    BY DEF bfVars, Looks
  <1>2. IndexKept
    BY DEF IndexKept, IndexStays, Looks, CInv, MapInv
  <1>3. Wanted(op', pc', exp) = Wanted(op, pc, exp)
    <2>1. \A i : Within(op', i) <=> Within(op, i)
      BY DEF Within, Looks
    <2>2. Pending(op', pc') <=> Pending(op, pc)
      BY <1>1 DEF Pending, Looks
    <2> QED BY <2>1, <2>2 DEF Wanted, Looks
  <1>4. Placed = Mapped /\ Placed' = Mapped'
    BY <1>1 DEF Placed
  <1>5. DataKept
    <2>1. Register(rmf) /\ iobuf \in Content /\ blocks \in [DOMAIN blocks -> Content]
      BY DEF CInv, DataOK
    <2>2. Spares(rmf, rmf)
      BY DEF Spares, Kept
    <2>3. Right(blocks, rmf, Mapped, Wanted(op, pc, exp))
      BY <1>4 DEF CInv, ShadowRight
    <2> QED BY <2>1, <2>2, <2>3, <1>3, <1>4 DEF DataKept, Looks
  <1>6. OpKept
    <2>1. Asked(op', pc')
      BY <1>1 DEF CInv, OpInv, Asked, Looks
    <2>2. Given(op', pc', exp)
      BY <1>1 DEF CInv, OpInv, Given, Pending, Within, Looks
    <2> QED BY <2>1, <2>2, <1>1 DEF OpKept, Looks
  <1> QED BY <1>2, <1>5, <1>6, Inside

-----------------------------------------------------------------------------
\* cf_lookup and the steps of cf_new_hash that only look.

\* The number that an operation gets of its shadow block.
LEMMA VnoSet ==
    ASSUME NEW o, OpOK(o), NEW v, NEW w, w = [o EXCEPT !.vno = v]
    PROVE  /\ w.kind = o.kind /\ w.no = o.no /\ w.off = o.off /\ w.units = o.units
           /\ PairOf(w) = [no |-> o.no, vno |-> v]
  BY DEF OpOK, PairOf

\* What is in a bucket is in the index; what no bucket of its chain has is not.
LEMMA EntryFound ==
    ASSUME NEW t, NEW b \in DOMAIN t, t[b].ents \in Seq(Entry), NEW e,
           e.ents = t[b].ents, NEW no, Entries(e, no) # {}
    PROVE  [no |-> no, vno |-> VnoIn(e, no)] \in Pairs(t)
  <1>1. PICK x : x = CHOOSE y \in Entries(e, no) : TRUE
    OBVIOUS
  <1>2. x \in Entries(e, no)
    BY <1>1
  <1>3. x \in Range(t[b].ents) /\ x.no = no
    BY <1>2 DEF Entries
  <1>4. x \in Entry
    BY <1>3, EntsType
  <1>5. x = [no |-> no, vno |-> VnoIn(e, no)]
    BY <1>1, <1>3, <1>4 DEF VnoIn, Entry
  <1> QED BY <1>3, <1>5 DEF Pairs

\* A block no bucket of its chain has is not in the index.
LEMMA Missed ==
    ASSUME NEW a, NEW t, NEW n, NEW no, Sound(a, t, n), Searched(t, no, 0)
    PROVE  Fresh(Pairs(t), no)
  <1>1. \A b \in DOMAIN t : ~HasNo(t[b], no)
    BY SearchedAll DEF Sound
  <1> QED BY <1>1 DEF Fresh, Pairs, HasNo

\* alloc_bucket keeps to its limit.
LEMMA AllocFits ==
    ASSUME NEW m \in Memory, Len(m) <= MaxInMemory, NEW e \in Loaded, AllocBucket(m, e)
    PROVE  Len(mem') <= MaxInMemory
  <1> DEFINE n == IF Len(m) = MaxInMemory THEN 1 ELSE 0
  <1>1. Len(m) \in Nat /\ MaxInMemory \in Nat \ {0} /\ n \in Nat /\ n <= Len(m)
    <2>1. Len(m) \in Nat
      BY DEF Memory
    <2>2. MaxInMemory \in Nat \ {0}
      BY CFileAssumption
    <2> QED BY <2>1, <2>2
  <1>2. mem' = SubSeq(m, n + 1, Len(m)) \o <<e>>
    BY Zenon DEF AllocBucket
  <1> HIDE DEF n
  <1>3. SubSeq(m, n + 1, Len(m)) \in Seq(Loaded) /\ Len(SubSeq(m, n + 1, Len(m))) = Len(m) - n
    BY <1>1 DEF Memory
  <1>4. Len(mem') = Len(m) - n + 1
    BY <1>2, <1>3
  <1> QED BY <1>1, <1>4 DEF n

\* A step that leaves the table of buckets as it was.
LEMMA TableStays ==
    ASSUME CInv, HasShadow, UNCHANGED <<saved, flat, blocks>>,
           mode = "shadow" \/ bucket' = bucket,
           head'.state = head.state, head'.flatBucket = head.flatBucket,
           Len(mem') <= MaxInMemory
    PROVE  IndexStays /\ (Table' = Table => Mapped' = Mapped)
  <1>1. IndexStays
    BY DEF CInv, FlatInv, IndexStays, FlatIs, FlatWithin
  <1> QED BY <1>1 DEF Mapped

\* cf_lookup in the flat index, in memory and at the end of a chain.
LEMMA LookupLooks ==
    ASSUME IInv, CInv, HasShadow, UNCHANGED bfVars, LookupFlat \/ LookupHash \/ WalkEnd
    PROVE  CInv'
  <1> USE DEF Goto
  <1>1. /\ UNCHANGED <<rmf, saved, bucket, flat, blocks, head, array, mem, iobuf>>
        /\ pc \in {"lookup", "walk"} /\ pc' \in {"found", "missing", "walk"}
    BY DEF LookupFlat, LookupHash, WalkEnd, diskVars, cfVars, Found
  <1>2. OpOK(op) /\ op.no \in BlockNos
    BY <1>1 DEF IInv, Typed, CInv, OpInv, Asked
  <1>3. IndexStays /\ Table' = Table /\ Mapped' = Mapped
    <2>1. Table' = Table
      BY <1>1 DEF Table
    <2>2. Len(mem') <= MaxInMemory
      BY <1>1 DEF CInv, MemFits
    <2> QED BY <1>1, <2>1, <2>2, TableStays
  <1>4. Used' = Used
    BY <1>1 DEF Used
  <1>5. /\ op'.kind = op.kind /\ op'.no = op.no /\ op'.off = op.off /\ op'.units = op.units
        /\ Finds(op', pc', Mapped)
    <2>1. CASE LookupFlat
      <3>1. /\ Mapped = FlatMap(flat) /\ op' = [op EXCEPT !.vno = flat[op.no]]
            /\ pc' = IF flat[op.no] # 0 THEN "found" ELSE "missing"
        BY <2>1 DEF LookupFlat, Mapped, Mapping
      <3>2. /\ op'.kind = op.kind /\ op'.no = op.no /\ op'.off = op.off
            /\ op'.units = op.units /\ PairOf(op') = [no |-> op.no, vno |-> flat[op.no]]
        BY <3>1, <1>2, VnoSet
      <3>3. flat[op.no] # 0 => [no |-> op.no, vno |-> flat[op.no]] \in Mapped
        BY <3>1, <1>2 DEF FlatMap
      <3>4. flat[op.no] = 0 => Fresh(Mapped, op.no)
        BY <3>1 DEF Fresh, FlatMap
      <3> QED BY <3>1, <3>2, <3>3, <3>4 DEF Finds
    <2>2. CASE LookupHash
      <3>1. Mapped = Pairs(Table)
        BY <2>2 DEF LookupHash, Mapped, Mapping
      <3>2. CASE \E i \in 1..Len(mem) :
                    /\ Entries(mem[i], op.no) # {}
                    /\ Found(VnoIn(mem[i], op.no))
        <4>1. PICK i \in 1..Len(mem) : /\ Entries(mem[i], op.no) # {}
                                       /\ Found(VnoIn(mem[i], op.no))
          BY <3>2
        <4>2. /\ mem[i].this \in DOMAIN Table /\ Table[mem[i].this].ents = mem[i].ents
              /\ mem[i].ents \in Seq(Entry)
          <5>1. mem \in Memory
            BY DEF IInv, Typed
          <5>2. mem[i].this \in DOMAIN Table /\ Table[mem[i].this] = Image(mem[i])
            BY TableIs DEF IInv, InMem
          <5> QED BY <5>1, <5>2, LoadedType DEF Image
        <4>3. [no |-> op.no, vno |-> VnoIn(mem[i], op.no)] \in Pairs(Table)
          BY <4>1, <4>2, EntryFound
        <4>4. op' = [op EXCEPT !.vno = VnoIn(mem[i], op.no)] /\ pc' = "found"
          BY <4>1 DEF Found
        <4>5. PICK v : v = VnoIn(mem[i], op.no)
          OBVIOUS
        <4>6. op' = [op EXCEPT !.vno = v]
          BY ONLY <4>4, <4>5
        <4>7. /\ op'.kind = op.kind /\ op'.no = op.no /\ op'.off = op.off
              /\ op'.units = op.units /\ PairOf(op') = [no |-> op.no, vno |-> v]
          BY <4>6, <1>2, VnoSet
        <4>8. PairOf(op') \in Mapped
          BY ONLY <4>3, <4>5, <4>7, <3>1
        <4> QED BY ONLY <4>4, <4>7, <4>8 DEF Finds
      <3>3. CASE ~\E i \in 1..Len(mem) :
                    /\ Entries(mem[i], op.no) # {}
                    /\ Found(VnoIn(mem[i], op.no))
        <4>1. pc' = "walk" /\ op' = op
          BY <2>2, <3>3 DEF LookupHash
        <4> QED BY <4>1 DEF Finds
      <3> QED BY <3>2, <3>3
    <2>3. CASE WalkEnd
      <3>1. pc = "walk" /\ cursor = 0 /\ pc' = "missing" /\ op' = op
        BY <2>3 DEF WalkEnd
      <3>2. Searched(Table, op.no, 0) /\ head.state = 1
        BY <3>1 DEF IInv, WalkInv, Control
      <3>3. Sound(array, Table, Used) /\ Mapped = Pairs(Table)
        BY <3>2, HashTable DEF Mapped, Mapping
      <3>4. Fresh(Mapped, op.no)
        BY <3>2, <3>3, Missed
      <3> QED BY <3>1, <3>4 DEF Finds
    <2> QED BY <2>1, <2>2, <2>3
  <1>6. Looks
    BY <1>1, <1>3, <1>4, <1>5 DEF Looks
  <1> QED BY <1>3, <1>6, Looked

\* Following a chain through memory, and its beginning in cf_new_hash.
LEMMA ChainLooks ==
    ASSUME IInv, CInv, HasShadow, UNCHANGED bfVars, WalkMemory \/ AppendMemory \/ NewOnDisk
    PROVE  CInv'
  <1> USE DEF Goto
  <1>1. /\ UNCHANGED <<rmf, saved, bucket, flat, blocks, array, mem, iobuf>>
        /\ pc \in {"walk", "append", "missing"} /\ pc' \in {"walk", "append"}
        /\ OpOK(op) /\ HeadOK(head)
    BY DEF WalkMemory, AppendMemory, NewOnDisk, NewBlock, diskVars, IInv, Typed
  <1>2. head'.state = head.state /\ head'.flatBucket = head.flatBucket
    <2>1. CASE NewOnDisk
      <3>1. head' = [head EXCEPT !.nextBlock = @ + 1]
        BY <2>1 DEF NewOnDisk, UseBlock
      <3> QED BY <3>1, <1>1 DEF HeadOK
    <2>2. CASE WalkMemory \/ AppendMemory
      BY <2>2 DEF WalkMemory, AppendMemory
    <2> QED BY <2>1, <2>2
  <1>3. IndexStays /\ Table' = Table /\ Mapped' = Mapped
    <2>1. Table' = Table
      BY <1>1 DEF Table
    <2>2. Len(mem') <= MaxInMemory
      BY <1>1 DEF CInv, MemFits
    <2> QED BY <1>1, <1>2, <2>1, <2>2, TableStays
  <1>4. Finds(op, pc, Mapped)
    BY DEF CInv, OpInv
  <1>5. /\ op'.kind = op.kind /\ op'.no = op.no /\ op'.off = op.off /\ op'.units = op.units
        /\ Finds(op', pc', Mapped) /\ Used' = Used
    <2>1. CASE WalkMemory \/ AppendMemory
      <3>1. op' = op /\ pc' = pc /\ head' = head
        BY <2>1 DEF WalkMemory, AppendMemory
      <3> QED BY <3>1, <1>4 DEF Finds, Used
    <2>2. CASE NewOnDisk
      <3>1. /\ op' = [op EXCEPT !.vno = head.nextBlock] /\ pc = "missing" /\ pc' = "append"
        BY <2>2 DEF NewOnDisk, NewBlock
      <3>2. /\ op'.kind = op.kind /\ op'.no = op.no /\ op'.off = op.off
            /\ op'.units = op.units /\ PairOf(op') = [no |-> op.no, vno |-> head.nextBlock]
        BY <3>1, <1>1, VnoSet
      <3>3. op'.vno = head.nextBlock
        BY <3>1, <1>1 DEF OpOK
      <3> QED BY <3>1, <3>2, <3>3, <1>4 DEF Finds, Used
    <2> QED BY <2>1, <2>2, <1>1
  <1>6. Looks
    BY <1>1, <1>3, <1>5 DEF Looks
  <1> QED BY <1>3, <1>6, Looked

\* A bucket that get_bucket reads into memory.
LEMMA LoadLooks ==
    ASSUME IInv, CInv, HasShadow, UNCHANGED <<mode, saved, flat, blocks, head>>,
           head.state = 1, cursor \in DOMAIN Table, ~InMemory(cursor),
           AllocBucket(mem, GetBucket(cursor))
    PROVE  /\ IndexStays /\ Mapped' = Mapped /\ Mapped = Pairs(Table)
           /\ GetBucket(cursor).ents = Table[cursor].ents
           /\ Table[cursor].ents \in Seq(Entry)
  <1>1. Table' = Table /\ (mode = "shadow" \/ bucket' = bucket)
    BY Load
  <1>2. /\ IsTable(Table) /\ DOMAIN Table = DOMAIN bucket \cup InMem(mem)
        /\ cursor \in DOMAIN bucket /\ Table[cursor] = bucket[cursor]
    BY TableIs DEF IInv
  <1>3. GetBucket(cursor).ents = Table[cursor].ents /\ Table[cursor] \in Slot
    BY <1>2 DEF GetBucket, IsTable
  <1>4. Table[cursor].ents \in Seq(Entry) /\ Table[cursor].next \in Nat
    BY <1>3 DEF Slot
  <1>5. Len(mem') <= MaxInMemory
    <2>1. cursor \in Nat
      <3>1. DOMAIN Table = 1..head.nextBucket - 1
        BY HashTable
      <3> QED BY <3>1
    <2>2. GetBucket(cursor) \in Loaded
      BY <1>2, <1>4, <2>1 DEF GetBucket, Loaded
    <2> QED BY <2>2, AllocFits DEF IInv, Typed, CInv, MemFits
  <1> QED BY <1>1, <1>3, <1>4, <1>5, TableStays DEF Mapped, Mapping

\* Walking the chain into a bucket that is read from the file.
LEMMA WalkDiskLooks ==
    ASSUME IInv, CInv, HasShadow, UNCHANGED bfVars, WalkDisk
    PROVE  CInv'
  <1>1. /\ UNCHANGED <<rmf, mode, saved, flat, blocks, head, iobuf>>
        /\ pc = "walk" /\ cursor # 0 /\ ~InMemory(cursor)
        /\ AllocBucket(mem, GetBucket(cursor)) /\ head.state = 1 /\ OpOK(op)
    BY DEF WalkDisk, bfVars, IInv, Control, Typed
  <1>2. cursor \in DOMAIN Table
    BY <1>1 DEF IInv, WalkInv, OnChain
  <1>3. /\ IndexStays /\ Mapped' = Mapped /\ Mapped = Pairs(Table)
        /\ GetBucket(cursor).ents = Table[cursor].ents
        /\ Table[cursor].ents \in Seq(Entry)
    BY <1>1, <1>2, LoadLooks
  <1>4. /\ op'.kind = op.kind /\ op'.no = op.no /\ op'.off = op.off /\ op'.units = op.units
        /\ Finds(op', pc', Mapped) /\ pc' \in {"found", "walk"}
    <2>1. CASE Entries(GetBucket(cursor), op.no) # {}
      <3>1. PICK v : v = VnoIn(GetBucket(cursor), op.no)
        OBVIOUS
      <3>2. op' = [op EXCEPT !.vno = v] /\ pc' = "found"
        BY <2>1, <3>1 DEF WalkDisk, Found, Goto
      <3>3. [no |-> op.no, vno |-> v] \in Mapped
        BY <2>1, <3>1, <1>2, <1>3, EntryFound
      <3>4. /\ op'.kind = op.kind /\ op'.no = op.no /\ op'.off = op.off
            /\ op'.units = op.units /\ PairOf(op') = [no |-> op.no, vno |-> v]
        BY <3>2, <1>1, VnoSet
      <3> QED BY ONLY <3>2, <3>3, <3>4 DEF Finds
    <2>2. CASE Entries(GetBucket(cursor), op.no) = {}
      <3>1. op' = op /\ pc' = "walk"
        BY <2>2, <1>1 DEF WalkDisk
      <3> QED BY <3>1 DEF Finds
    <2> QED BY <2>1, <2>2
  <1>5. Used' = Used
    BY <1>1, <1>4 DEF Used
  <1>6. Looks
    BY <1>1, <1>3, <1>4, <1>5 DEF Looks
  <1> QED BY <1>3, <1>6, Looked

-----------------------------------------------------------------------------
\* Entering a block in the index.

\* An entry for a new shadow block leaves the index one of distinct blocks.
LEMMA Enters ==
    ASSUME IInv, CInv, mode = "shadow", UNCHANGED bfVars, UNCHANGED <<rmf, blocks, iobuf>>,
           IndexStays, pc \in {"missing", "append"}, pc' = "fill", op.kind = "write",
           op'.kind = op.kind, op'.no = op.no, op'.off = op.off, op'.units = op.units,
           PairOf(op') = [no |-> op.no, vno |-> Used],
           Mapped' = Mapped \cup {PairOf(op')}, Used \in Nat, Used' = Used + 1
    PROVE  CInv'
  <1>1. HasShadow /\ exp' = exp /\ op.no \in BlockNos /\ op.no \in Nat
    BY CFileAssumption DEF HasShadow, bfVars, CInv, OpInv, Asked
  <1>2. PICK x : x = PairOf(op')
    OBVIOUS
  <1>3. x.no = op.no /\ x.vno = Used /\ x \in Entry
    BY <1>1, <1>2 DEF Entry
  <1>4. Fresh(Mapped, op.no) /\ Indexed(Mapped, Used)
    BY <1>1 DEF CInv, OpInv, Finds, MapInv
  <1>5. Indexed(Mapped \cup {x}, Used + 1)
    <2>1. \A y \in Mapped : y \in Entry /\ y.no \in BlockNos /\ 0 < y.vno /\ y.vno < Used
                            /\ y.no # op.no /\ y.vno \in Nat
      BY <1>4 DEF Indexed, Numbered, Fresh, Entry
    <2>2. OneToOne(Mapped) /\ 0 < Used
      BY <1>4 DEF Indexed
    <2>3. \A y \in Mapped : y.vno # x.vno /\ y.no # x.no
      BY <1>3, <2>1
    <2>4. OneToOne(Mapped \cup {x})
      BY <2>2, <2>3 DEF OneToOne
    <2>5. Numbered(Mapped \cup {x}, Used + 1)
      <3>1. ASSUME NEW y \in Mapped \cup {x}
            PROVE  y \in Entry /\ y.no \in BlockNos /\ 0 < y.vno /\ y.vno < Used + 1
        BY <1>1, <1>3, <2>1, <2>2
      <3> QED BY <3>1 DEF Numbered
    <2> QED BY <2>2, <2>4, <2>5 DEF Indexed
  <1>6. IndexKept
    BY <1>2, <1>5 DEF IndexKept, IndexStays
  <1>7. Placed' = Mapped /\ Placed = Mapped
    <2>1. x \notin Mapped
      BY <1>3, <1>4 DEF Fresh
    <2>2. Placed' = (Mapped \cup {x}) \ {x}
      BY <1>2 DEF Placed
    <2> QED BY <2>1, <2>2 DEF Placed
  <1>8. Wanted(op', pc', exp) = Wanted(op, pc, exp)
    <2>1. \A i : Within(op', i) <=> Within(op, i)
      BY DEF Within
    <2>2. Pending(op', pc') <=> Pending(op, pc)
      BY DEF Pending
    <2> QED BY <2>1, <2>2 DEF Wanted
  <1>9. DataKept
    <2>1. Register(rmf) /\ iobuf \in Content /\ blocks \in [DOMAIN blocks -> Content]
      BY DEF CInv, DataOK
    <2>2. Spares(rmf, rmf)
      BY DEF Spares, Kept
    <2>3. Right(blocks, rmf, Mapped, Wanted(op, pc, exp))
      BY <1>1, <1>7 DEF CInv, ShadowRight
    <2> QED BY <2>1, <2>2, <2>3, <1>7, <1>8 DEF DataKept
  <1>10. OpKept
    <2>1. Asked(op', pc')
      BY DEF CInv, OpInv, Asked
    <2>2. Given(op', pc', exp)
      BY DEF CInv, OpInv, Given, Pending, Within
    <2>3. Finds(op', pc', Mapped')
      BY DEF Finds
    <2> QED BY <2>1, <2>2, <2>3 DEF OpKept
  <1> QED BY <1>1, <1>6, <1>9, <1>10, Inside

\* In a bucket in memory.
LEMMA NewInMemoryEnters ==
    ASSUME IInv, CInv, HasShadow, UNCHANGED bfVars, NewInMemory
    PROVE  CInv'
  <1>1. /\ UNCHANGED <<rmf, mode, saved, bucket, flat, blocks, iobuf>>
        /\ pc = "missing" /\ op.kind = "write" /\ head.state = 1 /\ pc' = "fill"
        /\ op' = [op EXCEPT !.vno = head.nextBlock] /\ head' = UseBlock(head)
        /\ OpOK(op) /\ HeadOK(head) /\ mode = "shadow" /\ mem \in Memory
    BY DEF NewInMemory, NewBlock, Goto, diskVars, bfVars, IInv, Typed, Control
  <1>2. /\ op'.kind = op.kind /\ op'.no = op.no /\ op'.off = op.off /\ op'.units = op.units
        /\ PairOf(op') = [no |-> op.no, vno |-> head.nextBlock]
    BY <1>1, VnoSet
  <1>3. /\ head'.state = head.state /\ head'.flatBucket = head.flatBucket
        /\ head'.nextBlock = head.nextBlock + 1 /\ head.nextBlock \in Nat
    <2>1. head' = [head EXCEPT !.nextBlock = @ + 1]
      BY <1>1 DEF UseBlock
    <2> QED BY <2>1, <1>1 DEF HeadOK
  <1>4. Pairs(Table') = Pairs(Table) \cup {[no |-> op.no, vno |-> head.nextBlock]}
    BY <1>1, NewInMemoryStep
  <1>5. IndexStays
    <2>1. PICK i \in 1..Len(mem) : mem' = [mem EXCEPT ![i] = Added(@, op.no, head.nextBlock)]
      BY DEF NewInMemory
    <2>2. Len(mem') = Len(mem)
      BY <1>1, <2>1 DEF Memory
    <2>3. Len(mem') <= MaxInMemory
      BY <2>2 DEF CInv, MemFits
    <2> QED BY <1>1, <1>3, <2>3, TableStays
  <1>6. Mapped = Pairs(Table) /\ Mapped' = Pairs(Table')
    BY <1>1, <1>3 DEF Mapped, Mapping
  <1>7. Used = head.nextBlock /\ Used' = head'.nextBlock
    BY <1>1 DEF Used
  <1> QED BY <1>1, <1>2, <1>3, <1>4, <1>5, <1>6, <1>7, Enters

\* In a bucket on disk, or a look at the next one.
LEMMA AppendDiskEnters ==
    ASSUME IInv, CInv, HasShadow, UNCHANGED bfVars, AppendDisk
    PROVE  CInv'
  <1>1. /\ UNCHANGED <<rmf, mode, saved, flat, blocks, head, iobuf, op>>
        /\ pc = "append" /\ op.kind = "write" /\ head.state = 1
        /\ cursor # 0 /\ ~InMemory(cursor) /\ mode = "shadow" /\ mem \in Memory
        /\ OpOK(op) /\ op.no \in Nat
    BY DEF AppendDisk, bfVars, IInv, Typed, Control, OpOK
  <1>2. /\ op.vno \in Nat /\ head.nextBlock = op.vno + 1
    BY <1>1 DEF IInv, WalkInv
  <1>3. cursor \in DOMAIN Table /\ cursor \in Nat /\ cursor \in DOMAIN bucket
        /\ bucket[cursor] \in Slot
    <2>1. cursor \in DOMAIN Table
      BY <1>1, OnNext DEF OnChain
    <2>2. DOMAIN Table = 1..head.nextBucket - 1
      BY <1>1, HashTable
    <2>3. cursor \in DOMAIN bucket
      BY <1>1, <2>1, TableIs DEF IInv
    <2> QED BY <2>1, <2>2, <2>3 DEF IInv, Typed, IsTable
  <1>4. \/ pc' = "append" /\ Table' = Table
        \/ pc' = "fill" /\ Pairs(Table') = Pairs(Table) \cup {[no |-> op.no, vno |-> op.vno]}
    BY <1>1, AppendDiskStep
  <1>5. Len(mem') <= MaxInMemory
    <2>1. PICK e : e = GetBucket(cursor)
      OBVIOUS
    <2>2. e = [this |-> cursor, ents |-> bucket[cursor].ents,
               next |-> bucket[cursor].next, dirty |-> FALSE]
          /\ bucket[cursor].ents \in Seq(Entry) /\ bucket[cursor].next \in Nat
      BY <1>3, <2>1 DEF GetBucket, Slot
    <2>3. e \in Loaded
      BY <1>3, <2>2 DEF Loaded
    <2>4. Added(e, op.no, op.vno) \in Loaded
      <3>1. [no |-> op.no, vno |-> op.vno] \in Entry
        BY <1>1, <1>2 DEF Entry
      <3>2. Append(e.ents, [no |-> op.no, vno |-> op.vno]) \in Seq(Entry)
        BY <2>2, <3>1
      <3> QED BY <1>3, <2>2, <3>2 DEF Added, Loaded
    <2>5. AllocBucket(mem, e) \/ AllocBucket(mem, Added(e, op.no, op.vno))
      BY <2>1 DEF AppendDisk
    <2> QED BY <1>1, <2>3, <2>4, <2>5, AllocFits DEF CInv, MemFits
  <1>6. IndexStays /\ (Table' = Table => Mapped' = Mapped)
    BY <1>1, <1>5, TableStays
  <1>7. CASE pc' = "append" /\ Table' = Table
    <2>1. Mapped' = Mapped /\ Used' = Used
      BY <1>1, <1>6, <1>7 DEF Used
    <2>2. Finds(op', pc', Mapped)
      BY <1>1, <1>7 DEF CInv, OpInv, Finds
    <2>3. Looks
      BY <1>1, <1>7, <2>1, <2>2 DEF Looks
    <2> QED BY <1>6, <2>3, Looked
  <1>8. CASE /\ pc' = "fill"
             /\ Pairs(Table') = Pairs(Table) \cup {[no |-> op.no, vno |-> op.vno]}
    <2>1. Mapped = Pairs(Table) /\ Mapped' = Pairs(Table')
      BY <1>1 DEF Mapped, Mapping
    <2>2. Used = op.vno /\ Used' = op.vno + 1
      BY <1>1, <1>2, <1>8 DEF Used
    <2>3. PairOf(op') = [no |-> op.no, vno |-> op.vno]
      BY <1>1 DEF PairOf
    <2> QED BY <1>1, <1>2, <1>6, <1>8, <2>1, <2>2, <2>3, Enters
  <1> QED BY <1>4, <1>7, <1>8

\* In a new bucket.
LEMMA NewBucketEnters ==
    ASSUME IInv, CInv, HasShadow, UNCHANGED bfVars, NewBucket
    PROVE  CInv'
  <1>1. /\ UNCHANGED <<rmf, mode, saved, flat, blocks, iobuf, op>>
        /\ pc = "append" /\ pc' = "fill" /\ op.kind = "write" /\ head.state = 1
        /\ mode = "shadow" /\ mem \in Memory /\ OpOK(op) /\ op.no \in Nat /\ HeadOK(head)
        /\ head.nextBucket \in Nat
        /\ head' = [head EXCEPT !.nextBucket = head.nextBucket + 1]
    BY DEF NewBucket, Goto, bfVars, IInv, Typed, Control, OpOK, HeadOK
  <1>2. /\ op.vno \in Nat /\ head.nextBlock = op.vno + 1
        /\ prev # 0 => prev \in InMem(mem)
    BY <1>1 DEF IInv, WalkInv
  <1>3. /\ head'.state = head.state /\ head'.flatBucket = head.flatBucket
        /\ head'.nextBlock = head.nextBlock
    BY <1>1 DEF HeadOK
  <1>4. Pairs(Table') = Pairs(Table) \cup {[no |-> op.no, vno |-> op.vno]}
    BY <1>1, NewBucketStep
  <1>5. Len(mem') <= MaxInMemory
    <2>1. PICK b, m, e :
             /\ b = head.nextBucket /\ m = IF prev = 0 THEN mem ELSE Linked(b)
             /\ e = [this |-> b, ents |-> <<[no |-> op.no, vno |-> op.vno]>>,
                     next |-> 0, dirty |-> TRUE]
      OBVIOUS
    <2>2. AllocBucket(m, e)
      BY <2>1, Zenon DEF NewBucket
    <2>3. e \in Loaded
      <3>1. [no |-> op.no, vno |-> op.vno] \in Entry
        BY <1>1, <1>2 DEF Entry
      <3> QED BY <3>1, <1>1, <2>1 DEF Loaded
    <2>4. m \in Memory /\ Len(m) = Len(mem)
      <3>1. CASE prev = 0
        BY <3>1, <2>1, <1>1
      <3>2. CASE prev # 0
        BY <3>2, <2>1, <1>1, <1>2, LinkedIs
      <3> QED BY <3>1, <3>2
    <2> QED BY <2>2, <2>3, <2>4, AllocFits DEF CInv, MemFits
  <1>6. IndexStays
    BY <1>1, <1>3, <1>5, TableStays
  <1>7. Mapped = Pairs(Table) /\ Mapped' = Pairs(Table')
    BY <1>1, <1>3 DEF Mapped, Mapping
  <1>8. Used = op.vno /\ Used' = op.vno + 1
    BY <1>1, <1>2, <1>3 DEF Used
  <1>9. PairOf(op') = [no |-> op.no, vno |-> op.vno]
    BY <1>1 DEF PairOf
  <1> QED BY <1>1, <1>2, <1>4, <1>6, <1>7, <1>8, <1>9, Enters

\* The flat index ends after the block of entries that was written last.
LEMMA FlatTimes ==
    ASSUME NEW no \in Nat
    PROVE  /\ no \div FlatSize + 1 \in Nat
           /\ \A b \in Nat : no \div FlatSize + 1 <= b => no < b * FlatSize
  <1>1. FlatSize \in Nat \ {0}
    BY CFileAssumption
  <1>2. PICK q : q = no \div FlatSize
    OBVIOUS
  <1>3. q \in Nat /\ no < (q + 1) * FlatSize
    BY <1>1, <1>2
  <1>4. ASSUME NEW b \in Nat, q + 1 <= b PROVE no < b * FlatSize
    <2>1. b - (q + 1) \in Nat
      BY <1>3, <1>4
    <2>2. (b - (q + 1)) * FlatSize >= 0
      BY <1>1, <2>1
    <2>3. (b - (q + 1)) * FlatSize = b * FlatSize - (q + 1) * FlatSize
      BY <1>1, <1>3
    <2>4. b * FlatSize \in Nat /\ (q + 1) * FlatSize \in Nat
      BY <1>1, <1>3
    <2> QED BY <1>3, <2>2, <2>3, <2>4
  <1> QED BY <1>2, <1>3, <1>4

\* In the flat index.
LEMMA NewFlatEnters ==
    ASSUME IInv, CInv, HasShadow, UNCHANGED bfVars, NewFlat
    PROVE  CInv'
  <1>1. /\ UNCHANGED <<rmf, mode, saved, bucket, blocks, mem, iobuf>>
        /\ pc = "missing" /\ pc' = "fill" /\ op.kind = "write" /\ head.state = 2
        /\ mode = "shadow" /\ OpOK(op) /\ HeadOK(head)
        /\ op' = [op EXCEPT !.vno = head.nextBlock]
        /\ flat' = [flat EXCEPT ![op.no] = head.nextBlock]
        /\ head' = UseBlock(WithFlat(head, op.no))
    BY DEF NewFlat, NewBlock, Goto, bfVars, IInv, Typed, Control
  <1>2. /\ op'.kind = op.kind /\ op'.no = op.no /\ op'.off = op.off /\ op'.units = op.units
        /\ PairOf(op') = [no |-> op.no, vno |-> head.nextBlock]
    BY <1>1, VnoSet
  <1>3. /\ op.no \in BlockNos /\ op.no \in Nat /\ head.nextBlock \in Nat
        /\ flat \in [BlockNos -> Nat] /\ head.flatBucket \in Nat /\ FlatWithin(head, flat)
        /\ Fresh(Mapped, op.no) /\ 0 < head.nextBlock
    BY <1>1, CFileAssumption
       DEF CInv, OpInv, Asked, Finds, FlatInv, FlatIs, MapInv, Indexed, Used, HeadOK
  <1>4. PICK f, g : f = head.flatBucket /\ g = op.no \div FlatSize + 1
    OBVIOUS
  <1>5. PICK k : k = Max({f, g})
    OBVIOUS
  <1>6. f \in Nat /\ g \in Nat /\ k \in Nat /\ f <= k /\ g <= k
    <2>1. f \in Nat /\ g \in Nat
      BY <1>3, <1>4, FlatTimes
    <2>2. {f, g} \in SUBSET Int /\ \A y \in {f, g} : y = f \/ y = g
      BY <2>1
    <2>3. CASE f <= g
      <3>1. k = g
        BY <1>5, <2>1, <2>2, <2>3, MaxIs
      <3> QED BY <3>1, <2>1, <2>3
    <2>4. CASE g <= f
      <3>1. k = f
        BY <1>5, <2>1, <2>2, <2>4, MaxIs
      <3> QED BY <3>1, <2>1, <2>4
    <2> QED BY <2>1, <2>3, <2>4
  <1>7. /\ head'.state = 2 /\ head'.flatBucket = k /\ head'.nextBlock = head.nextBlock + 1
    <2>1. PICK h : h = [head EXCEPT !.flatBucket = k]
      OBVIOUS
    <2>2. WithFlat(head, op.no) = h
      BY <1>4, <1>5, <2>1 DEF WithFlat
    <2>3. /\ h = [state |-> h.state, nextBlock |-> h.nextBlock,
                  nextBucket |-> h.nextBucket, flatBucket |-> h.flatBucket]
          /\ h.state = head.state /\ h.nextBlock = head.nextBlock /\ h.flatBucket = k
      BY <1>1, <2>1 DEF HeadOK
    <2>4. head' = [h EXCEPT !.nextBlock = @ + 1]
      BY <1>1, <2>2 DEF UseBlock
    <2> QED BY <1>1, <2>3, <2>4
  <1>8. /\ flat' \in [BlockNos -> Nat] /\ flat'[op.no] = head.nextBlock
        /\ \A no \in BlockNos : no # op.no => flat'[no] = flat[no]
    BY <1>1, <1>3
  <1>9. FlatWithin(head', flat')
    <2> SUFFICES ASSUME NEW no \in BlockNos, flat'[no] # 0 PROVE no < k * FlatSize
      BY <1>7 DEF FlatWithin
    <2>1. CASE no = op.no
      BY <2>1, <1>3, <1>4, <1>6, FlatTimes
    <2>2. CASE no # op.no
      <3>1. no < f * FlatSize /\ no \in Nat
        <4>1. flat[no] # 0 /\ no \in Nat
          BY <2>2, <1>8, CFileAssumption
        <4> QED BY <4>1, <1>3, <1>4 DEF FlatWithin
      <3>2. no < k * FlatSize
        <4>1. FlatSize \in Nat \ {0}
          BY CFileAssumption
        <4>2. (k - f) * FlatSize >= 0
          <5>1. k - f \in Nat
            BY <1>6
          <5> QED BY <4>1, <5>1
        <4>3. (k - f) * FlatSize = k * FlatSize - f * FlatSize
          BY <1>6, <4>1
        <4>4. k * FlatSize \in Nat /\ f * FlatSize \in Nat
          BY <1>6, <4>1
        <4> QED BY <3>1, <4>2, <4>3, <4>4
      <3> QED BY <3>2
    <2> QED BY <2>1, <2>2
  <1>10. IndexStays
    BY <1>1, <1>6, <1>7, <1>8, <1>9 DEF IndexStays, FlatIs, CInv, MemFits
  <1>11. Mapped' = Mapped \cup {[no |-> op.no, vno |-> head.nextBlock]}
    <2>1. Mapped = FlatMap(flat) /\ Mapped' = FlatMap(flat')
      BY <1>1, <1>7 DEF Mapped, Mapping
    <2>2. flat[op.no] = 0
      <3>1. CASE flat[op.no] # 0
        <4>1. PICK x : x = [no |-> op.no, vno |-> flat[op.no]]
          OBVIOUS
        <4>2. x \in FlatMap(flat) /\ x.no = op.no
          BY <3>1, <4>1, <1>3 DEF FlatMap
        <4> QED BY <4>2, <2>1, <1>3 DEF Fresh
      <3> QED BY <3>1
    <2>3. ASSUME NEW x \in FlatMap(flat')
          PROVE  x \in FlatMap(flat) \cup {[no |-> op.no, vno |-> head.nextBlock]}
      <3>1. PICK n \in BlockNos : flat'[n] # 0 /\ x = [no |-> n, vno |-> flat'[n]]
        BY <2>3 DEF FlatMap
      <3>2. CASE n = op.no
        BY <3>1, <3>2, <1>8
      <3>3. CASE n # op.no
        BY <3>1, <3>3, <1>8 DEF FlatMap
      <3> QED BY <3>2, <3>3
    <2>4. ASSUME NEW x \in FlatMap(flat) PROVE x \in FlatMap(flat')
      <3>1. PICK n \in BlockNos : flat[n] # 0 /\ x = [no |-> n, vno |-> flat[n]]
        BY <2>4 DEF FlatMap
      <3>2. n # op.no
        BY <3>1, <2>2
      <3> QED BY <3>1, <3>2, <1>8 DEF FlatMap
    <2>5. [no |-> op.no, vno |-> head.nextBlock] \in FlatMap(flat')
      BY <1>3, <1>8 DEF FlatMap
    <2> QED BY <2>1, <2>3, <2>4, <2>5
  <1>12. Used = head.nextBlock /\ Used' = head'.nextBlock
    BY <1>1 DEF Used
  <1> QED BY <1>1, <1>2, <1>3, <1>7, <1>10, <1>11, <1>12, Enters

\* Finitely many numbers have a bound, ...
LEMMA Bounded ==
    ASSUME NEW n \in Nat, NEW g \in [0..n -> Nat]
    PROVE  \E m \in Nat : \A i \in 0..n : g[i] <= m
  <1> DEFINE Has(k) == \E m \in Nat : \A i \in 0..k : g[i] <= m
             T == {k \in 0..n : ~Has(k)}
  <1>1. ASSUME T # {} PROVE FALSE
    <2>1. T \in SUBSET Nat
      OBVIOUS
    <2>2. PICK k \in T : \A j \in T : k <= j
      BY <1>1, <2>1, Least
    <2>3. k \in Nat /\ k <= n /\ ~Has(k)
      OBVIOUS
    <2>4. k # 0
      <3>1. Has(0)
        <4>1. g[0] \in Nat /\ \A i \in 0..0 : g[i] <= g[0]
          OBVIOUS
        <4> QED BY <4>1
      <3> QED BY <3>1, <2>3
    <2>5. k - 1 \in 0..n /\ Has(k - 1)
      <3>1. k - 1 \in 0..n /\ ~(k <= k - 1)
        BY <2>3, <2>4
      <3>2. k - 1 \notin T
        BY <2>2, <3>1
      <3> QED BY <3>1, <3>2
    <2>6. PICK m \in Nat : \A i \in 0..k - 1 : g[i] <= m
      BY <2>5
    <2>7. PICK c \in Nat : m <= c /\ g[k] <= c
      <3>1. g[k] \in Nat
        BY <2>3
      <3>2. m <= g[k] \/ g[k] <= m
        BY <3>1
      <3> QED BY <3>1, <3>2
    <2>8. ASSUME NEW i \in 0..k PROVE g[i] <= c
      <3>1. i = k \/ i \in 0..k - 1
        BY <2>3, <2>4
      <3>2. g[i] \in Nat
        BY <2>3
      <3> QED BY <3>1, <3>2, <2>6, <2>7
    <2> QED BY <2>3, <2>7, <2>8
  <1>2. n \in 0..n
    OBVIOUS
  <1> QED BY <1>1, <1>2

\* ... so the flat index that is made of an index has an end.
Ends(f, M) == {f} \cup {x.no \div FlatSize + 1 : x \in M}

\* That end is a number, and no block of the index lies behind it.
LEMMA EndsIn ==
    ASSUME NEW f \in Nat, NEW M, NEW n \in Nat, Indexed(M, n)
    PROVE  /\ Max(Ends(f, M)) \in Nat
           /\ \A x \in M : x.no \div FlatSize + 1 <= Max(Ends(f, M))
  <1> DEFINE S == Ends(f, M)
             g == [v \in 0..n |->
                     IF \E x \in M : x.vno = v
                     THEN (CHOOSE x \in M : x.vno = v).no \div FlatSize + 1 ELSE 0]
  <1>1. \A x \in M : /\ x.no \in Nat /\ x.vno \in 0..n
                     /\ x.no \div FlatSize + 1 \in Nat
                     /\ \A y \in M : x.vno = y.vno => x = y
    <2>1. ASSUME NEW x \in M PROVE x.no \in Nat /\ x.vno \in 0..n
      BY DEF Indexed, Numbered, Entry
    <2> QED BY <2>1, FlatTimes DEF Indexed, OneToOne
  <1>2. \A x \in M : g[x.vno] = x.no \div FlatSize + 1
    <2> SUFFICES ASSUME NEW x \in M PROVE g[x.vno] = x.no \div FlatSize + 1
      OBVIOUS
    <2>1. (CHOOSE y \in M : y.vno = x.vno) = x
      BY <1>1
    <2> QED BY <1>1, <2>1
  <1>3. g \in [0..n -> Nat]
    <2>1. ASSUME NEW v \in 0..n PROVE g[v] \in Nat
      <3>1. CASE \E x \in M : x.vno = v
        BY <3>1, <1>1, <1>2
      <3>2. CASE ~\E x \in M : x.vno = v
        BY <3>2
      <3> QED BY <3>1, <3>2
    <2>2. g = [v \in 0..n |-> g[v]]
      OBVIOUS
    <2> HIDE DEF g
    <2> QED BY <2>1, <2>2
  <1> HIDE DEF g
  <1>4. PICK m \in Nat : \A i \in 0..n : g[i] <= m
    BY <1>3, Bounded
  <1>5. PICK k \in Nat : m <= k /\ f <= k
    BY m <= f \/ f <= m
  <1>6. S \in SUBSET (0..k) /\ f \in S
    <2>1. ASSUME NEW x \in M PROVE x.no \div FlatSize + 1 \in 0..k
      <3>1. x.no \div FlatSize + 1 <= m /\ x.no \div FlatSize + 1 \in Nat
        BY <1>1, <1>2, <1>4
      <3> QED BY <3>1, <1>5
    <2> QED BY <2>1, <1>5 DEF Ends
  <1>7. \A x \in M : x.no \div FlatSize + 1 \in S
    BY DEF Ends
  <1> HIDE DEF S
  <1>8. PICK c \in S : \A y \in S : y <= c
    BY <1>6, Greatest
  <1>9. Max(S) = c /\ c \in Nat
    <2>1. S \in SUBSET Int /\ c \in Nat
      BY <1>6
    <2> QED BY <2>1, <1>8, MaxIs
  <1> QED BY <1>7, <1>8, <1>9 DEF S

\* cf_moveto_flat makes a flat index of all that was in the buckets.
LEMMA MovedMap ==
    ASSUME NEW M, NEW n, Indexed(M, n), NEW g,
           g = [no \in BlockNos |-> IF \E x \in M : x.no = no
                                    THEN (CHOOSE x \in M : x.no = no).vno ELSE 0]
    PROVE  FlatMap(g) = M /\ g \in [BlockNos -> Nat]
  <1>1. \A x \in M : /\ x \in Entry /\ x.no \in BlockNos /\ x.vno # 0
                     /\ x = [no |-> x.no, vno |-> x.vno] /\ x.vno \in Nat
                     /\ \A y \in M : x.no = y.no => x = y
    BY DEF Indexed, Numbered, OneToOne, Entry
  <1>2. \A x \in M : g[x.no] = x.vno
    <2> SUFFICES ASSUME NEW x \in M PROVE g[x.no] = x.vno
      OBVIOUS
    <2>1. (CHOOSE y \in M : y.no = x.no) = x
      BY <1>1
    <2> QED BY <1>1, <2>1
  <1>3. \A no \in BlockNos : (~\E x \in M : x.no = no) => g[no] = 0
    OBVIOUS
  <1>4. g \in [BlockNos -> Nat]
    <2>1. \A no \in BlockNos : g[no] \in Nat
      BY <1>1, <1>2, <1>3
    <2>2. g = [no \in BlockNos |-> g[no]]
      OBVIOUS
    <2> QED BY <2>1, <2>2
  <1>5. ASSUME NEW y \in FlatMap(g) PROVE y \in M
    <2>1. PICK no \in BlockNos : g[no] # 0 /\ y = [no |-> no, vno |-> g[no]]
      BY <1>5 DEF FlatMap
    <2>2. PICK x \in M : x.no = no
      BY <2>1, <1>3
    <2> QED BY <2>1, <2>2, <1>1, <1>2
  <1>6. ASSUME NEW x \in M PROVE x \in FlatMap(g)
    <2>1. g[x.no] # 0 /\ x.no \in BlockNos /\ x = [no |-> x.no, vno |-> g[x.no]]
      BY <1>1, <1>2
    <2> QED BY <2>1 DEF FlatMap
  <1> QED BY <1>4, <1>5, <1>6

\* Moving the hash table to the flat index changes no entry.
LEMMA MoveToFlatLooks ==
    ASSUME IInv, CInv, HasShadow, UNCHANGED bfVars, MoveToFlat
    PROVE  CInv'
  <1>1. /\ UNCHANGED <<rmf, mode, saved, blocks, iobuf, pc, op>>
        /\ pc = "missing" /\ op.kind = "write" /\ head.state = 1 /\ mode = "shadow"
        /\ HeadOK(head) /\ mem' = <<>> /\ bucket' = Written(mem, Len(mem))
    BY DEF MoveToFlat, FlushBuckets, bfVars, IInv, Typed, Control
  <1>2. bucket' = Table /\ DOMAIN Table = 1..head.nextBucket - 1
    BY <1>1, Flushed, HashTable
  <1>3. PICK M : M = Pairs(Table)
    OBVIOUS
  <1>4. UNION {Range(bucket'[b].ents) : b \in 1..head.nextBucket - 1} = M
    BY <1>2, <1>3 DEF Pairs
  <1>5. /\ flat' = [no \in BlockNos |-> IF \E x \in M : x.no = no
                                        THEN (CHOOSE x \in M : x.no = no).vno
                                        ELSE flat[no]]
        /\ head' = [head EXCEPT
              !.state = 2,
              !.flatBucket = Max({@} \cup {x.no \div FlatSize + 1 : x \in M})]
    BY <1>4, Zenon DEF MoveToFlat
  <1>6. /\ Mapped = M /\ Used = head.nextBlock /\ Indexed(M, Used)
        /\ \A no \in BlockNos : flat[no] = 0
        /\ head.flatBucket \in Nat /\ head.nextBlock \in Nat
    <2>1. Indexed(Mapped, Used) /\ flat = Unmapped
      BY <1>1 DEF CInv, MapInv, FlatInv, FlatIs
    <2> QED BY <2>1, <1>1, <1>3
            DEF CInv, FlatInv, Mapped, Mapping, Used, HeadOK, Unmapped
  <1>7. FlatMap(flat') = M /\ flat' \in [BlockNos -> Nat]
    <2>1. flat' = [no \in BlockNos |-> IF \E x \in M : x.no = no
                                       THEN (CHOOSE x \in M : x.no = no).vno ELSE 0]
      BY <1>5, <1>6
    <2> QED BY <2>1, <1>6, MovedMap
  <1>8. PICK k : k = Max(Ends(head.flatBucket, M))
    OBVIOUS
  <1>9. k \in Nat /\ \A x \in M : x.no \div FlatSize + 1 <= k
    BY <1>6, <1>8, EndsIn
  <1>10. /\ head'.state = 2 /\ head'.flatBucket = k /\ head'.nextBlock = head.nextBlock
    <2>1. head' = [head EXCEPT !.state = 2, !.flatBucket = k]
      BY <1>5, <1>8, Zenon DEF Ends
    <2>2. PICK a, b, c, d : head = [state |-> a, nextBlock |-> b, nextBucket |-> c,
                                    flatBucket |-> d]
      BY <1>1 DEF HeadOK
    <2>3. head' = [state |-> 2, nextBlock |-> b, nextBucket |-> c, flatBucket |-> k]
      BY ONLY <2>1, <2>2
    <2> QED BY <2>2, <2>3
  <1>11. FlatWithin(head', flat')
    <2> SUFFICES ASSUME NEW no \in BlockNos, flat'[no] # 0 PROVE no < k * FlatSize
      BY <1>10 DEF FlatWithin
    <2>1. PICK x \in M : x.no = no
      BY <1>5, <1>6
    <2> QED BY <2>1, <1>9, CFileAssumption, FlatTimes
  <1>12. IndexStays
    <2>1. Len(mem') <= MaxInMemory
      BY <1>1, CFileAssumption
    <2> QED BY <2>1, <1>1, <1>7, <1>9, <1>10, <1>11 DEF IndexStays, FlatIs
  <1>13. Mapped' = Mapped /\ Used' = Used
    BY <1>1, <1>6, <1>7, <1>10 DEF Mapped, Mapping, Used
  <1>14. Finds(op', pc', Mapped)
    BY <1>1 DEF CInv, OpInv
  <1>15. Looks
    BY <1>1, <1>13, <1>14 DEF Looks
  <1> QED BY <1>1, <1>12, <1>15, Looked

-----------------------------------------------------------------------------
\* What an operation writes to a shadow block, and what it reads.

\* Units put in a block.
LEMMA BlockPut ==
    ASSUME NEW c \in Content, NEW off, NEW units, Stored(off, units)
    PROVE  /\ Put(c, off, units) \in Content
           /\ \A i \in 1..BlockSize :
                 Put(c, off, units)[i] = IF off < i /\ i <= off + Len(units)
                                         THEN units[i - off] ELSE c[i]
  <1>1. /\ off \in Nat /\ units \in Seq(Datum) /\ units # <<>> /\ Len(units) \in Nat
        /\ off + Len(units) <= BlockSize /\ BlockSize \in Nat
    BY MFileAssumption DEF Stored
  <1>2. c \in Seq(Datum) /\ Len(c) = BlockSize
    BY <1>1 DEF Content
  <1>3. PICK u : u = Put(c, off, units)
    OBVIOUS
  <1>4. /\ u \in Seq(Datum) /\ Len(u) = BlockSize
        /\ \A k \in Nat \ {0} :
              UnitAt(u, k) =
                  IF k > off /\ k <= off + Len(units) THEN units[k - off]
                  ELSE IF k <= Len(c) THEN c[k]
                  ELSE IF k <= off + Len(units) THEN Hole ELSE Short
    <2>1. /\ u \in Seq(Datum) /\ Len(u) \in {Len(c), off + Len(units)} /\ Len(c) <= Len(u)
          /\ \A k \in Nat \ {0} :
              UnitAt(u, k) =
                  IF k > off /\ k <= off + Len(units) THEN units[k - off]
                  ELSE IF k <= Len(c) THEN c[k]
                  ELSE IF k <= off + Len(units) THEN Hole ELSE Short
      BY <1>1, <1>2, <1>3, PutIs
    <2> QED BY <2>1, <1>1, <1>2
  <1>5. ASSUME NEW i \in 1..BlockSize
        PROVE  u[i] = IF off < i /\ i <= off + Len(units) THEN units[i - off] ELSE c[i]
    <2>1. i \in Nat \ {0} /\ i <= Len(u) /\ i <= Len(c)
      BY <1>1, <1>2, <1>4
    <2>2. UnitAt(u, i) = u[i]
      BY <2>1 DEF UnitAt
    <2> QED BY <2>1, <2>2, <1>1, <1>4
  <1>6. u \in Content
    BY <1>4 DEF Content
  <1> QED BY <1>3, <1>5, <1>6

\* A shadow block is written, the others and the register keep what they have.
RightBut(bl, mf, M, want, n) ==
    \A no \in BlockNos \ {n} :
        /\ \A x \in M : x.no = no =>
               x.vno \in DOMAIN bl /\ Agrees(bl[x.vno], want[no])
        /\ Fresh(M, no) => Agrees(Cell(mf, no), want[no])
Replaces(bl, nb, M, p, want) ==
    /\ OneToOne(M) /\ p \in M
    /\ DOMAIN nb = DOMAIN bl \cup {p.vno}
    /\ \A v \in DOMAIN bl : v # p.vno => nb[v] = bl[v]
    /\ Agrees(nb[p.vno], want[p.no])

\* Replacing the shadow block of one entry makes the whole index right.
LEMMA RightAfter ==
    ASSUME NEW bl, NEW nb, NEW mf, NEW nf, NEW M, NEW p, NEW e \in [BlockNos -> Wish],
           Replaces(bl, nb, M, p, e), RightBut(bl, mf, M, e, p.no), Spares(mf, nf)
    PROVE  Right(nb, nf, M, e)
  <1> SUFFICES ASSUME NEW no \in BlockNos
               PROVE  /\ \A x \in M : x.no = no =>
                             x.vno \in DOMAIN nb /\ Agrees(nb[x.vno], e[no])
                      /\ Fresh(M, no) => Agrees(Cell(nf, no), e[no])
    BY DEF Right
  <1>1. ASSUME NEW x \in M, x.no = no
        PROVE  x.vno \in DOMAIN nb /\ Agrees(nb[x.vno], e[no])
    <2>1. CASE x.no = p.no
      <3>1. x = p
        BY <2>1 DEF Replaces, OneToOne
      <3> QED BY <3>1, <1>1 DEF Replaces
    <2>2. CASE x.no # p.no
      <3>1. x.vno # p.vno
        BY <2>2 DEF Replaces, OneToOne
      <3>2. x.vno \in DOMAIN bl /\ Agrees(bl[x.vno], e[no])
        BY <2>2, <1>1 DEF RightBut
      <3> QED BY <3>1, <3>2 DEF Replaces
    <2> QED BY <2>1, <2>2
  <1>2. ASSUME Fresh(M, no) PROVE Agrees(Cell(nf, no), e[no])
    <2>1. no # p.no
      BY <1>2 DEF Fresh, Replaces
    <2>2. Agrees(Cell(mf, no), e[no])
      BY <2>1, <1>2 DEF RightBut
    <2>3. no \in Nat /\ e[no] \in Wish
      BY CFileAssumption
    <2> QED BY <2>2, <2>3, AgreesKept DEF Spares
  <1> QED BY <1>1, <1>2

\* The step that ends a write.
PutsBlock(nb, c) ==
    /\ DOMAIN nb = DOMAIN blocks \cup {op.vno}
    /\ \A v \in DOMAIN blocks : v # op.vno => nb[v] = blocks[v]
    /\ nb[op.vno] = c /\ nb = [v \in DOMAIN nb |-> nb[v]]

\* bf_write ends with the shadow block holding what the caller expects.
LEMMA WriteDone ==
    ASSUME IInv, CInv, mode = "shadow", UNCHANGED bfVars,
           UNCHANGED <<saved, bucket, flat, head, mem, op>>, op.kind = "write",
           pc \in {"found", "fill"}, pc' = "done",
           Register(rmf'), Spares(rmf, rmf'), iobuf' \in Content,
           NEW c \in Content, PutsBlock(blocks', c), Agrees(c, exp[op.no])
    PROVE  CInv'
  <1>1. HasShadow /\ exp \in [BlockNos -> Wish] /\ op.no \in BlockNos
    BY DEF HasShadow, CInv, DataOK, OpInv, Asked
  <1>2. Mapped' = Mapped /\ Used' = Used
    BY DEF Mapped, Table, Used
  <1>3. IndexKept
    BY <1>1, <1>2 DEF IndexKept, CInv, FlatInv, MapInv, MemFits, FlatIs, FlatWithin
  <1>4. PICK p, w : p = PairOf(op) /\ w = Wanted(op, pc, exp)
    OBVIOUS
  <1>5. p \in Mapped /\ p.no = op.no /\ p.vno = op.vno /\ OneToOne(Mapped)
    BY <1>1, <1>4 DEF CInv, OpInv, Finds, PairOf, MapInv, Indexed
  <1>6. Replaces(blocks, blocks', Mapped, p, exp)
    BY <1>5 DEF Replaces, PutsBlock
  <1>7. RightBut(blocks, rmf, Mapped, exp, p.no)
    <2>1. \A no \in BlockNos \ {p.no} : w[no] = exp[no]
      BY <1>1, <1>4, <1>5, WantedIs
    <2>2. Right(blocks, rmf, Placed, w) /\ (Placed = Mapped \/ Placed = Mapped \ {p})
      BY <1>1, <1>4 DEF CInv, ShadowRight, Placed
    <2>3. ASSUME NEW no \in BlockNos \ {p.no}
          PROVE  /\ \A x \in Mapped : x.no = no =>
                       x.vno \in DOMAIN blocks /\ Agrees(blocks[x.vno], exp[no])
                 /\ Fresh(Mapped, no) => Agrees(Cell(rmf, no), exp[no])
      <3>1. \A x \in Mapped : x.no = no => x \in Placed
        BY <2>2
      <3>2. Fresh(Mapped, no) => Fresh(Placed, no)
        BY <2>2 DEF Fresh
      <3> QED BY <3>1, <3>2, <2>1, <2>2 DEF Right
    <2> QED BY <2>3 DEF RightBut
  <1>8. DataKept
    <2>1. Right(blocks', rmf', Mapped, exp)
      BY <1>1, <1>6, <1>7, RightAfter
    <2>2. Placed' = Mapped /\ Wanted(op', pc', exp) = exp
      <3>1. ~Pending(op', pc')
        BY DEF Pending
      <3> QED BY <3>1, <1>1, <1>2, WantedIs DEF Placed
    <2>3. blocks' \in [DOMAIN blocks' -> Content]
      <3>1. blocks \in [DOMAIN blocks -> Content]
        BY DEF CInv, DataOK
      <3>2. \A v \in DOMAIN blocks' : blocks'[v] \in Content
        BY <3>1 DEF PutsBlock
      <3>3. blocks' = [v \in DOMAIN blocks' |-> blocks'[v]]
        BY DEF PutsBlock
      <3> QED BY <3>2, <3>3
    <2> QED BY <2>1, <2>2, <2>3 DEF DataKept
  <1>9. OpKept
    <2>1. Asked(op', pc')
      BY DEF CInv, OpInv, Asked
    <2> QED BY <2>1 DEF OpKept, Given, Pending, Finds
  <1> QED BY <1>1, <1>3, <1>8, <1>9, Inside

\* The units that are written agree with what is expected, the others too if they
\* did before.
LEMMA PutAgrees ==
    ASSUME CInv, pc # "done", op.kind = "write", NEW c \in Content,
           \A i \in 1..BlockSize : ~Within(op, i) =>
               exp[op.no][i] = Hole \/ c[i] = exp[op.no][i]
    PROVE  /\ Put(c, op.off, op.units) \in Content
           /\ Agrees(Put(c, op.off, op.units), exp[op.no])
  <1>1. Stored(op.off, op.units)
    BY DEF CInv, OpInv, Asked
  <1>2. PICK u : u = Put(c, op.off, op.units)
    OBVIOUS
  <1>3. /\ u \in Content
        /\ \A i \in 1..BlockSize : u[i] = IF Within(op, i) THEN op.units[i - op.off] ELSE c[i]
    BY <1>1, <1>2, BlockPut DEF Within
  <1>4. \A i \in 1..BlockSize : Within(op, i) => exp[op.no][i] = op.units[i - op.off]
    BY DEF CInv, OpInv, Given, Pending
  <1> QED BY <1>2, <1>3, <1>4 DEF Agrees

\* The last step of bf_write: filling a new shadow block or changing one.
LEMMA WriteSteps ==
    ASSUME IInv, CInv, HasShadow, UNCHANGED bfVars,
           FillWhole \/ FillPart \/ WriteShadow
    PROVE  CInv'
  <1>1. /\ UNCHANGED <<saved, bucket, flat, head, mem, op>> /\ op.kind = "write"
        /\ pc \in {"found", "fill"} /\ pc' = "done" /\ mode = "shadow"
    BY DEF FillWhole, FillPart, WriteShadow, Goto, cfVars, IInv, Control
  <1>2. /\ Stored(op.off, op.units) /\ op.no \in BlockNos /\ op.no \in Nat
        /\ Register(rmf) /\ iobuf \in Content /\ blocks \in [DOMAIN blocks -> Content]
        /\ exp \in [BlockNos -> Wish] /\ PairOf(op) \in Mapped
        /\ OneToOne(Mapped) /\ Right(blocks, rmf, Placed, Wanted(op, pc, exp))
    BY <1>1, CFileAssumption
       DEF HasShadow, CInv, DataOK, OpInv, Asked, Finds, MapInv, Indexed, ShadowRight
  <1>3. Spares(rmf, rmf)
    BY DEF Spares, Kept
  <1>4. \A i \in 1..BlockSize : ~Within(op, i) => Wanted(op, pc, exp)[op.no][i] = exp[op.no][i]
    BY <1>2 DEF Wanted
  <1>5. CASE FillWhole
    <2>1. /\ Len(op.units) = BlockSize /\ UNCHANGED <<rmf, iobuf>>
          /\ blocks' = [v \in DOMAIN blocks \cup {op.vno} |->
                           IF v = op.vno THEN op.units ELSE blocks[v]]
      BY <1>5 DEF FillWhole, cfVars
    <2>2. op.off = 0 /\ op.units \in Content
      BY <1>2, <2>1, MFileAssumption DEF Stored, Content
    <2>3. Agrees(op.units, exp[op.no])
      <3>1. \A i \in 1..BlockSize : Within(op, i) /\ i - op.off = i
        BY <2>1, <2>2, MFileAssumption DEF Within
      <3> QED BY <1>1, <3>1 DEF CInv, OpInv, Given, Pending, Agrees
    <2>4. PutsBlock(blocks', op.units)
      BY <2>1 DEF PutsBlock
    <2> QED BY <1>1, <1>2, <1>3, <2>1, <2>2, <2>3, <2>4, WriteDone
  <1>6. CASE WriteShadow
    <2>1. /\ pc = "found" /\ UNCHANGED <<rmf, iobuf>>
          /\ blocks' = [blocks EXCEPT ![op.vno] = Put(@, op.off, op.units)]
      BY <1>6 DEF WriteShadow, cfVars
    <2>2. op.vno \in DOMAIN blocks /\ Agrees(blocks[op.vno], Wanted(op, pc, exp)[op.no])
      <3>1. Placed = Mapped
        BY <2>1 DEF Placed
      <3>2. PairOf(op).no = op.no /\ PairOf(op).vno = op.vno
        BY DEF PairOf
      <3> QED BY <3>1, <3>2, <1>2 DEF Right
    <2>3. PICK c : c = Put(blocks[op.vno], op.off, op.units)
      OBVIOUS
    <2>4. c \in Content /\ Agrees(c, exp[op.no])
      <3>1. blocks[op.vno] \in Content
        BY <1>2, <2>2
      <3>2. \A i \in 1..BlockSize : ~Within(op, i) =>
                exp[op.no][i] = Hole \/ blocks[op.vno][i] = exp[op.no][i]
        BY <2>2, <1>4 DEF Agrees
      <3> QED BY <1>1, <2>3, <3>1, <3>2, PutAgrees
    <2>5. PutsBlock(blocks', c)
      BY <1>2, <2>1, <2>2, <2>3 DEF PutsBlock
    <2> QED BY <1>1, <1>2, <1>3, <2>1, <2>4, <2>5, WriteDone
  <1>7. CASE FillPart
    <2>1. /\ pc = "fill" /\ iobuf' = Put(FromRegister, op.off, op.units)
          /\ blocks' = [v \in DOMAIN blocks \cup {op.vno} |->
                           IF v = op.vno THEN iobuf' ELSE blocks[v]]
          /\ rmf' = [rmf EXCEPT !.cur = FilePosition(rmf, op.no).cur]
      BY <1>7 DEF FillPart
    <2>2. PICK r : r = FromRegister
      OBVIOUS
    <2>3. r \in Content
      <3>1. Cell(rmf, op.no) \in [1..BlockSize -> Datum \cup {Short}]
        BY <1>2, CellType
      <3>2. r = [i \in 1..BlockSize |-> IF Cell(rmf, op.no)[i] = Short THEN iobuf[i]
                                        ELSE Cell(rmf, op.no)[i]]
        BY <2>2 DEF FromRegister, Cell
      <3>3. \A i \in 1..BlockSize : r[i] \in Datum
        BY <3>1, <3>2, <1>2 DEF Content
      <3> QED BY <3>2, <3>3 DEF Content
    <2>4. Agrees(Cell(rmf, op.no), Wanted(op, pc, exp)[op.no])
      <3>1. Placed = Mapped \ {PairOf(op)}
        BY <2>1 DEF Placed
      <3>2. PairOf(op).no = op.no
        BY DEF PairOf
      <3>3. Fresh(Placed, op.no)
        BY <3>1, <3>2, <1>2 DEF Fresh, OneToOne
      <3> QED BY <3>3, <1>2 DEF Right
    <2>5. ASSUME NEW i \in 1..BlockSize, ~Within(op, i)
          PROVE  exp[op.no][i] = Hole \/ r[i] = exp[op.no][i]
      <3>1. exp[op.no][i] # Short
        <4>1. exp[op.no][i] \in Nat
          BY <1>2 DEF Wish
        <4> QED BY <4>1 DEF Short
      <3>2. exp[op.no][i] = Hole \/ Cell(rmf, op.no)[i] = exp[op.no][i]
        BY <2>4, <2>5, <1>4 DEF Agrees
      <3>3. r[i] = IF Cell(rmf, op.no)[i] = Short THEN iobuf[i] ELSE Cell(rmf, op.no)[i]
        BY <2>2 DEF FromRegister, Cell
      <3> QED BY <3>1, <3>2, <3>3
    <2>6. PICK c : c = Put(r, op.off, op.units)
      OBVIOUS
    <2>7. c \in Content /\ Agrees(c, exp[op.no]) /\ iobuf' = c
      BY <1>1, <2>1, <2>2, <2>3, <2>5, <2>6, PutAgrees
    <2>8. PutsBlock(blocks', c)
      BY <2>1, <2>7 DEF PutsBlock
    <2>9. Register(rmf') /\ Spares(rmf, rmf')
      <3>1. FilePosition(rmf, op.no).cur \in 1..Len(rmf.parts)
        BY <1>2, PlaceIs
      <3> QED BY <1>2, <2>1, <3>1, CurIs, SparesAlike
    <2> QED BY <1>1, <1>2, <2>7, <2>8, <2>9, WriteDone
  <1> QED BY <1>5, <1>6, <1>7

\* The last step of bf_read delivers what was last written to the block.
LEMMA ReadSteps ==
    ASSUME IInv, CInv, HasShadow, UNCHANGED bfVars, ReadShadow \/ ReadRegister
    PROVE  CInv'
  <1> USE DEF Goto
  <1>1. /\ UNCHANGED <<saved, bucket, flat, blocks, head, mem, iobuf>> /\ op.kind = "read"
        /\ pc \in {"found", "missing"} /\ pc' = "done"
        /\ OpOK(op) /\ \E u : op' = [op EXCEPT !.units = u]
    BY DEF ReadShadow, ReadRegister, diskVars, cfVars, IInv, Typed
  <1>2. op'.kind = op.kind /\ op'.no = op.no /\ op'.off = op.off /\ op'.vno = op.vno
    BY <1>1 DEF OpOK
  <1>3. /\ exp \in [BlockNos -> Wish] /\ op.no \in BlockNos /\ op.no \in Nat
        /\ op.off = 0 /\ Len(op.units) = BlockSize
        /\ Register(rmf) /\ iobuf \in Content /\ blocks \in [DOMAIN blocks -> Content]
        /\ Finds(op, pc, Mapped) /\ Right(blocks, rmf, Placed, Wanted(op, pc, exp))
        /\ pc # "fill" /\ pc # "idle"
    BY <1>1, CFileAssumption DEF CInv, DataOK, OpInv, Asked, ShadowRight
  <1>4. Mapped' = Mapped /\ Used' = Used
    BY <1>1 DEF Mapped, Table, Used
  <1>5. IndexKept
    BY <1>1, <1>4 DEF IndexKept, CInv, FlatInv, MapInv, MemFits, FlatIs, FlatWithin
  <1>6. Placed = Mapped /\ Placed' = Mapped
    BY <1>1, <1>4 DEF Placed
  <1>7. Wanted(op, pc, exp) = exp /\ Wanted(op', pc', exp) = exp
    <2>1. ~Pending(op, pc) /\ ~Pending(op', pc')
      BY <1>1, <1>2 DEF Pending
    <2> QED BY <2>1, <1>3, WantedIs
  <1>8. Register(rmf') /\ Spares(rmf, rmf') /\ Agrees(op'.units, exp[op.no])
    <2>1. CASE ReadShadow
      <3>1. /\ rmf' = rmf /\ pc = "found"
            /\ op' = [op EXCEPT !.units = SubSeq(blocks[op.vno], 1, BlockSize)]
        <4>1. op.off + 1 = 1 /\ op.off + Len(op.units) = BlockSize
          BY <1>3, MFileAssumption
        <4> QED BY <2>1, <4>1 DEF ReadShadow
      <3>2. op'.units = SubSeq(blocks[op.vno], 1, BlockSize)
        BY <3>1, <1>1 DEF OpOK
      <3>3. PairOf(op) \in Mapped /\ PairOf(op).no = op.no /\ PairOf(op).vno = op.vno
        BY <3>1, <1>3 DEF Finds, PairOf
      <3>4. op.vno \in DOMAIN blocks /\ Agrees(blocks[op.vno], exp[op.no])
        BY <3>3, <1>3, <1>6, <1>7 DEF Right
      <3>5. \A i \in 1..BlockSize : op'.units[i] = blocks[op.vno][i]
        <4>1. blocks[op.vno] \in Content
          BY <3>4, <1>3
        <4>2. blocks[op.vno] \in Seq(Datum) /\ Len(blocks[op.vno]) = BlockSize
          BY <4>1, MFileAssumption DEF Content
        <4> QED BY <3>2, <4>2, MFileAssumption
      <3>6. Spares(rmf, rmf)
        BY DEF Spares, Kept
      <3> QED BY <1>3, <3>1, <3>4, <3>5, <3>6 DEF Agrees
    <2>2. CASE ReadRegister
      <3>1. /\ pc = "missing" /\ rmf' = [rmf EXCEPT !.cur = FilePosition(rmf, op.no).cur]
            /\ op' = [op EXCEPT !.units = Cell(rmf, op.no)]
        BY <2>2, <1>3 DEF ReadRegister, Cell
      <3>2. op'.units = Cell(rmf, op.no)
        BY <3>1, <1>1 DEF OpOK
      <3>3. Fresh(Mapped, op.no)
        BY <3>1, <1>3 DEF Finds
      <3>4. Agrees(Cell(rmf, op.no), exp[op.no])
        BY <3>3, <1>3, <1>6, <1>7 DEF Right
      <3>5. FilePosition(rmf, op.no).cur \in 1..Len(rmf.parts)
        BY <1>3, PlaceIs
      <3>6. Register(rmf') /\ Spares(rmf, rmf')
        BY <1>3, <3>1, <3>5, CurIs, SparesAlike
      <3> QED BY <3>2, <3>4, <3>6
    <2> QED BY <2>1, <2>2
  <1>9. DataKept
    <2>1. Right(blocks, rmf', Mapped, exp)
      BY <1>3, <1>6, <1>7, <1>8, RightKept
    <2> QED BY <2>1, <1>1, <1>3, <1>6, <1>7, <1>8 DEF DataKept
  <1>10. OpKept
    <2>1. Asked(op', pc') /\ Given(op', pc', exp) /\ Finds(op', pc', Mapped')
      BY <1>1, <1>2, <1>3 DEF Asked, Given, Pending, Finds
    <2> QED BY <2>1, <1>1, <1>2, <1>8 DEF OpKept
  <1> QED BY <1>5, <1>9, <1>10, Inside

-----------------------------------------------------------------------------
\* The calls of bf_read and bf_write begin and end.

CallsOK == calls = [c \in DOMAIN calls |-> calls[c]] /\ calls.write \in Nat

\* Counting a call.
LEMMA CallsCount ==
    ASSUME CallsOK, NEW c, calls' = [calls EXCEPT ![c] = @ + 1] \/ calls' = calls
    PROVE  CallsOK'
  <1>1. CASE calls' = [calls EXCEPT ![c] = @ + 1]
    <2>1. DOMAIN calls' = DOMAIN calls /\ calls' = [d \in DOMAIN calls' |-> calls'[d]]
      BY <1>1 DEF CallsOK
    <2>2. calls'.write = calls.write \/ calls'.write = calls.write + 1
      BY <1>1 DEF CallsOK
    <2> QED BY <2>1, <2>2 DEF CallsOK
  <1> QED BY <1>1 DEF CallsOK

\* A call of bf_read or bf_write begins, or ends with what it promised.
LEMMA BeginOrEnd ==
    ASSUME CInv, UNCHANGED <<rmf, saved, bucket, flat, blocks, head, mem, iobuf>>,
           UNCHANGED <<mode, committing, todo, base>>, CallsOK',
           pc \in {"idle", "done"}, pc' \in {"idle", "lookup"},
           mode \in {"closed", "commit", "clean"} => pc' = "idle",
           Asked(op', pc'), Given(op', pc', exp'), exp' \in [BlockNos -> Wish],
           mode # "shadow" => exp' = exp,
           HasShadow => Right(blocks, rmf, Mapped, Wanted(op', pc', exp'))
    PROVE  CInv'
  <1>1. Mapped' = Mapped /\ Used' = Used /\ OnDisk' = OnDisk
    BY DEF Mapped, Table, Used, OnDisk
  <1>2. HasShadow' <=> HasShadow
    BY DEF HasShadow
  <1>3. FlatInv' /\ MapInv'
    BY <1>1, <1>2 DEF CInv, FlatInv, MapInv, FlatIs, FlatWithin
  <1>4. OpInv'
    BY DEF OpInv, Finds
  <1>5. ModeInv'
    BY DEF CInv, ModeInv
  <1>6. DataOK' /\ MemFits'
    BY DEF CInv, DataOK, MemFits, CallsOK
  <1>7. ShadowRight'
    <2>1. Placed' = Mapped
      BY <1>1 DEF Placed
    <2> QED BY <2>1, <1>2 DEF ShadowRight
  <1>8. DiskRight' /\ BaseRight' /\ CommitRight'
    <2>1. mode = "commit" => mode # "shadow"
      OBVIOUS
    <2> QED BY <2>1, <1>1 DEF CInv, DiskRight, BaseRight, CommitRight
  <1>9. ReadsBack'
    BY DEF ReadsBack
  <1> QED BY <1>3, <1>4, <1>5, <1>6, <1>7, <1>8, <1>9 DEF CInv

\* An index that is right for more is right for less.
LEMMA RightWeaker ==
    ASSUME NEW bl, NEW mf, NEW M, NEW v, NEW w, Right(bl, mf, M, v),
           \A no \in BlockNos : \A i \in 1..BlockSize :
               w[no][i] = Hole \/ w[no][i] = v[no][i]
    PROVE  Right(bl, mf, M, w)
  <1>1. ASSUME NEW u, NEW no \in BlockNos, Agrees(u, v[no]) PROVE Agrees(u, w[no])
    BY <1>1 DEF Agrees
  <1> QED BY <1>1 DEF Right

\* While no operation is under way all blocks are as they should be.
LEMMA IdleRight ==
    ASSUME CInv, HasShadow, pc \in {"idle", "done"}
    PROVE  Right(blocks, rmf, Mapped, exp)
  <1>1. Placed = Mapped /\ ~Pending(op, pc)
    BY DEF Placed, CInv, OpInv, Asked, Pending
  <1> QED BY <1>1, WantedIs DEF CInv, DataOK, ShadowRight

\* bf_read or bf_write returns.
LEMMA ReturnStep ==
    ASSUME IInv, CInv, Return
    PROVE  CInv'
  <1>1. /\ UNCHANGED <<rmf, saved, bucket, flat, blocks, head, mem, iobuf>>
        /\ UNCHANGED <<mode, committing, todo, base, exp, calls>>
        /\ pc = "done" /\ pc' = "idle" /\ op' = NoOp
    BY DEF Return, Goto, diskVars, bfVars
  <1>2. CallsOK'
    BY <1>1 DEF CInv, DataOK, CallsOK
  <1>3. Asked(op', pc') /\ Given(op', pc', exp') /\ ~Pending(op', pc')
    BY <1>1 DEF Asked, Given, Pending, NoOp
  <1>4. exp' \in [BlockNos -> Wish] /\ Wanted(op', pc', exp') = exp
    <2>1. exp' = exp /\ exp \in [BlockNos -> Wish]
      BY <1>1 DEF CInv, DataOK
    <2> QED BY <2>1, <1>3, WantedIs
  <1>5. HasShadow => Right(blocks, rmf, Mapped, exp)
    BY <1>1, IdleRight
  <1> QED BY <1>1, <1>2, <1>3, <1>4, <1>5, BeginOrEnd

\* bf_read is called.
LEMMA StartReadStep ==
    ASSUME IInv, CInv, NEW no \in Reads, StartRead(no)
    PROVE  CInv'
  <1>1. /\ UNCHANGED <<rmf, saved, bucket, flat, blocks, head, mem, iobuf>>
        /\ UNCHANGED <<mode, committing, todo, base, exp>> /\ HasShadow
        /\ pc = "idle" /\ pc' = "lookup" /\ calls' = [calls EXCEPT !["read"] = @ + 1]
        /\ op' = [NoOp EXCEPT !.kind = "read", !.no = no, !.units = Zeroes]
    BY DEF StartRead, Goto, diskVars, cfVars, Call
  <1>2. CallsOK'
    BY <1>1, CallsCount DEF CInv, DataOK, CallsOK
  <1>3. op' = [kind |-> "read", no |-> no, off |-> 0, units |-> Zeroes, vno |-> 0]
    BY ONLY <1>1 DEF NoOp
  <1>4. Asked(op', pc') /\ Given(op', pc', exp') /\ ~Pending(op', pc')
    <2>1. Len(Zeroes) = BlockSize
      BY MFileAssumption DEF Zeroes
    <2>2. no \in BlockNos
      BY BFileAssumption
    <2>3. op'.kind = "read" /\ op'.no = no /\ op'.off = 0 /\ op'.units = Zeroes
      BY <1>3
    <2> QED BY <2>1, <2>2, <2>3, <1>1 DEF Asked, Given, Pending
  <1>5. exp' \in [BlockNos -> Wish] /\ Wanted(op', pc', exp') = exp
    <2>1. exp' = exp /\ exp \in [BlockNos -> Wish]
      BY <1>1 DEF CInv, DataOK
    <2> QED BY <2>1, <1>4, WantedIs
  <1>6. Right(blocks, rmf, Mapped, exp)
    BY <1>1, IdleRight
  <1>7. mode \notin {"closed", "commit", "clean"}
    BY <1>1 DEF HasShadow
  <1> QED BY <1>1, <1>2, <1>4, <1>5, <1>6, <1>7, BeginOrEnd

\* What a write is called with, and what it leaves to be expected.
LEMMA UnitsIs ==
    ASSUME CInv, NEW x \in Writes
    PROVE  /\ x[1] \in BlockNos /\ Stored(x[2], Units(x)) /\ Units(x) \in Seq(Nat)
           /\ Expect(x) => /\ exp' \in [BlockNos -> Wish]
                           /\ \A no \in BlockNos : no # x[1] => exp'[no] = exp[no]
                           /\ \A i \in 1..BlockSize :
                                 exp'[x[1]][i] = IF x[2] < i /\ i <= x[2] + Len(Units(x))
                                                 THEN Units(x)[i - x[2]] ELSE exp[x[1]][i]
  <1>1. /\ x[1] \in BlockNos /\ x[2] \in Nat /\ x[3] \in Nat \ {0}
        /\ x[2] + x[3] <= BlockSize
    BY BFileAssumption
  <1>2. calls.write + 1 \in Nat /\ exp \in [BlockNos -> Wish]
    BY DEF CInv, DataOK
  <1>3. PICK u : u = Units(x)
    OBVIOUS
  <1>4. u \in Seq(Nat) /\ Len(u) = x[3] /\ u = [i \in 1..x[3] |-> calls.write + 1]
    BY <1>1, <1>2, <1>3 DEF Units
  <1>5. u # <<>> /\ u \in Seq(Datum)
    <2>1. PICK n : n = x[3]
      OBVIOUS
    <2>2. PICK k \in Nat : k = calls.write + 1
      BY ONLY <1>2
    <2>3. u = [i \in 1..n |-> k] /\ Len(u) = n /\ n \in Nat \ {0} /\ k \in Datum
      BY <1>1, <1>4, <2>1, <2>2 DEF Datum
    <2> QED BY ONLY <2>3
  <1>6. Stored(x[2], u)
    BY <1>1, <1>4, <1>5 DEF Stored
  <1>7. ASSUME Expect(x)
        PROVE  /\ exp' \in [BlockNos -> Wish]
               /\ \A no \in BlockNos : no # x[1] => exp'[no] = exp[no]
               /\ \A i \in 1..BlockSize :
                     exp'[x[1]][i] = IF x[2] < i /\ i <= x[2] + Len(u)
                                     THEN u[i - x[2]] ELSE exp[x[1]][i]
    <2>1. PICK e : e = Put(exp[x[1]], x[2], u)
      OBVIOUS
    <2>2. exp' = [exp EXCEPT ![x[1]] = e]
      BY <1>3, <1>7, <2>1 DEF Expect
    <2>3. exp[x[1]] \in Wish /\ exp[x[1]] \in Content
      BY <1>1, <1>2 DEF Wish, Content, Datum
    <2>4. /\ e \in Content
          /\ \A i \in 1..BlockSize : e[i] = IF x[2] < i /\ i <= x[2] + Len(u)
                                            THEN u[i - x[2]] ELSE exp[x[1]][i]
      BY <1>6, <2>1, <2>3, BlockPut
    <2>5. e \in Wish
      <3>1. ASSUME NEW i \in 1..BlockSize PROVE e[i] \in Nat
        <4>1. CASE x[2] < i /\ i <= x[2] + Len(u)
          <5>1. PICK f, n : f = x[2] /\ n = Len(u)
            OBVIOUS
          <5>2. f \in Nat /\ n \in Nat /\ f < i /\ i <= f + n
            BY <4>1, <1>1, <1>4, <5>1
          <5>3. PICK k : k = i - f
            OBVIOUS
          <5>4. k \in 1..n
            BY <5>2, <5>3
          <5>5. u[k] \in Nat
            <6>1. u \in Seq(Nat) /\ k \in 1..Len(u)
              BY <5>1, <5>4, <1>4
            <6> QED BY ONLY <6>1
          <5>6. e[i] = u[i - x[2]]
            BY <4>1, <2>4, Zenon
          <5>7. e[i] = u[k]
            BY <5>1, <5>3, <5>6, Zenon
          <5> QED BY <5>5, <5>7
        <4>2. CASE ~(x[2] < i /\ i <= x[2] + Len(u))
          BY <4>2, <2>3, <2>4 DEF Wish
        <4> QED BY <4>1, <4>2
      <3> QED BY <3>1, <2>4 DEF Wish, Content
    <2> QED BY <1>1, <1>2, <2>2, <2>4, <2>5
  <1> QED BY <1>1, <1>3, <1>4, <1>6, <1>7

\* bf_write is called on a file with a shadow.
LEMMA StartWriteStep ==
    ASSUME IInv, CInv, NEW x \in Writes, StartWrite(x)
    PROVE  CInv'
  <1>1. /\ UNCHANGED <<rmf, saved, bucket, flat, blocks, head, mem, iobuf>>
        /\ UNCHANGED <<mode, committing, todo, base>> /\ mode = "shadow"
        /\ pc = "idle" /\ pc' = "lookup" /\ calls' = [calls EXCEPT !["write"] = @ + 1]
        /\ op' = [NoOp EXCEPT !.kind = "write", !.no = x[1], !.off = x[2],
                              !.units = Units(x)]
        /\ Expect(x)
    BY DEF StartWrite, Goto, diskVars, cfVars, Call
  <1>2. CallsOK'
    BY <1>1, CallsCount DEF CInv, DataOK, CallsOK
  <1>3. op' = [kind |-> "write", no |-> x[1], off |-> x[2], units |-> Units(x), vno |-> 0]
    BY ONLY <1>1 DEF NoOp
  <1>4. /\ x[1] \in BlockNos /\ Stored(x[2], Units(x)) /\ Units(x) \in Seq(Nat)
        /\ exp' \in [BlockNos -> Wish]
        /\ \A no \in BlockNos : no # x[1] => exp'[no] = exp[no]
        /\ \A i \in 1..BlockSize :
              exp'[x[1]][i] = IF x[2] < i /\ i <= x[2] + Len(Units(x))
                              THEN Units(x)[i - x[2]] ELSE exp[x[1]][i]
    BY <1>1, UnitsIs
  <1>5. Asked(op', pc')
    BY <1>1, <1>3, <1>4 DEF Asked
  <1>6. Given(op', pc', exp')
    BY <1>1, <1>3, <1>4 DEF Given, Within
  <1>7. Right(blocks, rmf, Mapped, Wanted(op', pc', exp'))
    <2>1. Right(blocks, rmf, Mapped, exp)
      BY <1>1, IdleRight DEF HasShadow
    <2>2. PICK w : w = Wanted(op', pc', exp')
      OBVIOUS
    <2>3. \A no \in BlockNos : \A i \in 1..BlockSize :
              w[no][i] = Hole \/ w[no][i] = exp[no][i]
      <3> SUFFICES ASSUME NEW no \in BlockNos, NEW i \in 1..BlockSize
                   PROVE  w[no][i] = Hole \/ w[no][i] = exp[no][i]
        OBVIOUS
      <3>1. w[no][i] = IF Pending(op', pc') /\ no = op'.no /\ Within(op', i)
                       THEN Hole ELSE exp'[no][i]
        BY <2>2 DEF Wanted
      <3>2. CASE no = x[1]
        <4>1. Pending(op', pc') /\ op'.no = no
          BY <3>2, <1>1, <1>3 DEF Pending
        <4>2. Within(op', i) <=> x[2] < i /\ i <= x[2] + Len(Units(x))
          BY <1>3 DEF Within
        <4> QED BY <3>1, <3>2, <4>1, <4>2, <1>4
      <3>3. CASE no # x[1]
        BY <3>1, <3>3, <1>3, <1>4
      <3> QED BY <3>2, <3>3
    <2> QED BY ONLY <2>1, <2>2, <2>3, RightWeaker
  <1> QED BY <1>1, <1>2, <1>4, <1>5, <1>6, <1>7, BeginOrEnd

-----------------------------------------------------------------------------
\* Steps outside a shadow file: what such a step has to show.

\* The index on disk stays; the memory is that of a process without one.
DiskStays ==
    /\ mode # "shadow"
    /\ UNCHANGED diskVars
    /\ head'.flatBucket \in Nat /\ Len(mem') <= MaxInMemory /\ iobuf' \in Content
DataStays ==
    /\ Register(rmf')
    /\ exp' \in [BlockNos -> Wish] /\ base' \in [BlockNos -> Wish] /\ CallsOK'
    /\ Right(blocks, rmf', OnDisk, exp')
    /\ ~committing' => Holds(rmf', base')
    /\ mode' = "commit" => Copying(rmf', OnDisk, todo', exp')
OpStays ==
    /\ mode' \notin {"shadow", "overlay"} /\ ModeInv'
    /\ Asked(op', pc') /\ Given(op', pc', exp') /\ pc' \in {"idle", "done"}
    /\ ReadsBack'

\* A step outside a shadow file.
LEMMA Outside ==
    ASSUME IInv, CInv, DiskStays, DataStays, OpStays
    PROVE  CInv'
  <1>1. /\ saved' = saved /\ bucket' = bucket /\ flat' = flat /\ blocks' = blocks
        /\ OnDisk' = OnDisk
    BY DEF DiskStays, diskVars, OnDisk
  <1>2. mode' \notin {"shadow", "overlay"} /\ mode # "shadow"
    BY DEF OpStays, DiskStays
  <1>3. FlatInv'
    BY <1>1, <1>2 DEF CInv, FlatInv, DiskStays, HasShadow
  <1>4. MapInv'
    BY <1>1, <1>2 DEF CInv, MapInv, HasShadow
  <1>5. OpInv'
    BY DEF OpInv, OpStays, Finds
  <1>6. DataOK' /\ MemFits'
    BY <1>1 DEF CInv, DataOK, MemFits, DiskStays, DataStays, CallsOK
  <1>7. ShadowRight' /\ DiskRight' /\ BaseRight' /\ CommitRight'
    BY <1>1, <1>2 DEF ShadowRight, DiskRight, BaseRight, CommitRight, DataStays, HasShadow
  <1> QED BY <1>3, <1>4, <1>5, <1>6, <1>7 DEF CInv, DataStays, OpStays

\* Without an index on disk no block has a shadow block.
LEMMA NoIndex ==
    ASSUME IInv, mode # "shadow", saved.head.state = 0
    PROVE  OnDisk = {}
  <1>1. saved = NoShadow /\ DOMAIN bucket = 1..saved.head.nextBucket - 1
    BY DEF IInv, DiskInv
  <1>2. NoShadow.head = [state |-> 0, nextBlock |-> 1, nextBucket |-> 1, flatBucket |-> 0]
    BY DEF NoShadow, NewHead
  <1>3. saved.head.nextBucket = 1
    BY <1>1, <1>2
  <1>4. DOMAIN bucket = {}
    BY <1>1, <1>3
  <1> QED BY <1>4 DEF OnDisk, Mapping, Pairs

\* Opening the register, by the same process or a new one, leaves the data.
LEMMA SparedData ==
    ASSUME IInv, CInv, mode # "shadow", Register(rmf'), Spares(rmf, rmf'),
           exp' = exp, base' = base, (committing' = committing) \/ committing',
           CallsOK', mode' # "commit"
    PROVE  DataStays
  <1>1. exp \in [BlockNos -> Wish] /\ base \in [BlockNos -> Wish]
    BY DEF CInv, DataOK
  <1>2. Right(blocks, rmf', OnDisk, exp)
    BY <1>1, RightKept DEF CInv, DiskRight
  <1>3. ~committing => Holds(rmf', base)
    BY <1>1, HoldsKept DEF CInv, BaseRight
  <1> QED BY <1>1, <1>2, <1>3 DEF DataStays

\* What the register of a process that does not use the shadow file has.
LEMMA ShadowlessHolds ==
    ASSUME IInv, CInv, mode # "shadow", saved.head.state = 0
    PROVE  Holds(rmf, exp)
  <1>1. OnDisk = {}
    BY NoIndex
  <1> QED BY <1>1 DEF CInv, DiskRight, Right, Fresh, Holds, Cell

-----------------------------------------------------------------------------
\* Opening and reading the register, and writing to it.

\* What does not reach a shadow file leaves its memory and the disk alone.
LEMMA AloneStays ==
    ASSUME CInv, mode # "shadow", UNCHANGED <<diskVars, cfVars>>
    PROVE  DiskStays
  BY DEF CInv, FlatInv, DataOK, MemFits, DiskStays, cfVars

\* mf_open by bf_open.
LEMMA OpenStep ==
    ASSUME IInv, CInv, OpenDirect \/ OpenRegister
    PROVE  CInv'
  <1>1. /\ UNCHANGED <<diskVars, cfVars>> /\ UNCHANGED <<pc, op, committing, todo, exp, base>>
        /\ mode = "closed" /\ mode' \in {"direct", "register"} /\ ~committing
        /\ mode' = "direct" => saved.head.state = 0
        /\ calls' = [calls EXCEPT !["open"] = @ + 1] /\ rmf' = MfOpen(rmf)
    BY DEF OpenDirect, OpenRegister, Open, Call, ShadowExists
  <1>2. DiskStays
    BY <1>1, AloneStays
  <1>3. CallsOK'
    BY <1>1, CallsCount DEF CInv, DataOK, CallsOK
  <1>4. Register(rmf') /\ Spares(rmf, rmf')
    BY <1>1, OpenIs, SparesAlike DEF CInv
  <1>5. DataStays
    BY <1>1, <1>3, <1>4, SparedData
  <1>6. OpStays
    <2>1. pc = "idle" /\ Asked(op, pc) /\ Given(op, pc, exp)
      BY <1>1 DEF CInv, ModeInv, OpInv
    <2>2. ModeInv'
      BY <1>1, <2>1 DEF diskVars, CInv, ModeInv
    <2> QED BY <1>1, <2>1, <2>2 DEF OpStays, ReadsBack
  <1> QED BY <1>2, <1>5, <1>6, Outside

\* mf_init by a new process.
LEMMA ExitStep ==
    ASSUME IInv, CInv, Exit
    PROVE  CInv'
  <1>1. /\ UNCHANGED <<diskVars, cfVars>>
        /\ UNCHANGED <<pc, op, mode, committing, todo, exp, base>>
        /\ mode = "closed" /\ calls' = [calls EXCEPT !["exit"] = @ + 1]
        /\ rmf' = MfInit(rmf)
    BY DEF Exit, Call
  <1>2. DiskStays
    BY <1>1, AloneStays
  <1>3. CallsOK'
    BY <1>1, CallsCount DEF CInv, DataOK, CallsOK
  <1>4. Register(rmf') /\ Spares(rmf, rmf')
    BY <1>1, InitIs, SparesAlike DEF CInv
  <1>5. DataStays
    BY <1>1, <1>3, <1>4, SparedData
  <1>6. OpStays
    <2>1. pc = "idle" /\ Asked(op, pc) /\ Given(op, pc, exp)
      BY <1>1 DEF CInv, ModeInv, OpInv
    <2>2. ModeInv'
      BY <1>1, <2>1 DEF diskVars, CInv, ModeInv
    <2> QED BY <1>1, <2>1, <2>2 DEF OpStays, ReadsBack
  <1> QED BY <1>2, <1>5, <1>6, Outside

\* A read is answered by the register: what the last commit left in it, or what
\* was written to it.
LEMMA ReadDirectStep ==
    ASSUME IInv, CInv, NEW no \in Reads, ReadDirect(no)
    PROVE  CInv'
  <1>1. /\ UNCHANGED <<diskVars, cfVars>> /\ UNCHANGED <<mode, committing, todo, exp, base>>
        /\ mode \in {"direct", "register"} /\ pc = "idle" /\ pc' = "done"
        /\ calls' = [calls EXCEPT !["read"] = @ + 1]
        /\ op' = [NoOp EXCEPT !.kind = "read", !.no = no,
                              !.units = MfRead(rmf, no, 0, BlockSize)]
        /\ rmf' = [rmf EXCEPT !.cur = FilePosition(rmf, no).cur]
    BY DEF ReadDirect, Call, Goto
  <1>2. op'.kind = "read" /\ op'.no = no /\ op'.units = Cell(rmf, no)
    <2>1. PICK u : u = MfRead(rmf, no, 0, BlockSize)
      OBVIOUS
    <2>2. op' = [kind |-> "read", no |-> no, off |-> 0, units |-> u, vno |-> 0]
      BY ONLY <1>1, <2>1 DEF NoOp
    <2> QED BY <2>1, <2>2 DEF Cell
  <1>3. no \in BlockNos /\ no \in Nat
    BY BFileAssumption, CFileAssumption
  <1>4. DiskStays
    BY <1>1, AloneStays
  <1>5. CallsOK'
    BY <1>1, CallsCount DEF CInv, DataOK, CallsOK
  <1>6. Register(rmf') /\ Spares(rmf, rmf')
    <2>1. Register(rmf)
      BY DEF CInv
    <2>2. FilePosition(rmf, no) = Place(rmf, no) /\ Place(rmf, no).cur \in 1..Len(rmf.parts)
      BY <1>3, <2>1, PlaceIs
    <2>3. PICK c : c = FilePosition(rmf, no).cur
      OBVIOUS
    <2>4. c \in 1..Len(rmf.parts) /\ rmf' = [rmf EXCEPT !.cur = c]
      BY <1>1, <2>2, <2>3
    <2> QED BY <2>1, <2>4, CurIs, SparesAlike
  <1>7. DataStays
    BY <1>1, <1>5, <1>6, SparedData
  <1>8. OpStays
    <2>1. Asked(op', pc') /\ Given(op', pc', exp')
      BY <1>1, <1>2, <1>3 DEF Asked, Given, Pending
    <2>2. ModeInv'
      BY <1>1 DEF diskVars, CInv, ModeInv
    <2>3. CASE mode = "register"
      <3>1. Holds(rmf, base)
        BY <2>3 DEF CInv, ModeInv, BaseRight
      <3> QED BY <3>1, <2>1, <2>2, <2>3, <1>1, <1>2, <1>3 DEF OpStays, ReadsBack, Holds, Cell
    <2>4. CASE mode = "direct"
      <3>1. Holds(rmf, exp)
        BY <2>4, ShadowlessHolds DEF CInv, ModeInv
      <3> QED BY <3>1, <2>1, <2>2, <2>4, <1>1, <1>2, <1>3 DEF OpStays, ReadsBack, Holds, Cell
    <2> QED BY <1>1, <2>3, <2>4
  <1> QED BY <1>4, <1>7, <1>8, Outside

\* What is written to the register is in it.
LEMMA ChangedHolds ==
    ASSUME NEW mf, NEW nf, NEW e \in [BlockNos -> Wish], NEW f \in [BlockNos -> Wish],
           NEW n \in BlockNos, NEW off, NEW u, Stored(off, u), Holds(mf, e),
           Changed(mf, nf, n, off, u),
           \A no \in BlockNos : no # n => f[no] = e[no],
           \A i \in 1..BlockSize : f[n][i] = IF off < i /\ i <= off + Len(u)
                                             THEN u[i - off] ELSE e[n][i]
    PROVE  Holds(nf, f)
  <1> SUFFICES ASSUME NEW no \in BlockNos PROVE Agrees(Cell(nf, no), f[no])
    BY DEF Holds, Cell
  <1>1. no \in Nat /\ e[no] \in Wish /\ Agrees(Cell(mf, no), e[no])
    BY CFileAssumption DEF Holds, Cell
  <1>2. \A i \in 1..BlockSize : Cell(mf, no)[i] = Short => e[no][i] = Hole
    <2> SUFFICES ASSUME NEW i \in 1..BlockSize, Cell(mf, no)[i] = Short
                 PROVE  e[no][i] = Hole
      OBVIOUS
    <2>1. e[no][i] \in Nat
      BY <1>1 DEF Wish
    <2> QED BY <1>1, <2>1 DEF Agrees, Short
  <1>3. CASE no # n
    <2>1. \A i \in 1..BlockSize : Cell(nf, no)[i] = Cell(mf, no)[i] \/ Cell(mf, no)[i] = Short
      BY <1>1, <1>3 DEF Changed
    <2> QED BY <1>1, <1>2, <1>3, <2>1 DEF Agrees
  <1>4. CASE no = n
    <2> SUFFICES ASSUME NEW i \in 1..BlockSize
                 PROVE  f[no][i] = Hole \/ Cell(nf, no)[i] = f[no][i]
      BY DEF Agrees
    <2>1. CASE off < i /\ i <= off + Len(u)
      <3>1. Cell(nf, n)[i] = u[i - off]
        BY <1>1, <1>4, <2>1 DEF Changed
      <3>2. f[n][i] = u[i - off]
        BY <2>1
      <3> QED BY <3>1, <3>2, <1>4
    <2>2. CASE ~(off < i /\ i <= off + Len(u))
      <3>1. Cell(nf, n)[i] = Cell(mf, n)[i] \/ Cell(mf, n)[i] = Short
        BY <1>1, <1>4, <2>2 DEF Changed
      <3>2. f[n][i] = e[n][i]
        BY <2>2
      <3> QED BY <3>1, <3>2, <1>1, <1>2, <1>4 DEF Agrees
    <2> QED BY <2>1, <2>2
  <1> QED BY <1>3, <1>4

\* bf_write on a file without a shadow goes to the register.
LEMMA WriteDirectStep ==
    ASSUME IInv, CInv, NEW x \in Writes, WriteDirect(x)
    PROVE  CInv'
  <1>1. /\ UNCHANGED <<diskVars, cfVars>> /\ UNCHANGED <<pc, op, mode, committing, todo>>
        /\ mode = "direct" /\ pc = "idle" /\ calls' = [calls EXCEPT !["write"] = @ + 1]
        /\ Expect(x) /\ base' = exp'
        /\ \E w \in {MfWrite(rmf, x[1], x[2], Units(x))} : w.ok /\ rmf' = w.mf
    BY DEF WriteDirect, Call
  <1>2. PICK w : w = MfWrite(rmf, x[1], x[2], Units(x)) /\ w.ok /\ rmf' = w.mf
    BY <1>1
  <1>3. /\ x[1] \in BlockNos /\ Stored(x[2], Units(x))
        /\ exp' \in [BlockNos -> Wish]
        /\ \A no \in BlockNos : no # x[1] => exp'[no] = exp[no]
        /\ \A i \in 1..BlockSize :
              exp'[x[1]][i] = IF x[2] < i /\ i <= x[2] + Len(Units(x))
                              THEN Units(x)[i - x[2]] ELSE exp[x[1]][i]
    BY <1>1, UnitsIs
  <1>4. x[1] \in Nat
    BY <1>3, CFileAssumption
  <1>5. Result(rmf, w, x[1], x[2], Units(x))
    BY <1>2, <1>3, <1>4, WriteIs DEF CInv
  <1>6. Register(rmf') /\ Changed(rmf, rmf', x[1], x[2], Units(x))
    BY <1>2, <1>5 DEF Result
  <1>7. saved.head.state = 0
    BY <1>1 DEF CInv, ModeInv
  <1>8. Holds(rmf, exp) /\ OnDisk = {} /\ exp \in [BlockNos -> Wish]
    BY <1>1, <1>7, ShadowlessHolds, NoIndex DEF CInv, DataOK
  <1>9. Holds(rmf', exp')
    <2>1. PICK off, u : off = x[2] /\ u = Units(x)
      OBVIOUS
    <2> QED BY <1>3, <1>6, <1>8, <2>1, ChangedHolds
  <1>10. DiskStays
    BY <1>1, AloneStays
  <1>11. CallsOK'
    BY <1>1, CallsCount DEF CInv, DataOK, CallsOK
  <1>12. DataStays
    <2>1. Right(blocks, rmf', OnDisk, exp')
      BY <1>8, <1>9 DEF Right, Holds, Cell
    <2> QED BY <2>1, <1>1, <1>3, <1>6, <1>9, <1>11 DEF DataStays
  <1>13. OpStays
    <2>1. Asked(op, pc) /\ ~Pending(op, pc)
      BY <1>1 DEF CInv, OpInv, Asked, Pending
    <2>2. ModeInv'
      BY <1>1 DEF diskVars, CInv, ModeInv
    <2> QED BY <1>1, <2>1, <2>2 DEF OpStays, ReadsBack, Given
  <1> QED BY <1>10, <1>12, <1>13, Outside

\* No more space: what was there is still there.
LEMMA WriteFailsStep ==
    ASSUME IInv, CInv, NEW x \in Writes, WriteFails(x)
    PROVE  CInv'
  <1>1. /\ UNCHANGED <<diskVars, cfVars>> /\ UNCHANGED <<pc, op, committing, todo, exp, base>>
        /\ mode = "direct" /\ mode' = "closed" /\ pc = "idle"
        /\ calls' = [calls EXCEPT !["write"] = @ + 1]
        /\ \E w \in {MfWrite(rmf, x[1], x[2], Units(x))} : ~w.ok /\ rmf' = MfInit(w.mf)
    BY DEF WriteFails, Call
  <1>2. PICK w : w = MfWrite(rmf, x[1], x[2], Units(x)) /\ ~w.ok /\ rmf' = MfInit(w.mf)
    BY <1>1
  <1>3. x[1] \in BlockNos /\ Stored(x[2], Units(x))
    BY UnitsIs
  <1>4. x[1] \in Nat
    BY <1>3, CFileAssumption
  <1>5. Result(rmf, w, x[1], x[2], Units(x))
    BY <1>2, <1>3, <1>4, WriteIs DEF CInv
  <1>6. Register(rmf') /\ Spares(rmf, rmf')
    <2>1. PICK m : m = w.mf
      OBVIOUS
    <2>2. Register(m) /\ Spares(rmf, m) /\ rmf' = MfInit(m)
      BY <1>2, <1>5, <2>1 DEF Result, Spares
    <2>3. Register(rmf') /\ Spares(m, rmf')
      BY <2>2, InitIs, SparesAlike
    <2> QED BY <2>2, <2>3, KeptTwice DEF Spares
  <1>7. DiskStays
    BY <1>1, AloneStays
  <1>8. CallsOK'
    BY <1>1, CallsCount DEF CInv, DataOK, CallsOK
  <1>9. DataStays
    BY <1>1, <1>6, <1>8, SparedData
  <1>10. OpStays
    <2>1. Asked(op, pc) /\ Given(op, pc, exp)
      BY DEF CInv, OpInv
    <2>2. ModeInv'
      BY <1>1 DEF diskVars, CInv, ModeInv
    <2> QED BY <1>1, <2>1, <2>2 DEF OpStays, ReadsBack
  <1> QED BY <1>7, <1>9, <1>10, Outside

-----------------------------------------------------------------------------
\* A commit copies the blocks, one after the other.

\* The next block to be copied, its number and its contents.
LEMMA NextBlock ==
    ASSUME IInv, CInv, mode = "commit", todo # <<>>
    PROVE  /\ Head(todo) \in OnDisk /\ Head(todo).no \in BlockNos /\ Head(todo).no \in Nat
           /\ Stored(0, blocks[Head(todo).vno])
           /\ Len(blocks[Head(todo).vno]) = BlockSize
           /\ Agrees(blocks[Head(todo).vno], exp[Head(todo).no])
           /\ Tail(todo) \in Seq(Entry)
           /\ Range(todo) = {Head(todo)} \cup Range(Tail(todo))
  <1>1. todo \in Seq(Entry) /\ Range(todo) \subseteq OnDisk
    BY DEF CInv, CommitRight, Copying
  <1>2. PICK n : n = Len(todo)
    OBVIOUS
  <1>3. n \in Nat /\ n >= 1 /\ todo = [i \in 1..n |-> todo[i]] /\ Head(todo) = todo[1]
    BY <1>1, <1>2
  <1>4. /\ Tail(todo) \in Seq(Entry) /\ Len(Tail(todo)) = n - 1
        /\ \A i \in 1..n - 1 : Tail(todo)[i] = todo[i + 1]
    BY <1>1, <1>2, <1>3
  <1>5. Range(todo) = {Head(todo)} \cup Range(Tail(todo))
    <2>1. Range(todo) = {todo[i] : i \in 1..n}
      BY <1>1, <1>2, <1>3 DEF Range
    <2>2. Range(Tail(todo)) = {Tail(todo)[i] : i \in 1..n - 1}
      <3>1. DOMAIN Tail(todo) = 1..n - 1
        BY <1>4
      <3> QED BY <3>1 DEF Range
    <2>3. Range(Tail(todo)) = {todo[i + 1] : i \in 1..n - 1}
      BY <1>4, <2>2
    <2>4. \A i \in 1..n : i = 1 \/ (i - 1 \in 1..n - 1 /\ i = (i - 1) + 1)
      BY <1>3
    <2>5. \A i \in 1..n - 1 : i + 1 \in 1..n
      BY <1>3
    <2>6. 1 \in 1..n
      BY <1>3
    <2> QED BY <1>3, <2>1, <2>3, <2>4, <2>5, <2>6
  <1>6. PICK x : x = Head(todo)
    OBVIOUS
  <1>7. x \in OnDisk
    BY <1>1, <1>5, <1>6
  <1>8. x.no \in BlockNos /\ x.no \in Nat
    BY <1>7, CFileAssumption DEF CInv, MapInv, Indexed, Numbered
  <1>9. x.vno \in DOMAIN blocks /\ Agrees(blocks[x.vno], exp[x.no])
    BY <1>7, <1>8 DEF CInv, DiskRight, Right
  <1>10. PICK u : u = blocks[x.vno]
    OBVIOUS
  <1>11. u \in Content
    BY <1>9, <1>10 DEF CInv, DataOK
  <1>12. u \in Seq(Datum) /\ Len(u) = BlockSize /\ u # <<>>
    BY <1>11, MFileAssumption DEF Content
  <1>13. Stored(0, u)
    BY <1>12, MFileAssumption DEF Stored
  <1> QED BY <1>4, <1>5, <1>6, <1>7, <1>8, <1>9, <1>10, <1>12, <1>13

\* bf_commit copies one shadow block into the register.
LEMMA CommitBlockStep ==
    ASSUME IInv, CInv, CommitBlock
    PROVE  CInv'
  <1>1. /\ UNCHANGED <<diskVars, cfVars>>
        /\ UNCHANGED <<pc, op, mode, committing, exp, base, calls>>
        /\ mode = "commit" /\ todo # <<>> /\ todo' = Tail(todo)
        /\ \E w \in {CopyBlock(Head(todo))} : w.ok /\ rmf' = w.mf
    BY DEF CommitBlock
  <1>2. PICK x, u : x = Head(todo) /\ u = blocks[x.vno]
    OBVIOUS
  <1>3. /\ x \in OnDisk /\ x.no \in BlockNos /\ x.no \in Nat
        /\ Stored(0, u) /\ Len(u) = BlockSize /\ Agrees(u, exp[x.no])
        /\ todo' \in Seq(Entry) /\ Range(todo) = {x} \cup Range(todo')
    BY <1>1, <1>2, NextBlock
  <1>4. PICK w : w = MfWrite(rmf, x.no, 0, u) /\ w.ok /\ rmf' = w.mf
    BY <1>1, <1>2 DEF CopyBlock
  <1>5. Result(rmf, w, x.no, 0, u)
    BY <1>3, <1>4, WriteIs DEF CInv
  <1>6. Register(rmf') /\ Changed(rmf, rmf', x.no, 0, u)
    BY <1>4, <1>5 DEF Result
  <1>7. \A i \in 1..BlockSize : Cell(rmf', x.no)[i] = u[i]
    <2>1. ASSUME NEW i \in 1..BlockSize PROVE Cell(rmf', x.no)[i] = u[i]
      <3>1. 0 < i /\ i <= 0 + Len(u) /\ i - 0 = i
        BY <1>3, MFileAssumption
      <3> QED BY <1>3, <1>6, <3>1 DEF Changed
    <2> QED BY <2>1
  <1>8. Agrees(Cell(rmf', x.no), exp[x.no])
    BY <1>3, <1>7 DEF Agrees
  <1>9. exp \in [BlockNos -> Wish] /\ base \in [BlockNos -> Wish]
    BY DEF CInv, DataOK
  <1>10. ASSUME NEW no \in BlockNos, no # x.no, Agrees(Cell(rmf, no), exp[no])
         PROVE  Agrees(Cell(rmf', no), exp[no])
    <2>1. no \in Nat /\ exp[no] \in Wish
      BY <1>9, CFileAssumption
    <2>2. Kept(rmf, rmf', no)
      BY <1>6, <1>10, <2>1 DEF Changed, Kept
    <2> QED BY <1>10, <2>1, <2>2, AgreesKept
  <1>11. Right(blocks, rmf', OnDisk, exp)
    <2>1. \A no \in BlockNos : Fresh(OnDisk, no) => no # x.no
      BY <1>3 DEF Fresh
    <2> QED BY <1>1, <1>10, <2>1 DEF Right, CInv, DiskRight
  <1>12. Copying(rmf', OnDisk, todo', exp)
    <2>1. Range(todo') \subseteq OnDisk
      BY <1>1, <1>3 DEF CInv, CommitRight, Copying
    <2>2. ASSUME NEW no \in BlockNos
          PROVE  \/ \E y \in Range(todo') : y.no = no
                 \/ Agrees(Cell(rmf', no), exp[no])
      <3>1. (\E y \in Range(todo) : y.no = no) \/ Agrees(Cell(rmf, no), exp[no])
        BY <1>1 DEF CInv, CommitRight, Copying
      <3> QED BY <3>1, <1>3, <1>8, <1>10
    <2> QED BY <1>3, <2>1, <2>2 DEF Copying
  <1>13. DiskStays
    BY <1>1, AloneStays
  <1>14. committing /\ CallsOK'
    BY <1>1 DEF CInv, ModeInv, DataOK, CallsOK
  <1>15. DataStays
    BY <1>1, <1>6, <1>9, <1>11, <1>12, <1>14 DEF DataStays
  <1>16. OpStays
    <2>1. pc = "idle" /\ Asked(op, pc) /\ Given(op, pc, exp)
      BY <1>1 DEF CInv, ModeInv, OpInv
    <2>2. ModeInv'
      BY <1>1, <1>14, <2>1 DEF diskVars, CInv, ModeInv
    <2> QED BY <1>1, <2>1, <2>2 DEF OpStays, ReadsBack
  <1> QED BY <1>13, <1>15, <1>16, Outside

\* No more space: the commit is begun again, after what was there was read back.
LEMMA CommitFailsStep ==
    ASSUME IInv, CInv, CommitFails
    PROVE  CInv'
  <1>1. /\ UNCHANGED <<diskVars, cfVars>>
        /\ UNCHANGED <<pc, op, committing, exp, base, calls>>
        /\ mode = "commit" /\ mode' = "closed" /\ todo # <<>>
        /\ \E w \in {CopyBlock(Head(todo))} : ~w.ok /\ rmf' = w.mf
    BY DEF CommitFails
  <1>2. PICK x, u : x = Head(todo) /\ u = blocks[x.vno]
    OBVIOUS
  <1>3. x.no \in Nat /\ Stored(0, u)
    BY <1>1, <1>2, NextBlock
  <1>4. PICK w : w = MfWrite(rmf, x.no, 0, u) /\ ~w.ok /\ rmf' = w.mf
    BY <1>1, <1>2 DEF CopyBlock
  <1>5. Result(rmf, w, x.no, 0, u)
    BY <1>3, <1>4, WriteIs DEF CInv
  <1>6. Register(rmf') /\ Spares(rmf, rmf')
    BY <1>4, <1>5 DEF Result, Spares
  <1>7. DiskStays
    BY <1>1, AloneStays
  <1>8. CallsOK'
    BY <1>1 DEF CInv, DataOK, CallsOK
  <1>9. DataStays
    BY <1>1, <1>6, <1>8, SparedData
  <1>10. OpStays
    <2>1. pc = "idle" /\ Asked(op, pc) /\ Given(op, pc, exp)
      BY <1>1 DEF CInv, ModeInv, OpInv
    <2>2. ModeInv'
      BY <1>1, <2>1 DEF diskVars, CInv, ModeInv
    <2> QED BY <1>1, <2>1, <2>2 DEF OpStays, ReadsBack
  <1> QED BY <1>7, <1>9, <1>10, Outside

\* When nothing is left to be copied the register has everything.
LEMMA CommitDoneStep ==
    ASSUME IInv, CInv, CommitDone
    PROVE  CInv'
  <1>1. /\ UNCHANGED <<rmf, diskVars, cfVars, pc, op, todo, exp, calls>>
        /\ mode = "commit" /\ mode' = "clean" /\ todo = <<>> /\ ~committing' /\ base' = exp
    BY DEF CommitDone
  <1>2. Holds(rmf, exp)
    <2>1. Range(todo) = {}
      BY <1>1 DEF Range
    <2> QED BY <1>1, <2>1 DEF CInv, CommitRight, Copying, Holds, Cell
  <1>3. DiskStays
    BY <1>1, AloneStays
  <1>4. DataStays
    <2>1. exp \in [BlockNos -> Wish] /\ CallsOK'
      BY <1>1 DEF CInv, DataOK, CallsOK
    <2>2. Right(blocks, rmf, OnDisk, exp) /\ Register(rmf)
      BY <1>1 DEF CInv, DiskRight
    <2> QED BY <1>1, <1>2, <2>1, <2>2 DEF DataStays
  <1>5. OpStays
    <2>1. pc = "idle" /\ Asked(op, pc) /\ Given(op, pc, exp)
      BY <1>1 DEF CInv, ModeInv, OpInv
    <2>2. committing' = FALSE
      BY DEF CommitDone
    <2>3. ModeInv'
      BY <1>1, <2>1, <2>2 DEF diskVars, CInv, ModeInv
    <2> QED BY <1>1, <2>1, <2>3 DEF OpStays, ReadsBack
  <1> QED BY <1>3, <1>4, <1>5, Outside

-----------------------------------------------------------------------------
\* The shadow files are removed, and processes are killed.

\* The shadow area is empty, and the register has everything that counts.
Emptied ==
    /\ RemoveShadow
    /\ head'.flatBucket \in Nat /\ Len(mem') <= MaxInMemory /\ iobuf' \in Content
Settled ==
    /\ Register(rmf') /\ mode' # "commit"
    /\ exp' \in [BlockNos -> Wish] /\ base' \in [BlockNos -> Wish] /\ CallsOK'
    /\ Holds(rmf', exp') /\ (~committing' => Holds(rmf', base'))

\* An index that was removed has no pairs.
LEMMA RemovedIndex ==
    ASSUME RemoveShadow
    PROVE  /\ saved'.head.state = 0 /\ saved'.head.flatBucket = 0
           /\ saved'.head.nextBlock = 1 /\ OnDisk' = {} /\ flat' = Unmapped
           /\ blocks' \in [DOMAIN blocks' -> Content]
  <1>1. NoShadow.head = [state |-> 0, nextBlock |-> 1, nextBucket |-> 1, flatBucket |-> 0]
    BY DEF NoShadow, NewHead
  <1>2. /\ saved'.head.state = 0 /\ saved'.head.flatBucket = 0
        /\ saved'.head.nextBlock = 1 /\ flat' = Unmapped
    BY <1>1 DEF RemoveShadow
  <1>3. DOMAIN bucket' = {} /\ blocks' = <<>> /\ DOMAIN blocks' = {}
    BY DEF RemoveShadow
  <1>4. OnDisk' = {}
    BY <1>2, <1>3 DEF OnDisk, Mapping, Pairs
  <1>5. blocks' \in [DOMAIN blocks' -> Content]
    <2>1. blocks' = [v \in DOMAIN blocks' |-> blocks'[v]]
      BY <1>3
    <2> QED BY <2>1, <1>3
  <1> QED BY <1>2, <1>4, <1>5

\* A step that removes the shadow files.
LEMMA EmptiedStep ==
    ASSUME Emptied, Settled, OpStays
    PROVE  CInv'
  <1>1. /\ saved'.head.state = 0 /\ saved'.head.flatBucket = 0
        /\ saved'.head.nextBlock = 1 /\ OnDisk' = {} /\ flat' = Unmapped
        /\ blocks' \in [DOMAIN blocks' -> Content]
    BY RemovedIndex DEF Emptied
  <1>2. mode' \notin {"shadow", "overlay"}
    BY DEF OpStays
  <1>3. FlatInv'
    <2>1. flat' \in [BlockNos -> Nat]
      BY <1>1 DEF Unmapped
    <2> QED BY <1>1, <1>2, <2>1 DEF FlatInv, FlatIs, Emptied, HasShadow
  <1>4. MapInv'
    BY <1>1, <1>2 DEF MapInv, Indexed, OneToOne, Numbered, HasShadow
  <1>5. OpInv'
    BY DEF OpInv, OpStays, Finds
  <1>6. DataOK' /\ MemFits'
    BY <1>1 DEF DataOK, MemFits, Emptied, Settled, CallsOK
  <1>7. ShadowRight' /\ BaseRight' /\ CommitRight'
    BY <1>2 DEF ShadowRight, BaseRight, CommitRight, Settled, HasShadow
  <1>8. DiskRight'
    <2>1. Right(blocks', rmf', OnDisk', exp')
      BY <1>1 DEF Right, Settled, Holds, Cell
    <2> QED BY <2>1 DEF DiskRight
  <1> QED BY <1>3, <1>4, <1>5, <1>6, <1>7, <1>8 DEF CInv, Settled, OpStays

\* What a process has in memory before it opens a shadow file.
LEMMA NoMemory ==
    ASSUME FreeShadow
    PROVE  head'.flatBucket \in Nat /\ Len(mem') <= MaxInMemory /\ iobuf' \in Content
  <1>1. head'.flatBucket = 0
    BY DEF FreeShadow, NewHead
  <1>2. Len(mem') = 0 /\ 0 <= MaxInMemory
    BY CFileAssumption DEF FreeShadow
  <1>3. Zeroes \in Content
    BY DEF Zeroes, Content, Datum, Hole
  <1> QED BY <1>1, <1>2, <1>3 DEF FreeShadow

\* Nothing is expected of an empty register.
LEMMA NothingHolds ==
    /\ Nothing \in [BlockNos -> Wish]
    /\ \A mf : Holds(mf, Nothing)
  <1>1. \A no \in BlockNos : Nothing[no] \in Wish
                             /\ \A i \in 1..BlockSize : Nothing[no][i] = Hole
    BY DEF Nothing, Zeroes, Wish, Hole
  <1> QED BY <1>1 DEF Nothing, Holds, Agrees

\* bf_commitClean and zebra_clean.
LEMMA CleanStep ==
    ASSUME IInv, CInv, Clean \/ Discard
    PROVE  CInv'
  <1>1. /\ UNCHANGED <<rmf, cfVars, pc, op, committing, todo, base, calls>> /\ RemoveShadow
        /\ mode \in {"clean", "closed"} /\ mode' = "closed" /\ ~committing
        /\ exp' = base
    BY DEF Clean, Discard, CInv, ModeInv
  <1>2. Emptied
    BY <1>1 DEF Emptied, CInv, FlatInv, MemFits, DataOK, cfVars
  <1>3. Settled
    BY <1>1 DEF Settled, CInv, BaseRight, DataOK, CallsOK
  <1>4. OpStays
    <2>1. pc = "idle" /\ op.kind = "none"
      BY <1>1 DEF CInv, ModeInv, OpInv, Asked
    <2>2. Asked(op, pc) /\ Given(op, pc, exp')
      BY <2>1 DEF CInv, OpInv, Given, Pending
    <2>3. ModeInv'
      BY <1>1, <2>1 DEF CInv, ModeInv
    <2> QED BY <1>1, <2>1, <2>2, <2>3 DEF OpStays, ReadsBack
  <1> QED BY <1>2, <1>3, <1>4, EmptiedStep

\* bf_reset.
LEMMA ResetStep ==
    ASSUME IInv, CInv, Reset
    PROVE  CInv'
  <1>1. /\ UNCHANGED <<cfVars, pc, op, mode, todo>> /\ RemoveShadow
        /\ mode = "closed" /\ committing' = FALSE /\ exp' = Nothing /\ base' = Nothing
        /\ calls' = [calls EXCEPT !["exit"] = @ + 1] /\ rmf' = NewMFile(rmf.dirs)
    BY DEF Reset, Call
  <1>2. Emptied
    BY <1>1 DEF Emptied, CInv, FlatInv, MemFits, DataOK, cfVars
  <1>3. CallsOK'
    BY <1>1, CallsCount DEF CInv, DataOK, CallsOK
  <1>4. Register(rmf')
    <2>1. rmf.dirs \in Seq(Int) /\ OneLimit(rmf.dirs)
      BY DEF CInv, Register
    <2> QED BY <1>1, <2>1, NewIs, Zenon
  <1>5. Settled
    BY <1>1, <1>3, <1>4, NothingHolds DEF Settled
  <1>6. OpStays
    <2>1. pc = "idle" /\ op.kind = "none"
      BY <1>1 DEF CInv, ModeInv, OpInv, Asked
    <2>2. Asked(op, pc) /\ Given(op, pc, exp')
      BY <2>1 DEF CInv, OpInv, Given, Pending
    <2>3. ModeInv'
      BY <1>1, <2>1 DEF CInv, ModeInv
    <2> QED BY <1>1, <2>1, <2>2, <2>3 DEF OpStays, ReadsBack
  <1> QED BY <1>2, <1>5, <1>6, EmptiedStep

\* A process is killed: what it has written to a shadow file is lost, what it
\* has copied to the register is copied again.
LEMMA KilledStep ==
    ASSUME IInv, CInv, Kill
    PROVE  CInv'
  <1>1. /\ UNCHANGED <<committing, base>> /\ FreeShadow
        /\ mode # "closed" /\ mode' = "closed"
        /\ op' = NoOp /\ pc' = "idle" /\ todo' = <<>>
        /\ calls' = [calls EXCEPT !["exit"] = @ + 1] /\ rmf' = MfInit(rmf)
        /\ IF mode = "shadow" THEN RemoveShadow /\ exp' = base ELSE UNCHANGED <<diskVars, exp>>
    BY DEF Kill, Call, Goto
  <1>2. CallsOK'
    BY <1>1, CallsCount DEF CInv, DataOK, CallsOK
  <1>3. Register(rmf') /\ Spares(rmf, rmf')
    BY <1>1, InitIs, SparesAlike DEF CInv
  <1>4. OpStays
    <2>1. op'.kind = "none"
      BY <1>1 DEF NoOp
    <2>2. Asked(op', pc') /\ Given(op', pc', exp')
      BY <1>1, <2>1 DEF Asked, Given, Pending
    <2>3. ModeInv'
      BY <1>1 DEF CInv, ModeInv
    <2> QED BY <1>1, <2>2, <2>3 DEF OpStays, ReadsBack
  <1>5. head'.flatBucket \in Nat /\ Len(mem') <= MaxInMemory /\ iobuf' \in Content
    BY <1>1, NoMemory
  <1>6. CASE mode = "shadow"
    <2>1. Emptied
      BY <1>1, <1>5, <1>6 DEF Emptied
    <2>2. base \in [BlockNos -> Wish] /\ Holds(rmf, base)
      BY <1>6 DEF CInv, DataOK, ModeInv, BaseRight
    <2>3. Holds(rmf', base)
      BY <1>3, <2>2, HoldsKept
    <2>4. Settled
      BY <1>1, <1>2, <1>3, <1>6, <2>2, <2>3 DEF Settled
    <2> QED BY <1>4, <2>1, <2>4, EmptiedStep
  <1>7. CASE mode # "shadow"
    <2>1. DiskStays
      BY <1>1, <1>5, <1>7 DEF DiskStays
    <2>2. DataStays
      BY <1>1, <1>2, <1>3, <1>7, SparedData
    <2> QED BY <1>4, <2>1, <2>2, Outside
  <1> QED BY <1>6, <1>7

-----------------------------------------------------------------------------
\* A shadow file is opened and closed.

\* The index that a process finds is the one on disk.
LEMMA OpenedIndex ==
    ASSUME IInv, ~HasShadow, pc = "idle", NEW w \in BOOLEAN, OpenShadow(w), pc' = pc
    PROVE  /\ head'.state = 2 <=> saved.head.state = 2
           /\ head'.flatBucket = saved.head.flatBucket
           /\ Used' = saved.head.nextBlock /\ Mapped' = OnDisk
           /\ saved'.head.flatBucket = saved.head.flatBucket
           /\ ~w => saved' = saved
           /\ UNCHANGED <<bucket, flat, blocks, mem, iobuf>>
  <1>1. UNCHANGED <<bucket, flat, blocks, mem, iobuf>> /\ mem = <<>>
        /\ (~w => saved' = saved) /\ IsTable(bucket)
    BY DEF OpenShadow, IInv, MemInv, Typed
  <1>2. /\ head'.state = 2 <=> saved.head.state = 2
        /\ head'.flatBucket = saved.head.flatBucket
        /\ head'.nextBlock = saved.head.nextBlock
        /\ saved'.head.flatBucket = saved.head.flatBucket
    <2>1. CASE saved.head.state = 0
      <3>1. saved = NoShadow
        BY <2>1 DEF IInv, DiskInv
      <3>2. head' = NewHead
        BY <2>1 DEF OpenShadow
      <3>3. saved' = saved \/ saved' = [head |-> NewHead, array |-> NoChains]
        BY <2>1 DEF OpenShadow
      <3>4. /\ NewHead.state = 1 /\ saved.head.nextBlock = NewHead.nextBlock
            /\ saved.head.flatBucket = NewHead.flatBucket
        BY <3>1 DEF NoShadow, NewHead
      <3>5. saved'.head.flatBucket = saved.head.flatBucket
        BY <3>3, <3>4
      <3> QED BY <2>1, <3>2, <3>4, <3>5
    <2>2. CASE saved.head.state # 0
      BY <2>2 DEF OpenShadow
    <2> QED BY <2>1, <2>2
  <1>3. Table' = bucket
    <2>1. InMem(mem) = {} /\ mem' = mem /\ bucket' = bucket
      BY <1>1 DEF InMem
    <2>2. Table' = [b \in DOMAIN bucket |-> bucket[b]]
      BY <2>1 DEF Table, View
    <2> QED BY <2>2, <1>1 DEF IsTable
  <1>4. Mapped' = OnDisk
    BY <1>1, <1>2, <1>3 DEF Mapped, OnDisk, Mapping
  <1>5. Used' = saved.head.nextBlock
    BY <1>2 DEF Used
  <1> QED BY <1>1, <1>2, <1>4, <1>5

\* bf_open with a shadow, for writing or beside a commit.
LEMMA OpenShadowStep ==
    ASSUME IInv, CInv, OpenUpdate \/ OpenOverlay
    PROVE  CInv'
  <1>1. /\ mode = "closed" /\ calls' = [calls EXCEPT !["open"] = @ + 1] /\ rmf' = MfOpen(rmf)
        /\ UNCHANGED <<pc, op, committing, todo, exp, base>>
    BY DEF OpenUpdate, OpenOverlay, Open, Call
  <1>2. PICK w \in BOOLEAN : /\ OpenShadow(w) /\ mode' = IF w THEN "shadow" ELSE "overlay"
                             /\ committing = ~w
    <2>1. CASE OpenUpdate
      <3>1. OpenShadow(TRUE) /\ mode' = "shadow" /\ ~committing
        BY <2>1 DEF OpenUpdate, Open
      <3>2. committing = FALSE
        BY <3>1
      <3> QED BY <3>1, <3>2
    <2>2. CASE OpenOverlay
      <3>1. OpenShadow(FALSE) /\ mode' = "overlay" /\ committing
        BY <2>2 DEF OpenOverlay, Open
      <3>2. committing = TRUE
        BY <3>1 DEF CInv, ModeInv
      <3> QED BY <3>1, <3>2
    <2> QED BY <2>1, <2>2
  <1>3. pc = "idle" /\ ~HasShadow /\ HasShadow' /\ mode # "shadow"
    BY <1>1, <1>2 DEF CInv, ModeInv, HasShadow
  <1>4. /\ head'.state = 2 <=> saved.head.state = 2
        /\ head'.flatBucket = saved.head.flatBucket
        /\ Used' = saved.head.nextBlock /\ Mapped' = OnDisk
        /\ saved'.head.flatBucket = saved.head.flatBucket
        /\ ~w => saved' = saved
        /\ bucket' = bucket /\ flat' = flat /\ blocks' = blocks /\ mem' = mem /\ iobuf' = iobuf
    BY <1>1, <1>2, <1>3, OpenedIndex
  <1>5. mode' # "shadow" => OnDisk' = OnDisk /\ saved' = saved
    BY <1>2, <1>4 DEF OnDisk
  <1>6. FlatIs(saved.head, flat) /\ Indexed(OnDisk, saved.head.nextBlock)
        /\ Right(blocks, rmf, OnDisk, exp)
    BY <1>3 DEF CInv, FlatInv, MapInv, DiskRight
  <1>7. FlatInv'
    BY <1>4, <1>5, <1>6 DEF CInv, FlatInv, FlatIs, FlatWithin
  <1>8. MapInv'
    BY <1>4, <1>5, <1>6 DEF MapInv
  <1>9. OpInv'
    BY <1>1, <1>3 DEF CInv, OpInv, Finds
  <1>10. ModeInv'
    BY <1>1, <1>2 DEF CInv, ModeInv
  <1>11. DataOK' /\ MemFits'
    <2>1. CallsOK'
      BY <1>1, CallsCount DEF CInv, DataOK, CallsOK
    <2> QED BY <1>1, <1>4, <2>1 DEF CInv, DataOK, MemFits, CallsOK
  <1>12. Register(rmf') /\ Spares(rmf, rmf')
    BY <1>1, OpenIs, SparesAlike DEF CInv
  <1>13. exp \in [BlockNos -> Wish] /\ base \in [BlockNos -> Wish]
    BY DEF CInv, DataOK
  <1>14. Right(blocks, rmf', OnDisk, exp)
    BY <1>6, <1>12, <1>13, RightKept
  <1>15. ShadowRight'
    <2>1. Placed' = OnDisk
      BY <1>1, <1>3, <1>4 DEF Placed
    <2>2. ~Pending(op, pc)
      BY <1>3 DEF CInv, OpInv, Asked, Pending
    <2>3. Wanted(op, pc, exp) = exp
      BY <1>13, <2>2, WantedIs
    <2> QED BY <1>1, <1>4, <1>14, <2>1, <2>3 DEF ShadowRight
  <1>16. DiskRight'
    BY <1>1, <1>4, <1>5, <1>14 DEF DiskRight
  <1>17. BaseRight' /\ CommitRight' /\ ReadsBack'
    <2>1. ~committing => Holds(rmf', base)
      BY <1>12, <1>13, HoldsKept DEF CInv, BaseRight
    <2> QED BY <1>1, <1>2, <1>3, <2>1 DEF BaseRight, CommitRight, ReadsBack
  <1> QED BY <1>7, <1>8, <1>9, <1>10, <1>11, <1>12, <1>15, <1>16, <1>17 DEF CInv

\* cf_close of an update leaves the index on disk as it was in memory.
LEMMA ClosedIndex ==
    ASSUME IInv, mode = "shadow", pc = "idle", CloseShadow
    PROVE  saved' = [head |-> head, array |-> array] /\ OnDisk' = Mapped
  <1>1. /\ bucket' = Written(mem, Len(mem)) /\ flat' = flat
        /\ saved' = IF dirty \/ DirtyOf(mem, Len(mem)) # {}
                    THEN [head |-> head, array |-> array] ELSE saved
    BY DEF CloseShadow
  <1>2. dirty \/ ~AllClean(mem) \/ saved = [head |-> head, array |-> array]
    BY DEF IInv, MarkInv, Unmarked
  <1>3. ~AllClean(mem) => DirtyOf(mem, Len(mem)) # {}
    <2> SUFFICES ASSUME NEW i \in 1..Len(mem), mem[i].dirty
                 PROVE  DirtyOf(mem, Len(mem)) # {}
      BY DEF AllClean
    <2>1. mem[i] \in DirtyOf(mem, Len(mem))
      BY DEF DirtyOf
    <2> QED BY <2>1
  <1>4. saved' = [head |-> head, array |-> array]
    BY <1>1, <1>2, <1>3
  <1>5. bucket' = Table
    BY <1>1, Flushed
  <1>6. saved'.head.state = head.state
    BY <1>4
  <1> QED BY <1>1, <1>4, <1>5, <1>6 DEF OnDisk, Mapped

\* A reader has nothing to write.
LEMMA ClosedOverlay ==
    ASSUME IInv, mode = "overlay", CloseShadow
    PROVE  UNCHANGED diskVars
  <1>1. AllClean(mem) /\ ~dirty /\ IsTable(bucket)
    BY DEF IInv, MemInv, Typed
  <1>2. DirtyOf(mem, Len(mem)) = {}
    BY <1>1 DEF AllClean, DirtyOf
  <1>3. Written(mem, Len(mem)) = [b \in DOMAIN bucket |-> bucket[b]]
    BY <1>2 DEF Written
  <1>4. bucket' = bucket /\ saved' = saved /\ flat' = flat /\ blocks' = blocks
    BY <1>1, <1>2, <1>3 DEF CloseShadow, IsTable
  <1> QED BY <1>4 DEF diskVars

\* bf_close, which saves the index of a shadow.
LEMMA ClosingStep ==
    ASSUME IInv, CInv, Close
    PROVE  CInv'
  <1>1. /\ pc = "idle" /\ mode' = "closed"
        /\ UNCHANGED <<rmf, pc, op, committing, todo, exp, base, calls>>
        /\ mode \in {"direct", "shadow", "register", "overlay"}
        /\ IF HasShadow THEN CloseShadow ELSE UNCHANGED <<diskVars, cfVars>>
    BY DEF Close
  <1>2. OpStays
    <2>1. Asked(op, pc) /\ Given(op, pc, exp)
      BY DEF CInv, OpInv
    <2>2. ModeInv'
      BY <1>1 DEF CInv, ModeInv
    <2> QED BY <1>1, <2>1, <2>2 DEF OpStays, ReadsBack
  <1>3. CallsOK' /\ Register(rmf) /\ Spares(rmf, rmf)
    BY <1>1 DEF CInv, DataOK, CallsOK, Spares, Kept
  <1>4. CASE mode # "shadow"
    <2>1. DiskStays
      <3>1. CASE mode = "overlay"
        <4>1. CloseShadow
          BY <1>1, <3>1 DEF HasShadow
        <4>2. FreeShadow
          BY <4>1 DEF CloseShadow
        <4> QED BY <4>1, <4>2, <3>1, ClosedOverlay, NoMemory DEF DiskStays
      <3>2. CASE mode # "overlay"
        BY <1>1, <1>4, <3>2, AloneStays DEF HasShadow
      <3> QED BY <3>1, <3>2
    <2>2. DataStays
      BY <1>1, <1>3, <1>4, SparedData
    <2> QED BY <1>2, <2>1, <2>2, Outside
  <1>5. CASE mode = "shadow"
    <2>1. CloseShadow /\ HasShadow /\ ~committing
      BY <1>1, <1>5 DEF HasShadow, CInv, ModeInv
    <2>2. FreeShadow /\ flat' = flat /\ blocks' = blocks
      BY <2>1 DEF CloseShadow
    <2>3. head'.flatBucket \in Nat /\ Len(mem') <= MaxInMemory /\ iobuf' \in Content
      BY <2>2, NoMemory
    <2>4. saved' = [head |-> head, array |-> array] /\ OnDisk' = Mapped
      BY <1>1, <1>5, <2>1, ClosedIndex
    <2>5. saved'.head = head
      BY <2>4
    <2>6. Used = head.nextBlock
      BY <1>1 DEF Used
    <2>7. ~HasShadow'
      BY <1>1 DEF HasShadow
    <2>8. FlatInv'
      BY <2>1, <2>2, <2>3, <2>5, <2>7 DEF CInv, FlatInv, FlatIs, FlatWithin
    <2>9. MapInv'
      BY <2>1, <2>4, <2>5, <2>6, <2>7 DEF CInv, MapInv
    <2>10. OpInv'
      BY <1>2 DEF OpInv, OpStays, Finds
    <2>11. DataOK' /\ MemFits'
      BY <1>1, <1>3, <2>2, <2>3 DEF CInv, DataOK, MemFits, CallsOK
    <2>12. DiskRight'
      <3>1. Right(blocks, rmf, Mapped, exp)
        BY <1>1, <2>1, IdleRight
      <3> QED BY <3>1, <1>1, <2>2, <2>4 DEF DiskRight
    <2>13. ShadowRight' /\ BaseRight' /\ CommitRight'
      BY <1>1, <2>1, <2>7 DEF ShadowRight, BaseRight, CommitRight, CInv
    <2> QED BY <1>1, <1>2, <1>3, <2>8, <2>9, <2>10, <2>11, <2>12, <2>13 DEF CInv, OpStays
  <1> QED BY <1>4, <1>5

-----------------------------------------------------------------------------
\* What cf_commit reads from the index: bucket by bucket ...

\* Two sequences have their entries together.
LEMMA RangeOfBoth ==
    ASSUME NEW s \in Seq(Entry), NEW t \in Seq(Entry)
    PROVE  s \o t \in Seq(Entry) /\ Range(s \o t) = Range(s) \cup Range(t)
  <1>1. PICK m, n : m = Len(s) /\ n = Len(t)
    OBVIOUS
  <1>2. m \in Nat /\ n \in Nat /\ DOMAIN s = 1..m /\ DOMAIN t = 1..n
    BY <1>1
  <1>3. PICK u : u = s \o t
    OBVIOUS
  <1>4. /\ u \in Seq(Entry) /\ Len(u) = m + n /\ DOMAIN u = 1..m + n
        /\ \A i \in 1..m + n : u[i] = IF i <= m THEN s[i] ELSE t[i - m]
    BY <1>1, <1>3
  <1>5. ASSUME NEW x \in Range(u) PROVE x \in Range(s) \cup Range(t)
    <2>1. PICK i \in 1..m + n : x = u[i]
      BY <1>4, <1>5 DEF Range
    <2>2. CASE i <= m
      <3>1. i \in 1..m /\ x = s[i]
        BY <1>2, <1>4, <2>1, <2>2
      <3> QED BY <3>1, <1>2 DEF Range
    <2>3. CASE ~(i <= m)
      <3>1. i - m \in 1..n /\ x = t[i - m]
        BY <1>2, <1>4, <2>1, <2>3
      <3> QED BY <3>1, <1>2 DEF Range
    <2> QED BY <2>2, <2>3
  <1>6. ASSUME NEW x \in Range(s) PROVE x \in Range(u)
    <2>1. PICK i \in 1..m : x = s[i]
      BY <1>2, <1>6 DEF Range
    <2>2. i \in 1..m + n /\ u[i] = x
      BY <1>2, <1>4, <2>1
    <2> QED BY <2>2, <1>4 DEF Range
  <1>7. ASSUME NEW x \in Range(t) PROVE x \in Range(u)
    <2>1. PICK i \in 1..n : x = t[i]
      BY <1>2, <1>7 DEF Range
    <2>2. PICK k : k = i + m
      OBVIOUS
    <2>3. k \in 1..m + n /\ ~(k <= m) /\ k - m = i
      BY <1>2, <2>2
    <2>4. u[k] = x
      BY <1>4, <2>1, <2>3
    <2> QED BY <2>3, <2>4, <1>4 DEF Range
  <1> QED BY <1>3, <1>4, <1>5, <1>6, <1>7

\* A sequence of sequences has the entries of all of them.
LEMMA Flattened ==
    ASSUME NEW n \in Nat, NEW s, s = [b \in 1..n |-> s[b]],
           \A b \in 1..n : s[b] \in Seq(Entry)
    PROVE  /\ FlattenSeq(s) \in Seq(Entry)
           /\ Range(FlattenSeq(s)) = UNION {Range(s[b]) : b \in 1..n}
  <1>1. s \in Seq(Seq(Entry)) /\ Len(s) = n /\ DOMAIN s = 1..n
    OBVIOUS
  <1> DEFINE F(k, f) == f = [i \in 1..k |-> IF i = 1 THEN s[i] ELSE f[i - 1] \o s[i]]
             Has(k) == \E f : F(k, f)
             T == {k \in 1..n : ~Has(k)}
  <1> HIDE DEF Has, F
  <1>2. T = {}
    <2> SUFFICES ASSUME T # {} PROVE FALSE
      OBVIOUS
    <2>1. T \in SUBSET Nat
      OBVIOUS
    <2>2. PICK k \in T : \A j \in T : k <= j
      BY <2>1, Least
    <2>3. CASE k = 1
      <3> DEFINE g == [i \in 1..1 |-> s[1]]
      <3>1. \A i \in 1..1 : i = 1
        OBVIOUS
      <3>2. g = [i \in 1..1 |-> IF i = 1 THEN s[i] ELSE g[i - 1] \o s[i]]
        BY <3>1
      <3>3. F(k, g)
        BY <2>3, <3>2 DEF F
      <3> HIDE DEF g
      <3> QED BY <2>2, <3>3 DEF Has
    <2>4. CASE k # 1
      <3>1. PICK j : j = k - 1
        OBVIOUS
      <3>2. k \in 1..n /\ j \in 1..n /\ j < k
        BY <2>2, <2>4, <3>1
      <3>3. j \notin T
        BY <2>2, <3>2
      <3>4. PICK f : F(j, f)
        BY <3>2, <3>3 DEF Has
      <3> DEFINE g == [i \in 1..k |-> IF i = k THEN f[j] \o s[k] ELSE f[i]]
      <3>5. ASSUME NEW i \in 1..k
            PROVE  g[i] = IF i = 1 THEN s[i] ELSE g[i - 1] \o s[i]
        <4>1. CASE i = k
          <5>1. g[i] = f[j] \o s[k] /\ j \in 1..k /\ g[j] = f[j] /\ i - 1 = j
            BY <3>1, <3>2, <4>1
          <5> HIDE DEF g
          <5> QED BY <5>1, <4>1, <2>4
        <4>2. CASE i # k
          <5>1. i \in 1..j /\ g[i] = f[i]
            BY <3>1, <3>2, <4>2
          <5>2. f[i] = IF i = 1 THEN s[i] ELSE f[i - 1] \o s[i]
            BY <3>4, <5>1 DEF F
          <5>3. i # 1 => i - 1 \in 1..k /\ i - 1 # k /\ g[i - 1] = f[i - 1]
            BY <3>1, <3>2, <5>1
          <5> HIDE DEF g
          <5> QED BY <5>1, <5>2, <5>3
        <4> QED BY <4>1, <4>2
      <3>6. g = [i \in 1..k |-> g[i]]
        OBVIOUS
      <3> HIDE DEF g
      <3>7. F(k, g)
        BY <3>5, <3>6 DEF F
      <3> QED BY <2>2, <3>7 DEF Has
    <2> QED BY <2>3, <2>4
  <1>3. CASE n = 0
    <2>1. FlattenSeq(s) = s
      BY <1>1, <1>3 DEF FlattenSeq
    <2>2. s \in Seq(Entry) /\ Range(s) = {}
      <3>1. s \in [1..0 -> Entry]
        BY <1>3
      <3> QED BY <3>1, <1>1, <1>3 DEF Range
    <2>3. UNION {Range(s[b]) : b \in 1..n} = {}
      BY <1>3
    <2> QED BY <2>1, <2>2, <2>3
  <1>4. CASE n # 0
    <2> DEFINE g == CHOOSE f : F(n, f)
               U(k) == UNION {Range(s[b]) : b \in 1..k}
               Good(k) == g[k] \in Seq(Entry) /\ Range(g[k]) = U(k)
               R == {k \in 1..n : ~Good(k)}
    <2>1. n \in 1..n /\ 1 \in 1..n
      BY <1>4
    <2>2. F(n, g)
      BY <1>2, <2>1 DEF Has
    <2>3. FlattenSeq(s) = g[n]
      BY <1>1, <1>4 DEF FlattenSeq, F
    <2> HIDE DEF g, U, Good
    <2>4. \A i \in 1..n : g[i] = IF i = 1 THEN s[i] ELSE g[i - 1] \o s[i]
      BY <2>2 DEF F
    <2>5. R = {}
      <3> SUFFICES ASSUME R # {} PROVE FALSE
        OBVIOUS
      <3>1. R \in SUBSET Nat
        OBVIOUS
      <3>2. PICK k \in R : \A j \in R : k <= j
        BY <3>1, Least
      <3>3. CASE k = 1
        <4>1. g[1] = s[1] /\ s[1] \in Seq(Entry)
          BY <2>1, <2>4
        <4>2. U(1) = Range(s[1])
          <5>1. 1..1 = {1}
            OBVIOUS
          <5> QED BY <5>1 DEF U
        <4> QED BY <3>2, <3>3, <4>1, <4>2 DEF Good
      <3>4. CASE k # 1
        <4>1. PICK j : j = k - 1
          OBVIOUS
        <4>2. k \in 1..n /\ j \in 1..n /\ j < k
          BY <3>2, <3>4, <4>1
        <4>3. j \notin R
          BY <3>2, <4>2
        <4>4. g[j] \in Seq(Entry) /\ Range(g[j]) = U(j) /\ s[k] \in Seq(Entry)
          BY <4>2, <4>3 DEF Good
        <4>5. g[k] = g[j] \o s[k]
          BY <2>4, <3>4, <4>1, <4>2
        <4>6. g[k] \in Seq(Entry) /\ Range(g[k]) = U(j) \cup Range(s[k])
          BY <4>4, <4>5, RangeOfBoth
        <4>7. 1..k = 1..j \cup {k}
          BY <4>1, <4>2
        <4>8. U(k) = U(j) \cup Range(s[k])
          BY <4>7 DEF U
        <4> QED BY <3>2, <4>6, <4>8 DEF Good
      <3> QED BY <3>3, <3>4
    <2>6. Good(n)
      BY <2>1, <2>5
    <2> QED BY <2>3, <2>6 DEF Good, U
  <1> QED BY <1>3, <1>4

\* The entries bf_commit runs over are those of the saved table, ...
LEMMA HashPairsIs ==
    ASSUME IInv, mode # "shadow", saved.head.state # 2
    PROVE  HashPairs \in Seq(Entry) /\ Range(HashPairs) = OnDisk
  <1>1. PICK n : n = saved.head.nextBucket - 1
    OBVIOUS
  <1>2. n \in Nat /\ DOMAIN bucket = 1..n /\ IsTable(bucket)
    BY <1>1 DEF IInv, Typed, HeadOK, DiskInv
  <1>3. \A b \in 1..n : bucket[b].ents \in Seq(Entry)
    BY <1>2 DEF IsTable, Slot
  <1>4. PICK s : s = [b \in 1..n |-> bucket[b].ents]
    OBVIOUS
  <1>5. /\ s = [b \in 1..n |-> s[b]] /\ \A b \in 1..n : s[b] \in Seq(Entry)
        /\ \A b \in 1..n : s[b] = bucket[b].ents
    BY <1>3, <1>4
  <1>6. /\ FlattenSeq(s) \in Seq(Entry)
        /\ Range(FlattenSeq(s)) = UNION {Range(s[b]) : b \in 1..n}
    BY <1>2, <1>5, Flattened
  <1>7. UNION {Range(s[b]) : b \in 1..n} = Pairs(bucket)
    BY <1>2, <1>5 DEF Pairs
  <1> QED BY <1>1, <1>4, <1>6, <1>7 DEF HashPairs, OnDisk, Mapping

-----------------------------------------------------------------------------
\* ... or the flat index, in the order of the block numbers.

\* The members of a finite set of numbers are numbered by how many are below.
Below(S, n) == Cardinality({m \in S : m < n})

\* Those ranks number the set from none to all but one.
LEMMA Ranked ==
    ASSUME NEW S \in SUBSET Nat, IsFiniteSet(S)
    PROVE  /\ Cardinality(S) \in Nat
           /\ \A i \in 1..Cardinality(S) : \E n \in S : Below(S, n) = i - 1
           /\ \A n \in S : Below(S, n) \in Nat /\ Below(S, n) + 1 \in 1..Cardinality(S)
           /\ \A m, n \in S : Below(S, m) = Below(S, n) => m = n
  <1>1. PICK N : N = Cardinality(S)
    OBVIOUS
  <1>2. N \in Nat
    BY <1>1, FS_CardinalityType
  <1>3. ASSUME NEW n \in S PROVE Below(S, n) \in Nat /\ Below(S, n) < N
    <2>1. PICK T : T = {m \in S : m < n}
      OBVIOUS
    <2>2. T \in SUBSET S /\ n \notin T
      BY <2>1
    <2>3. IsFiniteSet(T) /\ Cardinality(T) <= N /\ Cardinality(T) # N
      BY <1>1, <2>2, FS_Subset
    <2>4. Cardinality(T) \in Nat
      BY <2>3, FS_CardinalityType
    <2> QED BY <1>2, <2>1, <2>3, <2>4 DEF Below
  <1>4. ASSUME NEW m \in S, NEW n \in S, m < n PROVE Below(S, m) < Below(S, n)
    <2>1. PICK T, U : T = {x \in S : x < m} /\ U = {x \in S : x < n}
      OBVIOUS
    <2>2. T \in SUBSET U /\ m \in U /\ m \notin T /\ U \in SUBSET S
      <3>1. m \in Nat /\ n \in Nat /\ \A x \in S : x \in Nat
        OBVIOUS
      <3>2. ~(m < m) /\ \A x \in S : x < m => x < n
        BY <1>4, <3>1
      <3>3. m \in U /\ m \notin T
        BY <1>4, <2>1, <3>2
      <3>4. T \in SUBSET U /\ U \in SUBSET S
        BY <2>1, <3>2
      <3> QED BY <3>3, <3>4
    <2>3. IsFiniteSet(U)
      BY <2>2, FS_Subset
    <2>4. Cardinality(T) <= Cardinality(U) /\ Cardinality(T) # Cardinality(U)
      BY <2>2, <2>3, FS_Subset
    <2>5. Below(S, m) = Cardinality(T) /\ Below(S, n) = Cardinality(U)
      BY <2>1 DEF Below
    <2> QED BY <1>3, <2>4, <2>5
  <1>5. \A m, n \in S : Below(S, m) = Below(S, n) => m = n
    <2>1. ASSUME NEW m \in S, NEW n \in S, m # n PROVE Below(S, m) # Below(S, n)
      <3>1. m < n \/ n < m
        BY <2>1
      <3>2. Below(S, m) < Below(S, n) \/ Below(S, n) < Below(S, m)
        BY <1>4, <3>1
      <3> QED BY <1>3, <3>2
    <2> QED BY <2>1
  <1>6. \A i \in 1..N : \E n \in S : Below(S, n) = i - 1
    <2>1. PICK T : T = 0..N - 1
      OBVIOUS
    <2>2. IsFiniteSet(T) /\ Cardinality(T) = N
      BY <1>2, <2>1, FS_Interval
    <2>3. PICK f : f = [n \in S |-> Below(S, n)]
      OBVIOUS
    <2>4. f \in [S -> T] /\ \A m, n \in S : f[m] = f[n] => m = n
      <3>1. \A n \in S : Below(S, n) \in T
        BY <1>2, <1>3, <2>1
      <3> QED BY <1>5, <2>3, <3>1
    <2>5. f \in Injection(S, T)
      BY <2>4 DEF Injection, IsInjective
    <2>6. f \in Surjection(S, T)
      BY <1>1, <2>2, <2>5, FS_Injection
    <2>7. ASSUME NEW i \in 1..N PROVE \E n \in S : Below(S, n) = i - 1
      <3>1. i - 1 \in T
        BY <1>2, <2>1
      <3>2. PICK n \in S : f[n] = i - 1
        BY <2>6, <3>1 DEF Surjection
      <3> QED BY <2>3, <3>2
    <2> QED BY <2>7
  <1>7. ASSUME NEW n \in S PROVE Below(S, n) + 1 \in 1..N
    BY <1>2, <1>3
  <1> QED BY <1>1, <1>2, <1>3, <1>5, <1>6, <1>7

\* ... or those of the saved flat index.
LEMMA FlatPairsIs ==
    ASSUME CInv, mode # "shadow", saved.head.state = 2
    PROVE  FlatPairs \in Seq(Entry) /\ Range(FlatPairs) = OnDisk
  <1>1. FlatWithin(saved.head, flat) /\ flat \in [BlockNos -> Nat] /\ saved.head.flatBucket \in Nat
    BY DEF CInv, FlatInv, FlatIs
  <1>2. PICK b : b = saved.head.flatBucket * FlatSize
    OBVIOUS
  <1>3. b \in Nat
    <2>1. PICK f, n : f = saved.head.flatBucket /\ n = FlatSize
      OBVIOUS
    <2>2. f \in Nat /\ n \in Nat /\ b = f * n
      BY <1>1, <1>2, <2>1, CFileAssumption
    <2> QED BY <2>2
  <1>4. PICK S : S = {no \in BlockNos : flat[no] # 0 /\ no < b}
    OBVIOUS
  <1>5. S = {no \in BlockNos : flat[no] # 0}
    BY <1>1, <1>2, <1>4 DEF FlatWithin
  <1>6. S \in SUBSET Nat /\ IsFiniteSet(S)
    <2>1. S \in SUBSET Nat /\ \A n \in S : n <= b
      BY <1>3, <1>4, CFileAssumption
    <2> QED BY <1>3, <2>1, FS_BoundedSetOfNaturals
  <1>7. PICK N : N = Cardinality(S)
    OBVIOUS
  <1>8. /\ N \in Nat
        /\ \A i \in 1..N : \E n \in S : Below(S, n) = i - 1
        /\ \A n \in S : Below(S, n) \in Nat /\ Below(S, n) + 1 \in 1..N
        /\ \A m, n \in S : Below(S, m) = Below(S, n) => m = n
    BY <1>6, <1>7, Ranked
  <1> DEFINE At1(i) == CHOOSE n \in S : Below(S, n) = i - 1
             Pair(i) == [no |-> At1(i), vno |-> flat[At1(i)]]
             u == [i \in 1..N |-> Pair(i)]
  <1>9. FlatPairs = u
    BY <1>2, <1>4, <1>7 DEF FlatPairs, Below
  <1>10. ASSUME NEW i \in 1..N PROVE At1(i) \in S /\ Below(S, At1(i)) = i - 1
    BY <1>8
  <1> HIDE DEF At1
  <1>11. OnDisk = {[no |-> n, vno |-> flat[n]] : n \in S}
    BY <1>5 DEF OnDisk, Mapping, FlatMap
  <1>12. \A i \in 1..N : Pair(i) \in Entry /\ Pair(i) \in OnDisk
    <2>1. \A n \in S : [no |-> n, vno |-> flat[n]] \in Entry
      BY <1>1, <1>5, <1>6 DEF Entry
    <2> QED BY <1>10, <1>11, <2>1
  <1>13. ASSUME NEW n \in S PROVE \E i \in 1..N : Pair(i) = [no |-> n, vno |-> flat[n]]
    <2>1. PICK i : i = Below(S, n) + 1
      OBVIOUS
    <2>2. i \in 1..N /\ Below(S, n) = i - 1
      BY <1>8, <2>1
    <2>3. At1(i) = n
      BY <1>8, <1>10, <2>2
    <2> QED BY <2>2, <2>3
  <1> HIDE DEF Pair
  <1>14. u \in Seq(Entry) /\ Range(u) = {Pair(i) : i \in 1..N}
    <2>1. u \in [1..N -> Entry]
      BY <1>12
    <2> QED BY <1>8, <2>1 DEF Range
  <1> QED BY <1>9, <1>11, <1>12, <1>13, <1>14

\* A commit begins: what is not to be copied is in the register.
LEMMA StartCommitStep ==
    ASSUME IInv, CInv, StartCommit
    PROVE  CInv'
  <1>1. /\ UNCHANGED <<diskVars, cfVars, pc, op, exp, base>>
        /\ mode = "closed" /\ mode' = "commit" /\ committing' = TRUE
        /\ calls' = [calls EXCEPT !["open"] = @ + 1]
        /\ todo' = CommitPairs /\ rmf' = MfOpen(rmf)
    BY DEF StartCommit, Call
  <1>2. CommitPairs \in Seq(Entry) /\ Range(CommitPairs) = OnDisk
    <2>1. mode # "shadow"
      BY <1>1
    <2> QED BY <2>1, HashPairsIs, FlatPairsIs DEF CommitPairs
  <1>3. Register(rmf') /\ Spares(rmf, rmf')
    BY <1>1, OpenIs, SparesAlike DEF CInv
  <1>4. exp \in [BlockNos -> Wish] /\ base \in [BlockNos -> Wish]
    BY DEF CInv, DataOK
  <1>5. Right(blocks, rmf', OnDisk, exp)
    <2>1. Right(blocks, rmf, OnDisk, exp)
      BY <1>1 DEF CInv, DiskRight
    <2> QED BY <1>3, <1>4, <2>1, RightKept
  <1>6. Copying(rmf', OnDisk, todo', exp)
    <2>1. ASSUME NEW no \in BlockNos
          PROVE  \/ \E x \in OnDisk : x.no = no
                 \/ Agrees(Cell(rmf', no), exp[no])
      BY <1>5 DEF Right, Fresh
    <2> QED BY <1>1, <1>2, <2>1 DEF Copying
  <1>7. DiskStays
    BY <1>1, AloneStays
  <1>8. CallsOK'
    BY <1>1, CallsCount DEF CInv, DataOK, CallsOK
  <1>9. DataStays
    BY <1>1, <1>3, <1>4, <1>5, <1>6, <1>8 DEF DataStays
  <1>10. OpStays
    <2>1. pc = "idle" /\ Asked(op, pc) /\ Given(op, pc, exp)
      BY <1>1 DEF CInv, ModeInv, OpInv
    <2>2. ModeInv'
      BY <1>1, <2>1 DEF diskVars, CInv, ModeInv
    <2> QED BY <1>1, <2>1, <2>2 DEF OpStays, ReadsBack
  <1> QED BY <1>7, <1>9, <1>10, Outside

-----------------------------------------------------------------------------
\* The invariant.

\* The invariant holds when no file was ever written.
LEMMA InitCInv == ASSUME AreasAssumption, Init PROVE CInv
  <1>1. PICK s \in Setups : rmf = NewMFile(s.dirs)
    BY DEF Init
  <1>2. /\ head = NewHead /\ mem = <<>> /\ iobuf = Zeroes
        /\ saved = NoShadow /\ bucket = <<>> /\ flat = Unmapped /\ blocks = <<>>
        /\ pc = "idle" /\ op = NoOp /\ mode = "closed" /\ committing = FALSE
        /\ exp = Nothing /\ base = Nothing
        /\ calls = [c \in {"write", "read", "open", "exit"} |-> 0]
    BY DEF Init
  <1>3. Register(rmf)
    <2>1. s.dirs \in Seq(Int) /\ OneLimit(s.dirs)
      BY BFileAssumption DEF AreasAssumption
    <2> QED BY <1>1, <2>1, NewIs
  <1>4. /\ NoShadow.head = [state |-> 0, nextBlock |-> 1, nextBucket |-> 1, flatBucket |-> 0]
        /\ NewHead.flatBucket = 0 /\ NoOp.kind = "none"
    BY DEF NoShadow, NewHead, NoOp
  <1>5. OnDisk = {} /\ ~HasShadow
    BY <1>2, <1>4 DEF OnDisk, Mapping, Pairs, HasShadow
  <1>6. FlatInv
    <2>1. flat \in [BlockNos -> Nat]
      BY <1>2 DEF Unmapped
    <2> QED BY <1>2, <1>4, <1>5, <2>1 DEF FlatInv, FlatIs
  <1>7. MapInv
    BY <1>2, <1>4, <1>5 DEF MapInv, Indexed, OneToOne, Numbered
  <1>8. OpInv
    BY <1>2, <1>4 DEF OpInv, Asked, Given, Pending, Finds
  <1>9. ModeInv
    BY <1>2, Zenon DEF ModeInv
  <1>10. DataOK /\ MemFits
    <2>1. Zeroes \in Content
      BY DEF Zeroes, Content, Datum, Hole
    <2>2. blocks \in [DOMAIN blocks -> Content]
      <3>1. blocks = [v \in DOMAIN blocks |-> blocks[v]] /\ DOMAIN blocks = {}
        BY <1>2
      <3> QED BY <3>1
    <2>3. Len(mem) <= MaxInMemory
      BY <1>2, CFileAssumption
    <2>4. calls = [c \in DOMAIN calls |-> calls[c]] /\ calls.write \in Nat
      BY <1>2
    <2> QED BY <1>2, <2>1, <2>2, <2>3, <2>4, NothingHolds DEF DataOK, MemFits
  <1>11. DiskRight
    <2>1. Holds(rmf, exp)
      BY <1>2, NothingHolds
    <2> QED BY <1>5, <2>1 DEF DiskRight, Right, Holds, Cell
  <1>12. ShadowRight /\ BaseRight /\ CommitRight /\ ReadsBack
    BY <1>2, <1>5, NothingHolds DEF ShadowRight, BaseRight, CommitRight, ReadsBack
  <1> QED BY <1>3, <1>6, <1>7, <1>8, <1>9, <1>10, <1>11, <1>12 DEF CInv

\* A step that changes nothing.
LEMMA StutterCInv == ASSUME CInv, UNCHANGED vars PROVE CInv'
  <1>1. /\ rmf' = rmf /\ head' = head /\ saved' = saved /\ bucket' = bucket /\ flat' = flat
        /\ blocks' = blocks /\ mem' = mem /\ iobuf' = iobuf /\ pc' = pc /\ op' = op
        /\ mode' = mode /\ committing' = committing /\ todo' = todo /\ exp' = exp
        /\ base' = base /\ calls' = calls
    BY DEF vars, diskVars, cfVars, bfVars
  <1>2. Mapped' = Mapped /\ Used' = Used /\ OnDisk' = OnDisk /\ (HasShadow' <=> HasShadow)
    BY <1>1 DEF Mapped, Table, Used, OnDisk, HasShadow
  <1>3. Placed' = Placed
    BY <1>1, <1>2 DEF Placed
  <1>4. FlatInv' /\ MapInv' /\ OpInv'
    BY <1>1, <1>2 DEF CInv, FlatInv, MapInv, OpInv
  <1>5. ModeInv' /\ DataOK' /\ MemFits'
    BY <1>1 DEF CInv, ModeInv, DataOK, MemFits
  <1>6. ShadowRight' /\ DiskRight' /\ BaseRight' /\ CommitRight' /\ ReadsBack'
    BY <1>1, <1>2, <1>3 DEF CInv, ShadowRight, DiskRight, BaseRight, CommitRight, ReadsBack
  <1> QED BY <1>1, <1>4, <1>5, <1>6 DEF CInv

\* Every step of a block file keeps the invariant.
LEMMA NextCInv == ASSUME IInv, CInv, [Next]_vars PROVE CInv'
  <1>1. CASE UNCHANGED vars
    BY <1>1, StutterCInv
  <1>2. CASE Next
    <2>1. CASE OpenUpdate \/ OpenOverlay
      BY <2>1, OpenShadowStep
    <2>2. CASE OpenDirect \/ OpenRegister
      BY <2>2, OpenStep
    <2>3. CASE Close
      BY <2>3, ClosingStep
    <2>4. CASE Exit
      BY <2>4, ExitStep
    <2>5. CASE Reset
      BY <2>5, ResetStep
    <2>6. CASE Kill
      BY <2>6, KilledStep
    <2>7. CASE \E no \in Reads : StartRead(no) \/ ReadDirect(no)
      BY <2>7, StartReadStep, ReadDirectStep
    <2>8. CASE \E x \in Writes : StartWrite(x) \/ WriteDirect(x) \/ WriteFails(x)
      BY <2>8, StartWriteStep, WriteDirectStep, WriteFailsStep
    <2>9. CASE Return
      BY <2>9, ReturnStep
    <2>10. CASE StartCommit
      BY <2>10, StartCommitStep
    <2>11. CASE CommitBlock
      BY <2>11, CommitBlockStep
    <2>12. CASE CommitFails
      BY <2>12, CommitFailsStep
    <2>13. CASE CommitDone
      BY <2>13, CommitDoneStep
    <2>14. CASE Clean \/ Discard
      BY <2>14, CleanStep
    <2>15. CASE Step
      <3>1. HasShadow /\ UNCHANGED bfVars /\ CFileStep
        BY <2>15 DEF Step
      <3>2. CASE LookupFlat \/ LookupHash \/ WalkEnd
        BY <3>1, <3>2, LookupLooks
      <3>3. CASE WalkMemory \/ AppendMemory \/ NewOnDisk
        BY <3>1, <3>3, ChainLooks
      <3>4. CASE WalkDisk
        BY <3>1, <3>4, WalkDiskLooks
      <3>5. CASE ReadShadow \/ ReadRegister
        BY <3>1, <3>5, ReadSteps
      <3>6. CASE FillWhole \/ FillPart \/ WriteShadow
        BY <3>1, <3>6, WriteSteps
      <3>7. CASE NewFlat
        BY <3>1, <3>7, NewFlatEnters
      <3>8. CASE MoveToFlat
        BY <3>1, <3>8, MoveToFlatLooks
      <3>9. CASE NewInMemory
        BY <3>1, <3>9, NewInMemoryEnters
      <3>10. CASE AppendDisk
        BY <3>1, <3>10, AppendDiskEnters
      <3>11. CASE NewBucket
        BY <3>1, <3>11, NewBucketEnters
      <3> QED BY <3>1, <3>2, <3>3, <3>4, <3>5, <3>6, <3>7, <3>8, <3>9, <3>10, <3>11
              DEF CFileStep, LookupStep, NewStep
    <2> QED BY <1>2, <2>1, <2>2, <2>3, <2>4, <2>5, <2>6, <2>7, <2>8, <2>9, <2>10,
               <2>11, <2>12, <2>13, <2>14, <2>15 DEF Next
  <1> QED BY <1>1, <1>2

\* The contents of a block file are kept by every operation, in every area with
\* one limited directory at most: bf_read2, bf_write2, bf_open, bf_close,
\* bf_commitExec, bf_commitClean, bf_reset and whatever a kill leaves.
THEOREM ContentsInvariance ==
    ASSUME AreasAssumption
    PROVE  Spec => [](IInv /\ CInv)
  <1>1. Init => IInv /\ CInv
    BY InitIInv, InitCInv
  <1>2. IInv /\ CInv /\ [Next]_vars => (IInv /\ CInv)'
    BY NextIInv, NextCInv
  <1> QED BY <1>1, <1>2, PTL DEF Spec

-----------------------------------------------------------------------------
\* What follows from it.

\* Whatever bf_read2 returns is what was last written to each unit, whether the
\* memory, the chains, the flat index or the register has it; a reader of the
\* register gets what the last commit left.
THEOREM ReadsBackAlways ==
    ASSUME AreasAssumption
    PROVE  Spec => []ReadsBack
  <1>1. IInv /\ CInv => ReadsBack
    BY DEF CInv
  <1> QED BY <1>1, ContentsInvariance, PTL

\* A commit that has finished leaves everything in the register, also for a
\* process that opens it anew: bf_commitExec, mf_init, mf_open.
THEOREM CommitsAllAlways ==
    ASSUME AreasAssumption
    PROVE  Spec => []CommitsAll
  <1>1. ASSUME CInv PROVE CommitsAll
    <2>1. Register(rmf) /\ base \in [BlockNos -> Wish]
      BY <1>1 DEF CInv, DataOK
    <2>2. PICK m : m = MfInit(rmf)
      OBVIOUS
    <2>3. Register(m) /\ Spares(rmf, m)
      BY <2>1, <2>2, InitIs, SparesAlike
    <2>4. Register(MfOpen(m)) /\ Spares(m, MfOpen(m))
      BY <2>3, OpenIs, SparesAlike
    <2>5. ~committing => Holds(rmf, base)
      BY <1>1 DEF CInv, BaseRight
    <2>6. ~committing => Holds(m, base)
      BY <2>1, <2>3, <2>5, HoldsKept
    <2>7. ~committing => Holds(MfOpen(m), base)
      BY <2>1, <2>4, <2>6, HoldsKept
    <2> QED BY <2>2, <2>5, <2>7 DEF CommitsAll
  <1>2. IInv /\ CInv => CommitsAll
    BY <1>1
  <1> QED BY <1>2, ContentsInvariance, PTL

\* The positions of blocks in part files are those that a new process computes:
\* mf_write, mf_init, mf_open.
THEOREM PositionsKeptAlways ==
    ASSUME AreasAssumption
    PROVE  Spec => []PositionsKept
  <1>1. ASSUME CInv PROVE PositionsKept
    <2>1. Register(rmf)
      BY <1>1 DEF CInv
    <2>2. MfInit(rmf).parts = rmf.parts
      BY <2>1, InitIs
    <2>3. PICK parts : parts = rmf.parts
      OBVIOUS
    <2>4. /\ parts \in Seq(Part) /\ Len(parts) \in 1..2
          /\ Len(parts) = 2 => parts[1].top = parts[1].blocks - 1
      BY <2>1, <2>3 DEF Register
    <2>5. \A i \in 1..Len(parts) - 1 : i = 1 /\ Len(parts) = 2
      <3>1. PICK n : n = Len(parts)
        OBVIOUS
      <3>2. n \in 1..2
        BY <2>4, <3>1
      <3>3. \A i \in 1..n - 1 : i = 1 /\ n = 2
        BY ONLY <3>2
      <3> QED BY <3>1, <3>3
    <2>6. BlocksBefore(parts, 2) = parts[1].blocks
      BY <2>4, BeforeSecond
    <2>7. ASSUME NEW i \in 1..Len(parts) - 1
          PROVE  parts[i].top = BlocksBefore(parts, i + 1) - 1
      <3>1. i = 1 /\ i + 1 = 2 /\ Len(parts) = 2
        BY <2>5
      <3> QED BY <2>4, <2>6, <3>1, Zenon
    <2> QED BY <2>2, <2>3, <2>7 DEF PositionsKept
  <1>2. IInv /\ CInv => PositionsKept
    BY <1>1
  <1> QED BY <1>2, ContentsInvariance, PTL

\* What is in memory, on disk and under way has its type; the buckets in memory
\* are never more than there is room for, and each is there once: alloc_bucket.
THEOREM TypeOKAlways ==
    ASSUME AreasAssumption
    PROVE  Spec => []TypeOK
  <1>1. ASSUME IInv, CInv PROVE TypeOK
    <2>1. mode \in Modes /\ pc \in Pcs /\ dirty \in BOOLEAN
          /\ head.state \in 1..2 /\ saved.head.state \in 0..2
      BY <1>1, Zenon DEF IInv, Typed
    <2>2. committing \in BOOLEAN
      BY <1>1, Zenon DEF CInv, ModeInv
    <2>3. /\ Len(mem) <= MaxInMemory
          /\ \A i, j \in 1..Len(mem) : mem[i].this = mem[j].this => i = j
      BY <1>1 DEF IInv, MemInv, Once, CInv, MemFits
    <2>4. rmf.cur \in 1..Len(rmf.parts)
      BY <1>1 DEF CInv, Register
    <2>5. Content \subseteq Block /\ Wish \subseteq Block
      BY DEF Content, Datum, Block, Unit, Wish
    <2>6. /\ blocks \in [DOMAIN blocks -> Content] /\ iobuf \in Content
          /\ exp \in [BlockNos -> Wish] /\ base \in [BlockNos -> Wish]
      BY <1>1 DEF CInv, DataOK
    <2>7. Range(blocks) \subseteq Block
      BY <2>5, <2>6 DEF Range
    <2>8. exp \in [BlockNos -> Block] /\ base \in [BlockNos -> Block]
      BY <2>5, <2>6
    <2> QED BY <2>1, <2>2, <2>3, <2>4, <2>5, <2>6, <2>7, <2>8 DEF TypeOK
  <1>2. IInv /\ CInv => TypeOK
    BY <1>1
  <1> QED BY <1>2, ContentsInvariance, PTL
=============================================================================
