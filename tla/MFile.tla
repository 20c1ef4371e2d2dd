------------------------------- MODULE MFile -------------------------------
(***************************************************************************)
(* A metafile (mfile.c): an array of blocks stored as part files in the    *)
(* directories of an area, each directory with a maximum size.  The state  *)
(* of a metafile is a value                                                *)
(*   [dirs, parts |-> sequence of [dir, blocks, top, disk], avail, cur]    *)
(* where dirs has the maximum size of each directory of the area, -1 for   *)
(* no limit, avail what is left in each, and disk what a part file holds.  *)
(*  Sizes are in units: a unit is  *)
(* the smallest piece of a block that is written by itself.  Parts and     *)
(* directories are numbered from 1, blocks and units within them from 0.   *)
(***************************************************************************)
EXTENDS Integers, Sequences, SequencesExt, FiniteSetsExt

CONSTANT BlockSize   \* units in a block

ASSUME MFileAssumption == BlockSize \in Nat \ {0}

Hole == 0     \* a unit that nobody wrote
Dummy == -1   \* the byte 0xff that mf_write caps a part file with
Short == -2   \* a unit beyond the end of a part file

Limited(mf, d) == mf.dirs[d] >= 0

\* The first directory with room for a number of units, or 0.
RoomFor(mf, units) ==
    LET fits == {d \in 1..Len(mf.dirs) :
                    ~Limited(mf, d) \/ mf.avail[d] >= units}
    IN  IF fits = {} THEN 0 ELSE Min(fits)

NewPart(d) == [dir |-> d, blocks |-> 0, top |-> -1, disk |-> <<>>]

\* mf_open of a file that does not exist.
NewMFile(dirs) ==
    LET mf == [dirs |-> dirs, avail |-> dirs, cur |-> 1, parts |-> <<>>]
    IN  [mf EXCEPT !.parts = <<NewPart(RoomFor(mf, BlockSize))>>]

\* Blocks of the parts before part c.
BlocksBefore(parts, c) ==
    FoldLeft(LAMBDA n, p : n + p.blocks, 0, SubSeq(parts, 1, c - 1))

\* mf_init by a new process: sizes come from the part files, and a last block
\* that is not whole counts (a variant forgets it).
RoundDown(units) == units \div BlockSize
RoundUp(units) == (units + BlockSize - 1) \div BlockSize
MfInit(mf) ==
    LET used(d) == FoldLeft(LAMBDA n, p : IF p.dir = d THEN n + Len(p.disk) ELSE n,
                            0, mf.parts)
    IN  [mf EXCEPT
           !.parts = [i \in 1..Len(@) |->
                         [@[i] EXCEPT !.blocks = RoundUp(Len(mf.parts[i].disk))]],
           !.avail = [d \in 1..Len(mf.dirs) |->
                         IF Limited(mf, d) THEN mf.dirs[d] - used(d) ELSE @[d]]]

\* mf_open of a file that exists; the last part has no top.
MfOpen(mf) ==
    [mf EXCEPT
       !.cur = 1,
       !.parts = [i \in 1..Len(@) |->
                     [@[i] EXCEPT !.top = IF i = Len(mf.parts) THEN -1
                                          ELSE BlocksBefore(mf.parts, i + 1) - 1]]]

-----------------------------------------------------------------------------
\* file_position: the part that has block pos, and the place of pos in it.
\* The current part is kept when pos lies in it; the last part has no end.
FilePosition(mf, pos) ==
    LET c == mf.cur
        n == Len(mf.parts)
        elsewhere == \/ c > 1 /\ pos <= mf.parts[c - 1].top
                     \/ c < n /\ pos > mf.parts[c].top
        part == Min({i \in 1..n : i = n \/ mf.parts[i].top >= pos})
    IN  IF elsewhere
        THEN [cur |-> part, ps |-> pos - BlocksBefore(mf.parts, part)]
        ELSE [cur |-> c, ps |-> IF c > 1 THEN pos - mf.parts[c - 1].top - 1 ELSE pos]

\* lseek and write: a gap before the units reads as zero.
Put(disk, at, units) ==
    [i \in 1..Max({Len(disk), at + Len(units)}) |->
        IF i > at /\ i <= at + Len(units) THEN units[i - at]
        ELSE IF i <= Len(disk) THEN disk[i] ELSE Hole]

\* The units off, ..., off + n - 1 of block no, as mf_read delivers them.
MfRead(mf, no, off, n) ==
    LET at == FilePosition(mf, no)
        disk == mf.parts[at.cur].disk
    IN  [i \in 1..n |-> IF at.ps * BlockSize + off + i <= Len(disk)
                        THEN disk[at.ps * BlockSize + off + i] ELSE Short]

-----------------------------------------------------------------------------
\* mf_write.  The loop "while (ps >= blocks)" works on [mf, ps, ok].

\* The part has room in its directory.
Extend(w) ==
    LET p == w.mf.parts[w.mf.cur]
        more == w.ps - p.blocks + 1
    IN  [w EXCEPT !.mf.parts[w.mf.cur].blocks = @ + more,
                  !.mf.avail[p.dir] = IF Limited(w.mf, p.dir)
                                      THEN @ - more * BlockSize ELSE @]

\* Where the part is capped off: its last block, if it is the first part.
CapAt(mf, nblocks) ==
    (IF mf.cur > 1 THEN mf.parts[mf.cur - 1].top ELSE 0)
        + mf.parts[mf.cur].blocks + nblocks - 1

\* The rest of the directory is given to the part, by a dummy byte at its end.
Capped(mf, nblocks, at) ==
    [mf EXCEPT !.cur = at.cur,
               !.parts[at.cur].disk = Put(@, at.ps * BlockSize, <<Dummy>>),
               !.parts[at.cur].blocks = @ + nblocks,
               !.avail[mf.parts[at.cur].dir] = @ - nblocks * BlockSize]
CapOff(mf) ==
    LET nblocks == mf.avail[mf.parts[mf.cur].dir] \div BlockSize
    IN  IF nblocks <= 0 THEN mf
        ELSE Capped(mf, nblocks, FilePosition(mf, CapAt(mf, nblocks)))

\* The current part is closed and a part in directory dp added.
AddPart(mf, dp) ==
    LET c == mf.cur
        before == IF c > 1 THEN mf.parts[c - 1].top ELSE -1
        closed == [mf.parts[c] EXCEPT !.top = before + mf.parts[c].blocks]
    IN  [mf EXCEPT !.parts = SubSeq(@, 1, c - 1) \o <<closed, NewPart(dp)>>,
                   !.cur = c + 1]

Positioned(w, mf, at) == [w EXCEPT !.mf = [mf EXCEPT !.cur = at.cur], !.ps = at.ps]

\* A new part in the next directory with room; "no more space" if none.
OverflowTo(w, no, mf, dp) ==
    IF dp = 0 THEN [w EXCEPT !.mf = mf, !.ok = FALSE]
    ELSE LET grown == AddPart(mf, dp)
         IN  Positioned(w, grown, FilePosition(grown, no))
Overflow(w, no, needed) ==
    LET mf == CapOff(w.mf) IN OverflowTo(w, no, mf, RoomFor(mf, needed))

GrowStep(w, no) ==
    LET p == w.mf.parts[w.mf.cur]
        needed == (w.ps - p.blocks + 1) * BlockSize
    IN  IF ~w.ok \/ w.ps < p.blocks THEN w
        ELSE IF Limited(w.mf, p.dir) /\ needed > w.mf.avail[p.dir]
             THEN Overflow(w, no, needed)
             ELSE Extend(w)

\* Each round of the loop but the last adds a part.  The result is the file
\* and whether there was room.
WriteUnits(w, off, units) ==
    IF w.ok THEN [w EXCEPT !.mf.parts[w.mf.cur].disk =
                               Put(@, w.ps * BlockSize + off, units)]
    ELSE w
MfWrite(mf, no, off, units) ==
    LET start == Positioned([mf |-> mf, ps |-> 0, ok |-> TRUE], mf,
                            FilePosition(mf, no))
        grown == FoldLeft(LAMBDA w, i : GrowStep(w, no), start,
                          [i \in 1..Len(mf.dirs) + 1 |-> i])
    IN  WriteUnits(grown, off, units)
=============================================================================
