---------------------------- MODULE MCRegister ----------------------------
(***************************************************************************)
(* The files of a register, and the block files they are made of, each     *)
(* checked under every sequence of calls its callers may make.  They share *)
(* no state (a register opens each over block files of its own, and BFile  *)
(* reads back what was written), so that a behaviour is one of them,       *)
(* chosen at the start.                                                    *)
(***************************************************************************)
EXTENDS MCBFile, Records, Dict, IsamB, IsamC, IsamS, SortIdx, Update, ZInfo

VARIABLE part       \* the part of the register that this behaviour is about

Parts == {"bfile", "records", "dict", "isamb", "isamc", "isams", "sort", "update", "explain"}

registerVars == <<part, vars, recordVars, dictVars, isambVars, iscVars, isamsVars, sortVars, updateVars, zinfoVars>>

RegisterInit ==
    /\ part \in Parts
    /\ Init /\ RecordsInit /\ DictInit /\ IsamBInit /\ IsamCInit
    /\ IsamSInit /\ SortIdxInit /\ UpdateInit /\ ZInfoInit
    /\ part # "dict" => dict = NoDict      \* which of DictFirst matters to that part only,
    /\ part # "bfile" => bucketSize = 1       \* as does which of Setups

RegisterNext ==
    /\ UNCHANGED part
    /\ \/ /\ part = "bfile" /\ Next
          /\ UNCHANGED <<recordVars, dictVars, isambVars, iscVars, isamsVars, sortVars, updateVars, zinfoVars>>
       \/ /\ part = "records" /\ RecordsNext
          /\ UNCHANGED <<vars, dictVars, isambVars, iscVars, isamsVars, sortVars, updateVars, zinfoVars>>
       \/ /\ part = "dict" /\ DictNext
          /\ UNCHANGED <<vars, recordVars, isambVars, iscVars, isamsVars, sortVars, updateVars, zinfoVars>>
       \/ /\ part = "isamb" /\ IsamBNext
          /\ UNCHANGED <<vars, recordVars, dictVars, iscVars, isamsVars, sortVars, updateVars, zinfoVars>>
       \/ /\ part = "isamc" /\ IsamCNext
          /\ UNCHANGED <<vars, recordVars, dictVars, isambVars, isamsVars, sortVars, updateVars, zinfoVars>>
       \/ /\ part = "isams" /\ IsamSNext
          /\ UNCHANGED <<vars, recordVars, dictVars, isambVars, iscVars, sortVars, updateVars, zinfoVars>>
       \/ /\ part = "sort" /\ SortIdxNext
          /\ UNCHANGED <<vars, recordVars, dictVars, isambVars, iscVars, isamsVars, updateVars, zinfoVars>>
       \/ /\ part = "update" /\ UpdateNext
          /\ UNCHANGED <<vars, recordVars, dictVars, isambVars, iscVars, isamsVars, sortVars, zinfoVars>>
       \/ /\ part = "explain" /\ ZInfoNext
          /\ UNCHANGED <<vars, recordVars, dictVars, isambVars, iscVars, isamsVars, sortVars, updateVars>>

RegisterSpec == RegisterInit /\ [][RegisterNext]_registerVars

\* Lists of both older formats read back (isamc/merge.c rewrites only the blocks
\* that changed; isams.c writes a list once, over the ends of blocks).
OlderLists == part \in {"isamc", "isams"} => IscExact /\ SListsReadBack

(***************************************************************************)
(* Constants.                                                              *)
(***************************************************************************)
Sorted123(s) ==
    [i \in 1..Cardinality(s) |-> CHOOSE x \in s : Cardinality({y \in s : y < x}) = i - 1]

\* Records: a small record and one that fills several blocks.
MCInfos == {<< <<8>>, <<>> >>, << <<8>>, <<9, 9, 9>> >>}
MCRoom == (0 :> 3) @@ (1 :> 6)

\* Dictionary: strings that are prefixes of others, in pages that a few fill, and
\* a tree of three levels, deeper than the cache.
MCStrings == {<<1>>, <<1, 1>>, <<1, 1, 1>>, <<1, 1, 2>>, <<1, 2, 1>>, <<2>>, <<2, 1>>}
MCPrefixes == {<<1, 1>>}
MCPairs == {<< <<1>>, <<7>> >>, << <<1>>, <<8, 8>> >>, << <<1, 1>>, <<7>> >>,
            << <<1, 1, 1>>, <<7>> >>, << <<2>>, <<7>> >>}
MCThree == <<<<1>>, <<1, 1, 1>>, <<1, 2, 1>>, <<1, 1, 2>>, <<1, 1>>, <<2>>, <<2, 1>>>>
MCDictFirst == {<<>>, [i \in DOMAIN MCThree |-> <<MCThree[i], <<7>>>>]}

\* Isam B: runs that append, interleave, delete, replace and mix, over lists that
\* are split into several leaves and levels.
Key(n, v) == <<n \div 3, n % 3, v>>
Run(s, m(_), v) ==
    LET q == Sorted123(s) IN [i \in DOMAIN q |-> [item |-> Key(q[i], v), mode |-> m(q[i])]]
MCRuns ==
    {Run(f, LAMBDA n : m, m) : m \in 0..2,
        f \in {1..6, 7..36, {n \in 1..36 : n % 2 = 1}, {n \in 1..36 : n % 3 = 0}, {17}}}
      \union {Run(1..36, LAMBDA n : IF n % 3 = 0 THEN 0 ELSE 1, 1)}
MCProbes == {Key(1, 0), Key(8, 0), Key(20, 0), Key(33, 0)}
MCMaxes == <<3, 12>>

\* Isam C: the same for numbers.
IscRun(s, m(_)) ==
    LET q == Sorted123(s) IN [i \in DOMAIN q |-> [item |-> q[i], mode |-> m(q[i])]]
MCIscRuns ==
    {IscRun(f, LAMBDA n : m) : m \in 0..1,
        f \in {1..3, 4..16, {n \in 1..16 : n % 2 = 1}, {6}, {9, 10}, 1..12, {n \in 1..16 : n % 3 = 0}}}
      \union {<<[item |-> 6, mode |-> 0], [item |-> 6, mode |-> 1], [item |-> 9, mode |-> 0]>>,
              IscRun(1..16, LAMBDA n : IF n \in {2, 3, 7} THEN 0 ELSE 1)}
MCFileCat == <<[bsize |-> 5, ifill |-> 4, mfill |-> 1, mblocks |-> 2],
               [bsize |-> 8, ifill |-> 6, mfill |-> 2, mblocks |-> 0]>>

\* Isam S: lists that end in a block, at its end and over several.
MCSLists == {<<>>, <<1>>, <<2, 1, 2>>, <<2, 3, 2, 1, 2, 2>>, <<3, 3, 3, 3>>}

\* Sort index: one key, a long one, two sections, two indexes.
SortKey(o, s, t) == [ord |-> o, section |-> s, term |-> t]
MCSortKeys ==
    {<<SortKey(1, 0, <<1>>), SortKey(2, 0, <<2>>), SortKey(1, 0, <<3>>)>>,
     <<SortKey(1, 0, <<1, 2, 3>>)>>,
     <<SortKey(1, 1, <<2, 2>>), SortKey(1, 2, <<3>>)>>}

\* Update: a tree of files with a directory in another, and documents that repeat
\* a key, change their rank, are stored by the filter or skipped by it.
UpdKey(o, t, s) == [ord |-> o, term |-> t, seq |-> s]
Doc(keys, id, rank) ==
    [NoDoc EXCEPT !.out = "ok", !.keys = keys, !.id = id, !.rank = rank, !.size = 2,
                  !.sort = IF rank = 0 THEN <<>> ELSE <<id>>]
DocA == Doc(<<UpdKey(1, 1, 1), UpdKey(1, 2, 2), UpdKey(1, 1, 1)>>, 1, 0)
DocB == Doc(<<UpdKey(1, 2, 2), UpdKey(2, 1, 1)>>, 1, 1)
DocC == [Doc(<<UpdKey(1, 1, 1), UpdKey(1, 2, 2)>>, 1, 1) EXCEPT !.stored = 5]
Skipped == [NoDoc EXCEPT !.out = "skip"]
MCContents == {<<DocB>>, <<DocC, Skipped, Doc(<<UpdKey(1, 1, 1)>>, 0, 0)>>, <<>>}
MCFilePaths == {<<3>>, <<4>>, <<4, 2, 5>>}
MCFirstFiles == [p \in {<<3>>, <<4, 1>>, <<4, 2, 3>>, <<4, 2, 4>>, <<5>>} |-> <<DocA>>]
MCDirPaths == {<<4, 2>>}
MCUnknown == {<<4, 1>>}
MCBadTypes == {<<4>>}

\* Explain: documents with indexes in common, and keys of the explain records.
MCXDocs == {[keys |-> <<"t", "t">>, schema |-> "s1", size |-> 2, recordSize |-> 2],
            [keys |-> <<"t", "a">>, schema |-> "s2", size |-> 2, recordSize |-> 5]}
MCExplainKeys ==
    [k \in ExplainKinds |-> CASE k = "details" -> <<"n", "d">>
                              [] k = "database" -> <<"n", "n">>
                              [] OTHER -> <<k>>]
=============================================================================
