------------------------------ MODULE MCQuery ------------------------------
(***************************************************************************)
(* The parts of a search, each checked by itself, as in MCRegister.        *)
(***************************************************************************)
EXTENDS MCRpn, ZSets, MCText, MCRegx

VARIABLE part       \* the part that this behaviour is about

Parts == {"rset", "temp", "zsets", "grep", "rpn", "scan", "text", "fetch", "regx"}

queryVars == <<part, rsVars, tempVars, zsetVars, grepVars, rpnVars, scanVars, tkVars, rtVars, rgVars>>

\* Only the part about text varies its .idx file.
TextInit == IF part = "text" THEN TkInit ELSE tkIdx = <<>> /\ TkIdle
QueryInit == part \in Parts /\ RSetsInit /\ TempInit /\ ZSetsInit /\ GrepInit /\ RpnInit /\ ScanInit /\ TextInit /\ RtInit /\ RgInit

QueryNext ==
    /\ UNCHANGED part
    /\ \/ part = "rset" /\ RSetsNext /\ UNCHANGED <<tempVars, zsetVars, grepVars, rpnVars, scanVars, tkVars, rtVars, rgVars>>
       \/ part = "temp" /\ TempNext /\ UNCHANGED <<rsVars, zsetVars, grepVars, rpnVars, scanVars, tkVars, rtVars, rgVars>>
       \/ part = "zsets" /\ ZSetsNext /\ UNCHANGED <<rsVars, tempVars, grepVars, rpnVars, scanVars, tkVars, rtVars, rgVars>>
       \/ part = "grep" /\ GrepNext /\ UNCHANGED <<rsVars, tempVars, zsetVars, rpnVars, scanVars, tkVars, rtVars, rgVars>>
       \/ part = "rpn" /\ RpnNext /\ UNCHANGED <<rsVars, tempVars, zsetVars, grepVars, scanVars, tkVars, rtVars, rgVars>>
       \/ part = "scan" /\ ScanNext /\ UNCHANGED <<rsVars, tempVars, zsetVars, grepVars, tkVars, rtVars, rgVars>>
       \/ part = "text" /\ TkNext /\ UNCHANGED <<rsVars, tempVars, zsetVars, grepVars, rpnVars, scanVars, rtVars, rgVars>>
       \/ part = "fetch" /\ RtNext /\ UNCHANGED <<rsVars, tempVars, zsetVars, grepVars, rpnVars, scanVars, tkVars, rgVars>>
       \/ part = "regx" /\ RgNext /\ UNCHANGED <<rsVars, tempVars, zsetVars, grepVars, rpnVars, scanVars, tkVars, rtVars>>

QuerySpec == QueryInit /\ [][QueryNext]_queryVars

\* Searches alone, for the run less_than.
SearchSpec == QueryInit /\ part = "rpn" /\ [][QueryNext]_queryVars

\* Result sets and temporary sets read what they stand for (rset.c, trunc.c).
SetsExact == ResultSetsExact /\ TempExact

\* Records are cut out of files and their text becomes words as the filter and the
\* character maps say, in each pass and at each place of a window (mod_grs_regx.c,
\* extract.c, charmap.c).
RecordsRead == TextExact /\ RegxExact

(***************************************************************************)
(* Constants.                                                              *)
(***************************************************************************)
\* Result sets: pairs of lists with and without forward and limits, sets over
\* sets, and the kinds of proximity; keys that share records, sections, numbers.
Isam(list, term, limit, fwd) ==
    [RsBase("isam", <<>>, 2) EXCEPT !.list = list, !.term = term, !.limit = limit, !.fwd = fwd]
Node(op, kids, limit) == [RsBase(op, kids, 2) EXCEPT !.limit = limit]
ListA == << <<1, 0, 1>>, <<1, 0, 2>>, <<3, 0, 1>> >>
ListB == << <<1, 0, 2>>, <<2, 0, 1>>, <<3, 0, 2>>, <<4, 0, 1>> >>
ListC == << <<2, 0, 1>>, <<2, 0, 3>>, <<3, 1, 1>> >>
ListD == << <<1, 0, 3>>, <<2, 0, 2>>, <<3, 0, 4>>, <<4, 0, 2>> >>
Plain == {Isam(l, 1, 0, TRUE) : l \in {ListA, ListB, ListC, ListD, <<>>}}
Few == {Isam(l, 1, 0, TRUE) : l \in {ListB, ListC}}
Limited == {Isam(l, 1, n, f) : l \in {ListB, ListC, ListD}, n \in {0, 2}, f \in BOOLEAN}
Over(ops, n) == {Node(o, <<a, b>>, n) : o \in ops, a \in Plain, b \in Few}
Pairs == {Node(op, <<a, b>>, 2) : op \in {"and", "or", "not", "prox"}, a \in Limited, b \in Plain}
Deep == UNION {
    {Node(op, <<x, a, b>>, 0) : op \in {"and", "or"}, x \in Over({"and", "or", "not"}, 1), a \in Plain, b \in Few},
    {Node("not", <<a, x>>, 0) : x \in Over({"and", "or", "not", "prox"}, 1), a \in Plain},
    {Node("prox", <<x, a>>, 0) : x \in Over({"or"}, 0), a \in Plain}}
Near == {[Node("prox", <<a, b>>, 0) EXCEPT !.ordered = o, !.exclusion = e, !.relation = r] :
            o \in BOOLEAN, e \in BOOLEAN, r \in {1, 2, 4, 5, 6}, a \in Plain, b \in Few}
\* Words two apart, and three words: a phrase, and near each other.
ListBD == << <<1, 0, 2>>, <<1, 0, 3>>, <<2, 0, 1>>, <<2, 0, 2>>, <<3, 0, 2>>, <<3, 0, 4>>, <<4, 0, 2>> >>
ListE == << <<1, 0, 4>>, <<1, 0, 5>>, <<3, 0, 3>>, <<3, 0, 6>> >>
WordLists == {Isam(l, 1, 0, TRUE) : l \in {ListA, ListC, ListD, ListE, ListBD}}
Far == {[Node("prox", <<a, b>>, 0) EXCEPT !.ordered = o, !.exclusion = e, !.relation = r, !.distance = 2] :
            o \in BOOLEAN, e \in BOOLEAN, r \in 1..6, a \in WordLists, b \in WordLists}
Three == {[Node("prox", <<a, b, c>>, 0) EXCEPT !.relation = d[1], !.distance = d[2]] :
            a \in WordLists, b \in WordLists, c \in WordLists, d \in {<<3, 1>>, <<3, 2>>, <<2, 2>>, <<1, 3>>}}
\* Any of these below other operators.
BelowOps(t) == {Node(op, <<x, t>>, 0) : op \in {"and", "not"}, x \in Few}
            \cup {Node("not", <<t, x>>, 0) : x \in Few} \cup {Node("or", <<t, x>>, 0) : x \in Few}
\* Keys with segments, of which a list has one in a hit.
Seg(list) == [RsBase("isam", <<>>, 3) EXCEPT !.list = list, !.seg = TRUE]
SegLists == {Seg(<< <<1, 0, 1, 1>>, <<2, 0, 1, 3>>, <<3, 0, 2, 1>> >>),
             Seg(<< <<1, 0, 2, 4>>, <<2, 0, 1, 1>>, <<3, 0, 2, 9>> >>),
             Seg(<< <<2, 0, 1, 2>>, <<3, 0, 1, 2>> >>)}
Segments == {[RsBase("and", <<a, b>>, 3) EXCEPT !.seg = TRUE] : a \in SegLists, b \in SegLists}
\* Elements one after another and one in another, with and without the attribute.
Tags(starts, stops, attrs, one, two) ==
    LET in(ns, term) == Isam([i \in DOMAIN ns |-> <<1, 0, ns[i]>>] \o << <<2, 0, term>> >>, term, 0, TRUE)
    IN  {RsBetween(in(starts, 1), in(stops, 4), in(one, 2), m2, attr, 2) :
            m2 \in {<<>>, <<in(two, 3)>>}, attr \in {<<>>, <<in(attrs, 5)>>}}
Between == UNION {Tags(<<1, 4>>, <<3, 8>>, <<4>>, <<2, 9>>, <<6>>),
                  Tags(<<1, 3>>, <<6, 9>>, <<3>>, <<4>>, <<7>>),
                  Tags(<<1, 3>>, <<6, 9>>, <<1>>, <<8>>, <<4>>)}
\* A limit of the search, which holds for all lists: record 3 is left out.
LeaveOut(t) == [t EXCEPT !.filter = {3}]
ListF == << <<2, 0, 1>>, <<3, 0, 2>>, <<4, 0, 1>> >>
InPart == {Isam(l, 1, 0, TRUE) : l \in {ListA, ListB, ListC, ListF}}
TwoOf(op, a, b) == Node(op, <<LeaveOut(a), LeaveOut(b)>>, 0)
Filtered == {TwoOf(op, a, b) : op \in {"and", "or", "not", "prox"}, a \in InPart, b \in InPart}
            \cup {Node(op, <<LeaveOut(c), TwoOf(p, a, b)>>, 0) : op \in {"and", "not"},
                    p \in {"and", "or", "not", "prox"}, a \in InPart, b \in InPart, c \in InPart}
MCTrees == UNION ({Pairs, Deep, Near, Far, Three, Segments, Between, Filtered}
                  \cup {BelowOps(t) : t \in Between}
                  \cup {BelowOps([Node("prox", <<a, b>>, 0) EXCEPT !.distance = 2]) : a, b \in WordLists})

\* Temporary sets: lists that share keys and hits, more of them than a chunk.
MCLists ==
    {<< <<<<1, 0, 1>>, <<1, 0, 2>>, <<2, 0, 1>>>>, <<<<1, 0, 1>>, <<3, 0, 1>>>>, <<>>,
        <<<<2, 0, 1>>, <<2, 0, 3>>>> >>,
     << <<<<1, 0, 2>>, <<1, 0, 3>>>>, <<<<1, 0, 1>>>> >>}

\* Sets of a session: two lists in two states of the register, a word that is in
\* a record often and one that is not, ranking, sorting, and references.
Key(sys, term, seq) == [sys |-> sys, rank |-> 0, term |-> term, seq |-> seq]
MCZRegisters ==
    << << <<Key(1, 1, 1), Key(1, 1, 5), Key(2, 1, 9), Key(3, 1, 1),
            Key(4, 1, 2), Key(4, 1, 3), Key(4, 1, 4), Key(4, 1, 5)>>,
          <<Key(2, 2, 1), Key(3, 2, 1)>> >>,
       << <<Key(2, 1, 9), Key(3, 1, 1), Key(5, 1, 2)>>,
          <<Key(2, 2, 1), Key(5, 2, 1)>> >> >>
MCZSortKeys == << << {3}, {2, 4}, {}, {3}, {3} >> >>
Ask(term, set, sort) == [term |-> term, set |-> set, sort |-> sort]
MCZQueries ==
    [n \in {"x", "y"} |->
        IF n = "x" THEN {Ask(1, "-", <<>>), Ask(2, "-", <<>>)}
        ELSE {Ask(1, "-", <<[ord |-> 1, rel |-> "D"]>>), Ask(1, "x", <<>>), Ask(0, "x", <<>>)}]
MCZSpecs == {<<[ord |-> 1, rel |-> "A"]>>, <<[ord |-> 2, rel |-> "A"]>>}
MCZRanges == {<<1, 2>>, <<3, 1>>, <<4, 2>>}
=============================================================================
