----------------------------- MODULE RpnScan -----------------------------
(***************************************************************************)
(* Scan: the words around a term in the indexes of several databases, with *)
(* the number of records each is in (rpnscan.c).  The words of each index  *)
(* are found one after another by dict_scan (Dict shows that it returns    *)
(* the words next to one); the nearest word of all indexes is saved and    *)
(* the indexes that had it go on to their next word.                       *)
(***************************************************************************)
EXTENDS RpnSearch

CONSTANTS
    ScanAsks,   \* the scans: [apt, bases, position, num, set], set "-" for none
    MaxOrds     \* RPN_MAX_ORDS

VARIABLES
    scanAsk,    \* the scan that was made, or <<>>
    scanGot     \* what came of it: [ok, err, position, list, partial]

scanVars == <<scanAsk, scanGot>>

UnsuppAttrType == 113
TooManyDatabases == 111

\* The words before a word of the dictionary, and dict_scan: the n-th word from it on,
\* or for n = 0 the one before it.  A word of another index ends the scan.
RankOf(word) == Cardinality({i \in DOMAIN rpnReg : WordLess(rpnReg[i].word, word)})
ScanHandle2(a, i) ==
    IF i \notin DOMAIN rpnReg \/ ~IsPrefix(a.prefix, rpnReg[i].word) THEN a
    ELSE [a EXCEPT !.list = rpnReg[i].list,
                   !.term = SubSeq(rpnReg[i].word, Len(a.prefix) + 1, Len(rpnReg[i].word))]
DictScan(a, n) == IF a.list # <<>> THEN a ELSE ScanHandle2(a, RankOf(a.prefix \o a.term) + n)

\* The term as it is in the index: spaces count once, and not at the ends.
AddScanChar(x, c) ==
    IF IsSpace(c) THEN [x EXCEPT !.sp = TRUE]
    ELSE [out |-> x.out \o (IF x.sp /\ x.out # <<>> THEN <<ChrSpace>> ELSE <<>>) \o <<ZMap[c].to>>,
          sp |-> FALSE]
TransScanTerm(s) == FoldLeft(AddScanChar, [out |-> <<>>, sp |-> FALSE], s).out

\* The words that the indexes are at: an entry of an index has the list of its word,
\* <<>> when it is to go on.
EntriesAt(ords, term) ==
    [i \in DOMAIN ords |-> [prefix |-> SuEncode(ords[i]), term |-> term, list |-> <<>>]]
HasTerm(a, term) == a.list # <<>> /\ a.term = term
TakenOnce(ar, term) ==      \* only the first index that had the word goes on
    LET first == CHOOSE i \in DOMAIN ar : HasTerm(ar[i], term) /\ \A j \in 1..i - 1 : ~HasTerm(ar[j], term)
    IN  [ar EXCEPT ![first].list = <<>>]
Taken(ar, term) == [i \in DOMAIN ar |-> IF HasTerm(ar[i], term) THEN [ar[i] EXCEPT !.list = <<>>] ELSE ar[i]]
AddSet(t, list) == IF t = <<>> THEN <<IsamSet(list, 0)>> ELSE <<RsBase("or", <<t[1], IsamSet(list, 0)>>, 2)>>
\* The records of a word are those of all indexes that have it; a mark is no word.
SetOf(ar, term) ==
    IF term = FirstInField THEN <<>>
    ELSE FoldLeft(LAMBDA t, a : IF HasTerm(a, term) THEN AddSet(t, a.list) ELSE t, <<>>, ar)
Limit(t, set) == IF set = "-" THEN t ELSE RsBase("and", <<t, IsamSet(RpnRefs[set], 0)>>, 2)
CountSet(t) == Cardinality({h[1] : h \in RsMeaning(t, FALSE, FALSE)})

\* scan_save_set: the entry at pos, if it is one of the list; a word in no record
\* is overwritten by the next.
Saved(x, term, count, step) ==
    [x EXCEPT !.ar = Taken(@, term),
              !.glist = IF x.pos \in DOMAIN @ THEN [@ EXCEPT ![x.pos] = [term |-> term, count |-> count]] ELSE @,
              !.pos = IF count > 0 THEN @ + step ELSE @]
SaveSet(x, term, set, step, t) ==
    IF t = <<>> THEN [x EXCEPT !.ar = Taken(@, term)] ELSE Saved(x, term, CountSet(Limit(t[1], set)), step)
SaveTerm(x, term, set, step) == SaveSet(x, term, set, step, SetOf(x.ar, term))

\* The terms before the position, from the last one on (step -1), then those from
\* the term itself on (step 1, n words further in an index).
AtWords(ar) == {ar[i].term : i \in {j \in DOMAIN ar : ar[j].list # <<>>}}
Nearest(terms, step) ==
    CHOOSE t \in terms : \A u \in terms : u = t \/ (IF step = 1 THEN WordLess(t, u) ELSE WordLess(u, t))
RECURSIVE ScanRounds(_, _, _, _)
ScanRound(x, set, step, n) ==
    IF AtWords(x.ar) = {} THEN x
    ELSE ScanRounds(SaveTerm(x, Nearest(AtWords(x.ar), step), set, step), set, step, IF n = 0 THEN 0 ELSE 2)
Scanned(x, n) == [x EXCEPT !.ar = [i \in DOMAIN x.ar |-> DictScan(x.ar[i], n)]]
ScanRounds(x, set, step, n) ==
    IF (step = -1 /\ x.pos < 0) \/ (step = 1 /\ x.pos >= x.num) THEN x
    ELSE ScanRound(Scanned(x, n), set, step, n)

\* Fewer terms before it than asked for: the list begins later.
Shifted(x, dif) ==
    IF dif <= 0 THEN x
    ELSE [x EXCEPT !.partial = TRUE, !.position = @ - dif, !.num = IF dif < @ THEN @ - dif ELSE 0,
                   !.glist = IF dif < x.num THEN [i \in 0..x.num - dif - 1 |-> @[i + dif]] ELSE @]
CutList(x) ==
    IF x.pos >= x.num THEN x
    ELSE [x EXCEPT !.num = IF x.pos >= 0 THEN x.pos ELSE 0, !.partial = TRUE]
After(x, ords, term, set) ==
    CutList(ScanRounds([x EXCEPT !.ar = EntriesAt(ords, term), !.pos = x.position - 1], set, 1, 1))
Turned(x, ords, term, set) == After(Shifted(x, 1 + x.pos), ords, term, set)
ScanNorm(ask, ords, term) ==
    Turned(ScanRounds([ar |-> EntriesAt(ords, term), glist |-> [i \in 0..ask.num - 1 |-> <<>>],
                       pos |-> ask.position - 2, num |-> ask.num, position |-> ask.position,
                       partial |-> FALSE], ask.set, -1, 0),
           ords, term, ask.set)

NotScanned(ask, err) == [ok |-> FALSE, err |-> err, position |-> ask.position, list |-> <<>>, partial |-> FALSE]
ScanDone(x, err) ==
    [ok |-> TRUE, err |-> err, position |-> x.position, list |-> [i \in 1..x.num |-> x.glist[i - 1]],
     partial |-> x.partial]
KnownStructures == {-1, 1, 2, 3, 4, 5, 6, 104, 105, 106, 107, 108, 109}
\* The indexes of the databases; one that has none only leaves its diagnostic.
AddOrd(r, apt, base) ==
    CASE r.stop -> r
      [] ~r.stop /\ base \notin RpnBases -> [r EXCEPT !.stop = TRUE, !.err = NoDatabase]
      [] OTHER -> (LET o == AptOrd([db |-> base], apt, IndexType(apt), "")
                   IN  IF o.err # 0 THEN [r EXCEPT !.err = o.err] ELSE [r EXCEPT !.ords = Append(@, o.ord)])
OrdsOf(ask) ==
    FoldLeft(LAMBDA r, b : AddOrd(r, ask.apt, b), [ords |-> <<>>, err |-> 0, stop |-> FALSE], ask.bases)
ScanOrds(ask, r) ==
    CASE r.stop \/ r.ords = <<>> -> NotScanned(ask, r.err)
      [] ~r.stop /\ r.ords # <<>> /\ ask.num < 1 ->
            [NotScanned(ask, r.err) EXCEPT !.ok = TRUE]
      [] OTHER -> ScanDone(ScanNorm(ask, r.ords, TransScanTerm(ask.apt.s)), r.err)
Scan(ask) ==
    IF ask.set # "-" /\ ask.set \notin DOMAIN RpnRefs THEN NotScanned(ask, NoSuchSet)
    ELSE IF ask.apt.str \notin KnownStructures THEN NotScanned(ask, UnsuppAttrType)
    ELSE IF Len(ask.bases) > MaxOrds THEN NotScanned(ask, TooManyDatabases)
    ELSE ScanOrds(ask, OrdsOf(ask))

ScanInit == scanAsk = <<>> /\ scanGot = [ok |-> FALSE, err |-> 0, position |-> 0, list |-> <<>>, partial |-> FALSE]
RpnScanStep(ask) == scanAsk' = <<ask>> /\ scanGot' = Scan(ask) /\ UNCHANGED rpnVars
ScanNext ==
    \/ RpnOpen /\ UNCHANGED scanVars
    \/ rpnReg # <<>> /\ scanAsk = <<>> /\ \E ask \in ScanAsks : RpnScanStep(ask)

(***************************************************************************)
(* What a scan promises.  The words of the title in the records of the     *)
(* databases, each with the number of those records that have it and are   *)
(* in the set.                                                             *)
(***************************************************************************)
WithWord(ask, w) ==
    {r.sysno : r \in {r \in RpnRecords :
        /\ r.db \in Range(ask.bases) /\ w \in Range(r.fields.title)
        /\ ask.set # "-" => \E k \in Range(RpnRefs[ask.set]) : k[1] = r.sysno}}
ScanWords(ask) == {w \in UNION {Range(r.fields.title) : r \in RpnRecords} : WithWord(ask, w) # {}}
WordsUnder(ask, w) == Cardinality({v \in ScanWords(ask) : WordLess(v, w)})
\* The word in place n of the list that is asked for: the term, or the word after
\* it, is in place position.
InPlace(ask, w, n) == WordsUnder(ask, w) - WordsUnder(ask, ask.start) = n - ask.position
Places(ask) == {n \in 1..ask.num : \E w \in ScanWords(ask) : InPlace(ask, w, n)}
\* Places before the first word of all are left out, and so the others move up.
Missing(ask) == LET first == ask.position - WordsUnder(ask, ask.start) IN IF first > 1 THEN first - 1 ELSE 0

\* A scan of the words of titles returns those of the places asked for that exist,
\* in order and with the number of records, says whether some do not, and where the
\* term is among them (rpnscan.c).
ScanExact ==
    scanAsk # <<>> =>
      LET ask == scanAsk[1]
          down == IF ask.num >= 1 THEN Missing(ask) ELSE 0
          entry(n) == LET w == CHOOSE w \in ScanWords(ask) : InPlace(ask, w, n)
                      IN  [term |-> w, count |-> Cardinality(WithWord(ask, w))]
      IN  IF ask.err # 0 THEN ~scanGot.ok /\ scanGot.err = ask.err /\ scanGot.list = <<>>
          ELSE /\ scanGot.ok
               /\ scanGot.position = ask.position - down
               /\ scanGot.list = [i \in 1..Cardinality(Places(ask)) |-> entry(i + down)]
               /\ scanGot.partial <=> (Cardinality(Places(ask)) < ask.num) \/ down > 0
=============================================================================
