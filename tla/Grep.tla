------------------------------- MODULE Grep -------------------------------
(***************************************************************************)
(* The words of the dictionary that match a regular expression, with up to *)
(* some number of errors after a prefix that is exact (lookgrep.c).  A     *)
(* page is the sequence of its entries: strings, and characters with a     *)
(* page of their own, as Dict builds them.  The bits of a MatchWord are a  *)
(* set of states.                                                          *)
(***************************************************************************)
EXTENDS Dfa

CONSTANTS
    Cmap,       \* the map of the index, for characters of a pattern
    GrepAsks,   \* the calls: [pattern, range, init, stop]
    GrepPages   \* the root pages of the dictionaries; the first character of a sub
                \* entry is ch, word says whether it ends a word, sub is its page

VARIABLES
    grepAsk,    \* the call that was made, or <<>>
    grepGot     \* its result ret and the words that the function was called with

grepVars == <<grepAsk, grepGot>>

GrepInit == grepAsk = <<>> /\ grepGot = [ret |-> 0, out |-> <<>>]

TransOf(g, set) == UNION {Range(g.dfa.states[s].trans) : s \in set}
MaskShift(g, set, c) == {t.to : t \in {x \in TransOf(g, set) : x.lo <= c /\ c <= x.hi}}
Shift(g, set) == {t.to : t \in TransOf(g, set)}

\* Row d + 1 of rows holds the states that are reached with d errors.  One more
\* character: as it is, another one (2) or one too few in the word (3), or one too
\* many in it (4).
MoveRow(g, rows, new, d, c) ==
    Append(new, Shift(g, rows[d - 1] \cup new[d - 1]) \cup MaskShift(g, rows[d], c) \cup rows[d - 1])
Move(g, rows, c) ==
    FoldLeft(LAMBDA new, d : MoveRow(g, rows, new, d, c), <<MaskShift(g, rows[1], c)>>,
             [i \in 1..g.range |-> i + 1])
FirstRows(g) ==
    FoldLeft(LAMBDA rows, d : Append(rows, Last(rows) \cup Shift(g, Last(rows))),
             <<{g.dfa.start}>>, [i \in 1..g.range |-> i])

\* The row that decides at a position: no error is allowed before init.
RowAt(g, rows, pos) == rows[1 + (IF pos >= g.init THEN g.range ELSE 0)]
Matches(g, set) == \E s \in set : g.dfa.states[s].rule # 0

\* userfunc is called with a word; it stops the search when it has enough.
Call(g, r, word) ==
    LET out == Append(r.out, word) IN [out |-> out, ret |-> IF Len(out) = g.stop THEN 1 ELSE 0]

\* The characters of a string entry, until no state is left.
GrepChar(g, x, c) ==
    IF x.dead THEN x
    ELSE LET rows == Move(g, x.rows, c)
             row == RowAt(g, rows, x.pos)
         IN  [rows |-> rows, pos |-> x.pos + 1, dead |-> row = {}, match |-> Matches(g, row)]
GrepString(g, r, rows, prefix, e) ==
    LET x == FoldLeft(LAMBDA y, c : GrepChar(g, y, c),
                      [rows |-> rows, pos |-> Len(prefix), dead |-> FALSE, match |-> FALSE], e.str)
    IN  IF ~x.dead /\ x.match THEN Call(g, r, prefix \o e.str) ELSE r

RECURSIVE GrepPage(_, _, _, _, _)
Enter(g, r, rows, word, e) == IF r.ret # 0 \/ e.sub = <<>> THEN r ELSE GrepPage(g, r, rows, word, e.sub)
GrepSub(g, r, rows, row, prefix, e) ==
    IF row = {} THEN r
    ELSE Enter(g, IF e.word /\ Matches(g, row) THEN Call(g, r, Append(prefix, e.ch)) ELSE r,
               rows, Append(prefix, e.ch), e)
GrepMove(g, r, rows, prefix, e) == GrepSub(g, r, rows, RowAt(g, rows, Len(prefix)), prefix, e)
GrepEntry(g, r, rows, prefix, e) ==
    CASE r.ret # 0 -> r
      [] r.ret = 0 /\ e.str # <<>> -> GrepString(g, r, rows, prefix, e)
      [] OTHER -> GrepMove(g, r, Move(g, rows, e.ch), prefix, e)
GrepPage(g, r, rows, prefix, page) ==
    FoldLeft(LAMBDA x, e : GrepEntry(g, x, rows, prefix, e), r, page)

\* dict_lookup_grep: "." stands for every character here.
Grepping(g, page) == GrepPage(g, [ret |-> 0, out |-> <<>>], FirstRows(g), <<>>, page)
GrepWith(ask, page, d) ==
    IF ~d.ok \/ d.rest # 0 THEN [ret |-> -1, out |-> <<>>]
    ELSE Grepping([dfa |-> MkState(d.d), range |-> ask.range, init |-> ask.init, stop |-> ask.stop], page)
LookupGrep(ask, page) == GrepWith(ask, page, DfaParse(DfaInit(0..MaxChar, Cmap), ask.pattern))

DictLookupGrep(ask, page) ==
    /\ grepAsk' = <<ask, page>>
    /\ grepGot' = LookupGrep(ask, page)
GrepNext == grepAsk = <<>> /\ \E ask \in GrepAsks, page \in GrepPages : DictLookupGrep(ask, page)

(***************************************************************************)
(* What a search promises.  A call carries the set of words its pattern    *)
(* stands for in lang (up to some length), or ok = FALSE if it is not one. *)
(***************************************************************************)
RECURSIVE WordsOf(_, _)
WordsOf(prefix, page) ==
    FoldLeft(LAMBDA ws, e : ws \o
                 (IF e.str # <<>> THEN <<prefix \o e.str>>
                  ELSE (IF e.word THEN <<Append(prefix, e.ch)>> ELSE <<>>)
                       \o WordsOf(Append(prefix, e.ch), e.sub)),
             <<>>, page)

\* v becomes w with at most n characters changed, left out or put in.
RECURSIVE Within(_, _, _)
Within(v, w, n) ==
    \/ v = w
    \/ v # <<>> /\ w # <<>> /\ Head(v) = Head(w) /\ Within(Tail(v), Tail(w), n)
    \/ n > 0 /\ \/ v # <<>> /\ Within(Tail(v), w, n - 1)
                \/ w # <<>> /\ Within(v, Tail(w), n - 1)
                \/ v # <<>> /\ w # <<>> /\ Within(Tail(v), Tail(w), n - 1)

Wanted(ask, w) ==
    /\ \E v \in ask.lang : Within(v, w, IF Len(w) > ask.init THEN ask.range ELSE 0)
    /\ \E v \in ask.lang : IsPrefix(SubSeq(w, 1, IF Len(w) < ask.init THEN Len(w) ELSE ask.init), v)

\* The search finds the words of the dictionary that are within range of the words
\* the pattern stands for and begin exactly as one of them, each once and in order,
\* until it is stopped; a pattern that is none finds nothing (lookgrep.c, dfa.c).
GrepExact ==
    grepAsk # <<>> =>
        LET ask == grepAsk[1]
            all == SelectSeq(WordsOf(<<>>, grepAsk[2]), LAMBDA w : Wanted(ask, w))
        IN  IF ~ask.ok THEN grepGot = [ret |-> -1, out |-> <<>>]
            ELSE IF Len(all) >= ask.stop THEN grepGot = [ret |-> 1, out |-> SubSeq(all, 1, ask.stop)]
            ELSE grepGot = [ret |-> 0, out |-> all]
=============================================================================
