----------------------------- MODULE RpnTerm -----------------------------
(***************************************************************************)
(* The terms of a query: how a term with its truncation and its relation   *)
(* becomes a regular expression on the dictionary (term_1xx,               *)
(* gen_regular_rel, string_relation, string_term and numeric_term of       *)
(* rpnsearch.c), with the codes of the indexes (su_codec.c) before every   *)
(* word.  Grep finds the words.                                            *)
(***************************************************************************)
EXTENDS Grep

CONSTANTS
    ZMap,       \* the register's map of a character: to (ChrSpace for white space), and
                \* whether the map for queries has it (q)
    SuRadix     \* the base of the codes of the indexes (64 in the code)

Hash == 19
Bang == 20
ChrSpace == 21
Slash == 22
At == 23
Equal == 24
Digit(d) == 30 + d
DigitChars == {Digit(d) : d \in 0..9}

(***************************************************************************)
(* su_codec.c                                                              *)
(***************************************************************************)
RECURSIVE SuDigits(_)
SuDigits(n) ==
    IF n = 0 THEN <<>>
    ELSE IF n >= SuRadix THEN <<SuRadix + 1 + (n % SuRadix)>> \o SuDigits(n \div SuRadix)
    ELSE <<1 + n>>
SuEncode(n) == IF n = -1 THEN <<2 * SuRadix + 1>> ELSE SuDigits(n)
OrdPrefix(ord) == <<OpenPar>> \o FlattenSeq([i \in DOMAIN SuEncode(ord) |-> <<Escape, SuEncode(ord)[i]>>])
                  \o <<ClosePar>>
FirstInField == <<1, Hat>>      \* the word in front of the first word of a field

(***************************************************************************)
(* term_pre and term_100 .. term_105: s is the rest of the query's term,   *)
(* out the expression so far, n the number of characters in it.            *)
(***************************************************************************)
RegexChars == {Space, Hat, OpenSet, CloseSet, OpenPar, ClosePar, Bar, Dot, Star, Plus, Quest,
               Bang, Quote, Dollar, Backslash}
AnyChars == <<Dot, Star>>
Specials(kind) ==
    CASE kind = 101 -> Hash :> AnyChars
      [] kind = 103 -> [c \in {Hat, Backslash, OpenPar, ClosePar, OpenSet, CloseSet, Dot, Star, Plus,
                               Quest, Bar, Minus} |-> <<c>>]
      [] kind = 104 -> (Star :> AnyChars) @@ (Hash :> <<Dot>>)
      [] kind = 105 -> (Star :> AnyChars) @@ (Bang :> <<Dot>>) @@ (Backslash :> <<Backslash, Backslash>>)
      [] OTHER -> <<>>
NotSkipped(kind) == DOMAIN Specials(kind) \cup (IF kind = 104 THEN {Quest} ELSE {})

Quoted(c) == IF c \in RegexChars THEN <<Backslash, c>> ELSE <<c>>
AddNonSpace(c) == IF ZMap[c].q THEN <<ZMap[c].to>> ELSE Quoted(c)
IsSpace(c) == ZMap[c].to = ChrSpace

RECURSIVE TermPre(_, _)
TermPre(kind, s) ==
    IF s = <<>> \/ Head(s) \in NotSkipped(kind) \/ ~IsSpace(Head(s)) THEN s ELSE TermPre(kind, Tail(s))

RECURSIVE DigitsAt(_, _)
DigitsAt(s, n) == IF s # <<>> /\ Head(s) \in DigitChars THEN DigitsAt(Tail(s), 10 * n + Head(s) - Digit(0))
                  ELSE [n |-> n, s |-> s]
UpToChars(n) == FlattenSeq([i \in 1..(IF n > 20 THEN 20 ELSE n) |-> <<Dot, Quest>>])

\* sp is a space that is only added if something follows it (term_100).
RECURSIVE TermLoop(_, _, _)
Added(x, s, out) == [x EXCEPT !.s = s, !.out = @ \o out, !.n = @ + 1, !.sp = <<>>]
Masked(x, d) == Added(x, d.s, IF d.s = Tail(x.s) THEN AnyChars ELSE UpToChars(d.n))
PlainChar(kind, split, x, c) ==
    IF IsSpace(c) /\ split THEN [x EXCEPT !.s = Tail(@)]
    ELSE IF IsSpace(c) /\ kind = 100 THEN TermLoop(kind, split, [x EXCEPT !.s = Tail(@), !.sp = Quoted(c)])
    ELSE TermLoop(kind, split, Added(x, Tail(x.s), x.sp \o AddNonSpace(c)))
TermLoop(kind, split, x) ==
    IF x.s = <<>> THEN x
    ELSE IF Head(x.s) \in DOMAIN Specials(kind)
    THEN TermLoop(kind, split, Added(x, Tail(x.s), Specials(kind)[Head(x.s)]))
    ELSE IF kind = 104 /\ Head(x.s) = Quest
    THEN TermLoop(kind, split, Masked(x, DigitsAt(Tail(x.s), 0)))
    ELSE PlainChar(kind, split, x, Head(x.s))
Term(kind, split, s) == TermLoop(kind, split, [s |-> TermPre(kind, s), out |-> <<>>, n |-> 0, sp |-> <<>>])

\* "+n+" in front of a term of kind 103: the number of errors, 3 at most.
WithErrors(s) == Len(s) > 3 /\ s[1] = Plus /\ s[2] \in DigitChars /\ s[3] = Plus
Errors(s) == IF ~WithErrors(s) THEN 1 ELSE IF s[2] > Digit(3) THEN 3 ELSE s[2] - Digit(0)
Regexp2(split, s) == Term(103, split, IF WithErrors(s) THEN SubSeq(s, 4, Len(s)) ELSE s)

(***************************************************************************)
(* gen_regular_rel: the numbers up to val, or from val on.                 *)
(***************************************************************************)
RECURSIVE Decimal(_)
Decimal(n) == IF n < 10 THEN <<n>> ELSE Decimal(n \div 10) \o <<(n % 10)>>
Chars(ds) == [i \in DOMAIN ds |-> Digit(ds[i])]
OneDigit(a, b) == IF a = b THEN <<Digit(a)>> ELSE <<OpenSet, Digit(a), Minus, Digit(b), CloseSet>>
Repeated(n, pat) == FlattenSeq([i \in 1..n |-> pat])
AnyDigit == OneDigit(0, 9)

\* The numbers that have the digits before the last pos + 1 ones, and there others.
RelAt(num, pos, lt) ==
    LET w == Len(num) - pos
        d == IF pos = 0 THEN num[w] ELSE IF lt THEN num[w] - 1 ELSE num[w] + 1
    IN  IF d \notin 0..9 THEN <<>>
        ELSE Chars(SubSeq(num, 1, w - 1)) \o (IF lt THEN OneDigit(0, d) ELSE OneDigit(d, 9))
             \o Repeated(pos, AnyDigit) \o <<Bar>>
RelTail(len, lt) ==
    IF lt THEN <<Digit(0), Star>> \o Repeated(len - 1, AnyDigit \o <<Quest>>)
    ELSE Repeated(len + 1, AnyDigit) \o AnyDigit \o <<Star>>
RelBody(num, lt) == FlattenSeq([i \in 1..Len(num) |-> RelAt(num, i - 1, lt)]) \o RelTail(Len(num), lt)
Close2 == <<ClosePar, ClosePar>>
GenRegularRel(val, lt) ==
    CASE val >= 0 /\ lt -> <<OpenPar, Minus>> \o AnyDigit \o <<Plus, Bar, OpenPar>> \o RelBody(Decimal(val), TRUE) \o Close2
      [] val >= 0 /\ ~lt -> <<OpenPar, OpenPar>> \o RelBody(Decimal(val), FALSE) \o Close2
      [] val < 0 /\ ~lt -> <<OpenPar>> \o AnyDigit \o <<Plus, Bar, Minus, OpenPar>> \o RelBody(Decimal(-val), TRUE) \o Close2
      [] OTHER -> <<OpenPar, Minus, OpenPar>> \o RelBody(Decimal(-val), FALSE) \o Close2

Atoi(out) ==
    IF out # <<>> /\ Head(out) = Minus THEN -DigitsAt(Tail(out), 0).n ELSE DigitsAt(out, 0).n
SignedChars(n) == IF n < 0 THEN <<Minus>> \o Chars(Decimal(-n)) ELSE Chars(Decimal(n))
NumericRel(rel, n) ==
    CASE rel = 1 -> GenRegularRel(n - 1, TRUE)
      [] rel = 2 -> GenRegularRel(n, TRUE)
      [] rel = 4 -> GenRegularRel(n, FALSE)
      [] rel = 5 -> GenRegularRel(n + 1, FALSE)
      [] OTHER -> <<OpenPar, Digit(0), Star>> \o SignedChars(n) \o <<ClosePar>>

(***************************************************************************)
(* string_relation: the words before or after a word.  A unit is a         *)
(* character, with its backslash.                                          *)
(***************************************************************************)
RECURSIVE Units(_)
Units(out) ==
    CASE out = <<>> -> <<>>
      [] out # <<>> /\ Head(out) = Backslash -> <<SubSeq(out, 1, 2)>> \o Units(SubSeq(out, 3, Len(out)))
      [] OTHER -> <<SubSeq(out, 1, 1)>> \o Units(Tail(out))
Upto(us, n) == FlattenSeq(SubSeq(us, 1, n))
Below(u) == <<OpenSet, Hat, Escape, 1>> \o u \o <<Minus, CloseSet>>     \* not from u on, nor the mark
AboveOf(u) == <<OpenSet, Hat, Minus>> \o u \o <<CloseSet>>              \* not up to u
FromOn(u) == <<OpenSet>> \o u \o <<Minus, CloseSet>>
\* The test for the last character counts bytes, an escaped one is not the last.
IsLastUnit(us, i) == i = Len(us) /\ Len(us[i]) = 1
Alternative(us, i, rel) ==
    Upto(us, i - 1)
    \o (IF rel \in {1, 2} THEN Below(us[i])
        ELSE IF rel = 4 /\ IsLastUnit(us, i) THEN FromOn(us[i]) ELSE AboveOf(us[i]))
    \o AnyChars
Alternatives(us, rel) ==
    FlattenSeq([i \in DOMAIN us |->
        (IF i > 1 THEN <<Bar>> ELSE <<>>) \o Alternative(us, i, rel)])
StringRel(rel, out) ==
    LET us == Units(out)
    IN  <<OpenPar>>
        \o (CASE rel = 2 -> Alternatives(us, 2) \o <<Bar>> \o out
              [] rel = 5 -> Alternatives(us, 5) \o <<Bar>> \o out \o <<Dot, Plus>>
              [] rel \in {1, 4} -> Alternatives(us, rel)
              [] OTHER -> out)
        \o <<ClosePar>>

(***************************************************************************)
(* string_term and numeric_term: what becomes of the next word of a term.  *)
(* An apt has the attributes rel, trunc, complete and truncmax.            *)
(***************************************************************************)
Relations == {1, 2, 3, 4, 5, 102, -1}
Truncations == {1, 2, 3, 101, 102, 103, 104, 105, 106}
KindOf(trunc) == CASE trunc \in {1, 2, 3} -> 100 [] trunc = 102 -> 103 [] trunc = 106 -> 105 [] OTHER -> trunc
\* No word is left, the attributes are not supported, or the expression pat.
NoWord == [is |-> "none", pat |-> <<>>, s |-> <<>>, range |-> 0]
Unsupported == [NoWord EXCEPT !.is = "error"]
Expression(pat, s, range) == [is |-> "pattern", pat |-> pat, s |-> s, range |-> range]
Truncated(trunc, x) ==
    <<OpenPar>> \o (IF trunc \in {2, 3} THEN AnyChars ELSE <<>>) \o x.out
    \o (IF trunc \in {1, 3, 105} THEN AnyChars ELSE <<>>) \o <<ClosePar>>
OfWord(x, pat, range) == IF x.n = 0 THEN NoWord ELSE Expression(pat, x.s, range)
Related(rel, x) == OfWord(x, StringRel(rel, x.out), 0)
TermExpression(apt, s) ==
    CASE apt.trunc \in {-1, 100} ->
            (CASE apt.rel = 103 -> Expression(<<>>, <<>>, 0)
               [] apt.rel \in {3, 102, -1} /\ s = <<>> -> Expression(<<>>, <<>>, 0)
               [] apt.rel \in Relations /\ (s # <<>> \/ apt.rel \notin {3, 102, -1}) ->
                    Related(apt.rel, Term(100, ~apt.complete, s))
               [] OTHER -> Unsupported)
      [] apt.trunc = 103 ->
            (LET x == Regexp2(~apt.complete, TermPre(103, s))
             IN  OfWord(x, Truncated(103, x), Errors(TermPre(103, s))))
      [] apt.trunc \in Truncations \ {103} ->
            (LET x == Term(KindOf(apt.trunc), ~apt.complete, s)
             IN  OfWord(x, Truncated(apt.trunc, x), 0))
      [] OTHER -> Unsupported
NumberOf(rel, x) == OfWord(x, NumericRel(rel, Atoi(x.out)), 0)
NumericExpression(apt, s) ==
    CASE apt.rel = 103 -> Expression(<<>>, <<>>, 0)
      [] apt.rel \in Relations -> NumberOf(apt.rel, Term(100, TRUE, s))
      [] OTHER -> Unsupported

\* add_isam_p stops the search one word before truncmax; the result is then partial.
GrepTerm(max, ord, x, init, page) ==
    LookupGrep([pattern |-> OrdPrefix(ord) \o x.pat, range |-> x.range, init |-> init,
                stop |-> max], page)
FoundWords(g) == [words |-> IF g.ret = 1 THEN Front(g.out) ELSE g.out, partial |-> g.ret = 1]
=============================================================================
