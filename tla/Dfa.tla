------------------------------- MODULE Dfa -------------------------------
(***************************************************************************)
(* Regular expressions and their automata: the parser, the positions and   *)
(* the states of dfa.c, with the sets of set.c and bset.c and the states   *)
(* of states.c.  A character is a number, those below have a meaning in a  *)
(* pattern.  A state of the automaton is the set of positions it is made   *)
(* for: states.c keeps one state for a set.                                *)
(***************************************************************************)
EXTENDS Integers, Sequences, FiniteSets, SequencesExt

CONSTANT MaxChar    \* the largest character (255 in the code)

Escape == 1     \* the character after it stands for itself, whatever the map says
NewLine == 2
OpenPar == 3
ClosePar == 4
Star == 5
Plus == 6
Quest == 7
Bar == 8
Dot == 9
OpenSet == 10
CloseSet == 11
Minus == 12
Hat == 13
Dollar == 14
Backslash == 15
Quote == 16
Space == 17
LetterN == 18

\* The characters that are tokens (dfa_parse_cmap_thompson); "stop" ends the pattern.
Tokens ==
    (Star :> "clos0") @@ (Plus :> "clos1") @@ (Bar :> "alt") @@ (Hat :> "start")
    @@ (Dollar :> "eol") @@ (Quest :> "quest") @@ (Dot :> "any") @@ (OpenPar :> "lp")
    @@ (ClosePar :> "rp") @@ (Space :> "stop") @@ (NewLine :> "stop")

\* A lexer: the pattern s and the next character i of it, the token look with its
\* character ch or set, and whether it is inside a string; cmap is what the character
\* map of the caller makes of a character, or <<>>.
LexerOf(pattern, cmap) == [cmap |-> cmap, s |-> pattern, i |-> 1, look |-> "first", ch |-> 0, set |-> {}, str |-> FALSE]

PatternAt(p, i) == IF i <= Len(p.s) THEN p.s[i] ELSE 0
Escaped(c) == IF c = LetterN THEN NewLine ELSE c

\* The next character and whether it is escaped.
NextChar(p) ==
    LET c == PatternAt(p, p.i)
        d == PatternAt(p, p.i + 1)
    IN  CASE c = 0 -> [c |-> 0, esc |-> FALSE, i |-> p.i]
          [] c # 0 /\ c # Backslash -> [c |-> c, esc |-> FALSE, i |-> p.i + 1]
          [] c = Backslash /\ d \in {0, NewLine} -> [c |-> c, esc |-> TRUE, i |-> p.i + 1]
          [] OTHER -> [c |-> Escaped(d), esc |-> TRUE, i |-> p.i + 2]
Past(p, n) == [p EXCEPT !.i = n.i]

Mapped(p, c) == IF p.cmap = <<>> THEN c ELSE p.cmap[c]
Is(n, c) == ~n.esc /\ n.c = c

\* A set of characters: n is the last character met, then a range if "-" follows.
RECURSIVE ReadSet(_, _)
SetEnd(p) == [p EXCEPT !.look = "chars"]
LastOf(p, n) == IF n.c = Escape THEN NextChar(p) ELSE [c |-> Mapped(p, n.c), i |-> p.i]
OnTo(p, n) == ReadSet(Past(p, n), n)
UpTo(p, first, last) == OnTo([Past(p, last) EXCEPT !.set = @ \cup first..last.c], NextChar(Past(p, last)))
RangeTo(p, first, n) ==
    CASE n.c = 0 -> SetEnd(p)
      [] Is(n, CloseSet) -> SetEnd([p EXCEPT !.set = @ \cup first..MaxChar])
      [] OTHER -> UpTo(p, first, LastOf(p, n))
RangeFrom(p, first, m) == RangeTo(Past(p, m), first, m)
AfterFirst(p, first, n) ==
    IF Is(n, Minus) THEN RangeFrom(Past(p, n), first, NextChar(Past(p, n))) ELSE OnTo(p, n)
FirstIn(p, f) == AfterFirst([Past(p, f) EXCEPT !.set = @ \cup {f.c}], f.c, NextChar(Past(p, f)))
ReadSet(p, n) ==
    IF n.c = 0 \/ Is(n, CloseSet) THEN SetEnd(p)
    ELSE IF Is(n, Minus) THEN AfterFirst([p EXCEPT !.set = @ \cup {1}], 1, [n EXCEPT !.i = p.i])
    ELSE FirstIn(p, LastOf(p, n))
Complement(p) == [p EXCEPT !.set = (0..MaxChar) \ @]
CharsetFrom(p, n) == IF Is(n, Hat) THEN Complement(OnTo(Past(p, n), NextChar(Past(p, n)))) ELSE OnTo(p, n)
ReadCharset(p) == CharsetFrom([p EXCEPT !.set = {}], NextChar(p))

\* An ordinary character, as the map of the caller makes it.
MapChar(p) ==
    LET raw == PatternAt(p, p.i - 1)
        lit == PatternAt(p, p.i)
    IN  IF raw = Escape /\ lit # 0 THEN [p EXCEPT !.ch = lit, !.i = @ + 1, !.look = "char"]
        ELSE [p EXCEPT !.ch = IF p.cmap = <<>> THEN @ ELSE Mapped(p, raw), !.look = "char"]

\* The next token.  The character that ends the pattern is left in it.
RECURSIVE LexSub(_)
LexChar(p, q, n) ==
    CASE n.c = 0 -> [q EXCEPT !.look = "stop"]
      [] Is(n, Quote) -> LexSub([q EXCEPT !.str = ~@])
      [] n.c # 0 /\ (n.esc \/ (p.str /\ n.c # Quote)) -> MapChar(q)
      [] ~p.str /\ Is(n, OpenSet) -> ReadCharset(q)
      [] ~p.str /\ ~n.esc /\ n.c \in DOMAIN Tokens ->
            [q EXCEPT !.look = Tokens[n.c], !.i = IF Tokens[n.c] = "stop" THEN @ - 1 ELSE @]
      [] OTHER -> MapChar(q)
LexSub(p) == LET n == NextChar(p) IN LexChar(p, [Past(p, n) EXCEPT !.ch = n.c], n)

\* All tokens of a pattern: no token depends on what the parser makes of another.
RECURSIVE TokensFrom(_)
TokensFrom(p) == IF p.look = "stop" THEN <<p>> ELSE <<p>> \o TokensFrom(LexSub(p))
TokensOf(pattern, cmap) == Tail(TokensFrom(LexerOf(pattern, cmap)))

\* A parser: the tokens, the first of which is the lookahead, the positions and rules
\* so far, and the set "." stands for.
NewParser(any, cmap) == [cmap |-> cmap, toks |-> <<>>, pos |-> 0, rule |-> 0, any |-> any]
Look(p) == Head(p.toks).look
Lex(p) == [p EXCEPT !.toks = Tail(@)]

\* The syntax tree: the leaves have a position and a range of characters, or, below
\* 0, the rule that is matched there.
Tnode(op, l, r) == [op |-> op, l |-> l, r |-> r]
Epsilon == [op |-> "epsilon"]
Leaf(pos, lo, hi) == [op |-> "leaf", pos |-> pos, lo |-> lo, hi |-> hi]
NoTree == [op |-> "none"]
Parsed(t, p) == [t |-> t, p |-> p]
AddLeaf(p, lo, hi) == Parsed(Leaf(p.pos + 1, lo, hi), [p EXCEPT !.pos = @ + 1])

\* A set of characters as the ranges it consists of (trav_BSet, travi_BSet).
RECURSIVE CsetFrom(_, _, _)
RunEnd(set, lo) == Min({MaxChar + 1} \cup {c \in 0..MaxChar : c > lo /\ c \notin set}) - 1
OrLeaf(t, r) == IF t = NoTree THEN r ELSE Parsed(Tnode("or", t, r.t), r.p)
WithRun(r, set, lo, hi) == CsetFrom(OrLeaf(r.t, AddLeaf(r.p, lo, hi)), set, hi + 1)
RunAt(r, set, lo) == WithRun(r, set, lo, RunEnd(set, lo))
CsetFrom(r, set, from) ==
    IF {c \in set : c >= from} = {} THEN r ELSE RunAt(r, set, Min({c \in set : c >= from}))
TnodeCset(p, set) == IF set = {} THEN Parsed(Epsilon, p) ELSE CsetFrom(Parsed(NoTree, p), set, 0)

\* expr_1 .. expr_4: alternatives, sequences, closures and single tokens.  The
\* levels 1 and 2 go on with the tree t that they have.
RECURSIVE Expr(_, _)
Ahead(r) == [r EXCEPT !.p = Lex(@)]
Failed(r) == r.t = NoTree
JoinWith(op, r, next) == IF Failed(next) THEN next ELSE Parsed(Tnode(op, r.t, next.t), next.p)
RECURSIVE MoreOf(_, _, _)
Begins == {"any", "lp", "char", "chars"}
MoreOf(n, op, r) ==
    IF Failed(r) \/ (n = 1 /\ Look(r.p) # "alt") \/ (n = 2 /\ Look(r.p) \notin Begins) THEN r
    ELSE MoreOf(n, op, JoinWith(op, r, Expr(n + 1, IF n = 1 THEN Lex(r.p) ELSE r.p)))
Repeat(r) ==
    CASE Failed(r) -> r
      [] ~Failed(r) /\ Look(r.p) = "clos0" -> Ahead([r EXCEPT !.t = Tnode("star", @, Epsilon)])
      [] ~Failed(r) /\ Look(r.p) = "clos1" -> Ahead([r EXCEPT !.t = Tnode("plus", @, Epsilon)])
      [] ~Failed(r) /\ Look(r.p) = "quest" -> Ahead([r EXCEPT !.t = Tnode("or", @, Epsilon)])
      [] OTHER -> r
Inside(r) == IF Failed(r) \/ Look(r.p) # "rp" THEN [r EXCEPT !.t = NoTree] ELSE Ahead(r)
Single(p) ==
    CASE Look(p) = "lp" -> Inside(Expr(1, Lex(p)))
      [] Look(p) = "char" -> Ahead(AddLeaf(p, Head(p.toks).ch, Head(p.toks).ch))
      [] Look(p) = "chars" -> Ahead(TnodeCset(p, Head(p.toks).set))
      [] Look(p) = "any" -> Ahead(TnodeCset(p, p.any))
      [] OTHER -> Parsed(NoTree, p)
Expr(n, p) ==
    CASE n = 1 -> MoreOf(1, "or", Expr(2, p))
      [] n = 2 -> MoreOf(2, "cat", Expr(3, p))
      [] n = 3 -> Repeat(Single(p))

\* A pattern: anchors, an expression, and the leaf of its rule.
AtEnd(r) == IF Failed(r) \/ Look(r.p) # "eol" THEN r
            ELSE LET e == AddLeaf(r.p, NewLine, NewLine)
                 IN  Ahead(Parsed(Tnode("cat", r.t, e.t), e.p))
Body(p) == IF Look(p) = "eol" THEN Ahead(AddLeaf(p, NewLine, NewLine)) ELSE AtEnd(Expr(1, p))
WithRule(r, anchored) ==
    IF Failed(r) \/ Look(r.p) # "stop" THEN [r EXCEPT !.t = NoTree]
    ELSE LET no == r.p.rule + 1
             e == AddLeaf([r.p EXCEPT !.rule = no], -no, IF anchored THEN 0 ELSE -no)
         IN  Parsed(Tnode("cat", r.t, e.t), e.p)
Anchored(p) == IF Look(p) = "start" THEN WithRule(Body(Lex(p)), TRUE) ELSE WithRule(Body(p), FALSE)
DoParse(p, pattern) == Anchored([p EXCEPT !.toks = TokensOf(pattern, p.cmap)])

\* dfa_parse: another pattern for the automaton d, a tree and a parser.
DfaInit(any, cmap) == Parsed(NoTree, NewParser(any, cmap))
AddPattern(d, r) ==
    [ok |-> ~Failed(r), rest |-> Len(Head(r.p.toks).s) + 1 - Head(r.p.toks).i,
     d |-> CASE Failed(r) -> [d EXCEPT !.p = r.p]
             [] ~Failed(r) /\ Failed(d) -> r
             [] OTHER -> Parsed(Tnode("or", d.t, r.t), r.p)]
DfaParse(d, pattern) == AddPattern(d, DoParse(d.p, pattern))

\* dfa_trav: what a tree may begin and end with, and what follows a position in it.
RECURSIVE Trav(_)
Pair(op, l, r) ==
    IF op = "cat"
    THEN [null |-> l.null /\ r.null,
          first |-> l.first \cup (IF l.null THEN r.first ELSE {}),
          last |-> r.last \cup (IF r.null THEN l.last ELSE {}),
          follow |-> l.follow \cup r.follow \cup (l.last \X r.first),
          leaves |-> l.leaves \cup r.leaves]
    ELSE [null |-> l.null \/ r.null, first |-> l.first \cup r.first, last |-> l.last \cup r.last,
          follow |-> l.follow \cup r.follow, leaves |-> l.leaves \cup r.leaves]
Closure(a, null) == [a EXCEPT !.null = @ \/ null, !.follow = @ \cup (a.last \X a.first)]
Trav(t) ==
    CASE t.op = "epsilon" -> [null |-> TRUE, first |-> {}, last |-> {}, follow |-> {}, leaves |-> {}]
      [] t.op = "leaf" -> [null |-> FALSE, first |-> {t.pos}, last |-> {t.pos}, follow |-> {}, leaves |-> {t}]
      [] t.op \in {"star", "plus"} -> Closure(Trav(t.l), t.op = "star")
      [] OTHER -> Pair(t.op, Trav(t.l), Trav(t.r))

\* mk_dfa_tran: the transitions of a state, one for each chunk of characters that
\* all its positions treat alike.
FollowOf(a, i) == {f[2] : f \in {x \in a.follow : x[1] = i}}
ChunkEndLate(ls, c) ==      \* the chunk is not cut where another range begins
    Min({MaxChar} \cup {l.hi : l \in {x \in ls : x.lo <= c /\ x.hi >= c}})
ChunkEnd(ls, c) ==
    Min({MaxChar} \cup {l.lo - 1 : l \in {x \in ls : x.lo > c}}
        \cup {l.hi : l \in {x \in ls : x.lo <= c /\ x.hi >= c}})
RECURSIVE Chunks(_, _, _, _)
ChunkAt(a, ls, c) ==
    [lo |-> c, hi |-> ChunkEnd(ls, c),
     to |-> UNION {FollowOf(a, l.pos) : l \in {x \in ls : x.lo <= c /\ x.hi >= c}}]
AddChunk(a, ls, t, out) == Chunks(a, ls, t.hi + 1, IF t.to = {} THEN out ELSE Append(out, t))
Chunks(a, ls, from, out) ==
    LET live == {l \in ls : l.hi >= from}
    IN  IF live = {} \/ from > MaxChar THEN out
        ELSE AddChunk(a, ls, ChunkAt(a, ls, Max({from, Min({l.lo : l \in live})})), out)

\* The rules a state matches: the first one, and the first that is not anchored,
\* as the loop over the positions finds them.
Least(i, c) == IF i = 0 \/ c > i THEN c ELSE i
RuleOf(rules) == -FoldLeft(LAMBDA i, l : Least(i, l.lo), 0, rules)
NoRuleOf(rules) == -FoldLeft(LAMBDA i, l : Least(i, l.hi), 0, rules)
ByPosition(ls) == SetToSortSeq(ls, LAMBDA x, y : x.pos < y.pos)
StateOf(a, set) ==
    LET ls == {l \in a.leaves : l.pos \in set}
        rules == ByPosition({l \in ls : l.lo < 0})
    IN  [trans |-> Chunks(a, {l \in ls : l.lo >= 0}, 0, <<>>),
         rule |-> RuleOf(rules), norule |-> NoRuleOf(rules)]

\* The states that are reached from the first one, in any order: the order only
\* gives them their numbers.
RECURSIVE MkTran(_, _, _)
Reached(st) == {st.trans[i].to : i \in DOMAIN st.trans}
WithState(a, todo, done, s, st) == MkTran(a, (todo \cup Reached(st)) \ (DOMAIN done \cup {s}), (s :> st) @@ done)
NextState(a, todo, done, s) == WithState(a, todo, done, s, StateOf(a, s))
MkTran(a, todo, done) == IF todo = {} THEN done ELSE NextState(a, todo, done, CHOOSE x \in todo : TRUE)
Automaton(a) == [start |-> a.first, states |-> MkTran(a, {a.first}, <<>>)]
MkState(d) == Automaton(Trav(d.t))
=============================================================================
