-------------------------------- MODULE Regx --------------------------------
(***************************************************************************)
(* The grs.regx filter (mod_grs_regx.c) on a stream (stream.c): a file of  *)
(* rules cuts a file into records and makes a tree of each.  The file is   *)
(* seen through a window that moves, and the filter is kept from record to *)
(* record and from file to file.                                           *)
(***************************************************************************)
EXTENDS Dfa

CONSTANTS
    RegxSpecs,      \* the filter files: for a name the entries (see ReadOneSpec)
    RegxDocs,       \* the files, [spec, text, means]: the fields of their records
    RegxWindow,     \* f_win_size (500000 in the code)
    RegxDocNo       \* bound: the files that are read

VARIABLES
    rgLex,          \* the lexSpec of the filter with its stream, or <<>>
    rgDoc,          \* the file that is read, or <<>>
    rgOpen,         \* whether its stream is open
    rgRecs,         \* the records of it: [start, end, tree]
    rgShown,        \* the record shown last, [rec, tree], or <<>>
    rgDone          \* the files read before
rgVars == <<rgLex, rgDoc, rgOpen, rgRecs, rgShown, rgDone>>

FWinEof == 2000000000

(***************************************************************************)
(* The filter file.  An entry is [kind, name] for a context, or [kind,     *)
(* acts] or [kind, pat, acts]; acts are the tokens of an action list.      *)
(***************************************************************************)
\* Patterns are read without a character map; they end at "/" and not at a blank.
AnySet == (0..MaxChar) \ {NewLine}
LexSpecDFA == DfaInit(AnySet, <<>>)

\* actionListMk: BODY marks the next pattern, BEGIN and INIT are ignored; a wrong
\* pattern ends the list.
AddAction(a, t, d) ==
    CASE a.bad \/ t.tok \in {"begin", "init"} -> a
      [] ~a.bad /\ t.tok = "body" -> [a EXCEPT !.body = TRUE]
      [] ~a.bad /\ t.tok = "code" -> [a EXCEPT !.list = Append(@, [which |-> "code", code |-> t.code])]
      [] ~a.bad /\ t.tok = "end" -> [a EXCEPT !.list = Append(@, [which |-> "end"])]
      [] ~a.bad /\ t.tok = "pattern" ->
            IF d.ok /\ d.rest = 0
            THEN [a EXCEPT !.body = FALSE,
                           !.list = Append(@, [which |-> "pattern", body |-> a.body, dfa |-> MkState(d.d)])]
            ELSE [a EXCEPT !.bad = TRUE]
ActionToken(a, t) == AddAction(a, t, IF t.tok = "pattern" THEN DfaParse(LexSpecDFA, t.pat) ELSE <<>>)
ActionListMk(acts) == FoldLeft(ActionToken, [list |-> <<>>, body |-> FALSE, bad |-> FALSE], acts).list

LexContextCreate(name) ==
    [name |-> name, dfa |-> LexSpecDFA, rules |-> <<>>, begin |-> <<>>, end |-> <<>>, init |-> <<>>]

\* readOneSpec: the contexts are a list, the current one is the first.
WithRuleOf(lc, d, acts) ==
    IF d.ok /\ d.rest = 0 THEN [lc EXCEPT !.dfa = d.d, !.rules = Append(@, ActionListMk(acts))]
    ELSE IF d.ok THEN [lc EXCEPT !.dfa = d.d] ELSE lc
InContext(lc, e) ==
    CASE e.kind = "begin" -> [lc EXCEPT !.begin = ActionListMk(e.acts)]
      [] e.kind = "end" -> [lc EXCEPT !.end = ActionListMk(e.acts)]
      [] e.kind = "init" -> [lc EXCEPT !.init = ActionListMk(e.acts)]
      [] e.kind = "rule" -> WithRuleOf(lc, DfaParse(lc.dfa, e.pat), e.acts)
ReadOneSpec(lcs, e) ==
    IF e.kind = "context" THEN <<LexContextCreate(e.name)>> \o lcs
    ELSE LET cur == IF lcs = <<>> THEN <<LexContextCreate("main")>> ELSE lcs
         IN  <<InContext(Head(cur), e)>> \o Tail(cur)
ReadFileSpec(entries) ==
    LET lcs == FoldLeft(ReadOneSpec, <<>>, entries)
    IN  [i \in DOMAIN lcs |-> [lcs[i] EXCEPT !.dfa = MkState(@)]]

LexContexts == [s \in DOMAIN RegxSpecs |-> ReadFileSpec(RegxSpecs[s])]

\* The number of a context, 0 if there is none.
ContextNo(lcs, name) == Min({Len(lcs) + 1} \cup {i \in DOMAIN lcs : lcs[i].name = name}) % (Len(lcs) + 1)

(***************************************************************************)
(* The lexSpec: contexts, those that begun (initFlag) and the stack of     *)
(* them; the stream, with its position and the end a filter has told it;   *)
(* the window; the nodes of the tree, those open at each level and the     *)
(* text at each level; the arguments of an action.                         *)
(***************************************************************************)
LexSpecCreate(name) ==
    [name |-> name, contexts |-> LexContexts[name], inits |-> {}, ctx |-> <<>>, stop |-> FALSE,
     file |-> <<>>, pos |-> 0, endf |-> 0,
     start |-> 0, end |-> 0, size |-> 0, buf |-> <<>>,
     nodes |-> <<>>, stack |-> 0 :> 0, level |-> 0, concat |-> <<>>,
     args |-> <<>>, ptr |-> 0]

\* zebra_create_stream_fd, zebra_create_stream_mem
WithStream(l, text) == [l EXCEPT !.file = text, !.pos = 0, !.endf = 0]
SeekTo(l, pos) == [l EXCEPT !.pos = pos]
StreamRead(l, n) == SubSeq(l.file, l.pos + 1, Min({l.pos + n, Len(l.file)}))

\* f_win_get: the bytes a..b-1 as a place in the buffer and a size, at most the
\* window.  What is kept of the window is followed by what the stream gives.
OverBuf(new, old) == new \o SubSeq(old, Len(new) + 1, Len(old))
FillWith(l, kept, a, b, got) ==
    [l |-> [l EXCEPT !.buf = OverBuf(kept \o got, @), !.start = a,
                     !.end = a + Len(kept) + Len(got), !.pos = @ + Len(got)],
     at |-> 0, size |-> Min({Len(kept) + Len(got), b - a})]
Fill(l, kept, a, b) == FillWith(l, kept, a, b, StreamRead(l, l.size - Len(kept)))
FWinGet(l, a, b) ==
    IF a >= l.start /\ b <= l.end THEN [l |-> l, at |-> a - l.start, size |-> b - a]
    ELSE IF a < l.start \/ a >= l.end THEN Fill(SeekTo(l, a), <<>>, a, b)
    ELSE Fill(l, SubSeq(l.buf, a - l.start + 1, l.end - l.start), a, b)

\* f_win_advance: the byte at p, and p behind it or the end of the file.
AdvancedWith(g, p) ==
    IF g.size = 1 THEN [l |-> g.l, p |-> p + 1, c |-> g.l.buf[g.at + 1]]
    ELSE [l |-> g.l, p |-> FWinEof, c |-> 0]
FWinAdvance(l, p) ==
    IF p >= l.start /\ p < l.end THEN [l |-> l, p |-> p + 1, c |-> l.buf[p - l.start + 1]]
    ELSE IF p = FWinEof THEN [l |-> l, p |-> p, c |-> 0]
    ELSE AdvancedWith(FWinGet(l, p, p + 1), p)

(***************************************************************************)
(* The tree.  0 is no node.                                                *)
(***************************************************************************)
RgNode(which, tag, up) == [which |-> which, tag |-> tag, up |-> up, attrs |-> <<>>, len |-> 0, fmt |-> FALSE, text |-> <<>>]
Here(l) == l.stack[l.level]
SetHere(l, i) == [l EXCEPT !.stack = (l.level :> i) @@ @]
MkNode(l, node) == SetHere([l EXCEPT !.nodes = Append(@, node)], Len(l.nodes) + 1)
EnterNode(l) == SetHere([l EXCEPT !.level = @ + 1], 0)
IsKind(l, i, which) == i # 0 /\ l.nodes[i].which = which

\* tagDataRelease: the text of the level becomes that of its data node.
TagDataRelease(l) ==
    IF IsKind(l, Here(l), "data")
    THEN [l EXCEPT !.nodes[Here(l)].text = SubSeq(l.concat[l.level], 1, l.nodes[Here(l)].len)]
    ELSE l

\* Strings in code are literals or places in the window, read when they are used.
TextOf(l, ref) == IF "lit" \in DOMAIN ref THEN ref.lit ELSE SubSeq(l.buf, ref.at + 1, ref.at + ref.size)

\* execData: an attribute of the open tag, or text at the end of the level.
Attribute(as, name, text) ==
    IF \E i \in DOMAIN as : as[i][1] = name
    THEN [i \in DOMAIN as |-> IF as[i][1] = name THEN <<name, as[i][2] \o text>> ELSE as[i]]
    ELSE Append(as, <<name, text>>)
AppendText(l, text) ==
    LET len == l.nodes[Here(l)].len
        old == IF l.level \in DOMAIN l.concat THEN l.concat[l.level] ELSE <<>>
    IN  [l EXCEPT !.concat = (l.level :> SubSeq(old, 1, len) \o text) @@ @,
                  !.nodes[Here(l)].len = @ + Len(text)]
ExecData(l, text, fmt, attr) ==
    LET up == l.stack[l.level - 1]
    IN  IF text = <<>> \/ l.level <= 1 THEN l
        ELSE IF attr # <<>>
        THEN IF IsKind(l, up, "tag") THEN [l EXCEPT !.nodes[up].attrs = Attribute(@, TextOf(l, attr), text)] ELSE l
        ELSE AppendText(IF IsKind(l, Here(l), "data") THEN l
                        ELSE MkNode(l, [RgNode("data", <<>>, up) EXCEPT !.fmt = fmt]), text)

TagStrip(tag) ==
    LET text == {i \in DOMAIN tag : tag[i] \notin {Space, NewLine}}
    IN  IF text = {} THEN <<>> ELSE SubSeq(tag, Min(text), Max(text))
TagBegin(l, tag) ==
    IF l.level = 0 THEN l
    ELSE EnterNode(MkNode(TagDataRelease(l), RgNode("tag", TagStrip(tag), l.stack[l.level - 1])))

\* tagEnd without a tag: up to the next tag, and not below a level.
RECURSIVE TagEnd(_, _)
Left(l) == [TagDataRelease(l) EXCEPT !.level = @ - 1]
TagEndAt(l, min) == IF l.level = 0 \/ IsKind(l, Here(l), "tag") THEN l ELSE TagEnd(l, min)
TagEnd(l, min) == IF l.level > min THEN TagEndAt(Left(l), min) ELSE l
RECURSIVE LeaveAll(_)
LeaveAll(l) == IF l.level = 0 THEN l ELSE LeaveAll(Left(l))

(***************************************************************************)
(* The code of an action.  A parameter is [lit] or [arg]: $n.              *)
(***************************************************************************)
ArgOf(l, n) == l.args[Min({n + 1, Len(l.args)})]
TokOf(g) == [l |-> g.l, ref |-> [at |-> g.at, size |-> g.size]]
ExecTok(l, t) ==
    IF "lit" \in DOMAIN t THEN [l |-> l, ref |-> t]
    ELSE TokOf(FWinGet(l, ArgOf(l, t.arg)[1], ArgOf(l, t.arg)[2]))

BeginRecord(l, tag) ==
    IF l.level > 1 THEN l
    ELSE LET root == MkNode([l EXCEPT !.level = 0], RgNode("root", tag, 0))
         IN  EnterNode(MkNode([root EXCEPT !.level = 1], RgNode("tag", tag, Here(root))))
RecordNamed(r) == BeginRecord(r.l, TextOf(r.l, r.ref))
TagNamed(r) == TagBegin(r.l, TextOf(r.l, r.ref))
Stopped(l) == [l EXCEPT !.stop = TRUE]
EndElement(l) == IF l.level <= 1 THEN Stopped(l) ELSE l
PushContext(l, no) == IF no = 0 THEN l ELSE [l EXCEPT !.ctx = Append(@, no)]
SetContext(l, no) == IF no = 0 THEN l ELSE [l EXCEPT !.ctx = Front(@) \o <<no>>]

\* data: the tag and the attribute are fetched first, then the items one by one.
DataItem(c, attr, l, r) == ExecData(r.l, TextOf(r.l, r.ref), c.fmt, attr)
RECURSIVE DataItems(_, _, _, _, _)
NextItem(l, c, attr, k) == DataItems(l, c, attr, k, ExecTok(l, c.items[k]))
DataItems(l, c, attr, k, r) ==
    LET done == DataItem(c, attr, l, r)
    IN  IF k = Len(c.items) THEN done ELSE NextItem(done, c, attr, k + 1)
DataIn(c, elem, attr, r) ==
    LET inside == IF elem = <<>> THEN r.l ELSE TagBegin(r.l, TextOf(r.l, elem))
        out == DataItems(inside, c, attr, 1, [r EXCEPT !.l = inside])
    IN  IF elem = <<>> THEN out ELSE TagEnd(out, 2)
Option(l, t) == IF t = <<>> THEN [l |-> l, ref |-> <<>>] ELSE ExecTok(l, t)
DataAttr(c, elem, a) == DataIn(c, elem, a.ref, ExecTok(a.l, c.items[1]))
DataElem(c, e) == DataAttr(c, e.ref, Option(e.l, c.attr))

\* execCode, one command.  The tag of "end element" is never looked at.
ExecCommand(l, c) ==
    CASE c.op = "begin record" -> RecordNamed(ExecTok(l, c.name))
      [] c.op = "begin element" -> TagNamed(ExecTok(l, c.name))
      [] c.op = "begin context" -> PushContext(l, ContextNo(l.contexts, c.name))
      [] c.op = "context" -> SetContext(l, ContextNo(l.contexts, c.name))
      [] c.op = "end record" -> Stopped(LeaveAll(l))
      [] c.op = "end element" -> EndElement(TagEnd(l, IF c.record THEN 0 ELSE 2))
      [] c.op = "end context" -> IF Len(l.ctx) > 1 THEN [l EXCEPT !.ctx = Front(@)] ELSE l
      [] c.op = "data" -> DataElem(c, Option(l, c.elem))
      [] c.op = "unread" -> [l EXCEPT !.ptr = ArgOf(l, c.no)[1] + c.offset]
ExecCode(l, code) == FoldLeft(ExecCommand, l, code)

(***************************************************************************)
(* Matching.                                                               *)
(***************************************************************************)
\* The state that c leads to, as a set of none or one.
Steps(dfa, st, c) ==
    LET ts == dfa.states[st].trans IN {ts[i].to : i \in {j \in DOMAIN ts : ts[j].lo <= c /\ c <= ts[j].hi}}
\* The rule of a state: anchored ones only match behind a new line.
RuleAt(s, prev) == IF s.rule # 0 /\ prev = NewLine THEN s.rule ELSE s.norule

\* tryMatch: the first match from p on, as [l, ok, start, p].
RECURSIVE MatchFrom(_, _)
MatchEnd(m) == [l |-> m.l, ok |-> m.rule # 0, start |-> m.start, p |-> m.last]
MatchAgain(dfa, m, a) ==
    MatchFrom(dfa, [m EXCEPT !.l = a.l, !.st = dfa.start, !.p = a.p, !.c = a.c, !.start = a.p])
MatchStep(dfa, m, to) ==
    LET rule == RuleAt(dfa.states[to], m.prev)
    IN  MatchFrom(dfa, IF rule = 0 THEN [m EXCEPT !.st = to] ELSE [m EXCEPT !.st = to, !.rule = rule, !.last = m.p])
MatchAt(dfa, m) ==
    LET to == Steps(dfa, m.st, m.c)
    IN  IF m.p = FWinEof THEN MatchEnd(m)
        ELSE IF to # {} THEN MatchStep(dfa, m, CHOOSE s \in to : TRUE)
        ELSE IF m.rule # 0 THEN MatchEnd(m) ELSE MatchAgain(dfa, m, FWinAdvance(m.l, m.restore))
MatchRead(dfa, m, a) == MatchAt(dfa, [m EXCEPT !.l = a.l, !.p = a.p, !.c = a.c])
MatchFrom(dfa, m) ==
    MatchRead(dfa, IF m.st = dfa.start THEN [m EXCEPT !.prev = m.c, !.restore = m.p] ELSE m, FWinAdvance(m.l, m.p))
MatchAfter(dfa, p, a) ==
    MatchFrom(dfa, [l |-> a.l, st |-> dfa.start, p |-> a.p, c |-> a.c, prev |-> 0, start |-> p,
                    last |-> 0, rule |-> 0, restore |-> 0])
TryMatch(l, p, dfa) ==
    MatchAfter(dfa, p, IF p = 0 THEN [l |-> l, p |-> p, c |-> 0] ELSE FWinAdvance(l, p - 1))

\* execAction: each pattern goes on where the one before ended; with BODY it is
\* looked for, otherwise it must be there.  go: "on", "left" or "stopped".
Arg(x, a, b) == [x EXCEPT !.args = Append(@, <<a, b>>)]
BodyMatch(x, m) ==
    IF m.ok THEN [Arg(Arg(x, x.p, m.start), m.start, m.p) EXCEPT !.l = m.l, !.p = m.p]
    ELSE [Arg(Arg(x, x.p, FWinEof), FWinEof, FWinEof) EXCEPT !.l = m.l, !.p = FWinEof]
NextMatch(x, m) ==
    IF ~m.ok THEN [x EXCEPT !.l = m.l, !.go = "left"]
    ELSE IF m.start # x.p THEN [x EXCEPT !.l = m.l, !.p = m.p, !.go = "left"]
    ELSE [Arg(x, x.p, m.p) EXCEPT !.l = m.l, !.p = m.p]
CodeDone(x, l) == [x EXCEPT !.l = l, !.p = l.ptr, !.go = IF l.stop THEN "stopped" ELSE @]
ExecOne(x, a) ==
    CASE x.go # "on" -> x
      [] x.go = "on" /\ a.which = "pattern" ->
            IF a.body THEN BodyMatch(x, TryMatch(x.l, x.p, a.dfa)) ELSE NextMatch(x, TryMatch(x.l, x.p, a.dfa))
      [] x.go = "on" /\ a.which = "code" -> CodeDone(x, ExecCode([x.l EXCEPT !.args = x.args, !.ptr = x.p], a.code))
      [] x.go = "on" /\ a.which = "end" -> [Arg(x, x.p, FWinEof) EXCEPT !.p = FWinEof]
ExecAction(l, acts, start, p) ==
    FoldLeft(ExecOne, [l |-> l, p |-> p, args |-> << <<start, p>> >>, go |-> "on"], acts)

(***************************************************************************)
(* lexNode: the rules of the context that is on top; what no rule matches  *)
(* is data.  n is the state of its loop; more says whether a rule matched. *)
(***************************************************************************)
RECURSIVE LexFrom(_)
DataFrom(g) == ExecData(g.l, TextOf(g.l, [at |-> g.at, size |-> g.size]), FALSE, <<>>)
SkipData(l, a, b) == IF a < b THEN DataFrom(FWinGet(l, a, b)) ELSE l
ContextOf(l, i) == l.contexts[i]
DfaOf(n) == ContextOf(n.l, n.ctx).dfa
ExecRule(n) ==
    ExecAction(SkipData(n.l, n.skip, n.start), ContextOf(n.l, n.ctx).rules[n.rule], n.start, n.last)
LexEnd(n, x) == [l |-> x.l, p |-> x.p, more |-> n.more]

\* No transition: the rule that matched, or the next start.
Restart(n) == [n EXCEPT !.st = DfaOf(n).start]
BackOne(n, a) == LexFrom(Restart([n EXCEPT !.l = a.l, !.prev = a.c, !.start = a.p]))
RuleRun(n) == IF n.start > 0 THEN BackOne(n, FWinAdvance(n.l, n.start - 1)) ELSE LexFrom(Restart(n))
RuleDone(n, x) ==
    IF x.go = "stopped"
    THEN LexEnd(n, [x EXCEPT !.l.endf = IF x.p # FWinEof THEN x.p ELSE @])
    ELSE RuleRun([n EXCEPT !.l = x.l, !.p = x.p, !.ctx = Last(x.l.ctx), !.skip = x.p, !.rule = 0,
                           !.last = x.p, !.start = x.p])
NextStart(n, a) == LexFrom(Restart([n EXCEPT !.l = a.l, !.prev = a.c, !.start = a.p, !.p = a.p]))
NoStep(n) == IF n.rule # 0 THEN RuleDone(n, ExecRule(n)) ELSE NextStart(n, FWinAdvance(n.l, n.start))

OnRule(n, s) ==
    LET rule == RuleAt(s, n.prev)
    IN  IF s.rule = 0 THEN n
        ELSE IF rule = 0 THEN [n EXCEPT !.more = TRUE]
        ELSE [n EXCEPT !.more = TRUE, !.rule = rule, !.last = n.p]
LexStep(n, c) ==
    LET to == Steps(DfaOf(n), n.st, c)
        s == CHOOSE x \in to : TRUE
    IN  IF to = {} THEN NoStep(n) ELSE LexFrom(OnRule([n EXCEPT !.st = s], DfaOf(n).states[s]))

\* The end of the file: the rule that matched is run, and if it leaves something
\* the loop goes on with a byte 0, in the same context, behind the start of the match.
EofGoOn(n) == IF n.p = FWinEof THEN LexEnd(n, n) ELSE LexStep(Restart(n), 0)
EofRule(n, x) ==
    IF x.go = "stopped" THEN LexEnd(n, x)
    ELSE EofGoOn([n EXCEPT !.l = x.l, !.p = x.p, !.skip = x.p, !.rule = 0])
AtEof(n) ==
    IF n.rule # 0 THEN EofRule(n, ExecRule(n))
    ELSE EofGoOn([n EXCEPT !.l = SkipData(n.l, n.skip, n.p)])
LexRead(n, a) ==
    LET m == [n EXCEPT !.l = a.l, !.p = a.p] IN IF a.p = FWinEof THEN AtEof(m) ELSE LexStep(m, a.c)
LexFrom(n) == LexRead(n, FWinAdvance(n.l, n.p))
LexNode(l, p) ==
    LexFrom(Restart([l |-> l, p |-> p, ctx |-> Last(l.ctx), st |-> {}, prev |-> NewLine, rule |-> 0,
                     last |-> p, start |-> p, skip |-> p, more |-> FALSE]))

(***************************************************************************)
(* lexRoot: one record, as [l, tree].                                      *)
(***************************************************************************)
NoRecord == <<>>
TreeOf(l) == IF l.stack[0] = 0 THEN NoRecord ELSE l.nodes
RootEnd(lc, x) == LET e == ExecAction(x.l, lc.end, x.p, x.p) IN [l |-> e.l, tree |-> TreeOf(e.l)]
RootNode(lc, x) ==
    LET out == [x EXCEPT !.l = LeaveAll(@)]
    IN  IF x.more THEN RootEnd(lc, out) ELSE [l |-> out.l, tree |-> NoRecord]
RootBegun(lc, x) == RootNode(lc, LexNode(x.l, x.p))
RootBegin(lc, x) == RootBegun(lc, ExecAction(x.l, lc.begin, x.p, x.p))
RootInit(l, no, lc, p) ==
    RootBegin(lc, IF no \in l.inits THEN [l |-> l, p |-> p]
                  ELSE ExecAction([l EXCEPT !.inits = @ \cup {no}], lc.init, p, p))
RootIn(l, no, p) == RootInit(SetHere([l EXCEPT !.ctx = <<no>>], 0), no, ContextOf(l, no), p)
LexRoot(l, p) ==
    LET clean == [l EXCEPT !.stop = FALSE, !.level = 0, !.ctx = <<>>, !.nodes = <<>>]
        main == ContextNo(l.contexts, "main")
    IN  IF main = 0 THEN [l |-> clean, tree |-> NoRecord] ELSE RootIn(clean, main, p)

\* grs_read_regx: the window is new at the start of a stream, and kept otherwise.
GrsReadRegx(l) ==
    LexRoot(IF l.pos = 0 THEN [l EXCEPT !.start = 0, !.end = 0, !.size = RegxWindow] ELSE l, l.pos)
LexSpecFor(l, name) == IF l # <<>> /\ l.name = name THEN l ELSE LexSpecCreate(name)

(***************************************************************************)
(* Records are extracted one after the other, and shown from the file or   *)
(* from the copy in the register (extract.c, retrieve.c).                  *)
(***************************************************************************)
RgInit == rgLex = <<>> /\ rgDoc = <<>> /\ rgOpen = FALSE /\ rgRecs = <<>> /\ rgShown = <<>> /\ rgDone = 0

RgOpenFile(d) ==
    /\ ~rgOpen /\ rgDone < RegxDocNo
    /\ rgLex' = WithStream(LexSpecFor(rgLex, d.spec), d.text)
    /\ rgDoc' = d /\ rgOpen' = TRUE /\ rgRecs' = <<>> /\ rgShown' = <<>>
    /\ rgDone' = rgDone + 1

\* zebra_extract_record_stream: the stream goes on where the filter says that the
\* record ends, or where it has read to.
AfterRecord(l) == IF l.endf # 0 THEN SeekTo(l, l.endf) ELSE l
RgRead ==
    /\ rgOpen
    /\ \E r \in {GrsReadRegx([rgLex EXCEPT !.endf = 0])} :
          IF r.tree = NoRecord
          THEN rgLex' = r.l /\ rgOpen' = FALSE /\ UNCHANGED rgRecs
          ELSE /\ rgLex' = AfterRecord(r.l)
               /\ rgRecs' = Append(rgRecs, [start |-> rgLex.pos, end |-> AfterRecord(r.l).pos, tree |-> r.tree])
               /\ UNCHANGED rgOpen
    /\ UNCHANGED <<rgDoc, rgShown, rgDone>>

\* zebra_create_record_stream: the file from the record on, or the stored copy.
RgShow(i, stored) ==
    LET text == SubSeq(rgDoc.text, rgRecs[i].start + 1, IF stored THEN rgRecs[i].end ELSE Len(rgDoc.text))
    IN  /\ ~rgOpen
        /\ \E r \in {GrsReadRegx(WithStream(rgLex, text))} :
              rgLex' = r.l /\ rgShown' = [rec |-> i, stored |-> stored, tree |-> r.tree]
        /\ UNCHANGED <<rgDoc, rgOpen, rgRecs, rgDone>>

RgNext ==
    \/ \E d \in RegxDocs : RgOpenFile(d)
    \/ RgRead
    \/ \E i \in DOMAIN rgRecs, stored \in BOOLEAN : RgShow(i, stored)

(***************************************************************************)
(* What a filter is for.                                                   *)
(***************************************************************************)
\* The text of the fields with their tags, and the attributes.
FieldsOf(tree) ==
    FoldLeft(LAMBDA fs, n : IF n.which = "data" THEN Append(fs, <<tree[n.up].tag, n.text>>) ELSE fs \o n.attrs,
             <<>>, tree)

\* A file gives the records it is made of, whatever the window it is read through;
\* the next record starts where one ended, and no text is left unreleased; and a
\* record is shown as it was indexed, from its file and from its copy.
RegxExact ==
    /\ rgDoc # <<>> =>
          /\ \A i \in DOMAIN rgRecs : i <= Len(rgDoc.means) /\ FieldsOf(rgRecs[i].tree) = rgDoc.means[i]
          /\ ~rgOpen => Len(rgRecs) = Len(rgDoc.means)
    /\ \A i \in DOMAIN rgRecs :
          /\ rgRecs[i].start = IF i = 1 THEN 0 ELSE rgRecs[i - 1].end
          /\ rgRecs[i].end > rgRecs[i].start
    /\ rgShown # <<>> => rgShown.tree = rgRecs[rgShown.rec].tree
=============================================================================
