------------------------------- MODULE Tokens -------------------------------
(***************************************************************************)
(* From the text of a field to the keys of a record (index/extract.c), and *)
(* once more, when a record is shown, to the words of its text with the    *)
(* numbers of those keys (extract_snippet, util/snippet.c).  The two       *)
(* passes run different code over the same text and must agree: the words  *)
(* that a search found are looked up in the second by their numbers.       *)
(*                                                                         *)
(* Fields come from a record filter as mod_dom.c hands them over: a text   *)
(* and the indexes it goes to.  Text is a sequence of bytes.               *)
(***************************************************************************)
EXTENDS CharMap

CONSTANTS
  MaxWord,      \* length of a term (IT_MAX_WORD)
  MatchMax,     \* words of a field in a match key (32 in the code)
  IdxFiles,     \* .idx files, as sequences of lines
  TkDocs,       \* records: sequences of fields, a text and the indexes [name, type] it goes to
  TkKnown,      \* indexes that other records of the database are in
  TkSpecs,      \* match criteria, as sequences of [kind, arg]
  TkAsks        \* searches: the names and the type of the indexes looked in, the word as text

VARIABLES
  tkIdx,        \* the .idx file: the lines left, the maps so far
  tkTabs,       \* the tables loaded, by the id of their map
  tkRec,        \* the record that is extracted, and its fields
  tkShow        \* what was made of it: the words of its text, those marked, or the match key

tkVars == <<tkIdx, tkTabs, tkRec, tkShow>>

FirstMark == <<1, FieldBegin>>          \* FIRST_IN_FIELD_STR
Cap(term) == SubSeq(term, 1, IF Len(term) > MaxWord THEN MaxWord ELSE Len(term))
IsBlank(e) == e.target[1] = ChrBlank

(***************************************************************************)
(* Terms of a text.                                                        *)
(***************************************************************************)
RECURSIVE Entries(_, _)
Entries(tab, s) ==
  IF s = <<>> THEN <<>> ELSE LET e == MapsInput(tab, s, FALSE) IN <<e @@ [len |-> Len(s) - Len(e.rest)]>> \o Entries(tab, e.rest)

\* extract_add_incomplete_field: a term for every run of entries that are no space.
NextEntry(x, e) ==
  IF ~IsBlank(e) THEN [x EXCEPT !.word = Cap(@ \o e.target)]
  ELSE IF x.word = <<>> THEN x
  ELSE [word |-> <<>>, out |-> Append(x.out, x.word)]
EndWords(x) == IF x.word = <<>> THEN x.out ELSE Append(x.out, x.word)
TermsOfEntries(es) == EndWords(FoldLeft(NextEntry, [word |-> <<>>, out |-> <<>>], es))
IncompleteTerms(tab, s) == TermsOfEntries(Entries(tab, s))

\* parse_complete_field: e is the entry in hand, in tells that it is in a word.
RECURSIVE CompleteLoop(_, _, _, _)
NextInput(tab, s, first) == IF s = <<>> THEN NoEntry ELSE MapsInput(tab, s, first)
CompleteLoop(tab, e, buf, in) ==
  IF e = NoEntry \/ (Len(buf) >= MaxWord /\ ~(in /\ e.target[1] = ChrCut)) THEN buf
  ELSE IF IsBlank(e) /\ in THEN CompleteLoop(tab, e, buf, FALSE)
  ELSE IF IsBlank(e) THEN CompleteLoop(tab, NextInput(tab, e.rest, buf = <<>>), buf, FALSE)
  ELSE IF ~in THEN CompleteLoop(tab, e, IF buf = <<>> THEN buf ELSE Append(buf, ChrBlank), TRUE)
  ELSE CompleteLoop(tab, NextInput(tab, e.rest, FALSE), IF e.target[1] = ChrCut THEN <<>> ELSE Cap(buf \o e.target), TRUE)
ParseCompleteField(tab, s) == CompleteLoop(tab, NextInput(tab, s, TRUE), <<>>, FALSE)

\* tokenize_simple
SeChars == {59, 44, 46, 40, 41, 45, 47, 63, 60, 62, 32, 13, 10, 9}
ToLower(c) == IF c \in 65..90 THEN c + 32 ELSE c
NextSimple(x, c) ==
  IF c \notin SeChars THEN [x EXCEPT !.word = Append(@, ToLower(c))]
  ELSE IF x.word = <<>> THEN x
  ELSE [word |-> <<>>, out |-> Append(x.out, x.word)]
SimpleTerms(s) == EndWords(FoldLeft(NextSimple, [word |-> <<>>, out |-> <<>>], s))

(***************************************************************************)
(* extract_token_add on x == [seqno, type, keys, sort, rank].              *)
(***************************************************************************)
TkOrd(cat, t) == [cat |-> cat, name |-> t.name, type |-> t.type]
TkKey(cat, t, seqno, term) == [ord |-> TkOrd(cat, t), seqno |-> seqno, term |-> term]
RECURSIVE Atozint(_, _)
Atozint(s, n) == IF s # <<>> /\ Head(s) \in 48..57 THEN Atozint(Tail(s), 10 * n + Head(s) - 48) ELSE n
IndexString(x, zm, t, term) ==
  [x EXCEPT !.keys = @ \o <<TkKey("index", t, x.seqno, term)>>
                       \o (IF zm.alwaysmatches # 0 THEN <<TkKey("always", t, 1, <<>>)>> ELSE <<>>)]
AddString(x, zm, t, term) ==
  CASE zm.type = "index" -> IndexString(x, zm, t, term)
    [] zm.type = "sort" -> [x EXCEPT !.sort = Append(@, [ord |-> TkOrd("sort", t), term |-> term])]
    [] OTHER -> [x EXCEPT !.rank = Atozint(term, 0)]
AddWord(x, zm, t, term) == [AddString(x, zm, t, term) EXCEPT !.seqno = @ + 1]
AddWords(x, zm, t, terms) == FoldLeft(LAMBDA y, term : AddWord(y, zm, t, term), x, terms)
AddIncomplete(x, zm, t, terms) ==
  AddWords(x, zm, t, IF terms # <<>> /\ zm.firstinfield # 0 THEN <<FirstMark>> \o terms ELSE terms)
AddComplete(x, zm, t, term) == IF term = <<>> THEN x ELSE AddWord(x, zm, t, term)
AddIcu(x, zm, t, terms) == AddWords(x, zm, t, [i \in DOMAIN terms |-> Cap(terms[i])])
TokenAdd(x, zm, tab, t, s) ==
  IF zm.chain THEN AddIcu(x, zm, t, SimpleTerms(s))
  ELSE IF zm.completeness # 0 THEN AddComplete(x, zm, t, ParseCompleteField(tab, s))
  ELSE AddIncomplete(x, zm, t, IncompleteTerms(tab, s))

(***************************************************************************)
(* snippet_token_add on x == [seqno, type, words].                         *)
(***************************************************************************)
SnWord(t, seqno, ws, text) == [ord |-> TkOrd("index", t), seqno |-> seqno, ws |-> ws, text |-> text, mark |-> FALSE, match |-> FALSE]
Shown(x, zm, w) == IF zm.type = "index" THEN [x EXCEPT !.words = Append(@, w)] ELSE x
Counted(x) == [x EXCEPT !.seqno = @ + 1]
ShowComplete(x, zm, t, s) == Counted(Shown(x, zm, SnWord(t, x.seqno, FALSE, s)))

\* snippet_add_incomplete_field: y.piece is the text since start, y.ws what it is.
CloseBlank(y, zm, t) ==
  IF y.piece = <<>> THEN y ELSE [y EXCEPT !.x = Shown(@, zm, SnWord(t, y.x.seqno, TRUE, y.piece)), !.piece = <<>>]
FirstOf(y, zm) == IF y.first /\ zm.firstinfield # 0 THEN [y EXCEPT !.x = Counted(@), !.first = FALSE] ELSE [y EXCEPT !.first = FALSE]
CloseWord(y, zm, t) ==
  [y EXCEPT !.x = Counted(Shown(@, zm, SnWord(t, y.x.seqno, FALSE, y.piece))), !.piece = <<>>]
Turn(y, zm, t, blank) ==
  IF y.blank = blank THEN y
  ELSE IF blank THEN [CloseWord(FirstOf(y, zm), zm, t) EXCEPT !.blank = TRUE]
  ELSE [CloseBlank(y, zm, t) EXCEPT !.blank = FALSE]
NextPiece(y, e, zm, t) ==
  LET z == Turn(y, zm, t, IsBlank(e))
  IN  [z EXCEPT !.piece = @ \o SubSeq(y.s, 1, e.len), !.s = SubSeq(@, e.len + 1, Len(@))]
EndPieces(y, zm, t) == IF y.blank THEN y.x ELSE CloseWord(FirstOf(y, zm), zm, t).x
ShowIncomplete(x, zm, t, s, es) ==
  EndPieces(FoldLeft(LAMBDA y, e : NextPiece(y, e, zm, t),
                     [x |-> x, piece |-> <<>>, blank |-> TRUE, first |-> TRUE, s |-> s], es), zm, t)
\* snippet_add_icu: tokenize_simple gives no text to show.
ShowIcu(x, zm, t, terms) ==
  FoldLeft(LAMBDA y, term : Counted(Shown(y, zm, SnWord(t, y.seqno, FALSE, <<>>))), x, terms)
SnippetTokenAdd(x, zm, tab, t, s) ==
  IF zm.chain THEN ShowIcu(x, zm, t, SimpleTerms(s))
  ELSE IF zm.completeness = 0 THEN ShowIncomplete(x, zm, t, s, Entries(tab, s))
  ELSE IF ParseCompleteField(tab, s) = <<>> THEN x
  ELSE ShowComplete(x, zm, t, s)

(***************************************************************************)
(* index_value_of of mod_dom.c: one text, several indexes, the same        *)
(* numbers.  pass tells which of the two handlers takes the tokens.        *)
(***************************************************************************)
WithType(x, t) == IF t.type = "" THEN [t EXCEPT !.type = x.type] ELSE t
Handled(pass, x, zm, tab, t, s) ==
  IF pass = "extract" THEN TokenAdd(x, zm, tab, t, s) ELSE SnippetTokenAdd(x, zm, tab, t, s)
OneIndex(pass, maps, tabs, base, x, t, s) ==
  LET y == Handled(pass, [x EXCEPT !.seqno = base, !.type = t.type], MapGet(maps, t.type), tabs[t.type], t, s)
  IN  [y EXCEPT !.seqno = IF x.seqno > y.seqno THEN x.seqno ELSE y.seqno]
IndexValueOf(pass, maps, tabs, x, field) ==
  IF field.text = <<>> THEN x
  ELSE FoldLeft(LAMBDA y, t : OneIndex(pass, maps, tabs, x.seqno, y, WithType(y, t), field.text), x, field.targets)

ExtractInit == [seqno |-> 1, type |-> "w", keys |-> <<>>, sort |-> <<>>, rank |-> 0]
SnippetInit == [seqno |-> 1, type |-> "w", words |-> <<>>]
ExtractSnippet(maps, tabs, fields) ==
  FoldLeft(LAMBDA x, f : IndexValueOf("snippet", maps, tabs, x, f), SnippetInit, fields).words

(***************************************************************************)
(* zebra_snippets_ring and zebra_snippets_lookup.                          *)
(***************************************************************************)
SameWord(w, h) == w.ord = h.ord /\ w.seqno = h.seqno /\ ~w.ws
Near5(w, h, before, after) == w.ord = h.ord /\ h.seqno - before < w.seqno /\ h.seqno + after > w.seqno
RECURSIVE MarkFrom(_, _, _, _, _, _)
MarkFrom(doc, i, d, h, before, after) ==
  IF i \in DOMAIN doc /\ Near5(doc[i], h, before, after)
  THEN MarkFrom([doc EXCEPT ![i].mark = TRUE], i + d, d, h, before, after)
  ELSE doc
RingAt(doc, i, h, before, after) ==
  IF i = 0 THEN doc
  ELSE MarkFrom(MarkFrom([doc EXCEPT ![i].mark = TRUE, ![i].match = TRUE], i + 1, 1, h, before, after),
                i - 1, -1, h, before, after)
RingHit(doc, h, before, after) ==
  LET at == {i \in DOMAIN doc : SameWord(doc[i], h)} IN RingAt(doc, IF at = {} THEN 0 ELSE Min(at), h, before, after)
SnippetsClear(doc) == [i \in DOMAIN doc |-> [doc[i] EXCEPT !.mark = FALSE, !.match = FALSE]]
SnippetsRing(doc, hits, before, after) ==
  FoldLeft(LAMBDA d, h : RingHit(d, h, before, after), SnippetsClear(doc), hits)

\* zebra_snippets_hit_vector, for a search for one term in indexes of a type: every
\* key is taken for a hit in each of the indexes.
HitSeqnos(keys, ords, term) == {keys[i].seqno : i \in {j \in DOMAIN keys : keys[j].ord \in ords /\ keys[j].term = term}}
HitVector(keys, ords, term) ==
  LET seqnos == SetToSortSeq(HitSeqnos(keys, ords, term), <)
      list == SetToSeq(ords)
  IN  FlattenSeq([i \in DOMAIN seqnos |-> [j \in DOMAIN list |-> [ord |-> list[j], seqno |-> seqnos[i]]]])

(***************************************************************************)
(* get_match_from_spec                                                     *)
(***************************************************************************)
HasOrd(keys, ord) == \E i \in DOMAIN keys : keys[i].ord = ord
MatchOrds(name) == [i \in 1..3 |-> TkOrd("index", [name |-> name, type |-> <<"0", "p", "w">>[i]])]
OfOrd(keys, ord) == SelectSeq(keys, LAMBDA k : k.ord = ord)
\* searchRecordKey: the last key of every number from the first one on.
WordInOrder(ks, off) ==     \* without regard to the numbers
  IF off + 1 \in DOMAIN ks THEN <<ks[off + 1].term>> ELSE <<>>
WordAt(ks, off) ==
  LET is == {i \in DOMAIN ks : ks[i].seqno - ks[1].seqno = off} IN IF is = {} THEN <<>> ELSE <<ks[Max(is)].term>>
RecordKey(ks) == IF ks = <<>> THEN <<>> ELSE FlattenSeq([i \in 1..MatchMax |-> WordAt(ks, i - 1)])
\* The index of the name that the register has is asked for, in that order.
FieldWords(ords, keys, name) ==
  LET known == SelectSeq(MatchOrds(name), LAMBDA o : o \in ords)
  IN  IF known = <<>> THEN <<>> ELSE RecordKey(OfOrd(keys, known[1]))
NoMatch == [ok |-> FALSE]
MatchItem(ords, keys, m, item) ==
  IF ~m.ok \/ item.kind = "error" \/ (item.kind = "field" /\ FieldWords(ords, keys, item.arg) = <<>>) THEN NoMatch
  ELSE IF item.kind = "field" THEN [m EXCEPT !.key = @ \o <<32>> \o FlattenSeq(FieldWords(ords, keys, item.arg)) \o <<1>>]
  ELSE [m EXCEPT !.key = @ \o item.arg \o <<1>>]
MatchFromSpec(ords, keys, spec) ==
  LET m == FoldLeft(LAMBDA y, item : MatchItem(ords, keys, y, item), [ok |-> TRUE, key |-> <<>>], spec)
  IN  IF spec = <<>> THEN NoMatch ELSE m

\* zebra_term_untrans
TermUntrans(tab, term) == FlattenSeq([i \in DOMAIN term |-> MapsOutput(tab, term[i])])

(***************************************************************************)
(* The machine: read an .idx file, extract a record field by field, show   *)
(* it.                                                                     *)
(***************************************************************************)
NothingShown == [made |-> "-"]
TkIdle == tkTabs = <<>> /\ tkRec = [x |-> ExtractInit, fields |-> <<>>, left |-> <<>>] /\ tkShow = NothingShown
TkInit ==
  /\ tkIdx \in {[left |-> f, maps |-> <<>>, fails |-> 0] : f \in IdxFiles}
  /\ TkIdle

ReadIdxLine ==
  /\ tkIdx.left # <<>>
  /\ tkIdx' = [ParseCommand(tkIdx, Head(tkIdx.left)) EXCEPT !.left = Tail(@)]
  /\ UNCHANGED <<tkTabs, tkRec, tkShow>>

StartRecord(doc) ==
  /\ tkIdx.left = <<>> /\ tkIdx.fails = 0
  /\ tkRec.fields = <<>> /\ tkRec.left = <<>>
  /\ tkRec' = [tkRec EXCEPT !.left = doc]
  /\ UNCHANGED <<tkIdx, tkTabs, tkShow>>

TypesOf(targets, type) == {WithType([type |-> type], targets[i]).type : i \in DOMAIN targets}
AddTypes(maps, types) == FoldLeft(MapGetOrAdd, maps, SetToSeq(types))
LoadTabs(maps, types) == [id \in types |-> CharmapGet(MapGet(maps, id))]
ExtractField ==
  /\ tkRec.left # <<>>
  /\ \E field \in {Head(tkRec.left)}, types \in {TypesOf(Head(tkRec.left).targets, tkRec.x.type)} :
     \E maps \in {AddTypes(tkIdx.maps, types)} :
     \E tabs \in {tkTabs @@ LoadTabs(maps, types \ DOMAIN tkTabs)} :
        /\ tkIdx' = [tkIdx EXCEPT !.maps = maps]
        /\ tkTabs' = tabs
        /\ tkRec' = [x |-> IndexValueOf("extract", maps, tabs, tkRec.x, field),
                     fields |-> Append(tkRec.fields, field), left |-> Tail(tkRec.left)]
  /\ UNCHANGED tkShow

Extracted == tkRec.fields # <<>> /\ tkRec.left = <<>>
TextShow ==
  /\ Extracted /\ tkShow = NothingShown
  /\ tkShow' = [made |-> "words", words |-> ExtractSnippet(tkIdx.maps, tkTabs, tkRec.fields)]
  /\ UNCHANGED <<tkIdx, tkTabs, tkRec>>

AskOrds(ask) == {TkOrd("index", [name |-> n, type |-> ask.type]) : n \in ask.names}
TermsOfText(zm, tab, s) ==
  IF zm.chain THEN SimpleTerms(s)
  ELSE IF zm.completeness # 0 THEN <<ParseCompleteField(tab, s)>>
  ELSE IncompleteTerms(tab, s)
AskTerm(ask) == TermsOfText(MapGet(tkIdx.maps, ask.type), tkTabs[ask.type], ask.text)[1]
TextRing(ask) ==
  /\ tkShow.made = "words" /\ ask.type \in DOMAIN tkTabs
  /\ \E hits \in {HitVector(tkRec.x.keys, AskOrds(ask), AskTerm(ask))} :
        /\ hits # <<>>
        /\ tkShow' = [made |-> "ring", ask |-> ask, words |-> SnippetsRing(tkShow.words, hits, 2, 2)]
  /\ UNCHANGED <<tkIdx, tkTabs, tkRec>>

TextMatch(spec) ==
  /\ Extracted /\ tkShow = NothingShown
  /\ \E ords \in {TkKnown \cup {tkRec.x.keys[i].ord : i \in DOMAIN tkRec.x.keys}} :
        tkShow' = [made |-> "key", spec |-> spec, ords |-> ords, match |-> MatchFromSpec(ords, tkRec.x.keys, spec)]
  /\ UNCHANGED <<tkIdx, tkTabs, tkRec>>

TkNext ==
  \/ ReadIdxLine
  \/ \E doc \in TkDocs : StartRecord(doc)
  \/ ExtractField
  \/ TextShow
  \/ \E ask \in TkAsks : TextRing(ask)
  \/ \E spec \in TkSpecs : TextMatch(spec)

(***************************************************************************)
(* Properties.                                                             *)
(***************************************************************************)
\* An entry of a table is the longest one: one after "^" before any other at
\* the start of a field.
Fronts(trie, s, mark) == {n \in 1..Len(s) : LET p == mark \o SubSeq(s, 1, n) IN p \in DOMAIN trie /\ trie[p] # NoTarget}
LongestEntry(tab, s) ==
  LET plain == Fronts(tab.input, s, <<>>)
      begin == Fronts(tab.input, s, <<FieldBegin>>)
      taken(first) == Len(s) - Len(MapsInput(tab, s, first).rest)
  IN  /\ taken(FALSE) = Max(plain)
      /\ taken(TRUE) = IF begin # {} THEN Max(begin) ELSE Max(plain)

\* A complete field is its words with a space between them, from the last cut on; only
\* its front is mapped by the entries after "^".
JoinWords(words) == FlattenSeq([i \in DOMAIN words |-> (IF i = 1 THEN <<>> ELSE <<ChrBlank>>) \o words[i]])
AfterCut(term) == SubSeq(term, 1 + Max({0} \cup {i \in DOMAIN term : term[i] = ChrCut}), Len(term))
NoLead(term) == IF term # <<>> /\ term[1] = ChrBlank THEN Tail(term) ELSE term
NoBegins(tab) == \A p \in DOMAIN tab.input : Len(p) > 1 => p[1] # FieldBegin
RECURSIVE BeginEntries(_, _)
BeginEntries(tab, s) ==
  IF s = <<>> THEN <<>>
  ELSE LET e == MapsInput(tab, s, TRUE) IN IF IsBlank(e) THEN BeginEntries(tab, e.rest) ELSE <<e>> \o Entries(tab, e.rest)
CompleteIsWords(tab, s) ==
  LET joined == JoinWords(TermsOfEntries(BeginEntries(tab, s)))
  IN  Len(joined) < MaxWord /\ (NoBegins(tab) \/ ChrCut \notin Range(joined)) =>
         ParseCompleteField(tab, s) = NoLead(AfterCut(joined))

\* A word is found by a search for its text, and what is shown of a term finds it again.
RECURSIVE TextFinds(_, _)
MapAll(tab, s) == FlattenSeq([i \in DOMAIN Entries(tab, s) |-> Entries(tab, s)[i].target])
TextFinds(tab, s) ==
  IF s = <<>> THEN {<<>>}
  ELSE LET m == MapsSearch(tab, s)
       IN  {MapAll(tab, m.target[i]) \o r : i \in DOMAIN m.target, r \in TextFinds(tab, m.rest)}
WordFound(tab, term, s) ==
  /\ Len(term) < MaxWord => term \in TextFinds(tab, s)
  /\ (\A i \in DOMAIN term : term[i] >= ChrBase) => IncompleteTerms(tab, TermUntrans(tab, term)) = <<term>>

\* The words shown have the numbers of the keys, and are all of the text.
TkTab(w) == tkTabs[w.ord.type]
TkMap(w) == MapGet(tkIdx.maps, w.ord.type)
WordOf(w, k) == k.ord = w.ord /\ k.seqno = w.seqno /\ TermsOfText(TkMap(w), TkTab(w), w.text) = <<k.term>>
Plainly(w) == ~TkMap(w).chain
NumbersAgree(words, keys) ==
  /\ \A i \in DOMAIN words : ~words[i].ws /\ Plainly(words[i]) => \E j \in DOMAIN keys : WordOf(words[i], keys[j])
  /\ \A j \in DOMAIN keys : keys[j].ord.cat = "index" /\ keys[j].term # FirstMark =>
        \E i \in DOMAIN words : ~words[i].ws /\ words[i].ord = keys[j].ord /\ words[i].seqno = keys[j].seqno
LastWordEnd(es) == Max({0} \cup {FoldLeft(LAMBDA n, e : n + e.len, 0, SubSeq(es, 1, i)) : i \in {j \in DOMAIN es : ~IsBlank(es[j])}})
InIndex(field, ord) == \E i \in DOMAIN field.targets : TkOrd("index", field.targets[i]) = ord
Typed(field) == \A i \in DOMAIN field.targets : field.targets[i].type # ""
AllText(words, ord) ==
  LET fields == SelectSeq(tkRec.fields, LAMBDA f : InIndex(f, ord))
      of == SelectSeq(words, LAMBDA w : w.ord = ord)
  IN  FlattenSeq([i \in DOMAIN of |-> of[i].text]) =
      FlattenSeq([i \in DOMAIN fields |-> SubSeq(fields[i].text, 1, LastWordEnd(Entries(tkTabs[ord.type], fields[i].text)))])
TextKept(words) ==
  (\A i \in DOMAIN tkRec.fields : Typed(tkRec.fields[i])) =>
  \A i \in DOMAIN words : Plainly(words[i]) /\ TkMap(words[i]).completeness = 0 => AllText(words, words[i].ord)
WordsFound(words) ==
  \A i \in DOMAIN words : ~words[i].ws /\ Plainly(words[i]) /\ TkTab(words[i]).ok /\ TkMap(words[i]).completeness = 0 =>
     WordFound(TkTab(words[i]), IncompleteTerms(TkTab(words[i]), words[i].text)[1], words[i].text)
WordsShown(words, keys) == NumbersAgree(words, keys) /\ TextKept(words) /\ WordsFound(words)

\* The words marked as found are those of the term asked for, and those around them.
Asked(w) == ~w.ws /\ w.ord \in AskOrds(tkShow.ask) /\ TermsOfText(TkMap(w), TkTab(w), w.text) = <<AskTerm(tkShow.ask)>>
AroundMatch(words, i) ==
  \E j \in DOMAIN words : words[j].match /\ \A k \in (i..j) \cup (j..i) : words[k].ord = words[j].ord /\ words[k].seqno - words[j].seqno \in -1..1
RingExact(words) ==
  \A i \in DOMAIN words :
     /\ Plainly(words[i]) => (words[i].match <=> Asked(words[i]))
     /\ words[i].mark <=> AroundMatch(words, i)

\* A match key holds the first words of the field, whatever else the record has.
MatchWords(ords, name) ==
  LET known == SelectSeq(MatchOrds(name), LAMBDA o : o \in ords)
      words == ExtractSnippet(tkIdx.maps, tkTabs, tkRec.fields)
      of == SelectSeq(words, LAMBDA w : ~w.ws /\ w.ord = known[1])
      start == of[1].seqno - (IF TkMap(of[1]).firstinfield # 0 /\ TkMap(of[1]).completeness = 0 THEN 1 ELSE 0)
  IN  IF known = <<>> \/ of = <<>> THEN <<>>
      ELSE FlattenSeq([i \in DOMAIN of |->
              IF of[i].seqno < start + MatchMax THEN TermsOfText(TkMap(of[i]), TkTab(of[i]), of[i].text) ELSE <<>>])
KeyHolds(spec, ords) ==
  \A i \in DOMAIN spec : spec[i].kind = "field" =>
     SelectSeq(FieldWords(ords, tkRec.x.keys, spec[i].arg), LAMBDA t : t # FirstMark) = MatchWords(ords, spec[i].arg)

\* What is made of text, by extraction, for a search, for display and for a match key,
\* agrees.
TextExact ==
  /\ Extracted => \A i \in DOMAIN tkRec.fields : \A id \in DOMAIN tkTabs :
        tkRec.fields[i].text # <<>> /\ tkTabs[id].ok =>
           LongestEntry(tkTabs[id], tkRec.fields[i].text) /\ CompleteIsWords(tkTabs[id], tkRec.fields[i].text)
  /\ tkShow.made = "words" => WordsShown(tkShow.words, tkRec.x.keys)
  /\ tkShow.made = "ring" => RingExact(tkShow.words)
  /\ tkShow.made = "key" => KeyHolds(tkShow.spec, tkShow.ords)
=============================================================================
