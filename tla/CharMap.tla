------------------------------ MODULE CharMap ------------------------------
(***************************************************************************)
(* Character maps (util/charmap.c) and the register types that use them    *)
(* (util/zebramap.c).  A .chr file fills a trie of strings of bytes; text  *)
(* is mapped by its longest entry, first one that begins with "^" at the   *)
(* start of a field.  An .idx file lists the types of registers.           *)
(*                                                                         *)
(* A line of a file is its name and its arguments, already split.  In a    *)
(* .chr file an argument is a sequence of items: a string (one character   *)
(* or a group in parentheses, escapes resolved), a range, or a group that  *)
(* is not closed.                                                          *)
(***************************************************************************)
EXTENDS Integers, SequencesExt, FiniteSetsExt, TLC

CONSTANTS
  ChrBytes,     \* the bytes of text
  ChrFiles,     \* the .chr files: name -> sequence of lines
  MaxEquiv      \* strings of an "equivalent" line that are kept (CHR_MAXEQUIV)

ChrUnknown == 1
ChrBlank == 2           \* CHR_SPACE
ChrCut == 3
ChrBase == 5
FieldBegin == 94        \* "^"
NoTarget == <<>>

(***************************************************************************)
(* The trie: its nodes as the strings that lead to them, with their        *)
(* targets.                                                                *)
(***************************************************************************)
SetMapString(trie, from, to) ==
  (from :> to) @@ trie @@ [p \in {SubSeq(from, 1, n) : n \in 0..Len(from)} |-> NoTarget]

\* find_entry_x from a node of the trie: the entry of the front of s, and the rest of s.
NoEntry == [at |-> <<>>, target |-> NoTarget, rest |-> <<>>]
Itself(trie, node, s) == IF trie[node] = NoTarget THEN NoEntry ELSE [at |-> node, target |-> trie[node], rest |-> s]
RECURSIVE FindEntry(_, _, _, _)
Child(trie, node, c, s, first) ==
  IF Append(node, c) \in DOMAIN trie THEN FindEntry(trie, Append(node, c), s, first) ELSE NoEntry
AtBegin(trie, node, s, begin) ==
  IF begin.target # NoTarget /\ begin.at # Append(node, FieldBegin) THEN begin ELSE NoEntry
OrElse(e, other) == IF e.target # NoTarget THEN e ELSE other
FindEntry(trie, node, s, first) ==
  IF s = <<>> THEN Itself(trie, node, s)
  ELSE IF first /\ AtBegin(trie, node, s, Child(trie, node, FieldBegin, s, FALSE)) # NoEntry
  THEN Child(trie, node, FieldBegin, s, FALSE)
  ELSE OrElse(Child(trie, node, Head(s), Tail(s), FALSE), Itself(trie, node, s))

(***************************************************************************)
(* chrmaptab_create.  The arguments of a bad line are not used: the table  *)
(* is given up.                                                            *)
(***************************************************************************)
NoTab == [ok |-> FALSE]
NewTab ==
  [ok |-> TRUE, base |-> 0, num |-> ChrBase, errors |-> 0,
   input |-> [p \in {<<>>} \cup {<<c>> : c \in ChrBytes} |-> <<ChrUnknown>>],
   q |-> (<<>> :> NoTarget), output |-> (ChrBlank :> <<32>>) @@ (ChrUnknown :> <<64>>)]

ItemOk(it) == it.kind = "string" \/ (it.kind = "range" /\ it.from < it.to)
ItemStrings(it) == IF it.kind = "string" THEN <<it.s>> ELSE [i \in 1..(it.to - it.from + 1) |-> <<it.from + i - 1>>]
ScanString(arg) == FlattenSeq([i \in DOMAIN arg |-> ItemStrings(arg[i])])

AddEntry(tab, s) ==
  [tab EXCEPT !.input = SetMapString(@, s, <<tab.num>>), !.output = (tab.num + tab.base :> s) @@ @, !.num = @ + 1]
AddSpace(tab, s) == [tab EXCEPT !.input = SetMapString(@, s, <<ChrBlank>>)]
AddCut(tab, s) == [tab EXCEPT !.input = SetMapString(@, s, <<ChrCut>>)]
\* fun_mkstring: of every string only the entry of its front.
MkString(tab, strings) == FlattenSeq([i \in DOMAIN strings |-> FindEntry(tab.input, <<>>, strings[i], FALSE).target])
AddMap(tab, strings, to) ==
  [tab EXCEPT !.input = FoldLeft(LAMBDA t, s : SetMapString(t, s, to), @, strings)]
AddEquivalent(tab, strings) ==
  [tab EXCEPT !.q = FoldLeft(LAMBDA t, s : SetMapString(t, s, strings), @, strings)]

Lowercase(tab) ==
  [tab EXCEPT !.base = tab.num, !.num = ChrBase,
              !.output = (ChrBlank + tab.num :> <<32>>) @@ (ChrUnknown + tab.num :> <<64>>) @@ @]
ChrDirectives == [lowercase |-> 1, uppercase |-> 1, space |-> 1, cut |-> 1, map |-> 2, equivalent |-> 1, encoding |-> 1]
ChrLineOk(tab, line) ==
  /\ line.op \in DOMAIN ChrDirectives
  /\ Len(line.args) = ChrDirectives[line.op]
  /\ \A i \in DOMAIN line.args : \A j \in DOMAIN line.args[i] : ItemOk(line.args[i][j])
  /\ line.op = "uppercase" => tab.base # 0
  /\ line.op = "equivalent" => ScanString(line.args[1]) # <<>>
ChrLine(tab, line) ==
  LET strings == ScanString(line.args[1])
  IN  IF tab.errors > 0 THEN tab
      ELSE IF ~ChrLineOk(tab, line) THEN [tab EXCEPT !.errors = 1]
      ELSE CASE line.op = "lowercase" -> Lowercase(FoldLeft(AddEntry, tab, strings))
             [] line.op = "uppercase" -> FoldLeft(AddEntry, tab, strings)
             [] line.op = "space" -> FoldLeft(AddSpace, tab, strings)
             [] line.op = "cut" -> FoldLeft(AddCut, tab, strings)
             [] line.op = "map" -> AddMap(tab, strings, MkString(tab, ScanString(line.args[2])))
             [] line.op = "equivalent" ->
                  AddEquivalent(tab, SubSeq(strings, 1, IF Len(strings) > MaxEquiv THEN MaxEquiv ELSE Len(strings)))
             [] OTHER -> tab
ChrLines(lines) == FoldLeft(ChrLine, NewTab, lines)
ChrTabCreate(name) ==
  IF name \notin DOMAIN ChrFiles \/ ChrFiles[name] = <<>> \/ ChrLines(ChrFiles[name]).errors > 0 THEN NoTab
  ELSE ChrLines(ChrFiles[name])

(***************************************************************************)
(* zebramap.c: parse_command on x == [maps, fails].                        *)
(***************************************************************************)
NewMap(id, type) ==
  [id |-> id, type |-> type, completeness |-> 0, positioned |-> 0, alwaysmatches |-> 0, firstinfield |-> 0,
   chain |-> FALSE, entrysize |-> 0, charmap |-> "@"]
AddedMap(x, zm) == [x EXCEPT !.maps = Append(@, zm)]
LastMap(x) == x.maps[Len(x.maps)]
SetLast(x, zm) == [x EXCEPT !.maps[Len(x.maps)] = zm]
CommandOk(x, line) ==
  /\ Len(line.args) = 1
  /\ \/ line.op \in {"index", "sort", "staticrank"}
     \/ /\ x.maps # <<>>
        /\ \/ line.op \in {"completeness", "position", "firstinfield", "simplechain"}
           \/ line.op \in {"charmap", "alwaysmatches"} /\ LastMap(x).type # "staticrank"
           \/ line.op = "entrysize" /\ LastMap(x).type = "sort"
ParseCommand(x, line) ==
  IF ~CommandOk(x, line) THEN [x EXCEPT !.fails = @ + 1]
  ELSE CASE line.op = "index" -> AddedMap(x, [NewMap(line.args[1], "index") EXCEPT !.positioned = 1])
         [] line.op = "sort" -> AddedMap(x, [NewMap(line.args[1], "sort") EXCEPT !.entrysize = 80])
         [] line.op = "staticrank" -> AddedMap(x, [NewMap(line.args[1], "staticrank") EXCEPT !.completeness = 1])
         [] line.op = "charmap" -> SetLast(x, [LastMap(x) EXCEPT !.charmap = line.args[1]])
         [] line.op = "completeness" -> SetLast(x, [LastMap(x) EXCEPT !.completeness = line.args[1]])
         [] line.op = "position" -> SetLast(x, [LastMap(x) EXCEPT !.positioned = line.args[1]])
         [] line.op = "alwaysmatches" -> SetLast(x, [LastMap(x) EXCEPT !.alwaysmatches = line.args[1]])
         [] line.op = "firstinfield" -> SetLast(x, [LastMap(x) EXCEPT !.firstinfield = line.args[1]])
         [] line.op = "entrysize" -> SetLast(x, [LastMap(x) EXCEPT !.entrysize = line.args[1]])
         [] OTHER -> SetLast(x, [LastMap(x) EXCEPT !.chain = TRUE])

HasMap(maps, id) == \E i \in DOMAIN maps : maps[i].id = id
MapGet(maps, id) == maps[Min({i \in DOMAIN maps : maps[i].id = id})]
MapGetOrAdd(maps, id) == IF HasMap(maps, id) THEN maps ELSE Append(maps, [NewMap(id, "index") EXCEPT !.positioned = 1])

\* zebra_charmap_get: the table of a map, or none.
CharmapGet(zm) == IF zm.charmap = "@" THEN NoTab ELSE ChrTabCreate(zm.charmap)
MapsInput(tab, s, first) ==
  IF tab.ok THEN FindEntry(tab.input, <<>>, s, first) ELSE [at |-> <<Head(s)>>, target |-> <<Head(s)>>, rest |-> Tail(s)]
\* zebra_maps_search: the strings that stand for the front of s, and the rest.
Raw(s, e) == [target |-> <<SubSeq(s, 1, Len(s) - Len(e.rest))>>, rest |-> e.rest]
MapsSearch(tab, s) ==
  IF tab.ok /\ FindEntry(tab.q, <<>>, s, FALSE).target # NoTarget THEN FindEntry(tab.q, <<>>, s, FALSE)
  ELSE Raw(s, MapsInput(tab, s, FALSE))
MapsOutput(tab, value) == IF tab.ok /\ value \in DOMAIN tab.output THEN tab.output[value] ELSE <<value>>
=============================================================================
