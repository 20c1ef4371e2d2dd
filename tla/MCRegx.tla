------------------------------- MODULE MCRegx -------------------------------
(* Constants of Regx for TLC: filters, and files with the records they are. *)
EXTENDS MCRpn, Regx
Colon == 38
From == 39
RgLit(s) == [lit |-> s]
RgArg(n) == [arg |-> n]
Pat(p) == [tok |-> "pattern", pat |-> p]
Code(c) == [tok |-> "code", code |-> c]
RgBody == [tok |-> "body"]
Rule(p, acts) == [kind |-> "rule", pat |-> p, acts |-> acts]
RgOp(o) == [op |-> o]
Begin(o, t) == [op |-> o, name |-> t]
EndElem == [op |-> "end element", record |-> FALSE]
Data(elem, attr, fmt, items) == [op |-> "data", elem |-> elem, attr |-> attr, fmt |-> fmt, items |-> items]
EmailTag == <<201>>
BodyTag == <<202>>
WaisTag == <<203>>
NameTag == <<204>>
RTag == <<205>>
AnyLine == <<Dot, Star, Dollar>>
\* test/mbox/email2.flt, with one letter for "From " and one, C, that headers begin with
MailFlt ==
  << [kind |-> "begin", acts |-> <<Pat(AnyLine), Code(<<Begin("begin record", RgLit(EmailTag)), Begin("begin context", "headers")>>)>>],
     Rule(<<Hat, From, Dot, Star, Dollar>>, <<Code(<<[op |-> "unread", no |-> 0, offset |-> 0], EndElem, RgOp("end record")>>)>>),
     [kind |-> "context", name |-> "headers"],
     Rule(<<Hat, OpenSet, C, CloseSet, OpenSet, Hat, Colon, CloseSet, Star>>,
          <<Pat(<<Colon>>), Code(<<EndElem, Begin("begin element", RgArg(0))>>)>>),
     Rule(<<Backslash, LetterN, Backslash, LetterN>>, <<Code(<<RgOp("end context"), EndElem, Begin("begin element", RgLit(BodyTag))>>)>>),
     Rule(<<Backslash, LetterN>>, <<Code(<<>>)>>),
     [kind |-> "end", acts |-> <<Code(<<RgOp("end record")>>)>>] >>
Header(h) == h[1] \o h[3] \o <<Colon>> \o h[2] \o <<NewLine>>
MailText(m) == <<From, A, NewLine>> \o FoldLeft(LAMBDA t, h : t \o Header(h), <<>>, m.headers) \o <<NewLine>> \o m.body
MailMeans(m) == [i \in DOMAIN m.headers |-> SubSeq(m.headers[i], 1, 2)] \o (IF m.body = <<>> THEN <<>> ELSE <<<<BodyTag, m.body>>>>)
Mail(headers, body) == [headers |-> headers, body |-> body]
M1 == Mail(<< <<<<C>>, <<B>>, <<>>>> >>, <<>>)
M2 == Mail(<< <<<<C, B>>, <<A, B, A>>, <<>>>> >>, <<B, A, NewLine>>)
M3 == Mail(<< <<<<C>>, <<A>>, <<Space, Space>>>>, <<<<C, A>>, <<B, B>>, <<>>>> >>, <<NewLine, C, NewLine>>)
M4 == Mail(<< <<<<C, B, A>>, <<B, A, B>>, <<Space>>>> >>, <<A, NewLine>>)
Mails == {M1, M2, M3, M4}
MailDoc(ms) == [spec |-> "mail", text |-> FoldLeft(LAMBDA t, m : t \o MailText(m), <<>>, ms),
                means |-> [i \in DOMAIN ms |-> MailMeans(ms[i])]]
NewsFlt ==
  << [kind |-> "begin", acts |-> <<Code(<<Begin("begin record", RgLit(WaisTag))>>)>>],
     Rule(<<Hat, A, Colon>>, <<RgBody, Pat(<<Dollar>>), Code(<<Data(RgLit(NameTag), <<>>, FALSE, <<RgArg(1)>>)>>)>>),
     Rule(<<Hat, Dollar>>, <<RgBody, [tok |-> "end"],
          Code(<<Begin("begin element", RgLit(BodyTag)), Data(<<>>, <<>>, TRUE, <<RgLit(<<B>>), RgArg(1)>>), RgOp("end record")>>)>>) >>
NewsDoc(name, body) ==
  [spec |-> "news", text |-> <<B, NewLine, A, Colon>> \o name \o <<NewLine, NewLine>> \o body,
   means |-> << <<<<WaisTag, <<B, NewLine>>>>, <<NameTag, name>>, <<BodyTag, <<B>> \o body>>>> >>]
Lt == 34
Gt == 35
AtSign == 36
Semi == 37
TagsFlt ==
  << [kind |-> "init", acts |-> <<Code(<<Data(<<>>, <<>>, FALSE, <<RgLit(<<A>>)>>)>>)>>],
     [kind |-> "begin", acts |-> <<Code(<<Begin("begin record", RgLit(RTag))>>)>>],
     Rule(<<Lt>>, <<Pat(<<OpenSet, A, B, CloseSet, Plus>>), Code(<<Begin("begin element", RgArg(1)), Begin("begin context", "attrs")>>)>>),
     Rule(<<Semi>>, <<Code(<<[op |-> "end element", record |-> TRUE]>>)>>),
     [kind |-> "context", name |-> "attrs"],
     Rule(<<AtSign>>, <<RgBody, Pat(<<AtSign>>), Code(<<Data(<<>>, RgLit(<<B>>), FALSE, <<RgLit(<<C>>), RgArg(1)>>)>>)>>),
     Rule(<<Gt>>, <<Code(<<Begin("context", "text")>>)>>),
     [kind |-> "context", name |-> "text"],
     Rule(<<Lt, Gt>>, <<Code(<<EndElem, RgOp("end context")>>)>>),
     Rule(<<AtSign, B, Quest>>, <<Code(<<Data(<<>>, <<>>, FALSE, <<RgArg(0), RgLit(<<C>>)>>)>>)>>) >>
TagsRec == <<Lt, A, AtSign, B, AtSign, AtSign, B, AtSign, Gt, A, B, AtSign, B, A, Lt, Gt, Lt, B, B, Gt, C, AtSign, Lt, Gt, Semi>>
TagsMeans == << <<<<B>>, <<C, B, C, B>>>>, <<<<A>>, <<A, B, AtSign, B, C, A>>>>, <<<<B, B>>, <<C, AtSign, C>>>> >>
TagsDoc(n) == [spec |-> "tags", text |-> FoldLeft(LAMBDA t, i : t \o TagsRec, <<>>, [i \in 1..n |-> i]),
               means |-> [i \in 1..n |-> TagsMeans]]
\* Empty records that the window holds: the next file starts where it still is.
EmptyDoc == [spec |-> "tags", text |-> <<Semi, Semi>>, means |-> << <<>>, <<>> >>]
MCRegxSpecs == [mail |-> MailFlt, news |-> NewsFlt, tags |-> TagsFlt]
MCRegxDocs == {MailDoc(<<m>>) : m \in Mails} \cup {MailDoc(<<m, n>>) : m \in Mails, n \in Mails}
  \cup {MailDoc(<<M1, M3, M2>>), NewsDoc(<<B>>, <<A, NewLine>>), NewsDoc(<<C, A>>, <<>>), NewsDoc(<<B, C, B>>, <<A, B, C>>), TagsDoc(1), TagsDoc(2),
        EmptyDoc}
=============================================================================
