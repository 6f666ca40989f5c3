--------------------------- MODULE MCParseSession ---------------------------
(* Short documents and edits: a line in error and its correction, a plane  *)
(* set before arcs, block numbers with and without a jump, skipped lines,  *)
(* an edit behind the end and one that holds a line break, and comments    *)
(* over several lines, of either kind, that edits open, close and cut.     *)
EXTENDS ParseSession, MCLines

FeedN == N(10, Feed)
Farther == N(10, L(<<G(1), W("X", 2), W("F", 2)>>))
Seconds == N(10, L(<<G(4), W("S", 1)>>))
Plane == SetPlane(18)
Arc == L(<<G(2), W("X", 1), W("K", 1), Eq("AR", 1)>>)
Mixed == L(<<G(1), W("X", 1), Eq("AP", 1)>>)
Optional == Skip(1, Mixed)
Goto10 == GotoN("GOTOF", 10)

\* Lines as they are typed, with a sign that opens or closes a comment.
Opening(sign, l) == [Typed(l) EXCEPT !.opens = sign]
Closing(l, sign) == [Typed(l) EXCEPT !.closes = sign]
OnOneLine(l) == [Typed(l) EXCEPT !.opens = "star", !.closes = "plain"]
Remarked(l) == Closing(Suffix(l), "plain")
TypedText(t) == [k \in DOMAIN t |-> Typed(t[k])]

MCTexts ==
  {TypedText(<<FeedN, TwoMotions, Farther>>), TypedText(<<Plane, Arc, Seconds>>),
   TypedText(<<Rapid, Optional, Seconds>>),
   <<Opening("plain", Feed), Closing(TwoMotions, "plain"), Typed(Rapid)>>,
   <<OnOneLine(Feed), Typed(Rapid), Typed(TwoMotions)>>}
MCEntries ==
  {TypedText(<<Feed>>), TypedText(<<Plane>>), TypedText(<<Arc>>),
   TypedText(<<Mixed>>), TypedText(<<Goto10>>), TypedText(<<Seconds, Farther>>),
   <<Opening("star", Feed)>>, <<Closing(Blank, "star")>>, <<Remarked(Rapid)>>,
   <<Opening("plain", Goto10), Closing(Arc, "plain")>>}
MCRawLines ==
  {Typed(Blank)} \cup UNION {{t[k] : k \in DOMAIN t} : t \in MCTexts \cup MCEntries}
MCTextLines ==
  LET heads == {l.head : l \in MCRawLines} IN
    heads \cup {WithRemark(h) : h \in heads} \cup {WithStraySign(h) : h \in heads}
MCEditLines == {0, 2, 3, 5}
=============================================================================
