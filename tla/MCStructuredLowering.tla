------------------------ MODULE MCStructuredLowering ------------------------
(* All short texts of IF, ELSE, ENDIF and moves, some of them skipped or   *)
(* rejected, and texts that hold every other kind of line and word.        *)
EXTENDS StructuredLowering, MCLines

CONSTANTS A, B, V

SkippedEndIf == Skip(1, EndIf)
SkippedElse == Skip(1, Else)
Blocks == {If, Else, EndIf, Feed}
BlockTexts == UNION {[1 .. n -> Blocks] : n \in 0 .. 5}
Nested ==
  {<<If, If, Feed, Else, Feed, EndIf, Else, If, Feed, EndIf, Feed, EndIf>>,
   <<If, Feed, Else, If, Feed, Else, Feed, EndIf, EndIf, WhileLine, Feed>>}
Mixed == {If, Else, EndIf, Feed, SkippedEndIf, SkippedElse, TwoMotions}
MixedTexts == [1 .. 4 -> Mixed]

(* Planes and arcs.                                                        *)
Planes ==
  {SetPlane(18), Skip(1, SetPlane(19)), ArcBy("I"), ArcBy("K"), L(<<G(3), W("J", 1), G(19)>>)}
PlaneTexts == [1 .. 3 -> Planes]

(* Every kind of line; words that nearly are of one kind and are of none.  *)
Proc == L(<<Alone("PROC"), Alone(A)>>)
CallTwice == L(<<W("P", 2), Alone(A)>>)
Kinds ==
  {Assign(V, [kind |-> "system"]), Assign("T", Literal(1)), Assign("T1", Literal(0)),
   Assign("T", [kind |-> "user", name |-> V]), Assign("PROC", Literal(1)), WhileLine, Def(A),
   GotoL("GOTOF", A), N(10, IfGoto(Test(TRUE), ToNumber("GOTOB", 10), NoGoto)),
   Proc, Suffix(Proc), L(<<Alone("PROC")>>), L(<<Alone("PROC"), Alone(A), Alone(B)>>),
   Suffix(L(<<Alone(A)>>)), L(<<Alone("X")>>), CallTwice, Suffix(CallTwice),
   Suffix(L(<<Alone(A), W("P", 2)>>)), L(<<W("M", 98), W("P", 7)>>), L(<<Alone(A), W("P", NotNumeric)>>),
   L(<<Alone("RET")>>), L(<<W("M", 17)>>), L(<<W("T", 1), W("M", 6)>>), L(<<Eq("T1", 5), W("M", 6)>>),
   L(<<W("T1", 5)>>), L(<<Alone("T")>>), L(<<Eq("M1", 3), W("M", 8)>>), L(<<W("M1", 3)>>),
   L(<<Eq("M1", 17)>>), L(<<Alone("M")>>), L(<<W("M", NotNumeric)>>), L(<<Alone("RTLION"), G(0), W("X", 1)>>),
   L(<<G(0), Eq("X", SystemRef), Eq("B", SystemRef), W("B", 1)>>), L(<<Eq(V, 1), G(41), G(1)>>),
   L(<<W(V, 1)>>), Dwell, [Feed EXCEPT !.remark = "slashes"], L(<<Alone("X"), Alone("RTLIOF")>>),
   N(10, Feed), Blank}
KindTexts == UNION {[1 .. n -> Kinds] : n \in 1 .. 2}

MCTexts == BlockTexts \cup Nested \cup MixedTexts \cup PlaneTexts \cup KindTexts
MCTextLines == Mixed \cup Planes \cup Kinds
MCName == {A, B, V}
=============================================================================
