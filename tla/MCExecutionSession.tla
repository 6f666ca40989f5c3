------------------------- MODULE MCExecutionSession -------------------------
(* Short texts for the session, and what a client may put in the place of  *)
(* a rejected line and what follows it.                                    *)
EXTENDS ExecutionSession, MCLines

CONSTANTS A, B, V

Drive == L(<<G(0)>>)

Fix == << L(<<G(18), G(0)>>), TwoMotions, Dwell >>
Turret == << L(<<W("T", 1), W("M", 6)>>), L(<<W("T", 0)>>), L(<<W("M", 6)>>) >>
FirstBadLine == << TwoMotions, Drive >>
Lost == << GotoL("GOTO", B) >>
Awaited == << IfGoto(Test(FALSE), ToLabel("GOTOF", B), NoGoto), TwoMotions >>
OtherPlane == << L(<<G(18), G(0)>>), ArcBy("J") >>
Three == << Drive, Drive, Drive >>
Block == << If, Drive, Else, Feed, EndIf >>

MCTexts == {Fix, Turret, FirstBadLine, Lost, Block, Awaited, OtherPlane}
ThreeTexts == {Three}
MCReplacements == { <<>>, <<Dwell>>, <<SetPlane(17), TwoMotions>> }
MCSourceLines ==
  UNION {{t[k] : k \in DOMAIN t} : t \in MCTexts \cup MCReplacements \cup {Three}}

MCLabel == {A, B}
MCName == {A, B, V}
MCDeselect == <<Ail!NoValue, 0>>
MCTool == {MCDeselect, <<Ail!NoValue, 1>>}
MCModalValue ==
  {"G0", "G1", "G2", "G3", "G17", "G18", "G19", "G40", "G41", "G42", "RTLION", "RTLIOF"}
MCInitialModal ==
  [motion |-> "G1", plane |-> "G17", radius |-> "G40", rapid |-> "RTLION"]
MCOptionSets ==
  {[unknownMCode |-> "Error", m6WithoutPending |-> "Error", unresolvedTool |-> "Error",
    ambiguousTool |-> "Error", unresolvedSubprogram |-> "Error", attached |-> TRUE,
    resolve |-> [t \in Tool |-> [kind |-> "Resolved", tool |-> t, substituted |-> FALSE]],
    fallbacks |-> [l \in Label |-> <<>>]]}
=============================================================================
