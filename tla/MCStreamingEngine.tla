------------------------- MODULE MCStreamingEngine -------------------------
(* Short texts for the engine: straight lines with a bad one, tools that   *)
(* are carried from chunk to chunk, a forward jump whose target comes      *)
(* late or never, branches, IF blocks, arcs in another plane.              *)
EXTENDS StreamingEngine, MCLines

CONSTANTS A, B, V

Drive == L(<<G(0)>>)
Probe == L(<<G(1), Eq("X", Variable)>>)
Warned == Suffix(L(<<Alone(A)>>))

Cut == << L(<<G(18), G(0)>>), Probe, Dwell >>
Bads == << EndIf, Drive, TwoMotions, L(<<W("T", 1), W("M", 6)>>) >>
Turret == << L(<<W("T", 1)>>), L(<<W("M", 6)>>), L(<<W("T", 0), W("M", 6)>>) >>
Late == << Drive, GotoL("GOTOF", A), Def(A), Dwell >>
Lost == << GotoL("GOTO", B), Def(A) >>
Choice == << IfGoto(Test(TRUE), ToLabel("GOTOF", A), NoGoto), Drive, Def(A) >>
Asked == << IfGoto(Test(FALSE), ToLabel("GOTOF", A), NoGoto), Def(A) >>
Sub == << Warned, GotoL("GOTOF", B), L(<<Alone("PROC"), Alone(A)>>), Drive, L(<<W("M", 17)>>), Def(B) >>
Block == << If, Drive, Else, Feed, EndIf >>
Vertical == << SetPlane(18), ArcBy("K") >>

MCTexts == {Cut, Bads, Turret, Late, Lost, Choice, Asked, <<If, Drive, TwoMotions>>}
CallTexts == {Sub}
LateTexts == {Late}
BlockTexts == {Block}
ArcTexts == {Vertical}

MCSourceLines ==
  UNION {{t[k] : k \in DOMAIN t} : t \in MCTexts \cup {Sub, Block, Vertical}}

MCLabel == {A, B}
MCName == {A, B, V}
MCDeselect == <<Ail!NoValue, 0>>
MCTool == {MCDeselect, <<Ail!NoValue, 1>>}
MCModalValue ==
  {"G0", "G1", "G2", "G3", "G17", "G18", "G19", "G40", "G41", "G42", "RTLION", "RTLIOF"}
MCInitialModal ==
  [motion |-> "G1", plane |-> "G17", radius |-> "G40", rapid |-> "RTLION"]
MCOptionSets ==
  {[unknownMCode |-> "Error", m6WithoutPending |-> "Error", unresolvedTool |-> "Error",
    ambiguousTool |-> "Error", unresolvedSubprogram |-> "Error", attached |-> TRUE,
    resolve |-> [t \in Tool |-> [kind |-> "Resolved", tool |-> t, substituted |-> FALSE]],
    fallbacks |-> [l \in Label |-> <<>>]]}
=============================================================================
