-------------------------- MODULE MCStreamLowering --------------------------
(* Texts for the streaming lowering: planes and arcs, lines that are       *)
(* skipped, rejected by a rule or by the plane, warnings of every kind.    *)
EXTENDS StreamLowering, MCLines

Arcs == << L(<<G(18)>>), L(<<G(2), W("X", 1), W("I", 1), W("K", 2), Eq("AP", 3), Eq("AR", 1)>>),
           L(<<G(17), G(3), W("X", 2), W("K", NoValue), W("J", NotNumeric)>>),
           L(<<G(3), W("K", 1), W("K", 2)>>), L(<<G(0), W("X", 3)>>) >>
Skips == << Skip(1, TwoMotions), Skip(2, Feed), Broken(Skip(1, Blank)),
            Skip(Unreadable, L(<<G(0), W("B", 1)>>)), L(<<G(0)>>) >>
Numbers == << N(10, Dwell), N(10, L(<<G(1), W("X", 1), W("X", 2)>>)),
              L(<<W("X", 1), Eq("AP", 2), G(1)>>), GotoN("GOTOF", 10) >>
Rules == << L(<<G(0), W("X", 1)>>), L(<<G(4), W("F", 1), W("S", 2)>>),
            L(<<G(1), W("X", 1), Eq("AP", 1)>>), Broken(L(<<W("N", 5)>>)) >>

MCTexts == {Arcs, Skips, Numbers, Rules, <<>>}
MCTextLines == UNION {{t[k] : k \in DOMAIN t} : t \in MCTexts}

NoLimit == [lines |-> Unlimited, messages |-> Unlimited, diagnostics |-> Unlimited]
MCLimits ==
  {NoLimit, [NoLimit EXCEPT !.lines = 1], [NoLimit EXCEPT !.lines = 2, !.messages = 0],
   [NoLimit EXCEPT !.messages = 1], [NoLimit EXCEPT !.diagnostics = 0], [NoLimit EXCEPT !.diagnostics = 1]}
=============================================================================
