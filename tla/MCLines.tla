------------------------------ MODULE MCLines ------------------------------
(* How the instances for TLC write source lines: words, statements, skip   *)
(* marks, block numbers and remarks, as records of MessageLowering.        *)
EXTENDS Integers, Sequences

\* NoValue and SystemRef of MessageLowering.
Nothing == -1
Variable == -3

W(head, value) == [head |-> head, value |-> value, eq |-> FALSE]
Eq(head, value) == [head |-> head, value |-> value, eq |-> TRUE]
Alone(name) == W(name, Nothing)
G(code) == W("G", code)

S(statement) ==
  [words |-> <<>>, statement |-> statement, number |-> Nothing, skip |-> Nothing, remark |-> "none",
   broken |-> FALSE]
L(words) == [S([kind |-> "none"]) EXCEPT !.words = words]
Skip(level, l) == [l EXCEPT !.skip = level]
Broken(l) == [l EXCEPT !.broken = TRUE]
Suffix(l) == [l EXCEPT !.remark = "suffix"]
N(number, l) == [l EXCEPT !.number = number]

Literal(n) == [kind |-> "literal", value |-> n]
Test(direct) ==
  [direct |-> direct, lhs |-> [kind |-> "system"], rhs |-> Literal(0), relation |-> "EQ"]
ToLabel(opcode, name) == [opcode |-> opcode, kind |-> "label", target |-> name]
ToNumber(opcode, n) == [opcode |-> opcode, kind |-> "number", target |-> n]

Assign(to, rhs) == S([kind |-> "assign", to |-> to, rhs |-> rhs])
Def(name) == S([kind |-> "label", name |-> name])
GotoL(opcode, name) == S([kind |-> "goto", to |-> ToLabel(opcode, name)])
GotoN(opcode, n) == S([kind |-> "goto", to |-> ToNumber(opcode, n)])
IfGoto(test, then, else) == S([kind |-> "if goto", test |-> test, then |-> then, else |-> else])
If == S([kind |-> "if", test |-> Test(TRUE)])
Else == S([kind |-> "else"])
EndIf == S([kind |-> "endif"])
WhileLine == S([kind |-> "loop"])

Blank == L(<<>>)
Rapid == L(<<G(0), W("X", 3)>>)
Feed == L(<<G(1), W("X", 1), W("F", 2)>>)
Dwell == L(<<G(4), W("F", 1)>>)
SetPlane(code) == L(<<G(code)>>)
ArcBy(center) == L(<<G(2), W("X", 1), W(center, 1)>>)
TwoMotions == L(<<G(0), G(1)>>)
=============================================================================
