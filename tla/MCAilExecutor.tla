--------------------------- MODULE MCAilExecutor ---------------------------
(* Small programs that reach every handler of the executor.                *)
EXTENDS AilExecutor, TLC

CONSTANTS A, B, Far,   \* labels; Far is a name only a fallback resolves
          T1, T2, T3,  \* tools; T2 is substituted, T3 cannot be resolved
          V            \* a user variable

At1(n) == [block |-> 0, line |-> n]
InBlock(b, n) == [block |-> b, line |-> n]

Number(opcode, n) == [opcode |-> opcode, kind |-> "number", target |-> n]
Named(opcode, l) == [opcode |-> opcode, kind |-> "label", target |-> l]

Lit(v) == [kind |-> "literal", value |-> v]
User == [kind |-> "user", name |-> V]
System == [kind |-> "system"]

Lbl(n, l) == [op |-> "label", source |-> At1(n), name |-> l]
Goto(n, g) == [op |-> "goto", source |-> At1(n), to |-> g]
If(n, direct, l, rel, r, then, else) ==
  [op |-> "branch", source |-> At1(n), direct |-> direct, lhs |-> l, rhs |-> r,
   relation |-> rel, then |-> then, else |-> else]
Assign(n, name, rhs) == [op |-> "assign", source |-> At1(n), name |-> name, rhs |-> rhs]
MCode(n, known) == [op |-> "mcode", source |-> At1(n), known |-> known]
Modal(n, g, v) == [op |-> "modal", source |-> At1(n), group |-> g, value |-> v]
Select(n, t, now) == [op |-> "tool select", source |-> At1(n), tool |-> t, immediate |-> now]
M6(n) == [op |-> "tool change", source |-> At1(n)]
Move(n, code, sys) ==
  [op |-> "move", source |-> At1(n), motion |-> code, system |-> sys, effective |-> "none"]
Ret(n) == [op |-> "return", source |-> At1(n)]
CallSub(n, l, times) == [op |-> "call", source |-> At1(n), target |-> l, repeat |-> times]

(* Modal codes around moves, a dwell and an axis word read at run time.    *)
Moves == << Modal(1, "plane", "G18"), Move(2, "G0", FALSE), Move(3, "none", FALSE),
            Modal(4, "plane", "G17"), Move(5, "G1", TRUE), Move(6, "G2", FALSE) >>

(* Deferred and immediate selections, substitution, T0, M6 twice.          *)
Tools == << M6(1), Select(2, T1, FALSE), M6(3), Select(4, T2, FALSE), M6(5), M6(6),
            Select(7, Deselect, FALSE), M6(8), Move(9, "G1", FALSE), M6(10) >>
ToolsNow == << Select(1, T1, TRUE), Select(2, T2, TRUE), Select(3, Deselect, TRUE),
               Select(4, T3, TRUE), Move(5, "G1", FALSE) >>
ToolsUnknown == << Select(1, T3, FALSE), M6(2), Move(3, "none", FALSE), MCode(4, TRUE),
                   MCode(5, FALSE), CallSub(6, B, 1), Move(7, "none", FALSE) >>

(* A loop over a user variable, closed by a jump back to a block that was  *)
(* lowered to two instructions.                                            *)
Loop == << [Modal(1, "plane", "G18") EXCEPT !.source.block = 10],
           [Move(1, "G1", FALSE) EXCEPT !.source.block = 10],
           If(2, TRUE, User, "EQ", Lit(1), Named("GOTOF", A), NoGoto),
           Assign(3, V, Lit(1)),
           Goto(4, Number("GOTOB", 10)),
           Lbl(5, A), Goto(6, Named("GOTOC", B)), Move(7, "none", FALSE) >>

(* Branches on runtime values and on the condition resolver.               *)
Branches(rel) ==
  << If(1, TRUE, System, rel, Lit(1), Named("GOTOF", A), Number("GOTO", 20)),
     Move(2, "G0", FALSE),
     Lbl(3, A), If(4, FALSE, User, "EQ", User, Named("GOTO", B), NoGoto),
     [Move(5, "G1", FALSE) EXCEPT !.source.block = 20],
     Assign(6, V, System),
     If(7, TRUE, User, "LT", System, Number("GOTOC", 30), Number("GOTOF", 20)),
     Lbl(8, B), Move(9, "none", FALSE) >>

Odd == << If(1, TRUE, [kind |-> "unsupported"], "EQ", Lit(0), Named("GOTOF", A), NoGoto),
          If(2, TRUE, Lit(1), "GE", [kind |-> "error"], Named("GOTOF", A), NoGoto),
          Lbl(3, A), Assign(4, "$", Lit(1)) >>

(* A block that jumps to its own number: there is no block ahead.          *)
Self == << Move(1, "G0", FALSE), [Goto(2, Number("GOTOF", 10)) EXCEPT !.source.block = 10] >>

(* A runs B twice in each of its two runs; a return without a call ends.   *)
Nested == << CallSub(1, A, 2), CallSub(2, Far, 0), Goto(3, Named("GOTOF", Far)),
             Lbl(4, A), CallSub(5, B, 2), Ret(6),
             Lbl(7, B), Move(8, "none", FALSE), Ret(9) >>
Calls == << CallSub(1, A, 2), CallSub(2, Far, 1), Goto(3, Number("GOTOF", 30)),
            Lbl(4, A), CallSub(5, B, 2), Ret(6),
            Lbl(7, B), Move(8, "none", FALSE), Ret(9),
            Lbl(10, B), Ret(11), [Modal(12, "plane", "G17") EXCEPT !.source.block = 30] >>

MCPrograms ==
  { Moves, Tools, ToolsNow, ToolsUnknown, Loop, Branches("EQ"), Branches("other"), Odd, Self,
    Nested, Calls, <<Ret(1)>> }

Resolve ==
  [t \in Tool |->
     CASE t = T2 -> [kind |-> "Resolved", tool |-> T1, substituted |-> TRUE]
       [] t = T3 -> [kind |-> "Unresolved", tool |-> t, substituted |-> FALSE]
       [] OTHER -> [kind |-> "Resolved", tool |-> t, substituted |-> FALSE]]

WithPolicy(policy, attached) ==
  [unknownMCode |-> policy, m6WithoutPending |-> policy, unresolvedTool |-> policy,
   ambiguousTool |-> policy, unresolvedSubprogram |-> policy, attached |-> attached,
   resolve |-> Resolve, fallbacks |-> [l \in Label |-> IF l = Far THEN <<B>> ELSE <<>>]]

MCOptionSets ==
  {WithPolicy("Error", TRUE), WithPolicy("Warning", TRUE), WithPolicy("Ignore", FALSE)}

MCLabel == {A, B, Far}
MCTool == {T1, T2, T3, Deselect}
MCInitialModal == [g \in ModalGroup |-> IF g = "motion" THEN "G1" ELSE "G17"]

(* How often a program that completes submits its command at a position:   *)
(* the product of the repeats of the calls that lead to it.                *)
Expected(p) ==
  IF p = Calls THEN 8 :> 5 ELSE IF p = Nested THEN 8 :> 4
  ELSE IF p = Loop THEN 2 :> 2 ELSE <<>>

Submissions(p) == Cardinality({i \in DOMAIN log : log[i].ev = "submit" /\ log[i].at = p})

(* A completed program has run every body as often as the calls and the    *)
(* loop that lead to it say (SubprogramCallFrame, resolveGotoTarget).      *)
RepeatsExact ==
  status = "Completed" /\ options.attached =>
    \A p \in DOMAIN Expected(instructions) : Submissions(p) = Expected(instructions)[p]
=============================================================================
