----------------------- MODULE StreamingEngineProofs -----------------------
(***************************************************************************)
(* The engine for every set of texts, however they are cut into chunks,    *)
(* pumped, resumed, cancelled and answered: its types, that no wait of the *)
(* runtime is lost, that a bad line is rejected in its place, and that the *)
(* engine knows the tool on the spindle between two chunks.                *)
(*                                                                         *)
(* The executor starts from what lowering has made of the buffered lines;  *)
(* that this is a program of typed instructions whose diagnostics and      *)
(* rejected line are lines of the buffer (LoweringOfLines) is the first    *)
(* part: the invariant LoweringState of the loops of AilLowering, and on   *)
(* top of it how the line numbers are put back.  The second part is about  *)
(* the steps of the engine; the last one goes back to lowering, for the    *)
(* jumps in what is buffered.                                              *)
(***************************************************************************)
EXTENDS StreamingEngine, AilExecutorProofs, SequenceTheorems

PendingLine == [line : Nat \ {0}, src : SourceLines]
ShownNotice == [kind : {"diagnostic", "rejected", "resume out of turn"}, line : Nat]

Msg == INSTANCE MessageLoweringProofs WITH
  TextLines <- SourceLines, Managed <- FALSE, Slashes <- FALSE

(* Ail and Msg instantiate the lowering of messages with the same          *)
(* constants, so they say the same.                                        *)
LEMMA SameLines == Msg!TextLine = Ail!TextLine
BY Zenon DEF Msg!TextLine, Ail!TextLine, Msg!Word, Ail!Word, Msg!Statement, Ail!Statement,
   Msg!NoValue, Ail!NoValue, Msg!Letters, Ail!Letters, Msg!LongHeads, Ail!LongHeads,
   Msg!NotNumeric, Ail!NotNumeric, Msg!SystemRef, Ail!SystemRef, Msg!Axes, Ail!Axes, Msg!Centers,
   Ail!Centers, Msg!Jump, Ail!Jump, Msg!Condition, Ail!Condition, Msg!Expression, Ail!Expression

LEMMA MsgAssumptions ==
  /\ SourceLines \subseteq Msg!TextLine
  /\ \A l \in SourceLines : l.statement.kind # "none" => l.words = <<>>
  /\ {Iso, FALSE, FALSE} \subseteq BOOLEAN /\ ActiveSkipLevels \subseteq Nat
BY SameLines, LinesAssumption, LowerOptionsAssumption

LEMMA SameMessages == \A t : Msg!LowerToMessages(t) = Ail!LowerToMessages(t)
BY ZenonT(200) DEF Msg!LowerToMessages, Ail!LowerToMessages, Msg!Loop, Ail!Loop, Msg!Unlowered,
   Ail!Unlowered, Msg!ParseDiagnostics, Ail!ParseDiagnostics, Msg!SyntaxDiagnostics,
   Ail!SyntaxDiagnostics, Msg!SyntaxOfLine, Ail!SyntaxOfLine, Msg!SemanticDiagnostics,
   Ail!SemanticDiagnostics, Msg!SemanticsOfLine, Ail!SemanticsOfLine, Msg!IsDuplicate,
   Ail!IsDuplicate, Msg!JumpsOf, Ail!JumpsOf, Msg!BreaksRule, Ail!BreaksRule, Msg!BreaksG4Block,
   Ail!BreaksG4Block, Msg!HasTwoMotions, Ail!HasTwoMotions, Msg!MixesCoordinates,
   Ail!MixesCoordinates, Msg!HasStrayNumber, Ail!HasStrayNumber, Msg!HasBadSkipLevel,
   Ail!HasBadSkipLevel, Msg!IsMalformedProc, Ail!IsMalformedProc, Msg!IsTarget, Ail!IsTarget,
   Msg!LacksEquals, Ail!LacksEquals, Msg!LongHeads, Ail!LongHeads, Msg!BreaksMShape,
   Ail!BreaksMShape, Msg!IsM98, Ail!IsM98, Msg!BreaksTShape, Ail!BreaksTShape, Msg!Selects,
   Ail!Selects, Msg!SelectsBy, Ail!SelectsBy, Msg!LowerLine, Ail!LowerLine, Msg!PlaneOf,
   Ail!PlaneOf, Msg!PlaneDiagnostics, Ail!PlaneDiagnostics, Msg!Skipped, Ail!Skipped,
   Msg!HasError, Ail!HasError, Msg!MotionOf, Ail!MotionOf, Msg!MessageOf, Ail!MessageOf,
   Msg!FieldsOf, Ail!FieldsOf, Msg!LoweringDiagnostics, Ail!LoweringDiagnostics, Msg!IsAllowed,
   Ail!IsAllowed, Msg!Centers, Ail!Centers, Msg!Axes, Ail!Axes, Msg!Unreadable, Ail!Unreadable,
   Msg!Diag, Ail!Diag, Msg!Cardinality, Ail!Cardinality, Msg!LastValue, Ail!LastValue,
   Msg!SelectLastInSeq, Ail!SelectLastInSeq, Msg!IsG, Ail!IsG, Msg!Motion, Ail!Motion,
   Msg!NoValue, Ail!NoValue, Msg!Max, Ail!Max

LEMMA SameMotion == \A ws : Msg!MotionOf(ws) = Ail!MotionOf(ws)
BY Zenon DEF Msg!MotionOf, Ail!MotionOf, Msg!LastValue, Ail!LastValue, Msg!SelectLastInSeq,
   Ail!SelectLastInSeq, Msg!IsG, Ail!IsG, Msg!Motion, Ail!Motion, Msg!NoValue, Ail!NoValue,
   Msg!Max, Ail!Max

LEMMA SameRules == \A l : Msg!BreaksRule(l) = Ail!BreaksRule(l)
BY Zenon DEF Msg!BreaksRule, Ail!BreaksRule, Msg!BreaksG4Block, Ail!BreaksG4Block,
   Msg!HasTwoMotions, Ail!HasTwoMotions, Msg!MixesCoordinates, Ail!MixesCoordinates,
   Msg!HasStrayNumber, Ail!HasStrayNumber, Msg!HasBadSkipLevel, Ail!HasBadSkipLevel,
   Msg!IsMalformedProc, Ail!IsMalformedProc, Msg!IsTarget, Ail!IsTarget, Msg!LacksEquals,
   Ail!LacksEquals, Msg!LongHeads, Ail!LongHeads, Msg!BreaksMShape, Ail!BreaksMShape, Msg!IsM98,
   Ail!IsM98, Msg!BreaksTShape, Ail!BreaksTShape, Msg!Selects, Ail!Selects, Msg!SelectsBy,
   Ail!SelectsBy, Msg!IsG, Ail!IsG, Msg!Motion, Ail!Motion, Msg!NoValue, Ail!NoValue,
   Msg!Cardinality, Ail!Cardinality

----------------------------------------------------------------------------
(* What is needed of the messages of a text t.                             *)
LineReport(t) ==
  [severity : {"Error", "Warning"}, line : 1 .. Len(t),
   why : Msg!Reasons \cup {"malformed PROC", "PROC signature", "call arguments", "ELSE without IF",
                           "duplicate ELSE", "ENDIF without IF", "missing ENDIF"}]

LEMMA LineOfText ==
  ASSUME NEW t \in Seq(SourceLines)
  PROVE  /\ Len(t) \in Nat /\ DOMAIN t = 1 .. Len(t) /\ Msg!IsText(t)
         /\ \A k \in 1 .. Len(t) : t[k] \in SourceLines /\ t[k] \in Ail!TextLine
<1>1. Msg!IsText(t)
  BY Msg!LinesMakeText, MsgAssumptions
<1> QED
  BY <1>1, LinesAssumption

LEMMA MessagesOfText ==
  ASSUME NEW t \in Seq(SourceLines)
  PROVE  LET low == Ail!LowerToMessages(t) IN
    /\ low.diagnostics \in Seq(LineReport(t)) /\ low.rejected \in {Ail!NoValue} \cup 1 .. Len(t)
    /\ \A i \in DOMAIN low.messages : low.messages[i].line \in 1 .. Len(t) => low.messages[i].code \in 0 .. 4
    /\ \A k \in 1 .. Len(t) : t[k].broken \/ Ail!BreaksRule(t[k]) => Ail!HasError(low.diagnostics, k)
<1> DEFINE low == Msg!LowerToMessages(t)
<1>1. Ail!LowerToMessages(t) = low
  BY SameMessages
<1>2. Msg!IsText(t) /\ Len(t) \in Nat
  BY LineOfText
<1>3. /\ Msg!FromLines(t, low, Len(t)) /\ Msg!IsResult(t, low, Len(t))
  BY Msg!LoweredMessages, MsgAssumptions
<1>4. low.diagnostics \in Seq(Msg!DiagnosticOf(t))
  BY <1>2, Msg!ReportsLinesOfText, MsgAssumptions
<1>5. low.diagnostics \in Seq(LineReport(t))
  <2>1. Msg!DiagnosticOf(t) \subseteq LineReport(t)
    BY DEF Msg!DiagnosticOf, LineReport
  <2> QED
    BY <1>4, <2>1, SeqMonotonic
<1>6. low.rejected \in {Ail!NoValue} \cup 1 .. Len(t)
  BY <1>3 DEF Msg!IsResult, Msg!Result, Msg!NoValue, Ail!NoValue
<1>7. ASSUME NEW k \in 1 .. Len(t), t[k].broken \/ Ail!BreaksRule(t[k])
      PROVE  Ail!HasError(low.diagnostics, k)
  <2>1. k \in Msg!FaultyLines(t)
    <3>1. Msg!ErrorLines(Msg!ParseDiagnostics(t)) = {m \in 1 .. Len(t) : t[m].broken \/ Msg!BreaksRule(t[m])}
      BY <1>2, Msg!ParseErrors, MsgAssumptions
    <3>2. t[k].broken \/ Msg!BreaksRule(t[k])
      BY <1>7, SameRules, Zenon
    <3> QED
      BY <3>1, <3>2, Zenon DEF Msg!FaultyLines
  <2>2. k \in Msg!ErrorLines(low.diagnostics)
    BY <1>3, <2>1 DEF Msg!IsResult
  <2> HIDE DEF low
  <2> QED
    BY <2>2 DEF Ail!HasError, Msg!ErrorLines
<1>8. ASSUME NEW i \in DOMAIN low.messages, low.messages[i].line \in 1 .. Len(t)
      PROVE  low.messages[i].code \in 0 .. 4
  <2> DEFINE k == low.messages[i].line
  <2>1. low.messages[i] = Msg!MessageOf(t[k], k) /\ k \in Msg!LinesOf(low.messages)
    BY <1>3 DEF Msg!FromLines, Msg!LinesOf
  <2>2. k \in Msg!Giving(t)
    BY <1>3, <2>1 DEF Msg!FromLines
  <2>3. Msg!MotionOf(t[k].words) # Msg!NoValue
    BY <2>2 DEF Msg!Giving, Msg!GivesOne
  <2>4. Msg!MotionOf(t[k].words) \in Msg!Motion
    <3>1. Len(t[k].words) \in Nat /\ DOMAIN t[k].words = 1 .. Len(t[k].words)
      BY <1>2, <1>8 DEF Msg!IsText
    <3>2. Msg!MotionOf(t[k].words) \in Msg!Motion \cup {Msg!NoValue}
      BY <3>1, Msg!MotionCode, MsgAssumptions
    <3> QED
      BY <2>3, <3>2
  <2>5. low.messages[i].code = Msg!MotionOf(t[k].words)
    BY <2>1 DEF Msg!MessageOf
  <2> QED
    BY <2>4, <2>5 DEF Msg!Motion
<1> HIDE DEF low
<1> QED
  BY <1>1, <1>5, <1>6, <1>7, <1>8

----------------------------------------------------------------------------
(* What lowering to AIL has at a line of the text t: instructions of lines *)
(* of t, open blocks whose branch is among them, and the diagnostics of    *)
(* the messages, with more behind them.                                    *)

(* The last line of t that is lowered to instructions.                     *)
LastLowered(t) == Ail!LastLine(t, Ail!Start(Ail!LowerToMessages(t)))

LineCode(t) ==
  {i \in Instruction : i.source.line \in 1 .. Len(t) /\ i.source.line <= LastLowered(t)}
OpenIf == [branch : Nat \ {0}, end : {"IF_END"} \X (Nat \ {0}), hasElse : BOOLEAN]

LoweringState(t) ==
  [instructions : Seq(LineCode(t)), diagnostics : Seq(LineReport(t)),
   messages : {Ail!LowerToMessages(t).messages}, rejected : {Ail!LowerToMessages(t).rejected},
   ifs : Seq(OpenIf), labels : Nat, plane : {"G17", "G18", "G19"},
   rapid : {"none", "RTLION", "RTLIOF"}]

BranchesOpen(ifs, code) ==
  \A i \in DOMAIN ifs : ifs[i].branch \in DOMAIN code /\ code[ifs[i].branch].op = "branch"

Keeps(s, more) == \A i \in DOMAIN s : i \in DOMAIN more /\ more[i] = s[i]

IsLowering(r, t) ==
  /\ r \in LoweringState(t) /\ BranchesOpen(r.ifs, r.instructions)
  /\ Keeps(Ail!LowerToMessages(t).diagnostics, r.diagnostics)

LEMMA FieldsOfLowering ==
  ASSUME NEW t, NEW r \in LoweringState(t)
  PROVE  r = [instructions |-> r.instructions, diagnostics |-> r.diagnostics,
              messages |-> r.messages, rejected |-> r.rejected, ifs |-> r.ifs,
              labels |-> r.labels, plane |-> r.plane, rapid |-> r.rapid]
BY DEF LoweringState

LEMMA MoreKeeps ==
  ASSUME NEW S, NEW s \in Seq(S), NEW more \in Seq(S)
  PROVE  s \o more \in Seq(S) /\ Keeps(s, s \o more) /\ Len(s \o more) = Len(s) + Len(more)
BY ConcatProperties DEF Keeps

LEMMA FirstBehind ==
  ASSUME NEW S, NEW s \in Seq(S), NEW more \in Seq(S), Len(more) > 0
  PROVE  (s \o more)[Len(s) + 1] = more[1]
BY ConcatProperties

(* Any lowering with other modes, more instructions and more diagnostics.  *)
Grown(r, code, found, plane, rapid) ==
  [instructions |-> r.instructions \o code, diagnostics |-> r.diagnostics \o found,
   messages |-> r.messages, rejected |-> r.rejected, ifs |-> r.ifs, labels |-> r.labels,
   plane |-> plane, rapid |-> rapid]

LEMMA LoweringGrows ==
  ASSUME NEW t \in Seq(SourceLines), NEW r, IsLowering(r, t), NEW code \in Seq(LineCode(t)),
         NEW found \in Seq(LineReport(t)), NEW plane \in {"G17", "G18", "G19"},
         NEW rapid \in {"none", "RTLION", "RTLIOF"}
  PROVE  IsLowering(Grown(r, code, found, plane, rapid), t)
<1> DEFINE is == r.instructions \o code
           ds == r.diagnostics \o found
           next == Grown(r, code, found, plane, rapid)
<1>1. is \in Seq(LineCode(t)) /\ Keeps(r.instructions, is)
  BY MoreKeeps DEF IsLowering, LoweringState
<1>2. ds \in Seq(LineReport(t)) /\ Keeps(r.diagnostics, ds)
  BY MoreKeeps DEF IsLowering, LoweringState
<1>3. next = [instructions |-> is, diagnostics |-> ds, messages |-> r.messages,
              rejected |-> r.rejected, ifs |-> r.ifs, labels |-> r.labels,
              plane |-> plane, rapid |-> rapid]
  BY DEF Grown
<1> HIDE DEF is, ds, next
<1>4. next \in LoweringState(t)
  BY <1>1, <1>2, <1>3 DEF IsLowering, LoweringState
<1>5. BranchesOpen(next.ifs, next.instructions)
  BY <1>1, <1>3 DEF IsLowering, BranchesOpen, Keeps
<1>6. Keeps(Ail!LowerToMessages(t).diagnostics, next.diagnostics)
  BY <1>2, <1>3 DEF IsLowering, Keeps
<1> QED
  BY <1>4, <1>5, <1>6 DEF IsLowering, next

LEMMA EmitsTyped ==
  ASSUME NEW t \in Seq(SourceLines), NEW r, IsLowering(r, t), NEW code \in Seq(LineCode(t))
  PROVE  IsLowering(Ail!Emit(r, code), t)
<1> DEFINE more == r.instructions \o code
<1>1. r = [instructions |-> r.instructions, diagnostics |-> r.diagnostics,
           messages |-> r.messages, rejected |-> r.rejected, ifs |-> r.ifs,
           labels |-> r.labels, plane |-> r.plane, rapid |-> r.rapid]
  BY FieldsOfLowering DEF IsLowering
<1>2. /\ <<>> \in Seq(LineReport(t)) /\ r.diagnostics \o <<>> = r.diagnostics
      /\ r.plane \in {"G17", "G18", "G19"} /\ r.rapid \in {"none", "RTLION", "RTLIOF"}
  BY DEF IsLowering, LoweringState
<1>3. Ail!Emit(r, code) = [r EXCEPT !.instructions = more]
  BY Zenon DEF Ail!Emit
<1>4. [r EXCEPT !.instructions = more]
        = [instructions |-> more, diagnostics |-> r.diagnostics,
           messages |-> r.messages, rejected |-> r.rejected, ifs |-> r.ifs,
           labels |-> r.labels, plane |-> r.plane, rapid |-> r.rapid]
  <2> HIDE DEF more
  <2> QED
    BY <1>1
<1>5. Ail!Emit(r, code) = Grown(r, code, <<>>, r.plane, r.rapid)
  BY <1>2, <1>3, <1>4, Zenon DEF Grown
<1>6. IsLowering(Grown(r, code, <<>>, r.plane, r.rapid), t)
  BY <1>2, LoweringGrows
<1> QED
  BY <1>5, <1>6

LEMMA ReportTyped ==
  ASSUME NEW t \in Seq(SourceLines), NEW r, IsLowering(r, t), NEW severity, NEW k, NEW why,
         Ail!Diag(severity, k, why) \in LineReport(t)
  PROVE  IsLowering(Ail!Report(r, severity, k, why), t)
<1>1. r = [instructions |-> r.instructions, diagnostics |-> r.diagnostics,
           messages |-> r.messages, rejected |-> r.rejected, ifs |-> r.ifs,
           labels |-> r.labels, plane |-> r.plane, rapid |-> r.rapid]
  BY FieldsOfLowering DEF IsLowering
<1> DEFINE d == Ail!Diag(severity, k, why)
<1>2. d \in LineReport(t) /\ Ail!Report(r, severity, k, why) = [r EXCEPT !.diagnostics = Append(@, d)]
  BY Zenon DEF Ail!Report
<1> HIDE DEF d
<1>3. /\ <<>> \in Seq(LineCode(t)) /\ r.instructions \o <<>> = r.instructions
      /\ <<d>> \in Seq(LineReport(t)) /\ r.diagnostics \o <<d>> = Append(r.diagnostics, d)
      /\ r.plane \in {"G17", "G18", "G19"} /\ r.rapid \in {"none", "RTLION", "RTLIOF"}
  BY <1>2 DEF IsLowering, LoweringState
<1> DEFINE ds == Append(r.diagnostics, d)
<1>4. [r EXCEPT !.diagnostics = Append(@, d)] = Grown(r, <<>>, <<d>>, r.plane, r.rapid)
  <2>1. [r EXCEPT !.diagnostics = ds]
          = [instructions |-> r.instructions, diagnostics |-> ds,
             messages |-> r.messages, rejected |-> r.rejected, ifs |-> r.ifs,
             labels |-> r.labels, plane |-> r.plane, rapid |-> r.rapid]
    <3> HIDE DEF ds
    <3> QED
      BY <1>1
  <2> QED
    BY <1>3, <2>1, Zenon DEF Grown
<1>5. IsLowering(Grown(r, <<>>, <<d>>, r.plane, r.rapid), t)
  BY <1>3, LoweringGrows
<1> QED
  BY <1>2, <1>4, <1>5

(* A line that has no error breaks no rule.                                *)
LEMMA KeptErrors ==
  ASSUME NEW a, NEW b, Keeps(a, b), NEW k, Ail!HasError(a, k)
  PROVE  Ail!HasError(b, k)
BY DEF Keeps, Ail!HasError

LEMMA SoundLine ==
  ASSUME NEW t \in Seq(SourceLines), NEW r, IsLowering(r, t), NEW k \in 1 .. Len(t),
         ~Ail!Passed(r, t[k], k)
  PROVE  ~Ail!BreaksRule(t[k])
<1>1. ~Ail!HasError(r.diagnostics, k)
  BY Zenon DEF Ail!Passed
<1>2. t[k].broken \/ Ail!BreaksRule(t[k]) => Ail!HasError(Ail!LowerToMessages(t).diagnostics, k)
  BY MessagesOfText, Zenon
<1> QED
  BY <1>1, <1>2, KeptErrors, Zenon DEF IsLowering

LEMMA SourceTyped ==
  ASSUME NEW l \in SourceLines, NEW k \in Nat
  PROVE  Ail!SourceOf(l, k) \in Source /\ Ail!SourceOf(l, k).line = k
BY RoomAssumption DEF HasRoom, Ail!SourceOf, Source, Ail!NoValue

(* The instructions made for one line, at.                                 *)
LEMMA InstructionsTyped ==
  ASSUME NEW t, NEW at \in Source, at.line \in 1 .. Len(t),
         at.line <= LastLowered(t)
  PROVE
  /\ \A name \in AnyLabel : Ail!LabelAt(at, name) \in LineCode(t)
  /\ \A jump \in GotoTarget : Ail!Goto(at, jump) \in LineCode(t)
  /\ \A name \in Var \cup {"$"}, rhs \in Operand :
       [op |-> "assign", source |-> at, name |-> name, rhs |-> rhs] \in LineCode(t)
  /\ \A group \in ModalGroup, value \in ModalValue : Ail!Modal(at, group, value) \in LineCode(t)
  /\ \A known \in BOOLEAN : [op |-> "mcode", source |-> at, known |-> known] \in LineCode(t)
  /\ [op |-> "tool change", source |-> at] \in LineCode(t)
  /\ [op |-> "return", source |-> at] \in LineCode(t)
  /\ \A target \in Label, repeat \in Int :
       [op |-> "call", source |-> at, target |-> target, repeat |-> repeat] \in LineCode(t)
<1>1. \A i \in Instruction : i.source = at => i \in LineCode(t)
  BY DEF LineCode
<1> QED
  BY <1>1 DEF Ail!LabelAt, Ail!Goto, Ail!Modal, Instruction

LEMMA BranchTyped ==
  ASSUME NEW t, NEW at \in Source, at.line \in 1 .. Len(t),
         at.line <= LastLowered(t), NEW test \in Ail!Condition,
         {test.lhs, test.rhs} \subseteq Operand, NEW then \in GotoTarget,
         NEW else \in GotoTarget \cup {NoGoto}
  PROVE  Ail!Branch(at, test, then, else) \in LineCode(t)
         /\ Ail!Branch(at, test, then, else).op = "branch"
<1>1. Ail!Branch(at, test, then, else) \in Instruction
  BY DEF Ail!Branch, Ail!Condition, Instruction
<1> QED
  BY <1>1 DEF LineCode, Ail!Branch

LEMMA ToolSelectTyped ==
  ASSUME NEW t, NEW at \in Source, at.line \in 1 .. Len(t),
         at.line <= LastLowered(t), NEW head \in {"T", "T1"},
         NEW value \in Nat, SelectsTool(head, value)
  PROVE  Ail!ToolSelect(at, head, value) \in LineCode(t)
<1>1. Ail!ToolSelect(at, head, value).tool \in Tool
  BY DEF SelectsTool, Ail!ToolSelect
<1> DEFINE tool == <<IF head = "T1" THEN 1 ELSE Ail!NoValue, value>>
<1>2. /\ Ail!ToolSelect(at, head, value)
           = [op |-> "tool select", source |-> at, immediate |-> DirectT, tool |-> tool]
      /\ tool \in Tool
  BY <1>1 DEF Ail!ToolSelect
<1> HIDE DEF tool
<1>3. \A now \in BOOLEAN :
        [op |-> "tool select", source |-> at, immediate |-> now, tool |-> tool] \in LineCode(t)
  BY <1>2 DEF LineCode, Instruction
<1>4. DirectT \in BOOLEAN
  BY LowerOptionsAssumption
<1> QED
  BY <1>2, <1>3, <1>4, Zenon

LEMMA JumpsTyped ==
  ASSUME NEW prefix \in {"IF_THEN", "IF_ELSE", "IF_END"}, NEW n \in Nat \ {0}
  PROVE  /\ Ail!Internal(prefix, n) \in AnyLabel
         /\ Ail!To(Ail!Internal(prefix, n)) \in GotoTarget
<1>1. Ail!Internal(prefix, n) \in AnyLabel
  BY DEF Ail!Internal, AnyLabel
<1> QED
  BY <1>1 DEF Ail!To, GotoTarget

----------------------------------------------------------------------------
(* The kinds of lines.                                                     *)

LEMMA OneInstruction ==
  ASSUME NEW t \in Seq(SourceLines), NEW r, IsLowering(r, t), NEW i \in LineCode(t)
  PROVE  IsLowering(Ail!Emit(r, <<i>>), t)
<1>1. <<i>> \in Seq(LineCode(t))
  OBVIOUS
<1> QED
  BY <1>1, EmitsTyped

LEMMA Reported ==
  ASSUME NEW t \in Seq(SourceLines), NEW r, IsLowering(r, t), NEW k \in 1 .. Len(t),
         k <= LastLowered(t)
  PROVE  /\ \A why \in {"malformed PROC", "ELSE without IF", "duplicate ELSE", "ENDIF without IF"} :
              IsLowering(Ail!Report(r, "Error", k, why), t)
         /\ \A why \in {"PROC signature", "call arguments"} :
              IsLowering(Ail!Report(r, "Warning", k, why), t)
<1>1. \A why \in {"malformed PROC", "ELSE without IF", "duplicate ELSE", "ENDIF without IF"} :
        Ail!Diag("Error", k, why) \in LineReport(t)
  BY DEF Ail!Diag, LineReport
<1>2. \A why \in {"PROC signature", "call arguments"} :
        Ail!Diag("Warning", k, why) \in LineReport(t)
  BY DEF Ail!Diag, LineReport
<1> QED
  BY <1>1, <1>2, ReportTyped

LEMMA AssignLowered ==
  ASSUME NEW t \in Seq(SourceLines), NEW r, IsLowering(r, t), NEW k \in 1 .. Len(t),
         k <= LastLowered(t),
         ~Ail!BreaksRule(t[k]), t[k].statement.kind = "assign"
  PROVE  IsLowering(Ail!AssignLine(r, t[k], k), t)
<1> DEFINE l == t[k]
           s == l.statement
           at == Ail!SourceOf(l, k)
<1>1. l \in SourceLines /\ l \in Ail!TextLine /\ k \in Nat
  BY LineOfText
<1>2. at \in Source /\ at.line \in 1 .. Len(t) /\ at.line <= LastLowered(t)
  BY <1>1, SourceTyped
<1>3. s \in [kind : {"assign"}, to : Name \cup {"T", "T1", "PROC", "$"}, rhs : Ail!Expression]
  BY <1>1 DEF Ail!TextLine, Ail!Statement
<1>4. /\ s.rhs \in Operand /\ s.to \in Var \cup {"T", "T1", "PROC", "$"}
      /\ s.rhs.kind = "literal" => SelectsTool(s.to, s.rhs.value)
  BY <1>1, RoomAssumption DEF HasRoom
<1>5. s.to \in {"T", "T1"} => s.rhs.kind = "literal" /\ s.rhs.value \in Nat
  <2>1. ~Ail!BreaksTShape(l)
    BY Zenon DEF Ail!BreaksRule
  <2> QED
    BY <2>1 DEF Ail!BreaksTShape, Ail!SelectsBy
<1> HIDE DEF l, at, s
<1>6. CASE s.to = "PROC"
  <2>1. IsLowering(Ail!Report(r, "Error", k, "malformed PROC"), t)
    BY Reported
  <2> QED
    BY <1>6, <2>1, Zenon DEF Ail!AssignLine, l, s
<1>7. CASE s.to \in {"T", "T1"}
  <2>1. Ail!ToolSelect(at, s.to, s.rhs.value) \in LineCode(t)
    BY <1>2, <1>4, <1>5, <1>7, ToolSelectTyped
  <2>2. IsLowering(Ail!Emit(r, <<Ail!ToolSelect(at, s.to, s.rhs.value)>>), t)
    BY <2>1, OneInstruction
  <2>3. s.to # "PROC"
    BY <1>7
  <2> QED
    BY <1>5, <1>7, <2>2, <2>3, Zenon DEF Ail!AssignLine, l, s, at
<1>8. CASE s.to \notin {"T", "T1", "PROC"}
  <2> DEFINE i == [op |-> "assign", source |-> at, name |-> s.to, rhs |-> s.rhs]
  <2>1. i \in LineCode(t)
    <3>1. s.to \in Var \cup {"$"}
      BY <1>4, <1>8
    <3> QED
      BY <1>2, <1>4, <3>1, InstructionsTyped
  <2>2. IsLowering(Ail!Emit(r, <<i>>), t)
    BY <2>1, OneInstruction
  <2>3. s.to # "PROC" /\ ~(s.to \in {"T", "T1"} /\ s.rhs.kind = "literal")
    BY <1>8
  <2> QED
    BY <2>2, <2>3, Zenon DEF Ail!AssignLine, l, s, at
<1> QED
  BY <1>6, <1>7, <1>8 DEF l

LEMMA JumpsLowered ==
  ASSUME NEW t \in Seq(SourceLines), NEW r, IsLowering(r, t), NEW k \in 1 .. Len(t),
         k <= LastLowered(t)
  PROVE  /\ t[k].statement.kind = "label" => IsLowering(Ail!LabelLine(r, t[k], k), t)
         /\ t[k].statement.kind = "goto" => IsLowering(Ail!GotoLine(r, t[k], k), t)
         /\ t[k].statement.kind = "if goto" => IsLowering(Ail!IfGotoLine(r, t[k], k), t)
<1> DEFINE l == t[k]
           s == l.statement
           at == Ail!SourceOf(l, k)
<1>1. l \in SourceLines /\ l \in Ail!TextLine /\ k \in Nat
  BY LineOfText
<1>2. at \in Source /\ at.line \in 1 .. Len(t) /\ at.line <= LastLowered(t)
  BY <1>1, SourceTyped
<1>3. CASE s.kind = "label"
  <2>1. s.name \in AnyLabel
    BY <1>1, <1>3, RoomAssumption DEF HasRoom, AnyLabel
  <2>2. Ail!LabelAt(at, s.name) \in LineCode(t)
    BY <1>2, <2>1, InstructionsTyped
  <2> QED
    BY <1>3, <2>2, OneInstruction DEF Ail!LabelLine
<1>4. CASE s.kind = "goto"
  <2>1. s.to \in GotoTarget
    BY <1>1, <1>4, RoomAssumption DEF HasRoom
  <2>2. Ail!Goto(at, s.to) \in LineCode(t)
    BY <1>2, <2>1, InstructionsTyped
  <2> QED
    BY <1>4, <2>2, OneInstruction DEF Ail!GotoLine
<1>5. CASE s.kind = "if goto"
  <2>1. /\ {s.test.lhs, s.test.rhs} \subseteq Operand /\ s.then \in GotoTarget
        /\ s.else \in GotoTarget \cup {NoGoto}
    BY <1>1, <1>5, RoomAssumption DEF HasRoom
  <2>2. s.test \in Ail!Condition
    BY <1>1, <1>5 DEF Ail!TextLine, Ail!Statement
  <2>3. Ail!Branch(at, s.test, s.then, s.else) \in LineCode(t)
    BY <1>2, <2>1, <2>2, BranchTyped
  <2> QED
    BY <1>5, <2>3, OneInstruction DEF Ail!IfGotoLine
<1> QED
  BY <1>3, <1>4, <1>5

(* Lowering with other open blocks and more labels.                        *)
WithBlocks(r, code, ifs, labels) ==
  [instructions |-> code, diagnostics |-> r.diagnostics, messages |-> r.messages,
   rejected |-> r.rejected, ifs |-> ifs, labels |-> labels, plane |-> r.plane, rapid |-> r.rapid]

LEMMA BlocksLowered ==
  ASSUME NEW t \in Seq(SourceLines), NEW r, IsLowering(r, t), NEW code \in Seq(LineCode(t)),
         NEW ifs \in Seq(OpenIf), NEW labels \in Nat, BranchesOpen(ifs, code)
  PROVE  IsLowering(WithBlocks(r, code, ifs, labels), t)
<1> DEFINE next == WithBlocks(r, code, ifs, labels)
<1>1. next \in LoweringState(t)
  BY DEF IsLowering, LoweringState, WithBlocks
<1>2. next.ifs = ifs /\ next.instructions = code /\ next.diagnostics = r.diagnostics
  BY DEF WithBlocks
<1> HIDE DEF next
<1> QED
  BY <1>1, <1>2, Zenon DEF IsLowering, next

LEMMA EmitChanges ==
  ASSUME NEW t, NEW r, IsLowering(r, t), NEW more
  PROVE  Ail!Emit(r, more) = WithBlocks(r, r.instructions \o more, r.ifs, r.labels)
<1> DEFINE code == r.instructions \o more
<1>1. r = [instructions |-> r.instructions, diagnostics |-> r.diagnostics,
           messages |-> r.messages, rejected |-> r.rejected, ifs |-> r.ifs,
           labels |-> r.labels, plane |-> r.plane, rapid |-> r.rapid]
  BY FieldsOfLowering DEF IsLowering
<1>2. Ail!Emit(r, more) = [r EXCEPT !.instructions = code]
  BY Zenon DEF Ail!Emit
<1> HIDE DEF code
<1>3. [r EXCEPT !.instructions = code]
        = [instructions |-> code, diagnostics |-> r.diagnostics,
           messages |-> r.messages, rejected |-> r.rejected, ifs |-> r.ifs,
           labels |-> r.labels, plane |-> r.plane, rapid |-> r.rapid]
  BY <1>1
<1> QED
  BY <1>2, <1>3, Zenon DEF WithBlocks, code

LEMMA IfLowered ==
  ASSUME NEW t \in Seq(SourceLines), NEW r, IsLowering(r, t), NEW k \in 1 .. Len(t),
         k <= LastLowered(t),
         t[k].statement.kind = "if"
  PROVE  IsLowering(Ail!IfLine(r, t[k], k), t)
<1> DEFINE l == t[k]
           test == l.statement.test
           at == Ail!SourceOf(l, k)
           then == Ail!Internal("IF_THEN", r.labels + 1)
           end == Ail!Internal("IF_END", r.labels + 2)
           branch == Ail!Branch(at, test, Ail!To(then), Ail!To(end))
           more == <<branch, Ail!LabelAt(at, then)>>
           code == r.instructions \o more
           open == [branch |-> Len(r.instructions) + 1, end |-> end, hasElse |-> FALSE]
           ifs == Append(r.ifs, open)
<1>1. l \in SourceLines /\ l \in Ail!TextLine /\ k \in Nat
  BY LineOfText
<1>2. at \in Source /\ at.line \in 1 .. Len(t) /\ at.line <= LastLowered(t)
  BY <1>1, SourceTyped
<1>3. r.labels \in Nat /\ r.instructions \in Seq(LineCode(t)) /\ r.ifs \in Seq(OpenIf)
  BY DEF IsLowering, LoweringState
<1>4. /\ then \in AnyLabel /\ Ail!To(then) \in GotoTarget /\ Ail!To(end) \in GotoTarget
      /\ end \in {"IF_END"} \X (Nat \ {0})
  <2>1. r.labels + 1 \in Nat \ {0} /\ r.labels + 2 \in Nat \ {0}
    BY <1>3
  <2> QED
    BY <2>1, JumpsTyped DEF Ail!Internal
<1>5. branch \in LineCode(t) /\ branch.op = "branch"
  <2>1. {test.lhs, test.rhs} \subseteq Operand
    BY <1>1, RoomAssumption DEF HasRoom
  <2>2. test \in Ail!Condition
    BY <1>1 DEF Ail!TextLine, Ail!Statement
  <2> QED
    BY <1>2, <1>4, <2>1, <2>2, BranchTyped
<1>6. Ail!LabelAt(at, then) \in LineCode(t)
  BY <1>2, <1>4, InstructionsTyped
<1>7. /\ code \in Seq(LineCode(t)) /\ Keeps(r.instructions, code)
      /\ Len(r.instructions) + 1 \in DOMAIN code /\ code[Len(r.instructions) + 1] = branch
  <2> HIDE DEF branch
  <2> DEFINE label == Ail!LabelAt(at, then)
  <2>1. branch \in LineCode(t) /\ label \in LineCode(t)
    BY <1>5, <1>6
  <2> HIDE DEF label
  <2>2. more \in Seq(LineCode(t)) /\ Len(more) = 2 /\ more[1] = branch
    BY <2>1 DEF label
  <2> HIDE DEF more
  <2>3. code \in Seq(LineCode(t)) /\ Keeps(r.instructions, code) /\ Len(code) = Len(r.instructions) + 2
    BY <1>3, <2>2, MoreKeeps
  <2>4. Len(r.instructions) + 1 \in DOMAIN code
    BY <1>3, <2>3
  <2>5. code[Len(r.instructions) + 1] = branch
    <3>1. r.instructions \in Seq(LineCode(t)) /\ Len(more) > 0
      BY <1>3, <2>2
    <3>2. (r.instructions \o more)[Len(r.instructions) + 1] = more[1]
      BY <2>2, <3>1, FirstBehind
    <3> QED
      BY <2>2, <3>2
  <2> QED
    BY <2>3, <2>4, <2>5
<1>8. open \in OpenIf
  BY <1>3, <1>4 DEF OpenIf
<1>9. ifs \in Seq(OpenIf) /\ BranchesOpen(ifs, code)
  <2> HIDE DEF code, branch
  <2>1. open.branch \in DOMAIN code /\ code[open.branch].op = "branch"
    BY <1>5, <1>7
  <2> HIDE DEF open
  <2>2. BranchesOpen(r.ifs, r.instructions)
    BY DEF IsLowering
  <2>3. /\ ifs \in Seq(OpenIf) /\ Len(ifs) = Len(r.ifs) + 1 /\ ifs[Len(r.ifs) + 1] = open
        /\ \A i \in 1 .. Len(r.ifs) : ifs[i] = r.ifs[i]
    BY <1>3, <1>8, AppendProperties
  <2>4. \A i \in 1 .. Len(r.ifs) :
          r.ifs[i].branch \in DOMAIN code /\ code[r.ifs[i].branch].op = "branch"
    BY <1>3, <1>7, <2>2 DEF BranchesOpen, Keeps
  <2> HIDE DEF ifs
  <2>5. \A i \in DOMAIN ifs : i \in 1 .. Len(r.ifs) \/ i = Len(r.ifs) + 1
    BY <1>3, <2>3
  <2> QED
    BY <2>1, <2>3, <2>4, <2>5, Zenon DEF BranchesOpen
<1>10. IsLowering(WithBlocks(r, code, ifs, r.labels + 2), t)
  <2>1. r.labels + 2 \in Nat
    BY <1>3
  <2> HIDE DEF code, ifs
  <2> QED
    BY <1>7, <1>9, <2>1, BlocksLowered
<1>11. Ail!IfLine(r, l, k) = WithBlocks(r, code, ifs, r.labels + 2)
  <2> DEFINE e == Ail!Emit(r, more)
  <2>1. e = WithBlocks(r, code, r.ifs, r.labels)
    BY EmitChanges
  <2>2. Ail!IfLine(r, l, k) = [e EXCEPT !.labels = e.labels + 2, !.ifs = Append(e.ifs, open)]
    BY Zenon DEF Ail!IfLine, Ail!NextInstruction
  <2> HIDE DEF e, code, open
  <2>3. e.labels = r.labels /\ e.ifs = r.ifs
    BY <2>1 DEF WithBlocks
  <2> DEFINE labels == r.labels + 2
             d == [e EXCEPT !.labels = labels]
  <2> HIDE DEF labels, ifs
  <2>4. [e EXCEPT !.labels = labels, !.ifs = ifs] = [d EXCEPT !.ifs = ifs]
    OBVIOUS
  <2>5. d = WithBlocks(r, code, r.ifs, labels)
    BY <2>1 DEF WithBlocks
  <2> HIDE DEF d
  <2>6. [d EXCEPT !.ifs = ifs] = WithBlocks(r, code, ifs, labels)
    BY <2>5 DEF WithBlocks
  <2> QED
    BY <2>2, <2>3, <2>4, <2>6, Zenon DEF labels, ifs
<1> QED
  BY <1>10, <1>11

LEMMA InnermostTyped ==
  ASSUME NEW t, NEW r, IsLowering(r, t), r.ifs # <<>>
  PROVE  /\ Len(r.ifs) \in DOMAIN r.ifs /\ Ail!InnermostIf(r) = r.ifs[Len(r.ifs)]
         /\ Ail!InnermostIf(r) \in OpenIf /\ Ail!InnermostIf(r).end \in AnyLabel
         /\ Ail!To(Ail!InnermostIf(r).end) \in GotoTarget
         /\ Ail!InnermostIf(r).branch \in DOMAIN r.instructions
         /\ r.instructions[Ail!InnermostIf(r).branch].op = "branch"
<1>1. r.ifs \in Seq(OpenIf) /\ BranchesOpen(r.ifs, r.instructions)
  BY DEF IsLowering, LoweringState
<1>2. Len(r.ifs) \in DOMAIN r.ifs /\ r.ifs[Len(r.ifs)] \in OpenIf
  BY <1>1
<1>3. Ail!InnermostIf(r) = r.ifs[Len(r.ifs)]
  BY DEF Ail!InnermostIf, Ail!Last
<1>4. Ail!InnermostIf(r).end \in AnyLabel
  BY <1>2, <1>3 DEF OpenIf, AnyLabel
<1>5. Ail!To(Ail!InnermostIf(r).end) \in GotoTarget
  BY <1>4 DEF Ail!To, GotoTarget
<1> QED
  BY <1>1, <1>2, <1>3, <1>4, <1>5 DEF BranchesOpen

LEMMA EndIfLowered ==
  ASSUME NEW t \in Seq(SourceLines), NEW r, IsLowering(r, t), NEW k \in 1 .. Len(t),
         k <= LastLowered(t)
  PROVE  IsLowering(Ail!EndIfLine(r, t[k], k), t)
<1>1. CASE r.ifs = <<>>
  BY <1>1, Reported, Zenon DEF Ail!EndIfLine
<1>2. CASE r.ifs # <<>>
  <2> DEFINE label == Ail!LabelAt(Ail!SourceOf(t[k], k), Ail!InnermostIf(r).end)
             code == r.instructions \o <<label>>
             ifs == Ail!Front(r.ifs)
  <2>1. label \in LineCode(t)
    <3>1. /\ Ail!SourceOf(t[k], k) \in Source /\ Ail!SourceOf(t[k], k).line \in 1 .. Len(t)
          /\ Ail!SourceOf(t[k], k).line <= LastLowered(t)
      BY LineOfText, SourceTyped
    <3> QED
      BY <1>2, <3>1, InnermostTyped, InstructionsTyped
  <2>2. code \in Seq(LineCode(t)) /\ Keeps(r.instructions, code)
    <3> HIDE DEF label
    <3>1. r.instructions \in Seq(LineCode(t)) /\ <<label>> \in Seq(LineCode(t))
      BY <2>1 DEF IsLowering, LoweringState
    <3> QED
      BY <3>1, MoreKeeps
  <2>3. /\ ifs \in Seq(OpenIf) /\ BranchesOpen(ifs, r.instructions)
    <3>1. ifs = SubSeq(r.ifs, 1, Len(r.ifs) - 1)
      BY DEF Ail!Front
    <3>2. r.ifs \in Seq(OpenIf) /\ BranchesOpen(r.ifs, r.instructions)
      BY DEF IsLowering, LoweringState
    <3> HIDE DEF ifs
    <3>3. ifs \in Seq(OpenIf) /\ \A i \in DOMAIN ifs : i \in DOMAIN r.ifs /\ ifs[i] = r.ifs[i]
      BY <1>2, <3>1, <3>2
    <3> QED
      BY <3>2, <3>3 DEF BranchesOpen
  <2>4. BranchesOpen(ifs, code)
    <3> HIDE DEF ifs, code
    <3> QED
      BY <2>2, <2>3 DEF BranchesOpen, Keeps
  <2>5. IsLowering(WithBlocks(r, code, ifs, r.labels), t)
    <3> HIDE DEF ifs, code
    <3>1. r.labels \in Nat
      BY DEF IsLowering, LoweringState
    <3> QED
      BY <2>2, <2>3, <2>4, <3>1, BlocksLowered
  <2>6. Ail!EndIfLine(r, t[k], k) = WithBlocks(r, code, ifs, r.labels)
    <3> DEFINE e == Ail!Emit(r, <<label>>)
    <3>1. e = WithBlocks(r, code, r.ifs, r.labels)
      BY EmitChanges
    <3>2. Ail!EndIfLine(r, t[k], k) = [e EXCEPT !.ifs = Ail!Front(e.ifs)]
      BY <1>2, Zenon DEF Ail!EndIfLine
    <3> HIDE DEF e, code
    <3>3. e.ifs = r.ifs
      BY <3>1 DEF WithBlocks
    <3> HIDE DEF ifs
    <3>4. [e EXCEPT !.ifs = ifs] = WithBlocks(r, code, ifs, r.labels)
      BY <3>1 DEF WithBlocks
    <3> QED
      BY <3>2, <3>3, <3>4, Zenon DEF ifs
  <2> QED
    BY <2>5, <2>6
<1> QED
  BY <1>1, <1>2

LEMMA NewElse ==
  ASSUME NEW t, NEW i \in LineCode(t), i.op = "branch", NEW jump \in GotoTarget
  PROVE  [i EXCEPT !.else = jump] \in LineCode(t) /\ [i EXCEPT !.else = jump].op = "branch"
<1>1. /\ i \in [op : {"branch"}, source : Source, direct : BOOLEAN, lhs : Operand, rhs : Operand,
                relation : {"EQ", "NE", "LT", "LE", "GT", "GE", "other"},
                then : GotoTarget, else : GotoTarget \cup {NoGoto}]
      /\ i.source.line \in 1 .. Len(t)
  BY DEF LineCode, Instruction
<1>2. /\ [i EXCEPT !.else = jump]
           \in [op : {"branch"}, source : Source, direct : BOOLEAN, lhs : Operand, rhs : Operand,
                relation : {"EQ", "NE", "LT", "LE", "GT", "GE", "other"},
                then : GotoTarget, else : GotoTarget \cup {NoGoto}]
      /\ [i EXCEPT !.else = jump].source = i.source
  BY <1>1
<1> HIDE DEF LineCode
<1>3. [i EXCEPT !.else = jump] \in Instruction
  BY <1>2 DEF Instruction
<1> QED
  BY <1>1, <1>2, <1>3 DEF LineCode

LEMMA NewHasElse ==
  ASSUME NEW b \in OpenIf
  PROVE  [b EXCEPT !.hasElse = TRUE] \in OpenIf /\ [b EXCEPT !.hasElse = TRUE].branch = b.branch
BY DEF OpenIf

LEMMA Replaced ==
  ASSUME NEW S, NEW s \in Seq(S), NEW n \in DOMAIN s, NEW v \in S
  PROVE  /\ [s EXCEPT ![n] = v] \in Seq(S) /\ DOMAIN [s EXCEPT ![n] = v] = DOMAIN s
         /\ \A i \in DOMAIN s : [s EXCEPT ![n] = v][i] = IF i = n THEN v ELSE s[i]
OBVIOUS

LEMMA ElseLowered ==
  ASSUME NEW t \in Seq(SourceLines), NEW r, IsLowering(r, t), NEW k \in 1 .. Len(t),
         k <= LastLowered(t), r.ifs # <<>>
  PROVE  IsLowering(Ail!ElseOfIf(r, t[k], k), t)
<1> DEFINE l == t[k]
           label == Ail!Internal("IF_ELSE", r.labels + 1)
           at == Ail!SourceOf(l, k)
           more == <<Ail!Goto(at, Ail!To(Ail!InnermostIf(r).end)), Ail!LabelAt(at, label)>>
           was == r.instructions \o more
           b == Ail!InnermostIf(r).branch
           n == Len(r.ifs)
           code == [was EXCEPT ![b] = [was[b] EXCEPT !.else = Ail!To(label)]]
           ifs == [r.ifs EXCEPT ![n] = [r.ifs[n] EXCEPT !.hasElse = TRUE]]
<1>1. at \in Source /\ at.line \in 1 .. Len(t) /\ at.line <= LastLowered(t)
  BY LineOfText, SourceTyped
<1>2. r.labels \in Nat /\ r.instructions \in Seq(LineCode(t)) /\ r.ifs \in Seq(OpenIf)
  BY DEF IsLowering, LoweringState
<1>3. label \in AnyLabel /\ Ail!To(label) \in GotoTarget
  BY <1>2, JumpsTyped
<1>4. /\ n \in DOMAIN r.ifs /\ r.ifs[n] \in OpenIf /\ Ail!InnermostIf(r) = r.ifs[n]
      /\ Ail!To(Ail!InnermostIf(r).end) \in GotoTarget
      /\ b \in DOMAIN r.instructions /\ r.instructions[b].op = "branch"
  BY InnermostTyped
<1>5. was \in Seq(LineCode(t)) /\ Keeps(r.instructions, was)
  <2> DEFINE goto == Ail!Goto(at, Ail!To(Ail!InnermostIf(r).end))
             mark == Ail!LabelAt(at, label)
  <2>1. goto \in LineCode(t) /\ mark \in LineCode(t)
    BY <1>1, <1>3, <1>4, InstructionsTyped
  <2> HIDE DEF goto, mark
  <2>2. more \in Seq(LineCode(t))
    BY <2>1 DEF goto, mark
  <2> HIDE DEF more
  <2> QED
    BY <1>2, <2>2, MoreKeeps
<1>6. /\ code \in Seq(LineCode(t)) /\ DOMAIN code = DOMAIN was
      /\ \A i \in DOMAIN was : was[i].op = "branch" => code[i].op = "branch"
  <2> HIDE DEF was, label, b
  <2>1. b \in DOMAIN was /\ was[b] \in LineCode(t) /\ was[b].op = "branch"
    BY <1>4, <1>5 DEF Keeps
  <2> DEFINE v == [was[b] EXCEPT !.else = Ail!To(label)]
  <2>2. v \in LineCode(t) /\ v.op = "branch"
    BY <1>3, <2>1, NewElse
  <2> HIDE DEF v
  <2>3. code = [was EXCEPT ![b] = v]
    BY DEF v
  <2> HIDE DEF code
  <2> QED
    BY <1>5, <2>1, <2>2, <2>3, Replaced
<1>7. /\ ifs \in Seq(OpenIf) /\ DOMAIN ifs = DOMAIN r.ifs
      /\ \A i \in DOMAIN r.ifs : ifs[i].branch = r.ifs[i].branch
  <2> HIDE DEF n
  <2> DEFINE v == [r.ifs[n] EXCEPT !.hasElse = TRUE]
  <2>1. v \in OpenIf /\ v.branch = r.ifs[n].branch
    BY <1>4, NewHasElse
  <2> HIDE DEF v
  <2>2. ifs = [r.ifs EXCEPT ![n] = v]
    BY DEF v
  <2> HIDE DEF ifs
  <2> QED
    BY <1>2, <1>4, <2>1, <2>2, Replaced
<1>8. BranchesOpen(ifs, code)
  <2> HIDE DEF ifs, code, was
  <2>1. BranchesOpen(r.ifs, r.instructions)
    BY DEF IsLowering
  <2> QED
    BY <1>5, <1>6, <1>7, <2>1 DEF BranchesOpen, Keeps
<1>9. IsLowering(WithBlocks(r, code, ifs, r.labels + 1), t)
  <2>1. r.labels + 1 \in Nat
    BY <1>2
  <2> HIDE DEF ifs, code
  <2> QED
    BY <1>6, <1>7, <1>8, <2>1, BlocksLowered
<1>10. Ail!ElseOfIf(r, l, k) = WithBlocks(r, code, ifs, r.labels + 1)
  <2> DEFINE e == Ail!Emit(r, more)
             jump == Ail!To(label)
  <2>1. e = WithBlocks(r, was, r.ifs, r.labels)
    BY EmitChanges
  <2>2. Ail!ElseOfIf(r, l, k)
          = [e EXCEPT !.instructions[b].else = jump, !.labels = e.labels + 1,
                      !.ifs[n].hasElse = TRUE]
    BY Zenon DEF Ail!ElseOfIf
  <2> HIDE DEF e, was, b, n, jump
  <2>3. e.labels = r.labels /\ e.ifs = r.ifs /\ e.instructions = was
    BY <2>1 DEF WithBlocks
  <2> DEFINE labels == r.labels + 1
             c == [e.instructions EXCEPT ![b] = [e.instructions[b] EXCEPT !.else = jump]]
             f == [e.ifs EXCEPT ![n] = [e.ifs[n] EXCEPT !.hasElse = TRUE]]
             d == [e EXCEPT !.instructions = c]
             g == [d EXCEPT !.labels = labels]
  <2>4. c = code /\ f = ifs
    BY <2>3, Zenon DEF jump
  <2>5. [e EXCEPT !.instructions[b].else = jump, !.labels = e.labels + 1, !.ifs[n].hasElse = TRUE]
          = [g EXCEPT !.ifs = f]
    BY <2>3
  <2> HIDE DEF c, f, code, ifs, labels
  <2>6. d = WithBlocks(r, code, r.ifs, r.labels)
    BY <2>1, <2>4 DEF WithBlocks
  <2> HIDE DEF d
  <2>7. g = WithBlocks(r, code, r.ifs, labels)
    BY <2>6 DEF WithBlocks
  <2> HIDE DEF g
  <2>8. [g EXCEPT !.ifs = f] = WithBlocks(r, code, ifs, labels)
    BY <2>4, <2>7 DEF WithBlocks
  <2> QED
    BY <2>2, <2>5, <2>8, Zenon DEF labels
<1> QED
  BY <1>9, <1>10

LEMMA ElseLineLowered ==
  ASSUME NEW t \in Seq(SourceLines), NEW r, IsLowering(r, t), NEW k \in 1 .. Len(t),
         k <= LastLowered(t)
  PROVE  IsLowering(Ail!ElseLine(r, t[k], k), t)
<1>1. CASE r.ifs = <<>>
  BY <1>1, Reported, Zenon DEF Ail!ElseLine
<1>2. CASE r.ifs # <<>> /\ Ail!InnermostIf(r).hasElse
  BY <1>2, Reported, Zenon DEF Ail!ElseLine
<1>3. CASE r.ifs # <<>> /\ ~Ail!InnermostIf(r).hasElse
  BY <1>3, ElseLowered, Zenon DEF Ail!ElseLine
<1> QED
  BY <1>1, <1>2, <1>3, Zenon

LEMMA ProcLowered ==
  ASSUME NEW t \in Seq(SourceLines), NEW r, IsLowering(r, t), NEW k \in 1 .. Len(t),
         k <= LastLowered(t),
         Ail!IsProc(t[k])
  PROVE  IsLowering(Ail!ProcLine(r, t[k], k), t)
<1> DEFINE l == t[k]
           name == l.words[2].head
           declared == Ail!Emit(r, <<Ail!LabelAt(Ail!SourceOf(l, k), name)>>)
<1>1. /\ l \in SourceLines /\ Ail!SourceOf(l, k) \in Source /\ Ail!SourceOf(l, k).line \in 1 .. Len(t)
      /\ Ail!SourceOf(l, k).line <= LastLowered(t)
  BY LineOfText, SourceTyped
<1>2. name \in AnyLabel
  BY <1>1, RoomAssumption DEF HasRoom, AnyLabel
<1>3. IsLowering(declared, t)
  BY <1>1, <1>2, InstructionsTyped, OneInstruction
<1>4. IsLowering(Ail!Report(declared, "Warning", k, "PROC signature"), t)
  BY <1>3, Reported
<1> QED
  BY <1>3, <1>4, Zenon DEF Ail!ProcLine

LEMMA CallTyped ==
  ASSUME NEW l \in SourceLines, NEW c \in Ail!CallsIn(l.words)
  PROVE  c.target \in Label /\ c.repeat \in Int
<1>1. c.target \in Label
  BY RoomAssumption DEF HasRoom
<1>2. l.words \in Seq(Ail!Word)
  BY LinesAssumption DEF Ail!TextLine
<1>3. c.repeat \in Int
  <2>1. CASE Len(l.words) = 1 /\ Ail!IsTarget(l.words[1])
    BY <2>1 DEF Ail!CallsIn, Ail!Call
  <2>2. CASE ~(Len(l.words) = 1 /\ Ail!IsTarget(l.words[1])) /\ Ail!IsIsoCall(l.words)
    BY <2>2 DEF Ail!CallsIn, Ail!Call
  <2>3. CASE ~(Len(l.words) = 1 /\ Ail!IsTarget(l.words[1])) /\ ~Ail!IsIsoCall(l.words)
    <3>1. PICK i \in {j \in {1, 2} : Len(l.words) = 2 /\ Ail!IsTarget(l.words[j])
                                     /\ Ail!IsRepeat(l.words[3 - j])} :
            c = Ail!Call(l.words[i].head, l.words[3 - i].value, i)
      BY <2>3, Zenon DEF Ail!CallsIn
    <3>2. Ail!IsRepeat(l.words[3 - i]) /\ c.repeat = l.words[3 - i].value
      BY <3>1 DEF Ail!Call
    <3> QED
      BY <3>2 DEF Ail!IsRepeat
  <2> QED
    BY <2>1, <2>2, <2>3, Zenon
<1> QED
  BY <1>1, <1>3

LEMMA CallLowered ==
  ASSUME NEW t \in Seq(SourceLines), NEW r, IsLowering(r, t), NEW k \in 1 .. Len(t),
         k <= LastLowered(t),
         Ail!CallsIn(t[k].words) # {}
  PROVE  IsLowering(Ail!CallLine(r, t[k], k), t)
<1> DEFINE l == t[k]
           chosen == CHOOSE c \in Ail!CallsIn(l.words) : TRUE
           code == [op |-> "call", source |-> Ail!SourceOf(l, k), target |-> chosen.target,
                    repeat |-> chosen.repeat]
           called == Ail!Emit(r, <<code>>)
<1>1. /\ l \in SourceLines /\ Ail!SourceOf(l, k) \in Source /\ Ail!SourceOf(l, k).line \in 1 .. Len(t)
      /\ Ail!SourceOf(l, k).line <= LastLowered(t)
  BY LineOfText, SourceTyped
<1>2. chosen.target \in Label /\ chosen.repeat \in Int
  <2>1. chosen \in Ail!CallsIn(l.words)
    BY Zenon
  <2> HIDE DEF chosen
  <2> QED
    BY <1>1, <2>1, CallTyped
<1>3. IsLowering(called, t)
  <2> HIDE DEF chosen
  <2>1. code \in LineCode(t)
    BY <1>1, <1>2, InstructionsTyped
  <2> HIDE DEF code
  <2> QED
    BY <2>1, OneInstruction
<1>4. IsLowering(Ail!Report(called, "Warning", k, "call arguments"), t)
  <2> HIDE DEF called
  <2> QED
    BY <1>3, Reported
<1> QED
  BY <1>3, <1>4, Zenon DEF Ail!CallLine

----------------------------------------------------------------------------
(* Lines of words.                                                         *)

LEMMA WordTyped ==
  ASSUME NEW l \in SourceLines, NEW i \in DOMAIN l.words
  PROVE  l.words[i] \in Ail!Word /\ l.words \in Seq(Ail!Word)
<1>1. l \in Ail!TextLine
  BY LinesAssumption
<1>2. l.words \in Seq(Ail!Word)
  BY <1>1 DEF Ail!TextLine
<1> QED
  BY <1>2

LEMMA CodeNames ==
  /\ \A code \in 0 .. 3 : Ail!CodeName(code) \in ModalValue
  /\ \A code \in 17 .. 19 : Ail!CodeName(code) \in {"G17", "G18", "G19"} \cap ModalValue
  /\ \A code \in 40 .. 42 : Ail!CodeName(code) \in ModalValue
BY ModesAssumption DEF Ail!CodeName

(* A word, at, gives instructions of its line.                             *)
LEMMA WordLowered ==
  ASSUME NEW t, NEW at \in Source, at.line \in 1 .. Len(t),
         at.line <= LastLowered(t), NEW w \in Ail!Word,
         (w.head \in {"T", "T1"} => w.value \in Nat), SelectsTool(w.head, w.value)
  PROVE  Ail!WordCode(w, at) \in Seq(LineCode(t))
<1>1. \A i \in LineCode(t) : <<i>> \in Seq(LineCode(t))
  OBVIOUS
<1>2. <<>> \in Seq(LineCode(t))
  OBVIOUS
<1>3. w.head \in {"RTLION", "RTLIOF"} => Ail!Modal(at, "rapid", w.head) \in LineCode(t)
  BY InstructionsTyped, ModesAssumption
<1>4. Ail!IsG(w, 17 .. 19) => Ail!Modal(at, "plane", Ail!CodeName(w.value)) \in LineCode(t)
  BY InstructionsTyped, ModesAssumption, CodeNames DEF Ail!IsG
<1>5. Ail!IsG(w, 40 .. 42) => Ail!Modal(at, "radius", Ail!CodeName(w.value)) \in LineCode(t)
  BY InstructionsTyped, ModesAssumption, CodeNames DEF Ail!IsG
<1>6. w.head \in {"T", "T1"} => Ail!ToolSelect(at, w.head, w.value) \in LineCode(t)
  BY ToolSelectTyped
<1>7. [op |-> "return", source |-> at] \in LineCode(t)
  BY InstructionsTyped
<1>8. Ail!MInstruction(w, at) \in LineCode(t)
  <2>1. [op |-> "mcode", source |-> at, known |-> w.value \in Ail!PredefinedM] \in LineCode(t)
    <3>1. (w.value \in Ail!PredefinedM) \in BOOLEAN
      OBVIOUS
    <3> QED
      BY <3>1, InstructionsTyped, Zenon
  <2>2. [op |-> "tool change", source |-> at] \in LineCode(t)
    BY InstructionsTyped
  <2> QED
    BY <1>7, <2>1, <2>2, Zenon DEF Ail!MInstruction
<1>9. <<[op |-> "return", source |-> at]>> \in Seq(LineCode(t))
  BY <1>1, <1>7, Zenon
<1>10. <<Ail!MInstruction(w, at)>> \in Seq(LineCode(t))
  BY <1>1, <1>8, Zenon
<1> QED
  BY <1>1, <1>2, <1>3, <1>4, <1>5, <1>6, <1>9, <1>10, Zenon DEF Ail!WordCode

(* What a word leaves of plane and rapid mode.                             *)
LEMMA LowerWordTyped ==
  ASSUME NEW t \in Seq(SourceLines), NEW r, IsLowering(r, t), NEW k \in 1 .. Len(t),
         k <= LastLowered(t),
         ~Ail!BreaksRule(t[k]), NEW i \in DOMAIN t[k].words
  PROVE  IsLowering(Ail!LowerWord(r, t[k], k, i), t)
<1> DEFINE l == t[k]
           w == l.words[i]
           at == Ail!SourceOf(l, k)
           code == Ail!WordCode(w, at)
           plane == IF Ail!IsG(w, 17 .. 19) THEN Ail!CodeName(w.value) ELSE r.plane
           rapid == IF w.head \in {"RTLION", "RTLIOF"} /\ code # <<>> THEN w.head ELSE r.rapid
<1>1. l \in SourceLines /\ at \in Source /\ at.line \in 1 .. Len(t) /\ at.line <= LastLowered(t)
  BY LineOfText, SourceTyped
<1>2. w \in Ail!Word /\ SelectsTool(w.head, w.value)
  BY <1>1, WordTyped, RoomAssumption DEF HasRoom
<1>3. w.head \in {"T", "T1"} => w.value \in Nat
  <2>1. ~Ail!BreaksTShape(l)
    BY Zenon DEF Ail!BreaksRule
  <2>2. w.head \in {"T", "T1"} => Ail!Selects(w)
    BY <2>1, Zenon DEF Ail!BreaksTShape
  <2> QED
    BY <2>2 DEF Ail!Selects
<1>4. code \in Seq(LineCode(t))
  <2> HIDE DEF w, at
  <2> QED
    BY <1>1, <1>2, <1>3, WordLowered
<1>5. plane \in {"G17", "G18", "G19"} /\ rapid \in {"none", "RTLION", "RTLIOF"}
  <2>1. r.plane \in {"G17", "G18", "G19"} /\ r.rapid \in {"none", "RTLION", "RTLIOF"}
    BY DEF IsLowering, LoweringState
  <2> HIDE DEF w, code
  <2> QED
    BY <2>1, CodeNames DEF Ail!IsG
<1>6. IsLowering(Grown(r, code, <<>>, plane, rapid), t)
  <2>1. <<>> \in Seq(LineReport(t))
    OBVIOUS
  <2> HIDE DEF code, plane, rapid
  <2> QED
    BY <1>4, <1>5, <2>1, LoweringGrows
<1>7. Ail!LowerWord(r, l, k, i) = Grown(r, code, <<>>, plane, rapid)
  <2>1. Ail!LowerWord(r, l, k, i)
          = [r EXCEPT !.instructions = @ \o code, !.plane = plane, !.rapid = rapid]
    BY Zenon DEF Ail!LowerWord
  <2>2. r.diagnostics \o <<>> = r.diagnostics
    BY DEF IsLowering, LoweringState
  <2> DEFINE was == r.instructions \o code
             d == [r EXCEPT !.instructions = was]
             e == [d EXCEPT !.plane = plane]
  <2>3. r = [instructions |-> r.instructions, diagnostics |-> r.diagnostics,
             messages |-> r.messages, rejected |-> r.rejected, ifs |-> r.ifs,
             labels |-> r.labels, plane |-> r.plane, rapid |-> r.rapid]
    BY FieldsOfLowering DEF IsLowering
  <2> HIDE DEF was, plane, rapid
  <2>4. [r EXCEPT !.instructions = was, !.plane = plane, !.rapid = rapid]
          = [e EXCEPT !.rapid = rapid]
    OBVIOUS
  <2>5. d = [instructions |-> was, diagnostics |-> r.diagnostics,
             messages |-> r.messages, rejected |-> r.rejected, ifs |-> r.ifs,
             labels |-> r.labels, plane |-> r.plane, rapid |-> r.rapid]
    BY <2>3
  <2> HIDE DEF d
  <2>6. e = [instructions |-> was, diagnostics |-> r.diagnostics,
             messages |-> r.messages, rejected |-> r.rejected, ifs |-> r.ifs,
             labels |-> r.labels, plane |-> plane, rapid |-> r.rapid]
    BY <2>5
  <2> HIDE DEF e
  <2>7. [e EXCEPT !.rapid = rapid]
          = [instructions |-> was, diagnostics |-> r.diagnostics,
             messages |-> r.messages, rejected |-> r.rejected, ifs |-> r.ifs,
             labels |-> r.labels, plane |-> plane, rapid |-> rapid]
    BY <2>6
  <2> QED
    BY <2>1, <2>2, <2>4, <2>7, Zenon DEF Grown, was
<1> QED
  BY <1>6, <1>7

(* The instruction made of a message of the line.                          *)
LEMMA MoveTyped ==
  ASSUME NEW t \in Seq(SourceLines), NEW at \in Source, at.line \in 1 .. Len(t),
         at.line <= LastLowered(t), NEW l,
         NEW message, message.code \in 0 .. 4, NEW modes,
         modes.plane \in {"G17", "G18", "G19"}, modes.rapid \in {"none", "RTLION", "RTLIOF"}
  PROVE  Ail!MoveOf(message, l, at, modes) \in LineCode(t)
<1> DEFINE motion == IF message.code = 4 THEN "none" ELSE Ail!CodeName(message.code)
           system == message.code \in {0, 1} /\ Ail!ReadsSystem(l.words)
           effective == CASE message.code = 0 -> modes.rapid
                          [] message.code \in {2, 3} -> modes.plane
                          [] OTHER -> "none"
<1>1. motion \in ModalValue \cup {"none"}
  <2>1. message.code = 4 \/ message.code \in 0 .. 3
    OBVIOUS
  <2> QED
    BY <2>1, CodeNames
<1>2. system \in BOOLEAN
  BY DEF Ail!ReadsSystem
<1>3. effective \in ModalValue \cup {"none"}
  BY ModesAssumption
<1>4. Ail!MoveOf(message, l, at, modes)
        = [op |-> "move", source |-> at, motion |-> motion, system |-> system,
           effective |-> effective]
  BY Zenon DEF Ail!MoveOf
<1> HIDE DEF motion, system, effective
<1>5. [op |-> "move", source |-> at, motion |-> motion, system |-> system,
       effective |-> effective] \in LineCode(t)
  <2>1. \A m, e \in ModalValue \cup {"none"} : \A s \in BOOLEAN :
          [op |-> "move", source |-> at, motion |-> m, system |-> s, effective |-> e] \in LineCode(t)
    BY DEF LineCode, Instruction
  <2> QED
    BY <1>1, <1>2, <1>3, <2>1, Zenon
<1> QED
  BY <1>4, <1>5

LEMMA MotionLowered ==
  ASSUME NEW t \in Seq(SourceLines), NEW r, IsLowering(r, t), NEW k \in 1 .. Len(t),
         k <= LastLowered(t)
  PROVE  IsLowering(Ail!LowerMotion(r, t[k], k), t)
<1> DEFINE at == Ail!SourceOf(t[k], k)
           own == {i \in DOMAIN r.messages : r.messages[i].line = k}
           message == r.messages[CHOOSE i \in own : TRUE]
<1>1. CASE own = {}
  BY <1>1, Zenon DEF Ail!LowerMotion
<1>2. CASE own # {}
  <2>1. (CHOOSE i \in own : TRUE) \in own
    BY <1>2, Zenon
  <2>2. r.messages = Ail!LowerToMessages(t).messages
    BY DEF IsLowering, LoweringState
  <2>3. message.code \in 0 .. 4
    BY <2>1, <2>2, MessagesOfText
  <2>4. at \in Source /\ at.line \in 1 .. Len(t) /\ at.line <= LastLowered(t)
    BY LineOfText, SourceTyped
  <2>5. r.plane \in {"G17", "G18", "G19"} /\ r.rapid \in {"none", "RTLION", "RTLIOF"}
    BY DEF IsLowering, LoweringState
  <2> DEFINE move == Ail!MoveOf(message, t[k], at, r)
  <2>6. move \in LineCode(t)
    <3> HIDE DEF message, at
    <3> QED
      BY <2>3, <2>4, <2>5, MoveTyped
  <2> HIDE DEF message, at
  <2>7. IsLowering(Ail!Emit(r, <<move>>), t)
    BY <2>6, OneInstruction
  <2> QED
    BY <1>2, <2>7, Zenon DEF Ail!LowerMotion, message, at
<1> QED
  BY <1>1, <1>2

WordLoop == INSTANCE LoopTheorems WITH
  Round <- LAMBDA of, s, i : Ail!LowerWord(s, of[2], of[3], i), First <- LAMBDA of : of[1]

LEMMA WordsWhole ==
  \A r, l, k :
    Ail!WordsLine(r, l, k) = Ail!LowerMotion(WordLoop!After(<<r, l, k>>, Len(l.words)), l, k)
BY DEF Ail!WordsLine, WordLoop!After, WordLoop!Loop, Ail!Loop

LEMMA WordsLowered ==
  ASSUME NEW t \in Seq(SourceLines), NEW r, IsLowering(r, t), NEW k \in 1 .. Len(t),
         k <= LastLowered(t),
         ~Ail!BreaksRule(t[k])
  PROVE  IsLowering(Ail!WordsLine(r, t[k], k), t)
<1> DEFINE l == t[k]
           last == Len(l.words)
           S == {n \in Nat : n <= last => IsLowering(WordLoop!After(<<r, l, k>>, n), t)}
<1>1. l \in SourceLines /\ last \in Nat /\ DOMAIN l.words = 1 .. last
  <2>1. l \in SourceLines /\ l \in Ail!TextLine
    BY LineOfText
  <2> QED
    BY <2>1 DEF Ail!TextLine
<1>2. 0 \in S
  <2>1. WordLoop!After(<<r, l, k>>, 0) = r
    BY WordLoop!LoopStarts
  <2> QED
    BY <2>1
<1>3. ASSUME NEW n \in Nat, n \in S PROVE n + 1 \in S
  <2> DEFINE s == WordLoop!After(<<r, l, k>>, n)
  <2> SUFFICES ASSUME n + 1 <= last PROVE IsLowering(WordLoop!After(<<r, l, k>>, n + 1), t)
    OBVIOUS
  <2>1. WordLoop!After(<<r, l, k>>, n + 1) = Ail!LowerWord(s, l, k, n + 1)
    BY WordLoop!LoopSteps
  <2>2. IsLowering(s, t)
    BY <1>1, <1>3
  <2>3. n + 1 \in DOMAIN l.words
    BY <1>1
  <2> HIDE DEF s
  <2>4. IsLowering(Ail!LowerWord(s, l, k, n + 1), t)
    BY <2>2, <2>3, LowerWordTyped
  <2> QED
    BY <2>1, <2>4
<1>4. Nat \subseteq S
  <2> HIDE DEF S
  <2> QED
    BY <1>2, <1>3, WordLoop!SetInduction
<1> DEFINE s == WordLoop!After(<<r, l, k>>, last)
<1>5. IsLowering(s, t)
  BY <1>1, <1>4
<1>6. Ail!WordsLine(r, l, k) = Ail!LowerMotion(s, l, k)
  BY WordsWhole
<1> HIDE DEF s
<1> QED
  BY <1>5, <1>6, MotionLowered

(* Any line that is not passed over.                                       *)
LEMMA LineLowered ==
  ASSUME NEW t \in Seq(SourceLines), NEW r, IsLowering(r, t), NEW k \in 1 .. Len(t),
         k <= LastLowered(t),
         ~Ail!Passed(r, t[k], k)
  PROVE  IsLowering(Ail!AilLine(r, t[k], k), t)
<1> DEFINE l == t[k]
           kind == Ail!KindOf(l)
<1>1. ~Ail!BreaksRule(l)
  BY SoundLine
<1>2. kind \in {"assign", "if", "else", "endif", "label", "goto", "if goto", "malformed",
                "proc", "call", "words", "loop"}
  BY LineOfText DEF Ail!KindOf, Ail!TextLine, Ail!Statement
<1>3. l.statement.kind \notin {"malformed", "proc", "call", "words"}
  BY LineOfText DEF Ail!TextLine, Ail!Statement
<1>4. /\ kind \in {"assign", "if", "label", "goto", "if goto"} => l.statement.kind = kind
      /\ kind = "proc" => Ail!IsProc(l)
      /\ kind = "call" => Ail!CallsIn(l.words) # {}
  BY <1>3 DEF Ail!KindOf
<1>5. kind = "assign" => IsLowering(Ail!AssignLine(r, l, k), t)
  BY <1>1, <1>4, AssignLowered
<1>6. kind = "if" => IsLowering(Ail!IfLine(r, l, k), t)
  BY <1>4, IfLowered
<1>7. IsLowering(Ail!ElseLine(r, l, k), t) /\ IsLowering(Ail!EndIfLine(r, l, k), t)
  BY ElseLineLowered, EndIfLowered
<1>8. /\ kind = "label" => IsLowering(Ail!LabelLine(r, l, k), t)
      /\ kind = "goto" => IsLowering(Ail!GotoLine(r, l, k), t)
      /\ kind = "if goto" => IsLowering(Ail!IfGotoLine(r, l, k), t)
  BY <1>4, JumpsLowered
<1>9. IsLowering(Ail!Report(r, "Error", k, "malformed PROC"), t)
  BY Reported
<1>10. kind = "proc" => IsLowering(Ail!ProcLine(r, l, k), t)
  BY <1>4, ProcLowered
<1>11. kind = "call" => IsLowering(Ail!CallLine(r, l, k), t)
  BY <1>4, CallLowered
<1>12. IsLowering(Ail!WordsLine(r, l, k), t)
  BY <1>1, WordsLowered
<1> HIDE DEF l
<1> QED
  BY <1>2, <1>5, <1>6, <1>7, <1>8, <1>9, <1>10, <1>11, <1>12, Zenon DEF Ail!AilLine, l

----------------------------------------------------------------------------
(* The whole text.                                                         *)

AilRound(t, r, k) == IF Ail!Passed(r, t[k], k) THEN r ELSE Ail!AilLine(r, t[k], k)
AilLoop == INSTANCE LoopTheorems WITH
  Round <- LAMBDA t, r, k : AilRound(t, r, k),
  First <- LAMBDA t : Ail!Start(Ail!LowerToMessages(t))

LEMMA AilWhole ==
  \A t : LET start == Ail!Start(Ail!LowerToMessages(t)) IN
    Ail!LowerToAil(t) = Ail!Finish(AilLoop!After(t, Ail!LastLine(t, start)))
BY DEF Ail!LowerToAil, AilLoop!After, AilLoop!Loop, Ail!Loop, AilRound

LEMMA StartLowered ==
  ASSUME NEW t \in Seq(SourceLines)
  PROVE  /\ IsLowering(Ail!Start(Ail!LowerToMessages(t)), t)
         /\ Ail!LastLine(t, Ail!Start(Ail!LowerToMessages(t))) \in 0 .. Len(t)
<1> DEFINE low == Ail!LowerToMessages(t)
           start == Ail!Start(low)
<1>1. /\ low.diagnostics \in Seq(LineReport(t)) /\ low.rejected \in {Ail!NoValue} \cup 1 .. Len(t)
      /\ Len(t) \in Nat
  BY MessagesOfText, LineOfText
<1>2. start \in LoweringState(t) /\ start.rejected = low.rejected
  BY <1>1 DEF Ail!Start, LoweringState
<1>3. start.ifs = <<>> /\ start.instructions = <<>> /\ start.diagnostics = low.diagnostics
  BY DEF Ail!Start
<1> HIDE DEF low, start
<1>4. BranchesOpen(start.ifs, start.instructions) /\ Keeps(low.diagnostics, start.diagnostics)
  BY <1>3 DEF BranchesOpen, Keeps
<1>5. Ail!LastLine(t, start) \in 0 .. Len(t)
  BY <1>1, <1>2 DEF Ail!LastLine, Ail!NoValue
<1> QED
  BY <1>2, <1>4, <1>5, Zenon DEF IsLowering, low, start

LEMMA TextLowered ==
  ASSUME NEW t \in Seq(SourceLines)
  PROVE  \A n \in 0 .. LastLowered(t) : IsLowering(AilLoop!After(t, n), t)
<1> DEFINE S == {n \in Nat : n <= LastLowered(t) => IsLowering(AilLoop!After(t, n), t)}
<1>1. 0 \in S
  BY StartLowered, AilLoop!LoopStarts
<1>2. ASSUME NEW n \in Nat, n \in S PROVE n + 1 \in S
  <2> DEFINE r == AilLoop!After(t, n)
  <2> SUFFICES ASSUME n + 1 <= LastLowered(t) PROVE IsLowering(AilLoop!After(t, n + 1), t)
    OBVIOUS
  <2>0. LastLowered(t) \in Nat /\ LastLowered(t) <= Len(t) /\ Len(t) \in Nat
    BY StartLowered, LineOfText DEF LastLowered
  <2>1. AilLoop!After(t, n + 1) = AilRound(t, r, n + 1)
    BY AilLoop!LoopSteps
  <2>2. IsLowering(r, t) /\ n + 1 \in 1 .. Len(t)
    BY <1>2, <2>0
  <2> HIDE DEF r
  <2>3. ~Ail!Passed(r, t[n + 1], n + 1) => IsLowering(Ail!AilLine(r, t[n + 1], n + 1), t)
    BY <2>2, LineLowered
  <2> QED
    BY <2>1, <2>2, <2>3, Zenon DEF AilRound
<1>3. Nat \subseteq S
  <2> HIDE DEF S
  <2> QED
    BY <1>1, <1>2, AilLoop!SetInduction
<1> QED
  BY <1>3

(* What lowering a text returns.                                           *)
LEMMA AilOfText ==
  ASSUME NEW t \in Seq(SourceLines)
  PROVE  LET low == Ail!LowerToAil(t) IN
    /\ low.instructions \in Seq(LineCode(t)) /\ low.diagnostics \in Seq(LineReport(t))
    /\ low.rejected = Ail!LowerToMessages(t).rejected
    /\ low.rejected \in {Ail!NoValue} \cup 1 .. Len(t)
<1> DEFINE start == Ail!Start(Ail!LowerToMessages(t))
           last == Ail!LastLine(t, start)
           r == AilLoop!After(t, last)
           open == [i \in DOMAIN r.ifs |->
                      Ail!Diag("Error", r.instructions[r.ifs[i].branch].source.line, "missing ENDIF")]
           ds == r.diagnostics \o open
<1>1. IsLowering(r, t)
  <2>1. last \in 0 .. LastLowered(t)
    BY StartLowered DEF LastLowered
  <2> QED
    BY <2>1, TextLowered
<1> HIDE DEF r
<1>2. Ail!LowerToAil(t) = [r EXCEPT !.diagnostics = ds]
  BY AilWhole, Zenon DEF Ail!Finish, r
<1>3. /\ r.instructions \in Seq(LineCode(t)) /\ r.diagnostics \in Seq(LineReport(t))
      /\ r.ifs \in Seq(OpenIf) /\ r.rejected = Ail!LowerToMessages(t).rejected
      /\ r.rejected \in {Ail!NoValue} \cup 1 .. Len(t)
  BY <1>1, MessagesOfText DEF IsLowering, LoweringState
<1>4. open \in Seq(LineReport(t))
  <2>1. ASSUME NEW i \in DOMAIN r.ifs
        PROVE  Ail!Diag("Error", r.instructions[r.ifs[i].branch].source.line, "missing ENDIF")
                 \in LineReport(t)
    <3>1. r.ifs[i].branch \in DOMAIN r.instructions
      BY <1>1 DEF IsLowering, BranchesOpen
    <3>2. r.instructions[r.ifs[i].branch].source.line \in 1 .. Len(t)
      BY <1>3, <3>1 DEF LineCode
    <3> QED
      BY <3>2 DEF Ail!Diag, LineReport
  <2>2. DOMAIN r.ifs = 1 .. Len(r.ifs) /\ Len(r.ifs) \in Nat
    BY <1>3
  <2> DEFINE entry(i) ==
        Ail!Diag("Error", r.instructions[r.ifs[i].branch].source.line, "missing ENDIF")
  <2>3. \A i \in DOMAIN r.ifs : entry(i) \in LineReport(t)
    BY <2>1
  <2>4. open = [i \in DOMAIN r.ifs |-> entry(i)]
    OBVIOUS
  <2> HIDE DEF entry, open
  <2> QED
    BY <2>2, <2>3, <2>4
<1>5. ds \in Seq(LineReport(t))
  <2> HIDE DEF open
  <2> QED
    BY <1>3, <1>4
<1>6. r = [instructions |-> r.instructions, diagnostics |-> r.diagnostics,
           messages |-> r.messages, rejected |-> r.rejected, ifs |-> r.ifs,
           labels |-> r.labels, plane |-> r.plane, rapid |-> r.rapid]
  BY <1>1, FieldsOfLowering DEF IsLowering
<1> HIDE DEF ds
<1> DEFINE low == Ail!LowerToAil(t)
<1>7. low.instructions = r.instructions /\ low.diagnostics = ds /\ low.rejected = r.rejected
  BY <1>2, <1>6
<1> HIDE DEF low
<1> QED
  BY <1>3, <1>5, <1>7 DEF low

----------------------------------------------------------------------------
(* What is buffered, lowered with its own line numbers.                    *)

LEMMA Renumbered ==
  ASSUME NEW i \in Instruction, NEW n \in Nat
  PROVE  [i EXCEPT !.source.line = n] \in Instruction
<1> DEFINE from == [i.source EXCEPT !.line = n]
<1>1. from \in Source
  <2>1. i.source \in Source
    BY DEF Instruction
  <2> QED
    BY <2>1 DEF Source
<1>2. [i EXCEPT !.source.line = n] = [i EXCEPT !.source = from]
  OBVIOUS
<1> HIDE DEF from
<1> DEFINE next == [i EXCEPT !.source = from]
<1>3. ASSUME i \in [op : {"label"}, source : Source, name : AnyLabel]
      PROVE  next \in Instruction
  <2>1. next \in [op : {"label"}, source : Source, name : AnyLabel]
    BY <1>1, <1>3
  <2> HIDE DEF next
  <2> QED
    BY <2>1 DEF Instruction
<1>4. ASSUME i \in [op : {"goto"}, source : Source, to : GotoTarget]
      PROVE  next \in Instruction
  <2>1. next \in [op : {"goto"}, source : Source, to : GotoTarget]
    BY <1>1, <1>4
  <2> HIDE DEF next
  <2> QED
    BY <2>1 DEF Instruction
<1>5. ASSUME i \in [op : {"branch"}, source : Source, direct : BOOLEAN, lhs : Operand, rhs : Operand,
               relation : {"EQ", "NE", "LT", "LE", "GT", "GE", "other"},
               then : GotoTarget, else : GotoTarget \cup {NoGoto}]
      PROVE  next \in Instruction
  <2>1. next \in [op : {"branch"}, source : Source, direct : BOOLEAN, lhs : Operand, rhs : Operand,
               relation : {"EQ", "NE", "LT", "LE", "GT", "GE", "other"},
               then : GotoTarget, else : GotoTarget \cup {NoGoto}]
    BY <1>1, <1>5
  <2> HIDE DEF next
  <2> QED
    BY <2>1 DEF Instruction
<1>6. ASSUME i \in [op : {"assign"}, source : Source, name : Var \cup {"$"}, rhs : Operand]
      PROVE  next \in Instruction
  <2>1. next \in [op : {"assign"}, source : Source, name : Var \cup {"$"}, rhs : Operand]
    BY <1>1, <1>6
  <2> HIDE DEF next
  <2> QED
    BY <2>1 DEF Instruction
<1>7. ASSUME i \in [op : {"mcode"}, source : Source, known : BOOLEAN]
      PROVE  next \in Instruction
  <2>1. next \in [op : {"mcode"}, source : Source, known : BOOLEAN]
    BY <1>1, <1>7
  <2> HIDE DEF next
  <2> QED
    BY <2>1 DEF Instruction
<1>8. ASSUME i \in [op : {"modal"}, source : Source, group : ModalGroup, value : ModalValue]
      PROVE  next \in Instruction
  <2>1. next \in [op : {"modal"}, source : Source, group : ModalGroup, value : ModalValue]
    BY <1>1, <1>8
  <2> HIDE DEF next
  <2> QED
    BY <2>1 DEF Instruction
<1>9. ASSUME i \in [op : {"tool select"}, source : Source, tool : Tool, immediate : BOOLEAN]
      PROVE  next \in Instruction
  <2>1. next \in [op : {"tool select"}, source : Source, tool : Tool, immediate : BOOLEAN]
    BY <1>1, <1>9
  <2> HIDE DEF next
  <2> QED
    BY <2>1 DEF Instruction
<1>10. ASSUME i \in [op : {"tool change"}, source : Source]
      PROVE  next \in Instruction
  <2>1. next \in [op : {"tool change"}, source : Source]
    BY <1>1, <1>10
  <2> HIDE DEF next
  <2> QED
    BY <2>1 DEF Instruction
<1>11. ASSUME i \in [op : {"move"}, source : Source, motion : ModalValue \cup {"none"}, system : BOOLEAN,
               effective : ModalValue \cup {"none"}]
      PROVE  next \in Instruction
  <2>1. next \in [op : {"move"}, source : Source, motion : ModalValue \cup {"none"}, system : BOOLEAN,
               effective : ModalValue \cup {"none"}]
    BY <1>1, <1>11
  <2> HIDE DEF next
  <2> QED
    BY <2>1 DEF Instruction
<1>12. ASSUME i \in [op : {"return"}, source : Source]
      PROVE  next \in Instruction
  <2>1. next \in [op : {"return"}, source : Source]
    BY <1>1, <1>12
  <2> HIDE DEF next
  <2> QED
    BY <2>1 DEF Instruction
<1>13. ASSUME i \in [op : {"call"}, source : Source, target : Label, repeat : Int]
      PROVE  next \in Instruction
  <2>1. next \in [op : {"call"}, source : Source, target : Label, repeat : Int]
    BY <1>1, <1>13
  <2> HIDE DEF next
  <2> QED
    BY <2>1 DEF Instruction
<1> HIDE DEF next, from
<1>14. next \in Instruction
  BY <1>3, <1>4, <1>5, <1>6, <1>7, <1>8, <1>9, <1>10, <1>11, <1>12, <1>13, Zenon DEF Instruction
<1> QED
  BY <1>2, <1>14 DEF next

LEMMA LinesTyped ==
  ASSUME NEW p \in Seq(PendingLine)
  PROVE  /\ LinesOf(p) \in Seq(SourceLines) /\ Len(LinesOf(p)) = Len(p) /\ DOMAIN p = 1 .. Len(p)
         /\ \A k \in 1 .. Len(p) : p[k].line \in Nat \ {0} /\ LinesOf(p)[k] = p[k].src
<1> DEFINE n == Len(p)
<1>1. n \in Nat /\ DOMAIN p = 1 .. n /\ \A k \in 1 .. n : p[k] \in PendingLine
  OBVIOUS
<1>2. \A k \in 1 .. n : p[k].src \in SourceLines /\ p[k].line \in Nat \ {0}
  BY <1>1 DEF PendingLine
<1>3. LinesOf(p) = [k \in 1 .. n |-> p[k].src]
  BY <1>1 DEF LinesOf
<1> HIDE DEF n
<1>4. LinesOf(p) \in Seq(SourceLines) /\ Len(LinesOf(p)) = n
  BY <1>1, <1>2, <1>3
<1> QED
  BY <1>1, <1>2, <1>3, <1>4 DEF n

THEOREM LoweringOfLines ==
  ASSUME NEW p \in Seq(PendingLine)
  PROVE  /\ Lowered(p).code \in Seq(Instruction)
         /\ Lowered(p).rejected \in Nat \cup {NoLine}
         /\ Lowered(p).notices \in Seq([kind : {"diagnostic"}, line : Nat])
         /\ Lowered(p).rejected = NoLine \/ \E k \in DOMAIN p : Lowered(p).rejected = p[k].line
<1> DEFINE t == LinesOf(p)
           r == Ail!LowerToAil(t)
<1>1. /\ t \in Seq(SourceLines) /\ Len(t) = Len(p) /\ DOMAIN p = 1 .. Len(p)
      /\ \A k \in 1 .. Len(p) : p[k].line \in Nat \ {0}
  BY LinesTyped
<1>2. /\ r.instructions \in Seq(LineCode(t)) /\ r.diagnostics \in Seq(LineReport(t))
      /\ r.rejected \in {Ail!NoValue} \cup 1 .. Len(t)
  BY <1>1, AilOfText
<1>3. Lowered(p) = WithLines(r, p)
  BY DEF Lowered
<1> HIDE DEF t, r
<1>4. Lowered(p).code = [i \in DOMAIN r.instructions |->
                           [r.instructions[i] EXCEPT !.source.line = p[@].line]]
  BY <1>3 DEF WithLines
<1>5. Lowered(p).code \in Seq(Instruction)
  <2> DEFINE code(i) == [r.instructions[i] EXCEPT !.source.line = p[@].line]
  <2>1. ASSUME NEW i \in DOMAIN r.instructions PROVE code(i) \in Instruction
    <3> DEFINE was == r.instructions[i]
               line == p[was.source.line].line
    <3>1. was \in Instruction /\ was.source.line \in 1 .. Len(p)
      BY <1>1, <1>2 DEF LineCode
    <3>2. line \in Nat
      BY <1>1, <3>1
    <3>3. code(i) = [was EXCEPT !.source.line = line]
      OBVIOUS
    <3> HIDE DEF was, line, code
    <3> QED
      BY <3>1, <3>2, <3>3, Renumbered
  <2>2. DOMAIN r.instructions = 1 .. Len(r.instructions) /\ Len(r.instructions) \in Nat
    BY <1>2
  <2>3. Lowered(p).code = [i \in DOMAIN r.instructions |-> code(i)]
    BY <1>4
  <2> HIDE DEF code
  <2> QED
    BY <2>1, <2>2, <2>3
<1>6. Lowered(p).notices \in Seq([kind : {"diagnostic"}, line : Nat])
  <2> DEFINE shown(i) == Notice("diagnostic", p[r.diagnostics[i].line].line)
  <2>1. ASSUME NEW i \in DOMAIN r.diagnostics
        PROVE  shown(i) \in [kind : {"diagnostic"}, line : Nat]
    <3>1. r.diagnostics[i].line \in 1 .. Len(p)
      <4>1. r.diagnostics[i] \in LineReport(t)
        BY <1>2
      <4> QED
        BY <1>1, <4>1 DEF LineReport
    <3> QED
      BY <1>1, <3>1 DEF Notice
  <2>2. DOMAIN r.diagnostics = 1 .. Len(r.diagnostics) /\ Len(r.diagnostics) \in Nat
    BY <1>2
  <2>3. Lowered(p).notices = [i \in DOMAIN r.diagnostics |-> shown(i)]
    BY <1>3 DEF WithLines
  <2> HIDE DEF shown
  <2> QED
    BY <2>1, <2>2, <2>3
<1>7. Lowered(p).rejected = IF r.rejected = Ail!NoValue THEN NoLine ELSE p[r.rejected].line
  BY <1>3 DEF WithLines
<1>8. Lowered(p).rejected = NoLine \/ \E k \in DOMAIN p : Lowered(p).rejected = p[k].line
  BY <1>1, <1>2, <1>7
<1> QED
  BY <1>1, <1>5, <1>6, <1>8

(* A line that can be rejected: it is bad in itself, or an arc, which may  *)
(* be bad in the plane it is in.                                           *)
MayReject(l) == Msg!BadInItself(l) \/ Msg!IsArc(l)

(* Of the buffered lines the first bad one is rejected, or an arc before.  *)
THEOREM RejectsFirstBadLine ==
  ASSUME NEW p \in Seq(PendingLine)
  PROVE  LET n == Lowered(p).rejected IN
    /\ n # NoLine => \E k \in DOMAIN p : n = p[k].line /\ MayReject(p[k].src)
                                         /\ \A j \in 1 .. k - 1 : ~Msg!BadInItself(p[j].src)
    /\ n = NoLine => \A k \in DOMAIN p : ~Msg!BadInItself(p[k].src)
<1> DEFINE t == LinesOf(p)
           r == Ail!LowerToAil(t).rejected
<1>1. /\ t \in Seq(SourceLines) /\ Len(t) = Len(p) /\ DOMAIN p = 1 .. Len(p)
      /\ \A k \in 1 .. Len(p) : p[k].line \in Nat \ {0} /\ t[k] = p[k].src
  BY LinesTyped
<1>2. Lowered(p).rejected = IF r = Ail!NoValue THEN NoLine ELSE p[r].line
  <2> DEFINE low == Ail!LowerToAil(t)
  <2>1. Lowered(p) = WithLines(low, p)
    BY DEF Lowered
  <2> HIDE DEF low
  <2>2. Lowered(p).rejected = IF low.rejected = Ail!NoValue THEN NoLine ELSE p[low.rejected].line
    BY <2>1 DEF WithLines
  <2> QED
    BY <2>2 DEF low
<1> HIDE DEF t
<1>3. r = Msg!LowerToMessages(t).rejected
  BY <1>1, AilOfText, SameMessages
<1> HIDE DEF r
<1>4. /\ r # Ail!NoValue => r \in 1 .. Len(t) /\ (Msg!BadInItself(t[r]) \/ Msg!IsArc(t[r]))
      /\ \A k \in 1 .. Len(t) : Msg!BadInItself(t[k]) => r # Ail!NoValue /\ r <= k
  BY <1>1, <1>3, MsgAssumptions, Msg!RejectsFirstBad DEF Msg!NoValue, Ail!NoValue
<1>5. \A k \in 1 .. Len(p) : t[k] = p[k].src
  BY <1>1
<1>6. CASE r = Ail!NoValue
  <2>1. Lowered(p).rejected = NoLine
    BY <1>2, <1>6
  <2>2. \A k \in DOMAIN p : ~Msg!BadInItself(p[k].src)
    BY <1>1, <1>4, <1>5, <1>6
  <2> QED
    BY <2>1, <2>2
<1>7. CASE r # Ail!NoValue
  <2>1. r \in DOMAIN p /\ Lowered(p).rejected = p[r].line
    BY <1>1, <1>2, <1>4, <1>7
  <2>2. p[r].line # NoLine
    BY <1>1, <2>1, LinesAssumption
  <2>3. MayReject(p[r].src)
    BY <1>1, <1>4, <1>5, <1>7, <2>1 DEF MayReject
  <2>4. \A j \in 1 .. r - 1 : ~Msg!BadInItself(p[j].src)
    BY <1>1, <1>4, <1>5, <2>1
  <2> QED
    BY <2>1, <2>2, <2>3, <2>4
<1> QED
  BY <1>6, <1>7

(* What is run comes from lines before which, and at which, nothing is bad.*)
THEOREM RunsGoodLines ==
  ASSUME NEW p \in Seq(PendingLine), NEW i \in DOMAIN Lowered(p).code
  PROVE  \E k \in DOMAIN p : /\ Lowered(p).code[i].source.line = p[k].line
                            /\ \A j \in 1 .. k : ~Msg!BadInItself(p[j].src)
<1> DEFINE t == LinesOf(p)
           r == Ail!LowerToAil(t)
           last == LastLowered(t)
           n == Ail!LowerToMessages(t).rejected
<1>1. /\ t \in Seq(SourceLines) /\ Len(t) = Len(p) /\ DOMAIN p = 1 .. Len(p)
      /\ \A k \in 1 .. Len(p) : t[k] = p[k].src
  BY LinesTyped
<1>2. r.instructions \in Seq(LineCode(t))
  BY <1>1, AilOfText
<1>3. Lowered(p) = WithLines(r, p)
  BY DEF Lowered
<1> HIDE DEF r
<1>4. Lowered(p).code = [x \in DOMAIN r.instructions |->
                           [r.instructions[x] EXCEPT !.source.line = p[@].line]]
  BY <1>3 DEF WithLines
<1> DEFINE was == r.instructions[i]
           k == was.source.line
<1>5. was \in Instruction /\ k \in 1 .. Len(p) /\ k <= last
  <2>1. i \in DOMAIN r.instructions
    BY <1>4
  <2>2. was \in LineCode(t)
    BY <1>2, <2>1
  <2> QED
    BY <1>1, <2>2 DEF LineCode
<1>6. Lowered(p).code[i] = [was EXCEPT !.source.line = p[k].line]
  BY <1>4
<1>7. Lowered(p).code[i].source.line = p[k].line
  <2>1. was.source \in Source
    BY <1>5 DEF Instruction
  <2> HIDE DEF was
  <2>2. [was EXCEPT !.source.line = p[k].line].source.line = p[k].line
    BY <1>5, <2>1 DEF Instruction, Source
  <2> QED
    BY <1>6, <2>2
<1> HIDE DEF t, n, was, k
<1>8. /\ n # Ail!NoValue => n \in 1 .. Len(t)
      /\ \A j \in 1 .. Len(t) : Msg!BadInItself(t[j]) => n # Ail!NoValue /\ n <= j
  <2>1. n = Msg!LowerToMessages(t).rejected
    BY SameMessages DEF n
  <2> QED
    BY <1>1, <2>1, MsgAssumptions, Msg!RejectsFirstBad DEF Msg!NoValue, Ail!NoValue
<1>9. last = IF n = Ail!NoValue THEN Len(t) ELSE n - 1
  BY DEF LastLowered, Ail!LastLine, Ail!Start, n
<1> HIDE DEF last
<1>10. ASSUME NEW j \in 1 .. k PROVE ~Msg!BadInItself(p[j].src)
  <2>1. j \in 1 .. Len(t) /\ t[j] = p[j].src /\ j <= last
    <3>1. last \in Int /\ k \in Int /\ Len(p) \in Int
      BY <1>1, <1>5, <1>8, <1>9
    <3> QED
      BY <1>1, <1>5, <3>1
  <2>2. ~Msg!BadInItself(t[j])
    <3> SUFFICES ASSUME Msg!BadInItself(t[j]) PROVE FALSE
      OBVIOUS
    <3>1. n \in 1 .. Len(t) /\ n <= j /\ n # Ail!NoValue
      BY <1>8, <2>1
    <3> QED
      BY <1>9, <2>1, <3>1
  <2> QED
    BY <2>1, <2>2
<1> QED
  BY <1>1, <1>5, <1>7, <1>10

----------------------------------------------------------------------------
(* The invariant.  While the executor is advanced the engine is in a state *)
(* in which it works, so not blocked, and nothing but the executor's own   *)
(* steps changes that.                                                     *)

CarriedState ==
  [modal : [ModalGroup -> ModalValue], userVars : [Var -> Value],
   activeTool : (Tool \ {Deselect}) \cup {NoTool}, pendingTool : Tool \cup {NoTool}]

InputOK ==
  /\ pending \in Seq(PendingLine) /\ nextLine \in Nat \ {0}
  /\ buffered \in BOOLEAN /\ finished \in BOOLEAN
  /\ text \in Texts /\ fed \in 0 .. Len(text)

VerdictOK ==
  /\ estate \in EngineStates /\ waiting \in (Nat \ {0}) \cup {NoWait}
  /\ rejected \in Nat \cup {NoLine} /\ deferred \in Nat \cup {NoLine}
  /\ hasExecutor \in BOOLEAN /\ told \in Nat /\ current \in CarriedState
  /\ (estate = "Blocked" <=> waiting # NoWait)
  /\ estate = "Blocked" => hasExecutor /\ status = "Blocked" /\ blocked.token = waiting
  /\ estate = "Rejected" => rejected # NoLine

CallOK ==
  /\ calling \in {"idle", "pumping", "advancing"} /\ result \in Results
  /\ calling = "advancing" => hasExecutor /\ ~Stays

ClientOK ==
  notices \in Seq(ShownNotice) /\ cancelRequested \in BOOLEAN /\ completed \subseteq Nat \ {0}

EngineInv == TypeOK /\ InputOK /\ VerdictOK /\ CallOK /\ ClientOK

LEMMA InvGivesTypes == EngineInv => EngineTypeOK
<1> SUFFICES ASSUME EngineInv PROVE EngineTypeOK
  OBVIOUS
<1>1. fed \in Nat
  BY TextsAssumption DEF EngineInv, InputOK
<1> QED
  BY <1>1 DEF EngineInv, InputOK, VerdictOK, CallOK, ClientOK, EngineTypeOK, PendingLine,
     ShownNotice, CarriedState

(* An empty buffer.                                                        *)
LEMMA NothingBuffered ==
  ASSUME InputOK, pending' = <<>>, UNCHANGED <<text, fed, nextLine, buffered, finished>>
  PROVE  InputOK'
BY DEF InputOK

LEMMA SameInput ==
  ASSUME InputOK, UNCHANGED <<input, text, fed>>
  PROVE  InputOK'
<1>1. UNCHANGED <<pending, nextLine, buffered, finished, text, fed>>
  BY DEF input
<1> QED
  BY <1>1 DEF InputOK

LEMMA SameExecutor ==
  ASSUME TypeOK, UNCHANGED <<executor, environment>>
  PROVE  TypeOK' /\ UNCHANGED <<status, blocked>>
<1>1. UNCHANGED vars /\ UNCHANGED control
  BY DEF executor, vars
<1> QED
  BY <1>1, StutterTyped DEF control

----------------------------------------------------------------------------
(* What is shown is shown for good.                                        *)

Grows ==
  /\ notices' \in Seq(ShownNotice)
  /\ \A k \in DOMAIN notices : k \in DOMAIN notices' /\ notices'[k] = notices[k]

LEMMA SameNotices == ASSUME notices \in Seq(ShownNotice), UNCHANGED notices PROVE Grows
BY DEF Grows

LEMMA MoreNotices ==
  ASSUME notices \in Seq(ShownNotice), NEW more \in Seq(ShownNotice), notices' = notices \o more
  PROVE  Grows
BY DEF Grows

LEMMA OneMoreNotice ==
  ASSUME notices \in Seq(ShownNotice), NEW more \in Seq(ShownNotice), NEW last \in ShownNotice,
         notices' = Append(notices \o more, last)
  PROVE  Grows
<1>1. notices \o more \in Seq(ShownNotice)
  BY ConcatProperties
<1>2. notices' \in Seq(ShownNotice) /\ Len(notices') = Len(notices \o more) + 1
  BY <1>1, AppendProperties
<1>3. \A k \in DOMAIN (notices \o more) : notices'[k] = (notices \o more)[k]
  BY <1>1, AppendProperties
<1> QED
  BY <1>1, <1>2, <1>3 DEF Grows

LEMMA MoreAndMoreNotices ==
  ASSUME notices \in Seq(ShownNotice), NEW more \in Seq(ShownNotice), NEW last \in Seq(ShownNotice),
         notices' = (notices \o more) \o last
  PROVE  Grows
<1>1. notices \o more \in Seq(ShownNotice)
  BY ConcatProperties
<1>2. notices' \in Seq(ShownNotice) /\ Len(notices') = Len(notices \o more) + Len(last)
  BY <1>1, ConcatProperties
<1>3. \A k \in DOMAIN (notices \o more) : notices'[k] = (notices \o more)[k]
  BY <1>1, ConcatProperties
<1> QED
  BY <1>1, <1>2, <1>3 DEF Grows

LEMMA NoticeTyped ==
  ASSUME NEW kind \in {"diagnostic", "rejected", "resume out of turn"}, NEW line \in Nat
  PROVE  Notice(kind, line) \in ShownNotice
BY DEF Notice, ShownNotice

LEMMA DiagnosticsShown ==
  ASSUME NEW s \in Seq([kind : {"diagnostic"}, line : Nat])
  PROVE  s \in Seq(ShownNotice)
<1>1. [kind : {"diagnostic"}, line : Nat] \subseteq ShownNotice
  BY DEF ShownNotice
<1> QED
  BY <1>1, SeqMonotonic

(* The diagnostics of the executor that were not shown yet.                *)
LEMMA NewOnesTyped ==
  ASSUME NEW n \in Int
  PROVE  [k \in 1 .. n |-> Notice("diagnostic", 0)] \in Seq(ShownNotice)
<1>1. Notice("diagnostic", 0) \in ShownNotice
  BY NoticeTyped
<1>2. CASE n \in Nat
  BY <1>1, <1>2
<1>3. CASE n \notin Nat
  <2>1. 1 .. n = {}
    BY <1>3
  <2> QED
    BY <2>1
<1> QED
  BY <1>2, <1>3

----------------------------------------------------------------------------
(* The steps of pump().                                                    *)

LEMMA ReportKeeps ==
  ASSUME EngineInv, Report, UNCHANGED client
  PROVE  EngineInv' /\ Grows
<1>1. TypeOK' /\ UNCHANGED <<status, blocked>>
  BY SameExecutor DEF EngineInv, Report
<1>2. InputOK'
  BY SameInput DEF EngineInv, Report, client
<1>3. VerdictOK'
  BY <1>1 DEF EngineInv, VerdictOK, Report, verdict
<1>4. CallOK'
  BY DEF EngineInv, CallOK, Report, Return, Stays, Results
<1>5. ClientOK' /\ Grows
  BY SameNotices DEF EngineInv, ClientOK, Report, client
<1> QED
  BY <1>1, <1>2, <1>3, <1>4, <1>5 DEF EngineInv

LEMMA ContinueKeeps ==
  ASSUME EngineInv, ContinueExecutor, UNCHANGED client
  PROVE  EngineInv' /\ Grows
<1>1. TypeOK' /\ UNCHANGED <<status, blocked>>
  BY SameExecutor DEF EngineInv, ContinueExecutor
<1>2. InputOK'
  BY SameInput DEF EngineInv, ContinueExecutor, client
<1>3. VerdictOK'
  BY <1>1 DEF EngineInv, VerdictOK, ContinueExecutor, verdict
<1>4. CallOK'
  BY DEF EngineInv, CallOK, ContinueExecutor, verdict, Stays
<1>5. ClientOK' /\ Grows
  BY SameNotices DEF EngineInv, ClientOK, ContinueExecutor, client
<1> QED
  BY <1>1, <1>2, <1>3, <1>4, <1>5 DEF EngineInv

(* cancel(), but for what the call returns.                                *)
LEMMA CancelKeeps ==
  ASSUME EngineInv, Cancel, UNCHANGED client
  PROVE  /\ TypeOK' /\ InputOK' /\ VerdictOK' /\ ClientOK' /\ Grows
         /\ estate' = "Cancelled" /\ outstanding' \subseteq outstanding
<1>1. UNCHANGED <<status, blocked>> /\ outstanding' \subseteq outstanding
  BY DEF Cancel, CancelsWait, executor, control
<1>2. TypeOK'
  <2>1. UNCHANGED <<program, control, frames, data, tools, pendingEvents, log, issued, spindle>>
    BY DEF Cancel, executor
  <2>2. EnvironmentOK'
    BY <1>1, <2>1 DEF EngineInv, TypeOK, EnvironmentOK
  <2>3. TypeOK
    BY DEF EngineInv
  <2> QED
    BY <2>1, <2>2, <2>3
       DEF TypeOK, ProgramOK, ControlOK, DataOK, ToolsOK, program, control, data, tools
<1>3. InputOK'
  BY SameInput DEF EngineInv, Cancel, client
<1>4. VerdictOK'
  BY <1>1 DEF EngineInv, VerdictOK, Cancel, EngineStates
<1>5. ClientOK' /\ Grows
  BY SameNotices DEF EngineInv, ClientOK, Cancel, client
<1> QED
  BY <1>1, <1>2, <1>3, <1>4, <1>5 DEF Cancel

LEMMA CancelOnRequestKeeps ==
  ASSUME EngineInv, CancelOnRequest, UNCHANGED client
  PROVE  EngineInv' /\ Grows
<1>1. TypeOK' /\ InputOK' /\ VerdictOK' /\ ClientOK' /\ Grows
  BY CancelKeeps DEF CancelOnRequest
<1>2. CallOK'
  BY DEF EngineInv, CallOK, CancelOnRequest, Return, Results
<1> QED
  BY <1>1, <1>2 DEF EngineInv

LEMMA AtRestTyped == ReturnAtRest => estate' \in {"Completed", "ReadyToExecute"}
BY DEF ReturnAtRest, AtRest

LEMMA NothingPendingKeeps ==
  ASSUME EngineInv, NothingPending, UNCHANGED client
  PROVE  EngineInv' /\ Grows
<1>1. TypeOK' /\ UNCHANGED <<status, blocked>>
  BY SameExecutor DEF EngineInv, NothingPending
<1>2. InputOK'
  BY SameInput DEF EngineInv, NothingPending, client
<1>3. estate # "Blocked" /\ estate' \in {"Completed", "ReadyToExecute"}
  BY AtRestTyped DEF NothingPending, Idle, Stays
<1>4. VerdictOK'
  BY <1>1, <1>3 DEF EngineInv, VerdictOK, NothingPending, EngineStates
<1>5. CallOK'
  BY DEF EngineInv, CallOK, NothingPending, ReturnAtRest, Return, Results
<1>6. ClientOK' /\ Grows
  BY SameNotices DEF EngineInv, ClientOK, NothingPending, client
<1> QED
  BY <1>1, <1>2, <1>4, <1>5, <1>6 DEF EngineInv

LEMMA NothingToRunKeeps ==
  ASSUME EngineInv, NothingToRun, UNCHANGED client
  PROVE  EngineInv' /\ Grows
<1> DEFINE low == Lowered(pending)
<1>1. TypeOK' /\ UNCHANGED <<status, blocked>>
  BY SameExecutor DEF EngineInv, NothingToRun
<1>2. low.rejected \in Nat \cup {NoLine} /\ low.notices \in Seq(ShownNotice)
  BY LoweringOfLines, DiagnosticsShown DEF EngineInv, InputOK
<1>3. notices \in Seq(ShownNotice) /\ estate # "Blocked"
  BY DEF EngineInv, ClientOK, NothingToRun, Idle, Stays
<1>4. CASE /\ low.rejected = NoLine /\ notices' = notices \o low.notices
           /\ ClearPending /\ ReturnAtRest /\ UNCHANGED <<waiting, rejected>>
  <2>1. InputOK'
    BY <1>4, NothingBuffered DEF EngineInv, InputOK, NothingToRun, ClearPending, client
  <2>2. VerdictOK'
    BY <1>1, <1>3, <1>4, AtRestTyped DEF EngineInv, VerdictOK, NothingToRun, EngineStates
  <2>3. CallOK'
    BY <1>4 DEF EngineInv, CallOK, ReturnAtRest, Return, Results
  <2>4. Grows
    BY <1>2, <1>3, <1>4, MoreNotices
  <2>5. ClientOK'
    BY <2>4 DEF EngineInv, ClientOK, client, Grows
  <2> QED
    BY <1>1, <2>1, <2>2, <2>3, <2>4, <2>5 DEF EngineInv
<1>5. CASE /\ low.rejected # NoLine
           /\ notices' = Append(notices \o low.notices, Notice("rejected", low.rejected))
           /\ Reject(low.rejected) /\ UNCHANGED pending
  <2>1. InputOK'
    BY <1>5, SameInput DEF EngineInv, NothingToRun, input, client
  <2>2. VerdictOK'
    BY <1>1, <1>2, <1>5 DEF EngineInv, VerdictOK, NothingToRun, Reject, EngineStates
  <2>3. CallOK'
    BY <1>5 DEF EngineInv, CallOK, Reject, Return, Results
  <2>4. Grows
    <3>1. Notice("rejected", low.rejected) \in ShownNotice
      BY <1>2, <1>5, NoticeTyped
    <3> HIDE DEF low
    <3> QED
      BY <1>2, <1>3, <1>5, <3>1, OneMoreNotice
  <2>5. ClientOK'
    BY <2>4 DEF EngineInv, ClientOK, client, Grows
  <2> QED
    BY <1>1, <2>1, <2>2, <2>3, <2>4, <2>5 DEF EngineInv
<1> QED
  BY <1>4, <1>5 DEF NothingToRun

LEMMA NewExecutorTyped ==
  ASSUME TypeOK, current \in CarriedState, NEW code \in Seq(Instruction), NewExecutor(code, Hands),
         UNCHANGED environment
  PROVE  TypeOK' /\ status' = "Ready"
<1> DEFINE start == [v \in Var |-> 0]
<1>1. start \in [Var -> Value]
  BY ValueAssumption
<1>2. Hands = [modal |-> current.modal, activeTool |-> current.activeTool,
               pendingTool |-> current.pendingTool, userVars |-> start]
  BY DEF Hands
<1> HIDE DEF start
<1>3. ProgramOK' /\ ControlOK'
  BY DEF NewExecutor, TypeOK, ProgramOK, ControlOK
<1>4. DataOK' /\ ToolsOK'
  BY <1>1, <1>2 DEF NewExecutor, DataOK, ToolsOK, CarriedState
<1>5. EnvironmentOK'
  BY DEF TypeOK, EnvironmentOK, environment
<1>6. frames' \in Seq(Frame) /\ pendingEvents' \subseteq Nat \ {0} /\ status' = "Ready"
  BY DEF NewExecutor
<1> QED
  BY <1>3, <1>4, <1>5, <1>6 DEF TypeOK

LEMMA StartKeeps ==
  ASSUME EngineInv, StartExecutor, UNCHANGED client
  PROVE  EngineInv' /\ Grows
<1> DEFINE low == Lowered(pending)
<1>1. /\ low.rejected \in Nat \cup {NoLine} /\ low.notices \in Seq(ShownNotice)
      /\ low.code \in Seq(Instruction)
  BY LoweringOfLines, DiagnosticsShown DEF EngineInv, InputOK
<1>2. /\ deferred' = low.rejected /\ NewExecutor(low.code, Hands)
      /\ notices' = IF low.rejected = NoLine THEN notices \o low.notices ELSE notices
      /\ hasExecutor' = TRUE /\ told' = 0 /\ calling' = "advancing" /\ ~Stays
      /\ UNCHANGED <<result, environment, input, estate, waiting, rejected, current>>
  BY DEF StartExecutor, Idle
<1> HIDE DEF low
<1>3. TypeOK'
  BY <1>1, <1>2, NewExecutorTyped DEF EngineInv, VerdictOK
<1>4. InputOK'
  BY <1>2, SameInput DEF EngineInv, client
<1>5. VerdictOK'
  BY <1>1, <1>2 DEF EngineInv, VerdictOK, Stays
<1>6. CallOK'
  BY <1>2 DEF EngineInv, CallOK, Stays
<1>7. Grows
  BY <1>1, <1>2, SameNotices, MoreNotices DEF EngineInv, ClientOK
<1>8. ClientOK'
  BY <1>7 DEF EngineInv, ClientOK, client, Grows
<1> QED
  BY <1>3, <1>4, <1>5, <1>6, <1>7, <1>8 DEF EngineInv

LEMMA PumpKeeps == ASSUME EngineInv, Pump PROVE EngineInv' /\ Grows
BY ReportKeeps, ContinueKeeps, CancelOnRequestKeeps, NothingToRunKeeps, StartKeeps,
   NothingPendingKeeps DEF Pump

----------------------------------------------------------------------------
(* The steps of the executor.                                              *)

LEMMA StallsKeeps == ASSUME EngineInv, ExecutorStalls PROVE EngineInv' /\ Grows
<1>1. TypeOK' /\ UNCHANGED <<status, blocked>>
  BY SameExecutor DEF EngineInv, ExecutorStalls
<1>2. InputOK'
  BY SameInput DEF EngineInv, ExecutorStalls, client
<1>3. VerdictOK'
  BY <1>1 DEF EngineInv, VerdictOK, ExecutorStalls, verdict
<1>4. CallOK'
  BY DEF EngineInv, CallOK, ExecutorStalls, Return, Results
<1>5. ClientOK' /\ Grows
  BY SameNotices DEF EngineInv, ClientOK, ExecutorStalls, client
<1> QED
  BY <1>1, <1>2, <1>3, <1>4, <1>5 DEF EngineInv

(* What every step of the executor leaves typed, and what it starts from.  *)
StepsTyped ==
  /\ TypeOK' /\ Len(diagnostics') \in Nat /\ EngineInv /\ UNCHANGED client
  /\ hasExecutor /\ calling = "advancing" /\ estate # "Blocked" /\ waiting = NoWait

LEMMA AdvanceTyped == ASSUME EngineInv, AdvanceExecutor PROVE StepsTyped
<1>1. TypeOK'
  <2>1. 0 \in Time
    BY BoundsAssumption DEF Time
  <2> QED
    BY <2>1, StepTyped DEF EngineInv, AdvanceExecutor
<1>2. Len(diagnostics') \in Nat
  BY <1>1 DEF TypeOK, ControlOK
<1>3. hasExecutor /\ calling = "advancing" /\ estate # "Blocked"
  BY DEF EngineInv, CallOK, AdvanceExecutor, Stays
<1>4. waiting = NoWait
  BY <1>3 DEF EngineInv, VerdictOK
<1> QED
  BY <1>1, <1>2, <1>3, <1>4 DEF StepsTyped, AdvanceExecutor

LEMMA TellsNew ==
  ASSUME StepsTyped, TellNew
  PROVE  ClientOK' /\ Grows /\ told' \in Nat
<1>1. Len(diagnostics') - told \in Int
  BY DEF StepsTyped, EngineInv, VerdictOK
<1>2. Grows
  BY <1>1, NewOnesTyped, MoreNotices DEF TellNew, StepsTyped, EngineInv, ClientOK
<1> QED
  BY <1>2 DEF TellNew, StepsTyped, EngineInv, ClientOK, client, Grows

LEMMA GoesOnKeeps == ASSUME StepsTyped, GoesOn \/ Polls PROVE EngineInv' /\ Grows
<1>1. /\ TellNew
      /\ UNCHANGED <<call, input, estate, waiting, rejected, deferred, hasExecutor, current>>
  BY DEF GoesOn, Polls
<1>2. ClientOK' /\ Grows /\ told' \in Nat
  BY <1>1, TellsNew
<1>3. InputOK'
  BY <1>1, SameInput DEF StepsTyped, EngineInv, client
<1>4. VerdictOK'
  BY <1>1, <1>2 DEF StepsTyped, EngineInv, VerdictOK
<1>5. CallOK'
  BY <1>1 DEF StepsTyped, EngineInv, CallOK, call, Stays
<1> QED
  BY <1>2, <1>3, <1>4, <1>5 DEF StepsTyped, EngineInv

LEMMA BecomesBlockedKeeps == ASSUME StepsTyped, BecomesBlocked PROVE EngineInv' /\ Grows
<1>1. ClientOK' /\ Grows /\ told' \in Nat
  BY TellsNew DEF BecomesBlocked
<1>2. InputOK'
  BY SameInput DEF StepsTyped, EngineInv, client, BecomesBlocked
<1>3. waiting' \in Nat \ {0} /\ waiting' # NoWait
  <2>1. blocked' \in BlockedState
    BY DEF StepsTyped, TypeOK, ControlOK, BecomesBlocked
  <2>2. blocked'.token \in Nat
    BY <2>1 DEF BlockedState
  <2> QED
    BY <2>2, NoWaitAssumption DEF BecomesBlocked, NoToken
<1>4. VerdictOK'
  BY <1>1, <1>3 DEF StepsTyped, EngineInv, VerdictOK, BecomesBlocked, EngineStates
<1>5. CallOK'
  BY DEF StepsTyped, EngineInv, CallOK, BecomesBlocked, Return, Results
<1> QED
  BY <1>1, <1>2, <1>4, <1>5 DEF StepsTyped, EngineInv

LEMMA DropsKeeps == ASSUME StepsTyped, DropsExecutor PROVE EngineInv' /\ Grows
<1>1. InputOK'
  BY SameInput DEF StepsTyped, EngineInv, client, DropsExecutor
<1>2. VerdictOK'
  BY DEF StepsTyped, EngineInv, VerdictOK, DropsExecutor, EngineStates
<1>3. CallOK'
  BY DEF StepsTyped, EngineInv, CallOK, DropsExecutor, Return, Results
<1>4. ClientOK' /\ Grows
  BY SameNotices DEF StepsTyped, EngineInv, ClientOK, client, DropsExecutor
<1> QED
  BY <1>1, <1>2, <1>3, <1>4 DEF StepsTyped, EngineInv

LEMMA FaultsKeeps == ASSUME StepsTyped, ExecutorFaults PROVE EngineInv' /\ Grows
<1>1. ClientOK' /\ Grows /\ told' \in Nat
  BY TellsNew DEF ExecutorFaults
<1>2. InputOK'
  BY SameInput DEF StepsTyped, EngineInv, client, ExecutorFaults
<1>3. VerdictOK'
  BY <1>1 DEF StepsTyped, EngineInv, VerdictOK, ExecutorFaults, EngineStates
<1>4. CallOK'
  BY DEF StepsTyped, EngineInv, CallOK, ExecutorFaults, Return, Results
<1> QED
  BY <1>1, <1>2, <1>3, <1>4 DEF StepsTyped, EngineInv

LEMMA CompletesKeeps == ASSUME StepsTyped, ExecutorCompletes PROVE EngineInv' /\ Grows
<1> DEFINE last == [k \in 1 .. Len(diagnostics') - told |-> Notice("diagnostic", 0)]
<1>1. last \in Seq(ShownNotice) /\ notices \in Seq(ShownNotice)
  <2>1. Len(diagnostics') - told \in Int
    BY DEF StepsTyped, EngineInv, VerdictOK
  <2> QED
    BY <2>1, NewOnesTyped DEF StepsTyped, EngineInv, ClientOK
<1>2. current' \in CarriedState
  BY DEF StepsTyped, TypeOK, DataOK, ToolsOK, ExecutorCompletes, TakesOver, CarriedState
<1>3. /\ hasExecutor' = FALSE /\ told' = 0 /\ UNCHANGED <<nextLine, buffered, finished>>
      /\ \/ /\ deferred # NoLine /\ notices' = (notices \o last) \o Rejection(deferred)
            /\ deferred' = NoLine /\ Reject(deferred) /\ UNCHANGED pending
         \/ /\ deferred = NoLine /\ notices' = notices \o last
            /\ ClearPending /\ ReturnAtRest /\ UNCHANGED <<waiting, rejected, deferred>>
  BY DEF ExecutorCompletes
<1> HIDE DEF last
<1>4. CASE /\ deferred # NoLine /\ notices' = (notices \o last) \o Rejection(deferred)
           /\ deferred' = NoLine /\ Reject(deferred) /\ UNCHANGED pending
  <2>1. deferred \in Nat
    BY <1>4 DEF StepsTyped, EngineInv, VerdictOK
  <2>2. Rejection(deferred) \in Seq(ShownNotice)
    <3>1. /\ Notice("diagnostic", deferred) \in ShownNotice
          /\ Notice("rejected", deferred) \in ShownNotice
      BY <2>1, NoticeTyped
    <3> QED
      BY <3>1 DEF Rejection
  <2>3. Grows
    BY <1>1, <1>4, <2>2, MoreAndMoreNotices
  <2>4. ClientOK'
    BY <2>3 DEF StepsTyped, EngineInv, ClientOK, client, Grows
  <2>5. InputOK'
    BY <1>3, <1>4, SameInput DEF StepsTyped, EngineInv, client, input
  <2>6. VerdictOK'
    BY <1>2, <1>3, <1>4, <2>1 DEF StepsTyped, EngineInv, VerdictOK, Reject, EngineStates
  <2>7. CallOK'
    BY <1>4 DEF StepsTyped, EngineInv, CallOK, Reject, Return, Results
  <2> QED
    BY <2>3, <2>4, <2>5, <2>6, <2>7 DEF StepsTyped, EngineInv
<1>5. CASE /\ deferred = NoLine /\ notices' = notices \o last
           /\ ClearPending /\ ReturnAtRest /\ UNCHANGED <<waiting, rejected, deferred>>
  <2>1. Grows
    BY <1>1, <1>5, MoreNotices
  <2>2. ClientOK'
    BY <2>1 DEF StepsTyped, EngineInv, ClientOK, client, Grows
  <2>3. InputOK'
    BY <1>3, <1>5, NothingBuffered DEF StepsTyped, EngineInv, InputOK, ClearPending, client
  <2>4. VerdictOK'
    BY <1>2, <1>3, <1>5, AtRestTyped DEF StepsTyped, EngineInv, VerdictOK, EngineStates
  <2>5. CallOK'
    BY <1>5 DEF StepsTyped, EngineInv, CallOK, ReturnAtRest, Return, Results
  <2> QED
    BY <2>1, <2>2, <2>3, <2>4, <2>5 DEF StepsTyped, EngineInv
<1> QED
  BY <1>3, <1>4, <1>5

LEMMA AdvanceKeeps == ASSUME EngineInv, AdvanceExecutor PROVE EngineInv' /\ Grows
BY AdvanceTyped, GoesOnKeeps, BecomesBlockedKeeps, DropsKeeps, FaultsKeeps, CompletesKeeps
   DEF AdvanceExecutor

----------------------------------------------------------------------------
(* The client and the runtime.                                             *)

(* Lines are pushed, and perhaps the input is finished.                    *)
LEMMA EnqueueTyped ==
  ASSUME pending \in Seq(PendingLine), nextLine \in Nat \ {0}, NEW chunk \in Seq(SourceLines),
         Enqueue(chunk)
  PROVE  pending' \in Seq(PendingLine) /\ nextLine' \in Nat \ {0}
<1> DEFINE added(k) == [line |-> nextLine + k - 1, src |-> chunk[k]]
           more == [k \in DOMAIN chunk |-> added(k)]
<1>1. DOMAIN chunk = 1 .. Len(chunk) /\ Len(chunk) \in Nat
  OBVIOUS
<1>2. \A k \in DOMAIN chunk : added(k) \in PendingLine
  BY <1>1 DEF PendingLine
<1>3. pending' = pending \o more /\ nextLine' = nextLine + Len(chunk)
  BY DEF Enqueue
<1>4. more \in Seq(PendingLine)
  <2> HIDE DEF added
  <2> QED
    BY <1>1, <1>2
<1> HIDE DEF more
<1> QED
  BY <1>1, <1>3, <1>4, ConcatProperties

(* The next lines of the text.                                             *)
LEMMA NextLines ==
  ASSUME text \in Texts, fed \in 0 .. Len(text), NEW to \in fed .. Len(text)
  PROVE  SubSeq(text, fed + 1, to) \in Seq(SourceLines) /\ Len(text) \in Nat
<1>1. text \in Seq(SourceLines) /\ fed \in 0 .. Len(text)
  BY TextsAssumption
<1>2. \A i \in fed + 1 .. to : text[i] \in SourceLines
  BY <1>1
<1> QED
  BY <1>1, <1>2, SubSeqProperties

LEMMA EnqueueKeeps ==
  ASSUME InputOK, NEW to \in fed .. Len(text), Enqueue(SubSeq(text, fed + 1, to)), fed' = to,
         text' = text, buffered' \in BOOLEAN, finished' \in BOOLEAN
  PROVE  InputOK'
<1>1. SubSeq(text, fed + 1, to) \in Seq(SourceLines) /\ Len(text) \in Nat
  BY NextLines DEF InputOK
<1>2. pending' \in Seq(PendingLine) /\ nextLine' \in Nat \ {0}
  <2> DEFINE chunk == SubSeq(text, fed + 1, to)
  <2>1. chunk \in Seq(SourceLines) /\ Enqueue(chunk)
    BY <1>1
  <2> HIDE DEF chunk
  <2> QED
    BY <2>1, EnqueueTyped DEF InputOK
<1>3. fed' \in 0 .. Len(text)
  BY <1>1 DEF InputOK
<1> QED
  BY <1>2, <1>3 DEF InputOK

LEMMA SameVerdict ==
  ASSUME VerdictOK, UNCHANGED verdict, UNCHANGED <<status, blocked>>
  PROVE  VerdictOK'
BY DEF VerdictOK, verdict

LEMMA PushesKeeps == ASSUME EngineInv, ClientPushes PROVE EngineInv' /\ Grows
<1>1. PICK m \in 0 .. Len(text) - fed, rest \in BOOLEAN :
        PushChunk(SubSeq(text, fed + 1, fed + m), rest) /\ fed' = fed + m
  BY DEF ClientPushes
<1>2. UNCHANGED <<cancelRequested, completed, text>>
  BY DEF ClientPushes
<1>3. TypeOK' /\ UNCHANGED <<status, blocked>>
  BY <1>1, SameExecutor DEF EngineInv, PushChunk
<1>4. fed + m \in fed .. Len(text)
  BY TextsAssumption DEF EngineInv, InputOK
<1>5. InputOK'
  <2>1. /\ Enqueue(SubSeq(text, fed + 1, fed + m)) /\ fed' = fed + m /\ text' = text
        /\ buffered' = rest /\ finished' = finished /\ InputOK
    BY <1>1, <1>2 DEF EngineInv, PushChunk
  <2>2. buffered' \in BOOLEAN /\ finished' \in BOOLEAN
    BY <2>1 DEF InputOK
  <2> QED
    BY <1>4, <2>1, <2>2, EnqueueKeeps
<1>6. VerdictOK'
  BY <1>1, <1>3, SameVerdict DEF EngineInv, PushChunk
<1>7. CallOK'
  BY <1>1 DEF EngineInv, CallOK, PushChunk, call, verdict, Stays
<1>8. ClientOK' /\ Grows
  BY <1>1, <1>2, SameNotices DEF EngineInv, ClientOK, PushChunk
<1> QED
  BY <1>3, <1>5, <1>6, <1>7, <1>8 DEF EngineInv

LEMMA PumpsKeeps == ASSUME EngineInv, ClientPumps PROVE EngineInv' /\ Grows
<1>1. CallPump /\ UNCHANGED client
  BY DEF ClientPumps
<1>2. TypeOK' /\ UNCHANGED <<status, blocked>>
  BY <1>1, SameExecutor DEF EngineInv, CallPump
<1>3. InputOK'
  BY <1>1, SameInput DEF EngineInv, CallPump, client
<1>4. VerdictOK'
  BY <1>1, <1>2, SameVerdict DEF EngineInv, CallPump
<1>5. CallOK'
  BY <1>1 DEF EngineInv, CallOK, CallPump
<1>6. ClientOK' /\ Grows
  BY <1>1, SameNotices DEF EngineInv, ClientOK, CallPump, client
<1> QED
  BY <1>2, <1>3, <1>4, <1>5, <1>6 DEF EngineInv

LEMMA FinishesKeeps == ASSUME EngineInv, ClientFinishes PROVE EngineInv' /\ Grows
<1>1. /\ CallFinish(SubSeq(text, fed + 1, Len(text))) /\ fed' = Len(text)
      /\ UNCHANGED <<cancelRequested, completed, text>>
  BY DEF ClientFinishes
<1>2. TypeOK' /\ UNCHANGED <<status, blocked>>
  BY <1>1, SameExecutor DEF EngineInv, CallFinish
<1>3. Len(text) \in fed .. Len(text)
  BY TextsAssumption DEF EngineInv, InputOK
<1>4. InputOK'
  <2>1. /\ Enqueue(SubSeq(text, fed + 1, Len(text))) /\ fed' = Len(text) /\ text' = text
        /\ buffered' \in BOOLEAN /\ finished' \in BOOLEAN /\ InputOK
    BY <1>1 DEF EngineInv, CallFinish
  <2> QED
    BY <1>3, <2>1, EnqueueKeeps
<1>5. VerdictOK'
  BY <1>1, <1>2, SameVerdict DEF EngineInv, CallFinish
<1>6. CallOK'
  BY <1>1 DEF EngineInv, CallOK, CallFinish
<1>7. ClientOK' /\ Grows
  BY <1>1, SameNotices DEF EngineInv, ClientOK, CallFinish
<1> QED
  BY <1>2, <1>4, <1>5, <1>6, <1>7 DEF EngineInv

(* resume(), in turn or out of it.                                         *)
LEMMA ResumeKeeps ==
  ASSUME EngineInv, NEW token \in Nat \ {0}, Resume(token),
         UNCHANGED <<cancelRequested, text, fed>>, completed' \subseteq completed
  PROVE  EngineInv' /\ Grows
<1>1. /\ waiting' = NoWait /\ rejected' = NoLine /\ calling' = "idle" /\ result' \in Results
      /\ estate' \in {"Completed", "ReadyToExecute", "Faulted"}
      /\ UNCHANGED <<input, deferred, hasExecutor, told, current>>
      /\ UNCHANGED <<program, control, frames, data, tools, environment>>
  BY AtRestTyped DEF Resume, ClearsBlocked, ReturnAtRest, Return, Results
<1>2. pendingEvents' \subseteq pendingEvents \cup {token}
  BY DEF Resume
<1>3. notices' = notices \/ notices' = Append(notices, Notice("resume out of turn", 0))
  BY DEF Resume
<1>4. TypeOK'
  <2>1. pendingEvents' \subseteq Nat \ {0}
    BY <1>2 DEF EngineInv, TypeOK
  <2>2. TypeOK
    BY DEF EngineInv
  <2> QED
    BY <1>1, <2>1, <2>2
       DEF TypeOK, ProgramOK, ControlOK, DataOK, ToolsOK, EnvironmentOK, program, control, data,
           tools, environment
<1>5. InputOK'
  BY <1>1, SameInput DEF EngineInv
<1>6. VerdictOK'
  BY <1>1 DEF EngineInv, VerdictOK, EngineStates
<1>7. CallOK'
  BY <1>1 DEF CallOK
<1>8. Grows
  <2>1. notices \in Seq(ShownNotice)
    BY DEF EngineInv, ClientOK
  <2>2. Notice("resume out of turn", 0) \in ShownNotice
    BY NoticeTyped
  <2>3. CASE notices' = notices
    BY <2>1, <2>3, SameNotices
  <2>4. CASE notices' = Append(notices, Notice("resume out of turn", 0))
    <3> DEFINE last == Notice("resume out of turn", 0)
    <3> HIDE DEF last
    <3>1. last \in ShownNotice /\ notices' = Append(notices, last)
      BY <2>2, <2>4 DEF last
    <3> QED
      BY <2>1, <3>1, AppendProperties DEF Grows
  <2> QED
    BY <1>3, <2>3, <2>4
<1>9. ClientOK'
  BY <1>8 DEF EngineInv, ClientOK, Grows
<1> QED
  BY <1>4, <1>5, <1>6, <1>7, <1>8, <1>9 DEF EngineInv

LEMMA ResumesKeeps == ASSUME EngineInv, ClientResumes PROVE EngineInv' /\ Grows
<1>1. PICK t \in completed : Resume(t) /\ completed' = completed \ {t}
  BY DEF ClientResumes
<1>2. UNCHANGED <<cancelRequested, text, fed>>
  BY DEF ClientResumes
<1>3. t \in Nat \ {0}
  BY DEF EngineInv, ClientOK
<1> QED
  BY <1>1, <1>2, <1>3, ResumeKeeps

LEMMA MisusesKeeps == ASSUME EngineInv, ClientMisuses PROVE EngineInv' /\ Grows
<1>1. PICK t \in 1 .. MaxWaits : Resume(t)
  BY DEF ClientMisuses
<1>2. UNCHANGED client
  BY DEF ClientMisuses
<1>3. t \in Nat \ {0}
  BY BoundsAssumption
<1> QED
  BY <1>1, <1>2, <1>3, ResumeKeeps DEF client

LEMMA CancelsKeeps == ASSUME EngineInv, ClientCancels PROVE EngineInv' /\ Grows
<1>1. TypeOK' /\ InputOK' /\ VerdictOK' /\ ClientOK' /\ Grows
  BY CancelKeeps DEF ClientCancels, CallCancel
<1>2. CallOK'
  BY DEF EngineInv, CallOK, ClientCancels, CallCancel, call
<1> QED
  BY <1>1, <1>2 DEF EngineInv

LEMMA SameEngine ==
  ASSUME EngineInv, TypeOK', UNCHANGED <<engineVars, text, fed, status, blocked>>,
         cancelRequested' \in BOOLEAN, completed' \subseteq Nat \ {0}
  PROVE  EngineInv' /\ Grows
<1>1. UNCHANGED <<input, verdict, call, notices>>
  BY DEF engineVars
<1>2. InputOK'
  BY <1>1, SameInput DEF EngineInv
<1>3. VerdictOK'
  BY <1>1, SameVerdict DEF EngineInv
<1>4. CallOK'
  BY <1>1 DEF EngineInv, CallOK, call, verdict, Stays
<1>5. ClientOK' /\ Grows
  BY <1>1, SameNotices DEF EngineInv, ClientOK
<1> QED
  BY <1>2, <1>3, <1>4, <1>5 DEF EngineInv

LEMMA RequestKeeps == ASSUME EngineInv, RequestCancel PROVE EngineInv' /\ Grows
<1>1. TypeOK' /\ UNCHANGED <<status, blocked>>
  BY StutterTyped DEF EngineInv, RequestCancel, vars, control
<1> QED
  BY <1>1, SameEngine DEF EngineInv, ClientOK, RequestCancel

LEMMA RuntimeKeeps == ASSUME EngineInv, RuntimeCompletes PROVE EngineInv' /\ Grows
<1>1. PICK w \in outstanding :
        /\ outstanding' = outstanding \ {w} /\ completed' = completed \cup {w.token}
        /\ spindle' = IF w.tool = NoTool THEN spindle ELSE Mount(w.tool)
        /\ UNCHANGED <<executor, log, issued, engineVars, cancelRequested, text, fed>>
  BY DEF RuntimeCompletes
<1>2. w.token \in Nat \ {0} /\ w.tool \in Tool \cup {NoTool}
  BY DEF EngineInv, TypeOK, EnvironmentOK
<1>3. UNCHANGED <<program, control, frames, data, tools, pendingEvents>>
  BY <1>1 DEF executor
<1>4. TypeOK'
  <2>1. EnvironmentOK'
    BY <1>1, <1>2, MountType DEF EngineInv, TypeOK, EnvironmentOK
  <2>2. TypeOK
    BY DEF EngineInv
  <2> QED
    BY <1>3, <2>1, <2>2
       DEF TypeOK, ProgramOK, ControlOK, DataOK, ToolsOK, program, control, data, tools
<1> QED
  BY <1>1, <1>2, <1>3, <1>4, SameEngine DEF EngineInv, ClientOK, control

LEMMA EngineStutters == ASSUME EngineInv, UNCHANGED allVars PROVE EngineInv' /\ Grows
<1>1. TypeOK' /\ UNCHANGED <<status, blocked>>
  BY StutterTyped DEF EngineInv, allVars, vars, control
<1> QED
  BY <1>1, SameEngine DEF EngineInv, ClientOK, allVars, client

LEMMA EngineStep ==
  ASSUME EngineInv, [EngineNext]_allVars
  PROVE  EngineInv' /\ Grows
BY PumpKeeps, AdvanceKeeps, StallsKeeps, PushesKeeps, PumpsKeeps, FinishesKeeps, ResumesKeeps,
   MisusesKeeps, CancelsKeeps, RequestKeeps, RuntimeKeeps, EngineStutters DEF EngineNext, EngineEnded

LEMMA EngineStarts == EngineInit => EngineInv
<1> SUFFICES ASSUME EngineInit PROVE EngineInv
  OBVIOUS
<1>1. userVars \in [Var -> Value]
  BY ValueAssumption DEF EngineInit
<1>2. TypeOK
  BY <1>1, ModalAssumption, OptionsAssumption
     DEF EngineInit, TypeOK, ProgramOK, ControlOK, DataOK, ToolsOK, EnvironmentOK
<1>3. /\ text \in Texts /\ fed = 0 /\ nextLine = 1 /\ pending = <<>>
      /\ buffered = FALSE /\ finished = FALSE
  BY DEF EngineInit
<1>4. InputOK
  <2>1. fed \in 0 .. Len(text)
    BY <1>3, TextsAssumption
  <2>2. pending \in Seq(PendingLine) /\ nextLine \in Nat \ {0}
    BY <1>3
  <2>3. buffered \in BOOLEAN /\ finished \in BOOLEAN
    BY <1>3, Zenon
  <2> QED
    BY <1>3, <2>1, <2>2, <2>3, Zenon DEF InputOK
<1>5. current \in CarriedState
  BY <1>1, ModalAssumption DEF EngineInit, CarriedState
<1>6. VerdictOK
  BY <1>5 DEF EngineInit, VerdictOK, EngineStates
<1>7. CallOK
  BY DEF EngineInit, CallOK, Results
<1>8. ClientOK
  <2>1. notices \in Seq(ShownNotice)
    BY DEF EngineInit
  <2>2. cancelRequested \in BOOLEAN
    BY Zenon DEF EngineInit
  <2>3. completed \subseteq Nat \ {0}
    BY DEF EngineInit
  <2> QED
    BY <2>1, <2>2, <2>3, Zenon DEF ClientOK
<1> QED
  BY <1>2, <1>4, <1>6, <1>7, <1>8 DEF EngineInv

LEMMA EngineAlways == EngineSpec => []EngineInv
BY EngineStarts, EngineStep, PTL DEF EngineSpec

(* The variables of the engine keep their types, Blocked always has the    *)
(* executor and the wait behind it, and Rejected its line, whatever texts, *)
(* chunks, calls and answers there are.                                    *)
THEOREM EngineTypesKept == EngineSpec => []EngineTypeOK
BY EngineAlways, InvGivesTypes, PTL

----------------------------------------------------------------------------
(* No wait is lost: at most one is known to the runtime, as outstanding or *)
(* as completed, and while the engine works there is none.                 *)

OneAtMost == outstanding = {} \/ (completed = {} /\ \E w : outstanding \subseteq {w})

WaitsKnown ==
  /\ \A w \in outstanding : estate = "Blocked" /\ waiting = w.token
  /\ \A t \in completed : (estate = "Blocked" /\ waiting = t) \/ estate = "Cancelled"
  /\ OneAtMost

WaitsInv == ~Misused => WaitsKnown

LEMMA MisuseStays == ASSUME Grows, Misused PROVE Misused'
BY DEF Grows, Misused

(* A state in which the engine works.                                      *)
LEMMA NothingWaits ==
  ASSUME WaitsKnown, estate \notin {"Blocked", "Cancelled"}
  PROVE  outstanding = {} /\ completed = {}
BY DEF WaitsKnown

LEMMA NoWaits == ASSUME outstanding' = {}, completed' = {} PROVE WaitsKnown'
BY DEF WaitsKnown, OneAtMost

LEMMA SameWaits ==
  ASSUME WaitsKnown, UNCHANGED <<outstanding, completed, estate, waiting>>
  PROVE  WaitsKnown'
BY DEF WaitsKnown, OneAtMost

LEMMA CancelLosesNone ==
  ASSUME WaitsKnown, Cancel, UNCHANGED client
  PROVE  WaitsKnown'
<1>1. outstanding' = {} /\ estate' = "Cancelled" /\ completed' = completed
  BY DEF WaitsKnown, Cancel, CancelsWait, client
<1> QED
  BY <1>1 DEF WaitsKnown, OneAtMost

LEMMA PumpLosesNone == ASSUME WaitsKnown, Pump PROVE WaitsKnown'
<1>1. UNCHANGED client /\ completed' = completed
  BY DEF Pump, client
<1>2. CASE Report \/ ContinueExecutor
  BY <1>1, <1>2, SameWaits DEF Report, ContinueExecutor, environment, verdict
<1>3. CASE CancelOnRequest
  BY <1>1, <1>3, CancelLosesNone DEF CancelOnRequest
<1>4. CASE NothingToRun \/ StartExecutor \/ NothingPending
  <2>1. estate \notin {"Blocked", "Cancelled"} /\ outstanding' = outstanding
    BY <1>4 DEF NothingToRun, StartExecutor, NothingPending, Idle, Stays, environment
  <2> QED
    BY <1>1, <2>1, NothingWaits, NoWaits
<1> QED
  BY <1>2, <1>3, <1>4 DEF Pump

(* A wait comes into being with the state Blocked.                         *)
LEMMA AdvanceLosesNone == ASSUME EngineInv, WaitsKnown, AdvanceExecutor PROVE WaitsKnown'
<1>1. outstanding = {} /\ completed = {} /\ completed' = {}
  BY NothingWaits DEF EngineInv, CallOK, AdvanceExecutor, Stays, client
<1>2. CASE NoIssue
  BY <1>1, <1>2, NoWaits DEF NoIssue
<1>3. ASSUME NEW tool, NEW timed,
             outstanding' = {[token |-> issued + 1, tool |-> tool, timed |-> timed]},
             status' = "Blocked", blocked'.token = issued + 1
      PROVE  WaitsKnown'
  <2>1. blocked'.token # NoToken
    BY <1>3 DEF EngineInv, TypeOK, EnvironmentOK, NoToken
  <2>2. estate' = "Blocked" /\ waiting' = issued + 1
    BY <1>3, <2>1 DEF AdvanceExecutor, GoesOn, BecomesBlocked, Polls, DropsExecutor, ExecutorFaults,
       ExecutorCompletes
  <2> QED
    BY <1>1, <1>3, <2>2 DEF WaitsKnown, OneAtMost
<1> QED
  BY <1>1, <1>2, <1>3, FirstWait DEF AdvanceExecutor, Step

LEMMA AppendShowsLast ==
  ASSUME NEW S, NEW s \in Seq(S), NEW last \in S
  PROVE  \E k \in DOMAIN Append(s, last) : Append(s, last)[k] = last
<1>1. /\ Append(s, last) \in Seq(S) /\ Len(Append(s, last)) = Len(s) + 1
      /\ Append(s, last)[Len(s) + 1] = last
  BY AppendProperties
<1> DEFINE n == Len(s) + 1
           t == Append(s, last)
<1>2. t \in Seq(S) /\ Len(t) = n /\ t[n] = last /\ n \in Nat \ {0}
  BY <1>1
<1> HIDE DEF n, t
<1>3. n \in DOMAIN t
  BY <1>2
<1>4. \E k \in DOMAIN t : t[k] = last
  BY <1>2, <1>3
<1> QED
  BY <1>4 DEF t

(* A resume in turn ends the wait, one out of turn is shown.               *)
LEMMA OutOfTurnShown ==
  ASSUME EngineInv, NEW token, Resume(token), ~(estate = "Blocked" /\ waiting = token)
  PROVE  Misused'
<1>1. notices' = Append(notices, Notice("resume out of turn", 0)) /\ notices \in Seq(ShownNotice)
  BY DEF Resume, EngineInv, ClientOK
<1>2. Notice("resume out of turn", 0).kind = "resume out of turn"
  BY DEF Notice
<1>3. Notice("resume out of turn", 0) \in ShownNotice
  BY NoticeTyped
<1> DEFINE last == Notice("resume out of turn", 0)
<1> HIDE DEF last
<1>4. last \in ShownNotice /\ last.kind = "resume out of turn" /\ notices' = Append(notices, last)
  BY <1>1, <1>2, <1>3 DEF last
<1>5. \E k \in DOMAIN notices' : notices'[k] = last
  <2>1. \E k \in DOMAIN Append(notices, last) : Append(notices, last)[k] = last
    BY <1>1, <1>4, AppendShowsLast
  <2> QED
    BY <1>4, <2>1, Zenon
<1>6. PICK k \in DOMAIN notices' : notices'[k].kind = "resume out of turn"
  BY <1>4, <1>5
<1> QED
  BY <1>6, Zenon DEF Misused

LEMMA ResumesLosesNone == ASSUME WaitsKnown, ClientResumes PROVE WaitsKnown'
<1>1. PICK t \in completed : estate = "Blocked" /\ Resume(t) /\ completed' = completed \ {t}
  BY DEF ClientResumes
<1>2. completed' = {} /\ outstanding = {}
  BY <1>1 DEF WaitsKnown, OneAtMost
<1>3. outstanding' = outstanding
  BY <1>1 DEF Resume, environment
<1> QED
  BY <1>2, <1>3, NoWaits

LEMMA RuntimeLosesNone == ASSUME WaitsKnown, RuntimeCompletes PROVE WaitsKnown'
<1>1. PICK w \in outstanding :
        outstanding' = outstanding \ {w} /\ completed' = completed \cup {w.token}
  BY DEF RuntimeCompletes
<1>2. UNCHANGED <<estate, waiting>>
  BY DEF RuntimeCompletes, engineVars, verdict
<1>3. outstanding' = {} /\ completed' = {w.token} /\ estate = "Blocked" /\ waiting = w.token
  BY <1>1 DEF WaitsKnown, OneAtMost
<1> QED
  BY <1>2, <1>3 DEF WaitsKnown, OneAtMost

LEMMA WaitsStayKnown ==
  ASSUME EngineInv, WaitsInv, [EngineNext]_allVars
  PROVE  WaitsInv'
<1> SUFFICES ASSUME ~Misused' PROVE WaitsKnown'
  BY DEF WaitsInv
<1>1. WaitsKnown
  BY EngineStep, MisuseStays DEF WaitsInv
<1>2. CASE Pump \/ AdvanceExecutor
  BY <1>1, <1>2, PumpLosesNone, AdvanceLosesNone
<1>3. CASE ExecutorStalls
  BY <1>1, <1>3, SameWaits DEF ExecutorStalls, environment, verdict, client
<1>4. CASE ClientPushes
  BY <1>1, <1>4, SameWaits DEF ClientPushes, PushChunk, environment, verdict
<1>5. CASE ClientPumps
  BY <1>1, <1>5, SameWaits DEF ClientPumps, CallPump, environment, verdict, client
<1>6. CASE ClientFinishes
  BY <1>1, <1>6, SameWaits DEF ClientFinishes, CallFinish, environment, verdict
<1>7. CASE ClientResumes
  BY <1>1, <1>7, ResumesLosesNone
<1>8. CASE ClientMisuses
  BY <1>8, OutOfTurnShown DEF ClientMisuses
<1>9. CASE ClientCancels
  BY <1>1, <1>9, CancelLosesNone DEF ClientCancels, CallCancel
<1>10. CASE RequestCancel
  BY <1>1, <1>10, SameWaits DEF RequestCancel, vars, environment, engineVars, verdict
<1>11. CASE RuntimeCompletes
  BY <1>1, <1>11, RuntimeLosesNone
<1>12. CASE UNCHANGED allVars
  BY <1>1, <1>12, SameWaits DEF allVars, vars, environment, engineVars, verdict, client
<1> QED
  BY <1>2, <1>3, <1>4, <1>5, <1>6, <1>7, <1>8, <1>9, <1>10, <1>11, <1>12
     DEF EngineNext, EngineEnded

LEMMA WaitsStartKnown == EngineInit => WaitsInv
BY DEF EngineInit, WaitsInv, WaitsKnown, OneAtMost

(* Whatever is cancelled, answered late or pumped again: a wait the runtime*)
(* works on is the one the engine is blocked on, and the runtime has       *)
(* completed none that the engine has forgotten, but for a resume with a   *)
(* wrong token.                                                            *)
THEOREM EngineLosesNoWait == EngineSpec => []NoWaitLost
<1>1. EngineSpec => []WaitsInv
  BY EngineAlways, WaitsStartKnown, WaitsStayKnown, PTL DEF EngineSpec
<1>2. WaitsInv => NoWaitLost
  BY DEF WaitsInv, WaitsKnown, NoWaitLost
<1> QED
  BY <1>1, <1>2, PTL

----------------------------------------------------------------------------
(* A line is rejected in its place.  Until then the buffer is the piece of *)
(* the text behind a line up to which nothing is bad.                      *)

GoodUpTo(t, n) == n \in 0 .. Len(t) /\ \A j \in 1 .. n : ~Msg!BadInItself(t[j])
FirstBad(t, n) == n \in 1 .. Len(t) /\ Msg!BadInItself(t[n]) /\ GoodUpTo(t, n - 1)

(* What is buffered behind a good line; an executor runs what was made of  *)
(* it, none of it from a bad line or behind one, and so is the log.        *)
BufferSound ==
  /\ fed \in 0 .. Len(text) /\ nextLine = fed + 1
  /\ \E from \in 0 .. fed : pending = Piece(text, from, fed) /\ GoodUpTo(text, from)

RunSound ==
  hasExecutor =>
    /\ deferred = Lowered(pending).rejected
    /\ \A i \in DOMAIN instructions : GoodUpTo(text, instructions[i].source.line)

LogSound == \A k \in DOMAIN log : GoodUpTo(text, log[k].line)
VerdictSound == estate = "Rejected" => FirstBad(text, rejected)
OnlyGood == BufferSound /\ RunSound /\ LogSound /\ VerdictSound

PlaceInv == EngineInv /\ (~HasArc(text) => OnlyGood)

LEMMA PieceTyped ==
  ASSUME NEW t \in Seq(SourceLines), NEW from \in Nat, NEW to \in 0 .. Len(t), from <= to
  PROVE  Piece(t, from, to) \in Seq(PendingLine) /\ Len(Piece(t, from, to)) = to - from
<1>1. to - from \in Nat /\ Len(t) \in Nat
  OBVIOUS
<1>2. \A k \in 1 .. to - from : from + k \in 1 .. Len(t)
  BY <1>1
<1>3. ASSUME NEW k \in 1 .. to - from
      PROVE  [line |-> from + k, src |-> t[from + k]] \in PendingLine
  <2>1. from + k \in Nat \ {0} /\ t[from + k] \in SourceLines
    BY <1>2
  <2> QED
    BY <2>1 DEF PendingLine
<1> DEFINE n == to - from
<1>4. Piece(t, from, to) = [k \in 1 .. n |-> [line |-> from + k, src |-> t[from + k]]]
  BY DEF Piece
<1>5. n \in Nat /\ \A k \in 1 .. n : [line |-> from + k, src |-> t[from + k]] \in PendingLine
  BY <1>1, <1>3
<1> HIDE DEF n
<1>6. Piece(t, from, to) \in [1 .. n -> PendingLine]
  BY <1>4, <1>5
<1>7. Piece(t, from, to) \in Seq(PendingLine) /\ Len(Piece(t, from, to)) = n
  BY <1>5, <1>6
<1> QED
  BY <1>7 DEF n

(* Nothing is buffered behind the last line pushed.                        *)
LEMMA EmptyPiece == ASSUME NEW t, NEW n \in Nat PROVE Piece(t, n, n) = <<>>
<1>1. 1 .. n - n = {}
  OBVIOUS
<1> QED
  BY <1>1 DEF Piece

(* Lines that are pushed go on where the buffered ones end.                *)
LEMMA PiecesJoin ==
  ASSUME NEW t \in Seq(SourceLines), NEW to \in Nat, NEW from \in 0 .. to, NEW end \in to .. Len(t)
  PROVE  Piece(t, from, to) \o Piece(t, to, end) = Piece(t, from, end)
<1> DEFINE p == Piece(t, from, to)
           q == Piece(t, to, end)
           r == Piece(t, from, end)
           m == to - from
           n == end - to
<1>1. Len(t) \in Nat /\ end \in Nat /\ from \in Nat /\ to <= Len(t) /\ m \in Nat /\ n \in Nat
  OBVIOUS
<1>2. /\ p \in Seq(PendingLine) /\ Len(p) = m
      /\ q \in Seq(PendingLine) /\ Len(q) = n
      /\ r \in Seq(PendingLine) /\ Len(r) = end - from
  <2>1. to \in 0 .. Len(t) /\ end \in 0 .. Len(t) /\ from <= to /\ to <= end /\ from <= end
    BY <1>1
  <2>2. p \in Seq(PendingLine) /\ Len(p) = m
    BY <1>1, <2>1, PieceTyped
  <2>3. q \in Seq(PendingLine) /\ Len(q) = n
    BY <2>1, PieceTyped
  <2>4. r \in Seq(PendingLine) /\ Len(r) = end - from
    BY <1>1, <2>1, PieceTyped
  <2> QED
    BY <2>2, <2>3, <2>4
<1>3. end - from = m + n
  BY <1>1
<1>4. \A k \in 1 .. m : p[k] = r[k]
  BY <1>1 DEF Piece
<1>5. ASSUME NEW k \in 1 .. n PROVE q[k] = r[m + k]
  <2>1. from + (m + k) = to + k /\ m + k \in 1 .. end - from
    BY <1>1
  <2>2. r[m + k] = [line |-> from + (m + k), src |-> t[from + (m + k)]]
    BY <2>1 DEF Piece
  <2>3. q[k] = [line |-> to + k, src |-> t[to + k]]
    BY <1>1 DEF Piece
  <2> QED
    BY <2>1, <2>2, <2>3
<1> HIDE DEF p, q, r, m, n
<1>6. p \o q \in Seq(PendingLine) /\ Len(p \o q) = m + n
  <2>1. p \in Seq(PendingLine) /\ q \in Seq(PendingLine) /\ Len(p) = m /\ Len(q) = n
    BY <1>2
  <2>2. p \o q \in Seq(PendingLine)
    BY <2>1
  <2>3. Len(p \o q) = Len(p) + Len(q)
    BY <2>1
  <2> QED
    BY <2>1, <2>2, <2>3
<1>7. ASSUME NEW k \in 1 .. m + n PROVE (p \o q)[k] = r[k]
  <2>1. CASE k <= m
    BY <1>1, <1>2, <1>4, <2>1, ConcatProperties
  <2>2. CASE k > m
    <3>1. k - m \in 1 .. n /\ m + (k - m) = k
      BY <1>1, <2>2
    <3>2. (p \o q)[k] = q[k - m]
      <4>1. p \in Seq(PendingLine) /\ q \in Seq(PendingLine) /\ Len(p) = m /\ Len(q) = n
        BY <1>2
      <4>2. (p \o q)[k] = IF k <= Len(p) THEN p[k] ELSE q[k - Len(p)]
        BY <4>1
      <4> QED
        BY <2>2, <4>1, <4>2
    <3> QED
      BY <1>5, <3>1, <3>2
  <2>3. k <= m \/ k > m
    BY <1>1
  <2> QED
    BY <2>1, <2>2, <2>3
<1>8. p \o q = r
  BY <1>2, <1>3, <1>6, <1>7, SeqEqual
<1> QED
  BY <1>8 DEF p, q, r

LEMMA PushedPiece ==
  ASSUME NEW t \in Seq(SourceLines), NEW to \in 0 .. Len(t), NEW m \in 0 .. Len(t) - to
  PROVE  LET lines == SubSeq(t, to + 1, to + m) IN
         /\ Len(lines) = m
         /\ [k \in DOMAIN lines |-> [line |-> to + 1 + k - 1, src |-> lines[k]]]
              = Piece(t, to, to + m)
<1> DEFINE lines == SubSeq(t, to + 1, to + m)
<1>1. Len(t) \in Nat /\ to \in Nat /\ m \in Nat /\ to + m - to = m
  OBVIOUS
<1>2. \A i \in to + 1 .. to + m : t[i] \in SourceLines
  BY <1>1
<1>3. lines \in Seq(SourceLines) /\ Len(lines) = m /\ \A k \in 1 .. m : lines[k] = t[to + k]
  BY <1>1, <1>2, SubSeqProperties
<1> HIDE DEF lines
<1>4. DOMAIN lines = 1 .. m /\ \A k \in 1 .. m : to + 1 + k - 1 = to + k
  BY <1>1, <1>3
<1>5. [k \in DOMAIN lines |-> [line |-> to + 1 + k - 1, src |-> lines[k]]]
        = [k \in 1 .. m |-> [line |-> to + k, src |-> t[to + k]]]
  BY <1>3, <1>4
<1>6. Piece(t, to, to + m) = [k \in 1 .. m |-> [line |-> to + k, src |-> t[to + k]]]
  BY <1>1 DEF Piece
<1> QED
  BY <1>3, <1>5, <1>6 DEF lines

(* A piece without bad lines joins the good ones before it.                *)
LEMMA GoodBehind ==
  ASSUME NEW t \in Seq(SourceLines), NEW from \in 0 .. Len(t), GoodUpTo(t, from),
         NEW k \in 0 .. Len(t) - from, \A j \in 1 .. k : ~Msg!BadInItself(t[from + j])
  PROVE  GoodUpTo(t, from + k)
<1>1. Len(t) \in Nat /\ from + k \in 0 .. Len(t)
  OBVIOUS
<1>2. ASSUME NEW j \in 1 .. from + k PROVE ~Msg!BadInItself(t[j])
  <2>1. CASE j <= from
    <3>1. j \in 1 .. from
      BY <1>1, <2>1
    <3> QED
      BY <3>1, Zenon DEF GoodUpTo
  <2>2. CASE j > from
    <3>1. j - from \in 1 .. k /\ from + (j - from) = j
      BY <1>1, <2>2
    <3> QED
      BY <3>1
  <2>3. j <= from \/ j > from
    BY <1>1
  <2> QED
    BY <2>1, <2>2, <2>3
<1> QED
  BY <1>1, <1>2, Zenon DEF GoodUpTo

(* There is one first bad line, and a good line stands before it.          *)
LEMMA GoodBeforeBad ==
  ASSUME NEW t, Len(t) \in Nat, NEW bad, FirstBad(t, bad), NEW n, GoodUpTo(t, n)
  PROVE  n < bad
<1>1. bad \in 1 .. Len(t) /\ n \in 0 .. Len(t)
  BY Zenon DEF FirstBad, GoodUpTo
<1>2. ~(bad \in 1 .. n)
  BY Zenon DEF FirstBad, GoodUpTo
<1> QED
  BY <1>1, <1>2

LEMMA OneFirstBad ==
  ASSUME NEW t, Len(t) \in Nat, NEW m, FirstBad(t, m), NEW n, FirstBad(t, n)
  PROVE  m = n
<1>1. m \in 1 .. Len(t) /\ n \in 1 .. Len(t)
  BY Zenon DEF FirstBad
<1>2. GoodUpTo(t, m - 1) /\ GoodUpTo(t, n - 1)
  BY Zenon DEF FirstBad
<1>3. m - 1 < n /\ n - 1 < m
  BY <1>2, GoodBeforeBad
<1> QED
  BY <1>1, <1>3

LEMMA NoArcs ==
  ASSUME NEW t \in Seq(SourceLines), ~HasArc(t), NEW k \in 1 .. Len(t), MayReject(t[k])
  PROVE  Msg!BadInItself(t[k])
<1>1. k \in DOMAIN t
  OBVIOUS
<1>2. ~Msg!IsArc(t[k])
  BY <1>1, SameMotion, Zenon DEF Msg!IsArc, HasArc
<1> QED
  BY <1>2, Zenon DEF MayReject

(* What lowering makes of a piece behind a good line.                      *)
LEMMA LowersPiece ==
  ASSUME NEW t \in Seq(SourceLines), ~HasArc(t), NEW to \in 0 .. Len(t), NEW from \in 0 .. to,
         GoodUpTo(t, from)
  PROVE  LET p == Piece(t, from, to) IN
         /\ Lowered(p).rejected # NoLine => FirstBad(t, Lowered(p).rejected)
         /\ Lowered(p).rejected = NoLine => GoodUpTo(t, to)
         /\ \A i \in DOMAIN Lowered(p).code : GoodUpTo(t, Lowered(p).code[i].source.line)
<1> DEFINE p == Piece(t, from, to)
<1>1. Len(t) \in Nat /\ to \in Nat /\ from \in 0 .. Len(t) /\ from <= to
  OBVIOUS
<1>2. p \in Seq(PendingLine) /\ DOMAIN p = 1 .. to - from
  BY <1>1, PieceTyped
<1>3. \A k \in 1 .. to - from : p[k].line = from + k /\ p[k].src = t[from + k]
  BY DEF Piece
<1> HIDE DEF p
<1>4. ASSUME NEW k \in 0 .. to - from, \A j \in 1 .. k : ~Msg!BadInItself(p[j].src)
      PROVE  GoodUpTo(t, from + k)
  <2>1. k \in 0 .. Len(t) - from
    BY <1>1
  <2>2. \A j \in 1 .. k : j \in 1 .. to - from
    BY <1>1
  <2>3. \A j \in 1 .. k : ~Msg!BadInItself(t[from + j])
    BY <1>3, <1>4, <2>2, Zenon
  <2> QED
    BY <1>1, <2>1, <2>3, GoodBehind
<1>5. ASSUME Lowered(p).rejected # NoLine PROVE FirstBad(t, Lowered(p).rejected)
  <2>1. PICK k \in DOMAIN p : /\ Lowered(p).rejected = p[k].line /\ MayReject(p[k].src)
                              /\ \A j \in 1 .. k - 1 : ~Msg!BadInItself(p[j].src)
    BY <1>2, <1>5, RejectsFirstBadLine
  <2> DEFINE n == from + k
  <2>2. k \in 1 .. to - from /\ n \in 1 .. Len(t) /\ k - 1 \in 0 .. to - from /\ n - 1 = from + (k - 1)
    BY <1>1, <1>2
  <2>3. Lowered(p).rejected = n /\ MayReject(t[n])
    BY <1>3, <2>1, <2>2, Zenon
  <2>4. GoodUpTo(t, n - 1)
    BY <1>4, <2>1, <2>2
  <2>5. Msg!BadInItself(t[n])
    BY <2>2, <2>3, NoArcs
  <2> HIDE DEF n
  <2> QED
    BY <2>2, <2>3, <2>4, <2>5, Zenon DEF FirstBad
<1>6. ASSUME Lowered(p).rejected = NoLine PROVE GoodUpTo(t, to)
  <2>1. \A k \in 1 .. to - from : ~Msg!BadInItself(p[k].src)
    BY <1>2, <1>6, RejectsFirstBadLine, Zenon
  <2>2. to - from \in 0 .. to - from /\ from + (to - from) = to
    BY <1>1
  <2> QED
    BY <1>4, <2>1, <2>2
<1>7. ASSUME NEW i \in DOMAIN Lowered(p).code PROVE GoodUpTo(t, Lowered(p).code[i].source.line)
  <2>1. PICK k \in DOMAIN p : /\ Lowered(p).code[i].source.line = p[k].line
                              /\ \A j \in 1 .. k : ~Msg!BadInItself(p[j].src)
    BY <1>2, RunsGoodLines
  <2>2. k \in 1 .. to - from /\ k \in 0 .. to - from
    BY <1>1, <1>2
  <2>3. p[k].line = from + k
    BY <1>3, <2>2
  <2>4. GoodUpTo(t, from + k)
    BY <1>4, <2>1, <2>2
  <2> QED
    BY <2>1, <2>3, <2>4, Zenon
<1> QED
  BY <1>5, <1>6, <1>7, Zenon DEF p

(* The line the whole text is rejected at.                                 *)
LEMMA RejectsWholeText ==
  ASSUME text \in Texts, ~HasArc(text), NEW n, FirstBad(text, n)
  PROVE  TheWhole.rejected = n
<1>1. text \in Seq(SourceLines) /\ Len(text) \in Nat
  BY TextsAssumption
<1>2. TheWhole = Lowered(Piece(text, 0, Len(text)))
  BY DEF TheWhole, Known, WholeText
<1>3. GoodUpTo(text, 0)
  BY <1>1 DEF GoodUpTo
<1>4. 0 \in 0 .. Len(text) /\ Len(text) \in 0 .. Len(text)
  BY <1>1
<1> DEFINE r == Lowered(Piece(text, 0, Len(text))).rejected
<1>5. (r # NoLine => FirstBad(text, r)) /\ (r = NoLine => GoodUpTo(text, Len(text)))
  BY <1>1, <1>3, <1>4, LowersPiece
<1> HIDE DEF r
<1>6. r # NoLine
  <2>1. ~GoodUpTo(text, Len(text))
    <3>1. GoodUpTo(text, Len(text)) => Len(text) < n
      BY <1>1, GoodBeforeBad
    <3>2. n <= Len(text)
      <4>1. n \in 1 .. Len(text)
        BY Zenon DEF FirstBad
      <4> QED
        BY <4>1
    <3>3. n \in Int
      <4>1. n \in 1 .. Len(text)
        BY Zenon DEF FirstBad
      <4> QED
        BY <4>1
    <3> QED
      BY <1>1, <3>1, <3>2, <3>3
  <2> QED
    BY <1>5, <2>1
<1>7. r = n
  BY <1>1, <1>5, <1>6, OneFirstBad
<1> QED
  BY <1>2, <1>7 DEF r

(* The buffer and the log stay; a run and a verdict may only end.          *)
LEMMA QuietStays ==
  ASSUME OnlyGood, UNCHANGED <<text, fed, pending, nextLine, log>>,
         hasExecutor' => hasExecutor /\ UNCHANGED <<instructions, deferred>>,
         estate' = "Rejected" => estate = "Rejected" /\ rejected' = rejected
  PROVE  OnlyGood'
<1>1. BufferSound'
  BY Zenon DEF OnlyGood, BufferSound
<1>2. RunSound'
  BY Zenon DEF OnlyGood, RunSound
<1>3. LogSound'
  BY Zenon DEF OnlyGood, LogSound
<1>4. VerdictSound'
  BY Zenon DEF OnlyGood, VerdictSound
<1> QED
  BY <1>1, <1>2, <1>3, <1>4, Zenon DEF OnlyGood

LEMMA NotRejectedAtRest == ReturnAtRest => estate' # "Rejected"
BY DEF ReturnAtRest, AtRest

LEMMA TextTyped ==
  ASSUME EngineInv
  PROVE  text \in Texts /\ text \in Seq(SourceLines) /\ Len(text) \in Nat /\ fed \in 0 .. Len(text)
BY TextsAssumption DEF EngineInv, InputOK

(* What lowering makes of the buffer.                                      *)
LEMMA LowersBuffer ==
  ASSUME EngineInv, OnlyGood, ~HasArc(text)
  PROVE  /\ Lowered(pending).rejected # NoLine => FirstBad(text, Lowered(pending).rejected)
         /\ Lowered(pending).rejected = NoLine => GoodUpTo(text, fed)
         /\ \A i \in DOMAIN Lowered(pending).code :
              GoodUpTo(text, Lowered(pending).code[i].source.line)
<1>1. text \in Seq(SourceLines) /\ fed \in 0 .. Len(text)
  BY TextTyped
<1>2. PICK from \in 0 .. fed : pending = Piece(text, from, fed) /\ GoodUpTo(text, from)
  BY Zenon DEF OnlyGood, BufferSound
<1> QED
  BY <1>1, <1>2, LowersPiece

(* A buffer that was run to its end and is empty now.                      *)
LEMMA EmptiedSound ==
  ASSUME EngineInv, OnlyGood, GoodUpTo(text, fed), pending' = <<>>, UNCHANGED <<text, fed, nextLine>>
  PROVE  BufferSound'
<1>1. fed \in Nat /\ fed \in 0 .. fed
  BY TextTyped
<1>2. Piece(text, fed, fed) = <<>>
  BY <1>1, EmptyPiece
<1> QED
  BY <1>1, <1>2, Zenon DEF OnlyGood, BufferSound

LEMMA NothingToRunSound ==
  ASSUME EngineInv, OnlyGood, ~HasArc(text), NothingToRun, UNCHANGED client
  PROVE  OnlyGood'
<1> DEFINE low == Lowered(pending)
<1>1. /\ UNCHANGED <<text, fed, nextLine, log>> /\ ~hasExecutor'
      /\ \/ low.rejected = NoLine /\ pending' = <<>> /\ estate' # "Rejected"
         \/ /\ low.rejected # NoLine /\ rejected' = low.rejected /\ UNCHANGED pending
  BY NotRejectedAtRest
     DEF NothingToRun, ClearPending, Reject, Idle, client, environment
<1>2. RunSound' /\ LogSound'
  BY <1>1, Zenon DEF OnlyGood, RunSound, LogSound
<1>3. CASE low.rejected = NoLine /\ pending' = <<>> /\ estate' # "Rejected"
  <2>1. BufferSound'
    BY <1>1, <1>3, LowersBuffer, EmptiedSound
  <2>2. VerdictSound'
    BY <1>3, Zenon DEF VerdictSound
  <2> QED
    BY <1>2, <2>1, <2>2, Zenon DEF OnlyGood
<1>4. CASE low.rejected # NoLine /\ rejected' = low.rejected /\ UNCHANGED pending
  <2>1. BufferSound'
    BY <1>1, <1>4, Zenon DEF OnlyGood, BufferSound
  <2>2. FirstBad(text, low.rejected)
    BY <1>4, LowersBuffer
  <2>3. VerdictSound'
    BY <1>1, <1>4, <2>2, Zenon DEF VerdictSound
  <2> QED
    BY <1>2, <2>1, <2>3, Zenon DEF OnlyGood
<1> QED
  BY <1>1, <1>3, <1>4

LEMMA StartSound ==
  ASSUME EngineInv, OnlyGood, ~HasArc(text), StartExecutor, UNCHANGED client
  PROVE  OnlyGood'
<1> DEFINE low == Lowered(pending)
<1>1. /\ UNCHANGED <<text, fed, pending, nextLine, log>>
      /\ deferred' = low.rejected /\ instructions' = low.code
      /\ estate' = estate /\ estate # "Rejected"
  BY DEF StartExecutor, NewExecutor, Idle, Stays, client, input, environment
<1>2. BufferSound' /\ LogSound'
  BY <1>1, Zenon DEF OnlyGood, BufferSound, LogSound
<1>3. \A i \in DOMAIN low.code : GoodUpTo(text, low.code[i].source.line)
  BY LowersBuffer
<1>4. RunSound'
  BY <1>1, <1>3, Zenon DEF RunSound
<1>5. VerdictSound'
  BY <1>1, Zenon DEF VerdictSound
<1> QED
  BY <1>2, <1>4, <1>5, Zenon DEF OnlyGood

LEMMA PumpSound == ASSUME EngineInv, OnlyGood, ~HasArc(text), Pump PROVE OnlyGood'
<1>1. UNCHANGED <<text, fed>> /\ UNCHANGED client
  BY DEF Pump, client
<1>2. CASE Report \/ ContinueExecutor \/ NothingPending
  <2>1. UNCHANGED <<pending, nextLine, log, instructions, deferred, rejected, hasExecutor>>
    BY <1>2 DEF Report, ContinueExecutor, NothingPending, input, verdict, executor, program,
                environment
  <2>2. estate' = "Rejected" => estate = "Rejected"
    BY <1>2, NotRejectedAtRest DEF Report, ContinueExecutor, NothingPending, verdict
  <2> QED
    BY <1>1, <2>1, <2>2, QuietStays
<1>3. CASE CancelOnRequest
  <2>1. /\ UNCHANGED <<pending, nextLine, log>> /\ hasExecutor' = FALSE
        /\ estate' = "Cancelled"
    BY <1>3 DEF CancelOnRequest, Cancel, input
  <2> QED
    BY <1>1, <2>1, QuietStays
<1> QED
  BY <1>1, <1>2, <1>3, NothingToRunSound, StartSound DEF Pump

(* A step of the executor: what it submits comes from a good line.         *)
LEMMA LogsGood ==
  ASSUME EngineInv, OnlyGood, AdvanceExecutor
  PROVE  LogSound' /\ hasExecutor /\ UNCHANGED <<text, fed, instructions>>
<1>1. TypeOK /\ Advance /\ UNCHANGED <<text, fed, instructions>>
  BY DEF EngineInv, AdvanceExecutor, Step, program, client
<1>2. hasExecutor
  BY DEF EngineInv, CallOK, AdvanceExecutor
<1>3. \A i \in DOMAIN instructions : GoodUpTo(text, instructions[i].source.line)
  BY <1>2, Zenon DEF OnlyGood, RunSound
<1>4. ASSUME NEW k \in DOMAIN log' PROVE GoodUpTo(text, log'[k].line)
  <2>1. \/ k \in DOMAIN log /\ log'[k] = log[k]
        \/ \E i \in DOMAIN instructions : log'[k].line = instructions[i].source.line
    BY <1>1, AddsOwnLines
  <2>2. CASE k \in DOMAIN log /\ log'[k] = log[k]
    BY <2>2, Zenon DEF OnlyGood, LogSound
  <2>3. CASE \E i \in DOMAIN instructions : log'[k].line = instructions[i].source.line
    BY <1>3, <2>3, Zenon
  <2> QED
    BY <2>1, <2>2, <2>3
<1>5. LogSound'
  BY <1>1, <1>4, Zenon DEF LogSound
<1> QED
  BY <1>1, <1>2, <1>5

LEMMA AdvanceSound == ASSUME EngineInv, OnlyGood, ~HasArc(text), AdvanceExecutor PROVE OnlyGood'
<1>1. LogSound' /\ hasExecutor /\ UNCHANGED <<text, fed, instructions>>
  BY LogsGood
<1>2. /\ estate # "Rejected" /\ deferred = Lowered(pending).rejected
      /\ \A i \in DOMAIN instructions : GoodUpTo(text, instructions[i].source.line)
  <2>1. estate # "Rejected"
    BY DEF EngineInv, CallOK, AdvanceExecutor, Stays
  <2> QED
    BY <1>1, <2>1, Zenon DEF OnlyGood, RunSound
<1>3. CASE UNCHANGED <<pending, nextLine>> /\ estate' # "Rejected"
           /\ (hasExecutor' => UNCHANGED deferred)
  <2>1. BufferSound' /\ RunSound' /\ VerdictSound'
    BY <1>1, <1>2, <1>3, Zenon DEF OnlyGood, BufferSound, RunSound, VerdictSound
  <2> QED
    BY <1>1, <2>1, Zenon DEF OnlyGood
<1>4. CASE GoesOn \/ BecomesBlocked \/ Polls \/ DropsExecutor \/ ExecutorFaults
  <2>1. /\ UNCHANGED <<pending, nextLine>> /\ estate' # "Rejected"
        /\ (hasExecutor' => UNCHANGED deferred)
    BY <1>2, <1>4 DEF GoesOn, BecomesBlocked, Polls, DropsExecutor, ExecutorFaults, input
  <2> QED
    BY <1>3, <2>1
<1>5. CASE ExecutorCompletes
  <2>1. /\ ~hasExecutor' /\ UNCHANGED nextLine
        /\ \/ deferred # NoLine /\ rejected' = deferred /\ UNCHANGED pending
           \/ deferred = NoLine /\ pending' = <<>> /\ estate' # "Rejected"
    BY <1>5, NotRejectedAtRest DEF ExecutorCompletes, Reject, ClearPending
  <2>2. RunSound'
    BY <2>1, Zenon DEF RunSound
  <2>3. CASE deferred # NoLine /\ rejected' = deferred /\ UNCHANGED pending
    <3>1. FirstBad(text, deferred)
      BY <1>2, <2>3, LowersBuffer
    <3>2. BufferSound' /\ VerdictSound'
      BY <1>1, <2>1, <2>3, <3>1, Zenon DEF OnlyGood, BufferSound, VerdictSound
    <3> QED
      BY <1>1, <2>2, <3>2, Zenon DEF OnlyGood
  <2>4. CASE deferred = NoLine /\ pending' = <<>> /\ estate' # "Rejected"
    <3>1. BufferSound'
      BY <1>1, <1>2, <2>1, <2>4, LowersBuffer, EmptiedSound
    <3>2. VerdictSound'
      BY <2>4, Zenon DEF VerdictSound
    <3> QED
      BY <1>1, <2>2, <3>1, <3>2, Zenon DEF OnlyGood
  <2> QED
    BY <2>1, <2>3, <2>4
<1> QED
  BY <1>4, <1>5 DEF AdvanceExecutor

(* Lines that are pushed, or flushed by finish(), join the buffered ones.  *)
LEMMA EnqueueSound ==
  ASSUME EngineInv, OnlyGood, NEW to \in fed .. Len(text), Enqueue(SubSeq(text, fed + 1, to)),
         fed' = to, text' = text, ~hasExecutor', UNCHANGED <<estate, rejected, log>>
  PROVE  OnlyGood'
<1>1. /\ text \in Seq(SourceLines) /\ Len(text) \in Nat /\ fed \in 0 .. Len(text)
      /\ nextLine = fed + 1
  BY TextTyped DEF OnlyGood, BufferSound
<1>2. PICK from \in 0 .. fed : pending = Piece(text, from, fed) /\ GoodUpTo(text, from)
  BY Zenon DEF OnlyGood, BufferSound
<1> DEFINE m == to - fed
           more == SubSeq(text, fed + 1, fed + m)
<1>3. m \in 0 .. Len(text) - fed /\ fed + m = to /\ from \in 0 .. to /\ to \in 0 .. Len(text)
  BY <1>1
<1>4. /\ Len(more) = m
      /\ [k \in DOMAIN more |-> [line |-> fed + 1 + k - 1, src |-> more[k]]]
           = Piece(text, fed, fed + m)
  BY <1>1, <1>3, PushedPiece
<1>5. Enqueue(more)
  BY <1>3
<1>6. pending' = pending \o Piece(text, fed, fed + m) /\ nextLine' = nextLine + m
  BY <1>1, <1>4, <1>5 DEF Enqueue
<1> HIDE DEF m, more
<1>7. pending' = Piece(text, from, to)
  <2>1. fed \in Nat
    BY <1>1
  <2>2. Piece(text, from, fed) \o Piece(text, fed, to) = Piece(text, from, to)
    BY <1>1, <2>1, PiecesJoin
  <2> QED
    BY <1>2, <1>3, <1>6, <2>2
<1>8. nextLine' = fed' + 1
  BY <1>1, <1>3, <1>6
<1>9. BufferSound'
  BY <1>2, <1>3, <1>7, <1>8, Zenon DEF BufferSound
<1>10. RunSound' /\ LogSound' /\ VerdictSound'
  BY Zenon DEF OnlyGood, RunSound, LogSound, VerdictSound
<1> QED
  BY <1>9, <1>10, Zenon DEF OnlyGood

LEMMA PushesSound == ASSUME EngineInv, OnlyGood, ClientPushes PROVE OnlyGood'
<1>1. PICK m \in 0 .. Len(text) - fed, rest \in BOOLEAN :
        PushChunk(SubSeq(text, fed + 1, fed + m), rest) /\ fed' = fed + m
  BY DEF ClientPushes
<1>2. ~hasExecutor' /\ UNCHANGED <<text, estate, rejected, log>>
  BY <1>1 DEF ClientPushes, MayPush, PushChunk, verdict, environment
<1>3. fed + m \in fed .. Len(text) /\ Enqueue(SubSeq(text, fed + 1, fed + m))
  BY <1>1, TextTyped DEF PushChunk
<1> QED
  BY <1>1, <1>2, <1>3, EnqueueSound

LEMMA FinishesSound == ASSUME EngineInv, OnlyGood, ClientFinishes PROVE OnlyGood'
<1>1. /\ Enqueue(SubSeq(text, fed + 1, Len(text))) /\ fed' = Len(text)
      /\ ~hasExecutor' /\ UNCHANGED <<text, estate, rejected, log>>
  BY DEF ClientFinishes, CallFinish, MayPush, verdict, environment
<1>2. Len(text) \in fed .. Len(text)
  BY TextTyped
<1> QED
  BY <1>1, <1>2, EnqueueSound

(* Every other call leaves the buffer and the log as they are.             *)
LEMMA OthersSound ==
  ASSUME EngineInv, OnlyGood,
         \/ ExecutorStalls \/ ClientPumps \/ ClientResumes \/ ClientMisuses \/ ClientCancels
         \/ RequestCancel \/ RuntimeCompletes \/ UNCHANGED allVars
  PROVE  OnlyGood' /\ text' = text
<1>1. CASE \/ ExecutorStalls \/ ClientPumps \/ RequestCancel \/ RuntimeCompletes
           \/ UNCHANGED allVars
  <2>1. /\ UNCHANGED <<text, fed, pending, nextLine, log, instructions, deferred>>
        /\ UNCHANGED <<rejected, estate, hasExecutor>>
    BY <1>1 DEF ExecutorStalls, ClientPumps, CallPump, RequestCancel, RuntimeCompletes, allVars,
                engineVars, client, input, verdict, vars, executor, program, environment
  <2> QED
    BY <2>1, QuietStays
<1>2. CASE ClientResumes \/ ClientMisuses
  <2>1. PICK token : Resume(token)
    BY <1>2 DEF ClientResumes, ClientMisuses
  <2>2. /\ UNCHANGED <<pending, nextLine, log, instructions, deferred, hasExecutor>>
        /\ estate' # "Rejected"
    BY <2>1, NotRejectedAtRest DEF Resume, input, program, environment
  <2>3. UNCHANGED <<text, fed>>
    BY <1>2 DEF ClientResumes, ClientMisuses, client
  <2> QED
    BY <2>2, <2>3, QuietStays
<1>3. CASE ClientCancels
  <2>1. /\ UNCHANGED <<text, fed, pending, nextLine, log>> /\ hasExecutor' = FALSE
        /\ estate' = "Cancelled"
    BY <1>3 DEF ClientCancels, CallCancel, Cancel, input, client
  <2> QED
    BY <2>1, QuietStays
<1> QED
  BY <1>1, <1>2, <1>3

LEMMA PlaceStep == ASSUME PlaceInv, [EngineNext]_allVars PROVE PlaceInv'
<1>1. EngineInv /\ EngineInv'
  BY EngineStep DEF PlaceInv
<1>2. text' = text
  BY DEF EngineNext, EngineEnded, Pump, AdvanceExecutor, ExecutorStalls, ClientPushes, ClientPumps,
         ClientFinishes, ClientResumes, ClientMisuses, ClientCancels, RequestCancel,
         RuntimeCompletes, allVars, client
<1>3. ASSUME ~HasArc(text) PROVE OnlyGood'
  BY <1>1, <1>3, PumpSound, AdvanceSound, PushesSound, FinishesSound, OthersSound
     DEF PlaceInv, EngineNext, EngineEnded
<1> QED
  BY <1>1, <1>2, <1>3, Zenon DEF PlaceInv, HasArc

LEMMA PlaceStarts == EngineInit => PlaceInv
<1> SUFFICES ASSUME EngineInit PROVE PlaceInv
  OBVIOUS
<1>1. /\ pending = <<>> /\ nextLine = 1 /\ fed = 0 /\ hasExecutor = FALSE /\ log = <<>>
      /\ estate = "AcceptingInput" /\ EngineInv
  BY EngineStarts DEF EngineInit
<1>2. Len(text) \in Nat /\ fed \in 0 .. Len(text)
  BY <1>1, TextTyped
<1>3. BufferSound
  <2>1. GoodUpTo(text, 0)
    BY <1>2 DEF GoodUpTo
  <2>2. pending = Piece(text, 0, 0) /\ 0 \in 0 .. 0 /\ nextLine = fed + 1
    BY <1>1, EmptyPiece
  <2> QED
    BY <1>1, <1>2, <2>1, <2>2, Zenon DEF BufferSound
<1>4. RunSound /\ LogSound /\ VerdictSound
  BY <1>1 DEF RunSound, LogSound, VerdictSound
<1> QED
  BY <1>1, <1>3, <1>4, Zenon DEF PlaceInv, OnlyGood

LEMMA PlaceGivesProperty == PlaceInv => RejectedInPlace
<1> SUFFICES ASSUME PlaceInv, estate = "Rejected", ~HasArc(text)
             PROVE  /\ rejected = TheWhole.rejected
                    /\ \A k \in DOMAIN log : log[k].line < rejected
  BY Zenon DEF RejectedInPlace
<1>1. text \in Texts /\ Len(text) \in Nat
  BY TextTyped DEF PlaceInv
<1>2. FirstBad(text, rejected)
  BY Zenon DEF PlaceInv, OnlyGood, VerdictSound
<1>3. \A k \in DOMAIN log : GoodUpTo(text, log[k].line)
  BY Zenon DEF PlaceInv, OnlyGood, LogSound
<1> QED
  BY <1>1, <1>2, <1>3, RejectsWholeText, GoodBeforeBad

(* However a text without arcs is cut into chunks, pumped and resumed, it  *)
(* is rejected at the first line that is bad, the one it is rejected at as *)
(* a whole, and only calls of lines before that one were submitted.        *)
THEOREM RejectsInPlace == EngineSpec => []RejectedInPlace
<1>1. PlaceInv /\ [EngineNext]_allVars => PlaceInv'
  BY PlaceStep
<1> QED
  BY <1>1, PlaceStarts, PlaceGivesProperty, PTL DEF EngineSpec

----------------------------------------------------------------------------
(* The tool between two executors.  First: what is lowered to jumps, and   *)
(* what each kind of line adds to that and to the lines in error.          *)

IsJumpCode(ins) == ins.op \in {"goto", "branch"}
Jumps(code) == \E i \in DOMAIN code : IsJumpCode(code[i])

(* A line that is lowered to a jump.                                       *)
JumpKinds == {"if", "goto", "if goto"}
JumpLine(l) == ~Ail!Skipped(l) /\ l.statement.kind \in JumpKinds

(* Two programs with jumps, or two without; errors of line k only.         *)
JumpsAlike(r, s) == Jumps(s.instructions) <=> Jumps(r.instructions)
BlamesOnly(r, s, k) ==
  \A j \in Nat : j # k /\ Ail!HasError(s.diagnostics, j) => Ail!HasError(r.diagnostics, j)
AddsNoJump(r, s, k) == JumpsAlike(r, s) /\ BlamesOnly(r, s, k)
AddsJump(r, s) == Jumps(s.instructions) /\ s.diagnostics = r.diagnostics

LEMMA NothingAdded == \A r, k : AddsNoJump(r, r, k)
BY Zenon DEF AddsNoJump, JumpsAlike, BlamesOnly

LEMMA NoneTwice ==
  ASSUME NEW r, NEW s, NEW u, NEW k, AddsNoJump(r, s, k), AddsNoJump(s, u, k)
  PROVE  AddsNoJump(r, u, k)
BY Zenon DEF AddsNoJump, JumpsAlike, BlamesOnly

LEMMA JumpsOfBoth ==
  ASSUME NEW S, NEW code \in Seq(S), NEW more \in Seq(S)
  PROVE  Jumps(code \o more) <=> Jumps(code) \/ Jumps(more)
<1> DEFINE all == code \o more
<1>1. /\ all \in Seq(S) /\ Len(all) = Len(code) + Len(more) /\ Len(code) \in Nat /\ Len(more) \in Nat
  BY ConcatProperties
<1>2. \A i \in DOMAIN code : i \in DOMAIN all /\ all[i] = code[i]
  BY <1>1, ConcatProperties
<1>3. \A i \in DOMAIN more : Len(code) + i \in DOMAIN all /\ all[Len(code) + i] = more[i]
  BY <1>1, ConcatProperties
<1>4. ASSUME NEW i \in DOMAIN all
      PROVE  \/ i \in DOMAIN code /\ all[i] = code[i]
             \/ i - Len(code) \in DOMAIN more /\ all[i] = more[i - Len(code)]
  BY <1>1, ConcatProperties
<1> HIDE DEF all
<1> QED
  BY <1>2, <1>3, <1>4, Zenon DEF Jumps, all

LEMMA ErrorsOfMore ==
  ASSUME NEW S, NEW ds \in Seq(S), NEW d, d \in S, NEW j, Ail!HasError(Append(ds, d), j)
  PROVE  Ail!HasError(ds, j) \/ d.line = j
<1> DEFINE all == Append(ds, d)
<1>1. \A i \in DOMAIN all : all[i] = d \/ (i \in DOMAIN ds /\ all[i] = ds[i])
  BY AppendProperties
<1>2. PICK i \in DOMAIN all : all[i].line = j /\ all[i].severity = "Error"
  BY DEF Ail!HasError
<1> HIDE DEF all
<1>3. CASE all[i] = d
  BY <1>2, <1>3
<1>4. CASE i \in DOMAIN ds /\ all[i] = ds[i]
  BY <1>2, <1>4, Zenon DEF Ail!HasError
<1> QED
  BY <1>1, <1>3, <1>4

(* Instructions that are emitted, a report.                                *)
LEMMA EmitGives ==
  ASSUME NEW t, NEW r, IsLowering(r, t), NEW more
  PROVE  /\ Ail!Emit(r, more).instructions = r.instructions \o more
         /\ Ail!Emit(r, more).diagnostics = r.diagnostics
         /\ Ail!Emit(r, more).ifs = r.ifs /\ Ail!Emit(r, more).labels = r.labels
<1> DEFINE code == r.instructions \o more
<1>1. Ail!Emit(r, more) = WithBlocks(r, code, r.ifs, r.labels)
  BY EmitChanges
<1> HIDE DEF code
<1>2. /\ Ail!Emit(r, more).instructions = code
      /\ Ail!Emit(r, more).diagnostics = r.diagnostics
      /\ Ail!Emit(r, more).ifs = r.ifs /\ Ail!Emit(r, more).labels = r.labels
  BY <1>1 DEF WithBlocks
<1> QED
  BY <1>2 DEF code

LEMMA CodeOfLowering ==
  ASSUME NEW t, NEW r, IsLowering(r, t)
  PROVE  /\ \E S : r.instructions \in Seq(S)
         /\ \E S : r.diagnostics \in Seq(S)
BY DEF IsLowering, LoweringState

LEMMA Widened ==
  ASSUME NEW S, NEW s \in Seq(S), NEW T, NEW u \in Seq(T)
  PROVE  s \in Seq(S \cup T) /\ u \in Seq(S \cup T)
<1>1. S \subseteq S \cup T /\ T \subseteq S \cup T
  OBVIOUS
<1> QED
  BY <1>1, SeqMonotonic

LEMMA MoreJumps ==
  ASSUME NEW t, NEW r, IsLowering(r, t), NEW T, NEW more \in Seq(T)
  PROVE  Jumps(r.instructions \o more) <=> Jumps(r.instructions) \/ Jumps(more)
<1>1. PICK S : r.instructions \in Seq(S)
  BY CodeOfLowering
<1>2. r.instructions \in Seq(S \cup T) /\ more \in Seq(S \cup T)
  BY <1>1, Widened
<1> QED
  BY <1>2, JumpsOfBoth

LEMMA OneJump == \A i : <<i>> \in Seq({i}) /\ (Jumps(<<i>>) <=> IsJumpCode(i))
BY DEF Jumps, IsJumpCode

LEMMA EmitAdds ==
  ASSUME NEW t, NEW r, IsLowering(r, t), NEW i, NEW k
  PROVE  /\ ~IsJumpCode(i) => AddsNoJump(r, Ail!Emit(r, <<i>>), k)
         /\ IsJumpCode(i) => AddsJump(r, Ail!Emit(r, <<i>>))
<1> DEFINE s == Ail!Emit(r, <<i>>)
<1>1. s.instructions = r.instructions \o <<i>> /\ s.diagnostics = r.diagnostics
  BY EmitGives
<1>2. <<i>> \in Seq({i}) /\ (Jumps(<<i>>) <=> IsJumpCode(i))
  BY OneJump
<1>3. Jumps(r.instructions \o <<i>>) <=> Jumps(r.instructions) \/ Jumps(<<i>>)
  BY <1>2, MoreJumps
<1> HIDE DEF s
<1>4. Jumps(s.instructions) <=> Jumps(r.instructions) \/ IsJumpCode(i)
  BY <1>1, <1>2, <1>3, Zenon
<1>5. BlamesOnly(r, s, k)
  BY <1>1, Zenon DEF BlamesOnly
<1> QED
  BY <1>1, <1>4, <1>5, Zenon DEF AddsNoJump, JumpsAlike, AddsJump, s

LEMMA ReportAdds ==
  ASSUME NEW t, NEW r, IsLowering(r, t), NEW severity, NEW k, NEW why
  PROVE  AddsNoJump(r, Ail!Report(r, severity, k, why), k)
<1> DEFINE d == Ail!Diag(severity, k, why)
           ds == Append(r.diagnostics, d)
           s == Ail!Report(r, severity, k, why)
<1>1. r = [instructions |-> r.instructions, diagnostics |-> r.diagnostics,
           messages |-> r.messages, rejected |-> r.rejected, ifs |-> r.ifs,
           labels |-> r.labels, plane |-> r.plane, rapid |-> r.rapid]
  BY FieldsOfLowering DEF IsLowering
<1>2. s = [r EXCEPT !.diagnostics = ds]
  BY Zenon DEF Ail!Report
<1>3. d.line = k
  BY DEF Ail!Diag
<1> HIDE DEF s, d
<1>4. s.instructions = r.instructions /\ s.diagnostics = ds
  <2> HIDE DEF ds
  <2> QED
    BY <1>1, <1>2
<1>5. PICK S : r.diagnostics \in Seq(S)
  BY CodeOfLowering
<1>6. r.diagnostics \in Seq(S \cup {d})
  BY <1>5, SeqMonotonic
<1>7. \A j : Ail!HasError(ds, j) => Ail!HasError(r.diagnostics, j) \/ d.line = j
  BY <1>6, ErrorsOfMore
<1> HIDE DEF ds
<1>8. BlamesOnly(r, s, k)
  BY <1>3, <1>4, <1>7, Zenon DEF BlamesOnly
<1> QED
  BY <1>4, <1>8, Zenon DEF AddsNoJump, JumpsAlike, s

----------------------------------------------------------------------------
(* The kinds of lines.                                                     *)

LEMMA AssignAdds ==
  ASSUME NEW t, NEW r, IsLowering(r, t), NEW l, NEW k
  PROVE  AddsNoJump(r, Ail!AssignLine(r, l, k), k)
<1> DEFINE s == l.statement
           at == Ail!SourceOf(l, k)
           select == Ail!ToolSelect(at, s.to, s.rhs.value)
           assign == [op |-> "assign", source |-> at, name |-> s.to, rhs |-> s.rhs]
<1>1. ~IsJumpCode(select) /\ ~IsJumpCode(assign)
  BY DEF IsJumpCode, Ail!ToolSelect
<1>2. AddsNoJump(r, Ail!Report(r, "Error", k, "malformed PROC"), k)
  BY ReportAdds
<1>3. AddsNoJump(r, Ail!Emit(r, <<select>>), k) /\ AddsNoJump(r, Ail!Emit(r, <<assign>>), k)
  <2> HIDE DEF select, assign
  <2> QED
    BY <1>1, EmitAdds
<1> QED
  BY <1>2, <1>3, Zenon DEF Ail!AssignLine

LEMMA LabelAdds ==
  ASSUME NEW t, NEW r, IsLowering(r, t), NEW l, NEW k
  PROVE  AddsNoJump(r, Ail!LabelLine(r, l, k), k)
<1> DEFINE i == Ail!LabelAt(Ail!SourceOf(l, k), l.statement.name)
<1>1. ~IsJumpCode(i)
  BY DEF IsJumpCode, Ail!LabelAt
<1> HIDE DEF i
<1>2. AddsNoJump(r, Ail!Emit(r, <<i>>), k)
  BY <1>1, EmitAdds
<1> QED
  BY <1>2, Zenon DEF Ail!LabelLine, i

LEMMA JumpsAdd ==
  ASSUME NEW t, NEW r, IsLowering(r, t), NEW l, NEW k
  PROVE  AddsJump(r, Ail!GotoLine(r, l, k)) /\ AddsJump(r, Ail!IfGotoLine(r, l, k))
<1> DEFINE at == Ail!SourceOf(l, k)
           s == l.statement
           goto == Ail!Goto(at, s.to)
           branch == Ail!Branch(at, s.test, s.then, s.else)
<1>1. IsJumpCode(goto) /\ IsJumpCode(branch)
  BY DEF IsJumpCode, Ail!Goto, Ail!Branch
<1>2. AddsJump(r, Ail!Emit(r, <<goto>>)) /\ AddsJump(r, Ail!Emit(r, <<branch>>))
  <2> HIDE DEF goto, branch
  <2> QED
    BY <1>1, EmitAdds
<1> QED
  BY <1>2, Zenon DEF Ail!GotoLine, Ail!IfGotoLine

(* An open block has a branch.                                             *)
LEMMA OpenHasJump ==
  ASSUME NEW t, NEW r, IsLowering(r, t), r.ifs # <<>>
  PROVE  Jumps(r.instructions)
BY InnermostTyped DEF Jumps, IsJumpCode

LEMMA IfAdds ==
  ASSUME NEW t \in Seq(SourceLines), NEW r, IsLowering(r, t), NEW k \in 1 .. Len(t),
         k <= LastLowered(t), t[k].statement.kind = "if"
  PROVE  AddsJump(r, Ail!IfLine(r, t[k], k))
<1> DEFINE at == Ail!SourceOf(t[k], k)
           then == Ail!Internal("IF_THEN", r.labels + 1)
           end == Ail!Internal("IF_END", r.labels + 2)
           more == <<Ail!Branch(at, t[k].statement.test, Ail!To(then), Ail!To(end)),
                     Ail!LabelAt(at, then)>>
           open == [branch |-> Ail!NextInstruction(r), end |-> end, hasElse |-> FALSE]
           e == Ail!Emit(r, more)
           s == Ail!IfLine(r, t[k], k)
<1>1. IsLowering(s, t)
  BY IfLowered
<1>2. e.diagnostics = r.diagnostics /\ e.ifs = r.ifs
  BY EmitGives
<1>3. e = WithBlocks(r, r.instructions \o more, r.ifs, r.labels)
  BY EmitChanges
<1>4. s = [e EXCEPT !.labels = e.labels + 2, !.ifs = Append(e.ifs, open)]
  BY Zenon DEF Ail!IfLine
<1> DEFINE code == r.instructions \o more
<1> HIDE DEF e, s, open, code
<1>5. s.diagnostics = r.diagnostics /\ s.ifs = Append(r.ifs, open)
  <2>1. e = WithBlocks(r, code, r.ifs, r.labels)
    BY <1>3 DEF code
  <2> HIDE DEF more
  <2> QED
    BY <1>2, <1>4, <2>1 DEF WithBlocks
<1>6. r.ifs \in Seq(OpenIf)
  BY DEF IsLowering, LoweringState
<1>7. s.ifs # <<>>
  BY <1>5, <1>6
<1> QED
  BY <1>1, <1>5, <1>7, OpenHasJump DEF AddsJump, s

LEMMA ElseAdds ==
  ASSUME NEW t \in Seq(SourceLines), NEW r, IsLowering(r, t), NEW k \in 1 .. Len(t),
         k <= LastLowered(t), r.ifs # <<>>
  PROVE  AddsNoJump(r, Ail!ElseOfIf(r, t[k], k), k)
<1> DEFINE label == Ail!Internal("IF_ELSE", r.labels + 1)
           at == Ail!SourceOf(t[k], k)
           more == <<Ail!Goto(at, Ail!To(Ail!InnermostIf(r).end)), Ail!LabelAt(at, label)>>
           b == Ail!InnermostIf(r).branch
           n == Len(r.ifs)
           e == Ail!Emit(r, more)
           s == Ail!ElseOfIf(r, t[k], k)
           code == r.instructions \o more
<1>1. IsLowering(s, t)
  BY ElseLowered
<1>2. s = [e EXCEPT !.instructions[b].else = Ail!To(label), !.labels = e.labels + 1,
                    !.ifs[n].hasElse = TRUE]
  BY Zenon DEF Ail!ElseOfIf
<1>3. e = WithBlocks(r, code, r.ifs, r.labels)
  BY EmitChanges
<1>4. n \in DOMAIN r.ifs
  BY InnermostTyped
<1> DEFINE jump == Ail!To(label)
<1> HIDE DEF e, s, code, jump, b, n
<1>5. s.diagnostics = r.diagnostics /\ DOMAIN s.ifs = DOMAIN r.ifs
  <2>1. s = [e EXCEPT !.instructions[b].else = jump, !.labels = e.labels + 1, !.ifs[n].hasElse = TRUE]
    BY <1>2 DEF jump
  <2> QED
    BY <1>3, <2>1 DEF WithBlocks
<1>6. s.ifs # <<>>
  BY <1>4, <1>5
<1>7. Jumps(r.instructions) /\ Jumps(s.instructions)
  BY <1>1, <1>6, OpenHasJump
<1>8. BlamesOnly(r, s, k)
  BY <1>5, Zenon DEF BlamesOnly
<1> QED
  BY <1>7, <1>8, Zenon DEF AddsNoJump, JumpsAlike, s

LEMMA ElseLineAdds ==
  ASSUME NEW t \in Seq(SourceLines), NEW r, IsLowering(r, t), NEW k \in 1 .. Len(t),
         k <= LastLowered(t)
  PROVE  AddsNoJump(r, Ail!ElseLine(r, t[k], k), k)
<1>1. CASE r.ifs = <<>>
  BY <1>1, ReportAdds, Zenon DEF Ail!ElseLine
<1>2. CASE r.ifs # <<>> /\ Ail!InnermostIf(r).hasElse
  BY <1>2, ReportAdds, Zenon DEF Ail!ElseLine
<1>3. CASE r.ifs # <<>> /\ ~Ail!InnermostIf(r).hasElse
  BY <1>3, ElseAdds, Zenon DEF Ail!ElseLine
<1> QED
  BY <1>1, <1>2, <1>3, Zenon

LEMMA EndIfAdds ==
  ASSUME NEW t, NEW r, IsLowering(r, t), NEW l, NEW k
  PROVE  AddsNoJump(r, Ail!EndIfLine(r, l, k), k)
<1>1. CASE r.ifs = <<>>
  BY <1>1, ReportAdds, Zenon DEF Ail!EndIfLine
<1>2. CASE r.ifs # <<>>
  <2> DEFINE label == Ail!LabelAt(Ail!SourceOf(l, k), Ail!InnermostIf(r).end)
             e == Ail!Emit(r, <<label>>)
             s == Ail!EndIfLine(r, l, k)
  <2>1. ~IsJumpCode(label)
    BY DEF IsJumpCode, Ail!LabelAt
  <2> HIDE DEF label
  <2>2. AddsNoJump(r, e, k)
    BY <2>1, EmitAdds
  <2>3. s = [e EXCEPT !.ifs = Ail!Front(e.ifs)]
    BY <1>2, Zenon DEF Ail!EndIfLine, label
  <2> HIDE DEF e, s
  <2>4. s.instructions = e.instructions /\ s.diagnostics = e.diagnostics
    BY <2>3
  <2> QED
    BY <2>2, <2>4, Zenon DEF AddsNoJump, JumpsAlike, BlamesOnly, s
<1> QED
  BY <1>1, <1>2

LEMMA ProcAdds ==
  ASSUME NEW t \in Seq(SourceLines), NEW r, IsLowering(r, t), NEW k \in 1 .. Len(t),
         k <= LastLowered(t), Ail!IsProc(t[k])
  PROVE  AddsNoJump(r, Ail!ProcLine(r, t[k], k), k)
<1> DEFINE label == Ail!LabelAt(Ail!SourceOf(t[k], k), t[k].words[2].head)
           declared == Ail!Emit(r, <<label>>)
           s == Ail!Report(declared, "Warning", k, "PROC signature")
<1>1. t[k] \in SourceLines /\ t[k].words[2].head \in AnyLabel
  BY LineOfText, RoomAssumption DEF HasRoom, AnyLabel
<1>2. label \in LineCode(t) /\ ~IsJumpCode(label)
  <2>1. /\ Ail!SourceOf(t[k], k) \in Source /\ Ail!SourceOf(t[k], k).line \in 1 .. Len(t)
        /\ Ail!SourceOf(t[k], k).line <= LastLowered(t)
    BY LineOfText, SourceTyped
  <2> QED
    BY <1>1, <2>1, InstructionsTyped DEF IsJumpCode, Ail!LabelAt
<1> HIDE DEF label
<1>3. IsLowering(declared, t) /\ AddsNoJump(r, declared, k)
  BY <1>2, OneInstruction, EmitAdds
<1> HIDE DEF declared
<1>4. AddsNoJump(declared, s, k)
  BY <1>3, ReportAdds
<1>5. AddsNoJump(r, s, k)
  BY <1>3, <1>4, NoneTwice
<1> QED
  BY <1>3, <1>5, Zenon DEF Ail!ProcLine, label, declared

LEMMA CallAdds ==
  ASSUME NEW t \in Seq(SourceLines), NEW r, IsLowering(r, t), NEW k \in 1 .. Len(t),
         k <= LastLowered(t), Ail!CallsIn(t[k].words) # {}
  PROVE  AddsNoJump(r, Ail!CallLine(r, t[k], k), k)
<1> DEFINE chosen == CHOOSE c \in Ail!CallsIn(t[k].words) : TRUE
           code == [op |-> "call", source |-> Ail!SourceOf(t[k], k), target |-> chosen.target,
                    repeat |-> chosen.repeat]
           called == Ail!Emit(r, <<code>>)
           s == Ail!Report(called, "Warning", k, "call arguments")
<1>1. chosen.target \in Label /\ chosen.repeat \in Int
  <2>1. chosen \in Ail!CallsIn(t[k].words)
    BY Zenon
  <2> HIDE DEF chosen
  <2> QED
    BY <2>1, LineOfText, CallTyped
<1>2. code \in LineCode(t) /\ ~IsJumpCode(code)
  <2>1. /\ Ail!SourceOf(t[k], k) \in Source /\ Ail!SourceOf(t[k], k).line \in 1 .. Len(t)
        /\ Ail!SourceOf(t[k], k).line <= LastLowered(t)
    BY LineOfText, SourceTyped
  <2> HIDE DEF chosen
  <2>2. code \in LineCode(t)
    BY <1>1, <2>1, InstructionsTyped
  <2>3. ~IsJumpCode(code)
    BY DEF IsJumpCode
  <2> QED
    BY <2>2, <2>3
<1> HIDE DEF chosen, code
<1>3. IsLowering(called, t) /\ AddsNoJump(r, called, k)
  BY <1>2, OneInstruction, EmitAdds
<1> HIDE DEF called
<1>4. AddsNoJump(called, s, k)
  BY <1>3, ReportAdds
<1>5. AddsNoJump(r, s, k)
  BY <1>3, <1>4, NoneTwice
<1> QED
  BY <1>3, <1>5, Zenon DEF Ail!CallLine, chosen, code, called

(* Nothing, or one instruction that is no jump.                            *)
IsNoJump(code) == code = <<>> \/ \E i : code = <<i>> /\ ~IsJumpCode(i)

LEMMA OneNoJump ==
  ASSUME NEW i, ~IsJumpCode(i)
  PROVE  IsNoJump(<<i>>)
BY Zenon DEF IsNoJump

LEMMA WordIsNoJump ==
  ASSUME NEW w, NEW at
  PROVE  IsNoJump(Ail!WordCode(w, at))
<1>1. /\ IsNoJump(<<Ail!Modal(at, "rapid", w.head)>>)
      /\ IsNoJump(<<Ail!Modal(at, "plane", Ail!CodeName(w.value))>>)
      /\ IsNoJump(<<Ail!Modal(at, "radius", Ail!CodeName(w.value))>>)
      /\ IsNoJump(<<Ail!ToolSelect(at, w.head, w.value)>>)
      /\ IsNoJump(<<[op |-> "return", source |-> at]>>)
      /\ IsNoJump(<<>>)
  <2>1. /\ \A group, value : ~IsJumpCode(Ail!Modal(at, group, value))
        /\ \A head, value : ~IsJumpCode(Ail!ToolSelect(at, head, value))
        /\ ~IsJumpCode([op |-> "return", source |-> at])
    BY DEF IsJumpCode, Ail!Modal, Ail!ToolSelect
  <2>2. IsNoJump(<<>>)
    BY DEF IsNoJump
  <2> QED
    BY <2>1, <2>2, OneNoJump, Zenon
<1>2. IsNoJump(<<Ail!MInstruction(w, at)>>)
  <2>1. /\ ~IsJumpCode([op |-> "return", source |-> at])
        /\ ~IsJumpCode([op |-> "tool change", source |-> at])
        /\ ~IsJumpCode([op |-> "mcode", source |-> at, known |-> w.value \in Ail!PredefinedM])
    BY DEF IsJumpCode
  <2>2. ~IsJumpCode(Ail!MInstruction(w, at))
    BY <2>1, Zenon DEF Ail!MInstruction
  <2> QED
    BY <2>2, OneNoJump
<1> QED
  BY <1>1, <1>2, Zenon DEF Ail!WordCode

LEMMA WordAdds ==
  ASSUME NEW t, NEW r, IsLowering(r, t), NEW l, NEW k, NEW i
  PROVE  AddsNoJump(r, Ail!LowerWord(r, l, k, i), k)
<1> DEFINE w == l.words[i]
           code == Ail!WordCode(w, Ail!SourceOf(l, k))
           plane == IF Ail!IsG(w, 17 .. 19) THEN Ail!CodeName(w.value) ELSE r.plane
           rapid == IF w.head \in {"RTLION", "RTLIOF"} /\ code # <<>> THEN w.head ELSE r.rapid
           s == Ail!LowerWord(r, l, k, i)
           was == r.instructions \o code
<1>1. s = [r EXCEPT !.instructions = was, !.plane = plane, !.rapid = rapid]
  BY Zenon DEF Ail!LowerWord
<1>2. Jumps(was) <=> Jumps(r.instructions)
  <2>1. code = <<>> \/ \E j : code = <<j>> /\ ~IsJumpCode(j)
    BY WordIsNoJump, Zenon DEF IsNoJump
  <2> HIDE DEF code
  <2>2. CASE code = <<>>
    BY <2>2, CodeOfLowering
  <2>3. CASE \E j : code = <<j>> /\ ~IsJumpCode(j)
    <3>1. PICK j : code = <<j>> /\ ~IsJumpCode(j)
      BY <2>3
    <3>2. code \in Seq({j}) /\ ~Jumps(code)
      BY <3>1, OneJump
    <3> QED
      BY <3>2, MoreJumps, Zenon
  <2> QED
    BY <2>1, <2>2, <2>3
<1>3. r = [instructions |-> r.instructions, diagnostics |-> r.diagnostics,
           messages |-> r.messages, rejected |-> r.rejected, ifs |-> r.ifs,
           labels |-> r.labels, plane |-> r.plane, rapid |-> r.rapid]
  BY FieldsOfLowering DEF IsLowering
<1> HIDE DEF s, was, plane, rapid
<1>4. s.instructions = was /\ s.diagnostics = r.diagnostics
  BY <1>1, <1>3
<1> QED
  BY <1>2, <1>4, Zenon DEF AddsNoJump, JumpsAlike, BlamesOnly, s

LEMMA MotionAdds ==
  ASSUME NEW t, NEW r, IsLowering(r, t), NEW l, NEW k
  PROVE  AddsNoJump(r, Ail!LowerMotion(r, l, k), k)
<1> DEFINE own == {i \in DOMAIN r.messages : r.messages[i].line = k}
           move == Ail!MoveOf(r.messages[CHOOSE i \in own : TRUE], l, Ail!SourceOf(l, k), r)
<1>1. ~IsJumpCode(move)
  BY DEF IsJumpCode, Ail!MoveOf
<1> HIDE DEF move
<1>2. AddsNoJump(r, Ail!Emit(r, <<move>>), k)
  BY <1>1, EmitAdds
<1> QED
  BY <1>2, NothingAdded, Zenon DEF Ail!LowerMotion, move

LEMMA WordsAdd ==
  ASSUME NEW t \in Seq(SourceLines), NEW r, IsLowering(r, t), NEW k \in 1 .. Len(t),
         k <= LastLowered(t), ~Ail!BreaksRule(t[k])
  PROVE  AddsNoJump(r, Ail!WordsLine(r, t[k], k), k)
<1> DEFINE l == t[k]
           last == Len(l.words)
           S == {n \in Nat : n <= last => /\ IsLowering(WordLoop!After(<<r, l, k>>, n), t)
                                          /\ AddsNoJump(r, WordLoop!After(<<r, l, k>>, n), k)}
<1>1. l \in SourceLines /\ last \in Nat /\ DOMAIN l.words = 1 .. last
  <2>1. l \in SourceLines /\ l \in Ail!TextLine
    BY LineOfText
  <2> QED
    BY <2>1 DEF Ail!TextLine
<1>2. 0 \in S
  <2>1. WordLoop!After(<<r, l, k>>, 0) = r
    BY WordLoop!LoopStarts
  <2> QED
    BY <2>1, NothingAdded
<1>3. ASSUME NEW n \in Nat, n \in S PROVE n + 1 \in S
  <2> DEFINE s == WordLoop!After(<<r, l, k>>, n)
             u == WordLoop!After(<<r, l, k>>, n + 1)
  <2> SUFFICES ASSUME n + 1 <= last PROVE IsLowering(u, t) /\ AddsNoJump(r, u, k)
    OBVIOUS
  <2>1. u = Ail!LowerWord(s, l, k, n + 1)
    BY WordLoop!LoopSteps
  <2>2. IsLowering(s, t) /\ AddsNoJump(r, s, k)
    BY <1>1, <1>3
  <2>3. n + 1 \in DOMAIN l.words
    BY <1>1
  <2> HIDE DEF s, u
  <2>4. IsLowering(Ail!LowerWord(s, l, k, n + 1), t)
    BY <2>2, <2>3, LowerWordTyped
  <2>5. AddsNoJump(s, Ail!LowerWord(s, l, k, n + 1), k)
    BY <2>2, WordAdds
  <2>6. AddsNoJump(r, u, k)
    BY <2>1, <2>2, <2>5, NoneTwice
  <2> QED
    BY <2>1, <2>4, <2>6
<1>4. Nat \subseteq S
  <2> HIDE DEF S
  <2> QED
    BY <1>2, <1>3, WordLoop!SetInduction
<1> DEFINE s == WordLoop!After(<<r, l, k>>, last)
<1>5. IsLowering(s, t) /\ AddsNoJump(r, s, k)
  BY <1>1, <1>4
<1>6. Ail!WordsLine(r, l, k) = Ail!LowerMotion(s, l, k)
  BY WordsWhole
<1> HIDE DEF s
<1>7. AddsNoJump(s, Ail!LowerMotion(s, l, k), k)
  BY <1>5, MotionAdds
<1> QED
  BY <1>5, <1>6, <1>7, NoneTwice, Zenon

LEMMA KindOfJump ==
  ASSUME NEW l \in SourceLines
  PROVE  /\ l.statement.kind \in JumpKinds => Ail!KindOf(l) = l.statement.kind
         /\ Ail!KindOf(l) \in JumpKinds => l.statement.kind = Ail!KindOf(l)
<1>1. ASSUME l.statement.kind \in JumpKinds PROVE Ail!KindOf(l) = l.statement.kind
  <2>1. l.words = <<>>
    BY <1>1, LinesAssumption DEF JumpKinds
  <2>2. ~Ail!IsMalformedProc(l) /\ ~Ail!IsProc(l)
    BY <1>1, <2>1 DEF JumpKinds, Ail!IsMalformedProc, Ail!IsProc
  <2>3. Ail!CallsIn(l.words) = {}
    <3>1. Len(l.words) = 0
      BY <2>1
    <3> QED
      BY <3>1 DEF Ail!CallsIn, Ail!IsIsoCall
  <2> QED
    BY <1>1, <2>2, <2>3 DEF JumpKinds, Ail!KindOf
<1>2. l.statement.kind \in {"none", "assign", "if", "else", "endif", "label", "goto", "if goto", "loop"}
  BY LinesAssumption DEF Ail!TextLine, Ail!Statement
<1> QED
  BY <1>1, <1>2 DEF JumpKinds, Ail!KindOf

(* A line that is not passed over.                                         *)
LEMMA LineAdds ==
  ASSUME NEW t \in Seq(SourceLines), NEW r, IsLowering(r, t), NEW k \in 1 .. Len(t),
         k <= LastLowered(t), ~Ail!Passed(r, t[k], k)
  PROVE  IF t[k].statement.kind \in JumpKinds
         THEN AddsJump(r, Ail!AilLine(r, t[k], k))
         ELSE AddsNoJump(r, Ail!AilLine(r, t[k], k), k)
<1> DEFINE l == t[k]
           kind == Ail!KindOf(l)
<1>1. ~Ail!BreaksRule(l) /\ l \in SourceLines
  BY SoundLine, LineOfText
<1>2. kind \in {"assign", "if", "else", "endif", "label", "goto", "if goto", "malformed",
                "proc", "call", "words", "loop"}
  BY LineOfText DEF Ail!KindOf, Ail!TextLine, Ail!Statement
<1>3. l.statement.kind \notin {"malformed", "proc", "call", "words"}
  BY LineOfText DEF Ail!TextLine, Ail!Statement
<1>4. /\ kind = "proc" => Ail!IsProc(l)
      /\ kind = "call" => Ail!CallsIn(l.words) # {}
  BY <1>3 DEF Ail!KindOf
<1>5. kind \in JumpKinds <=> l.statement.kind \in JumpKinds
  BY <1>1, KindOfJump
<1>6. kind = "if" => AddsJump(r, Ail!IfLine(r, l, k))
  <2>1. kind = "if" => l.statement.kind = "if"
    BY <1>1, KindOfJump DEF JumpKinds
  <2> QED
    BY <2>1, IfAdds
<1>7. AddsJump(r, Ail!GotoLine(r, l, k)) /\ AddsJump(r, Ail!IfGotoLine(r, l, k))
  BY JumpsAdd
<1>8. /\ AddsNoJump(r, Ail!AssignLine(r, l, k), k) /\ AddsNoJump(r, Ail!LabelLine(r, l, k), k)
      /\ AddsNoJump(r, Ail!EndIfLine(r, l, k), k)
      /\ AddsNoJump(r, Ail!Report(r, "Error", k, "malformed PROC"), k)
  BY AssignAdds, LabelAdds, EndIfAdds, ReportAdds
<1>9. AddsNoJump(r, Ail!ElseLine(r, l, k), k)
  BY ElseLineAdds
<1>10. kind = "proc" => AddsNoJump(r, Ail!ProcLine(r, l, k), k)
  BY <1>4, ProcAdds
<1>11. kind = "call" => AddsNoJump(r, Ail!CallLine(r, l, k), k)
  BY <1>4, CallAdds
<1>12. AddsNoJump(r, Ail!WordsLine(r, l, k), k) /\ AddsNoJump(r, r, k)
  BY <1>1, WordsAdd, NothingAdded
<1> HIDE DEF l
<1>13. CASE kind = "if"
  BY <1>5, <1>6, <1>13, Zenon DEF Ail!AilLine, l, JumpKinds
<1>14. CASE kind \in {"goto", "if goto"}
  BY <1>5, <1>7, <1>14, Zenon DEF Ail!AilLine, l, JumpKinds
<1>15. CASE kind \notin JumpKinds
  <2>1. AddsNoJump(r, Ail!AilLine(r, t[k], k), k)
    BY <1>2, <1>8, <1>9, <1>10, <1>11, <1>12, <1>15, Zenon DEF Ail!AilLine, l, JumpKinds
  <2> QED
    BY <1>5, <1>15, <2>1, Zenon DEF l
<1> QED
  BY <1>13, <1>14, <1>15, Zenon DEF JumpKinds

----------------------------------------------------------------------------
(* The jumps of a whole text.                                              *)

LEMMA SameSkips == \A l : Msg!Skipped(l) = Ail!Skipped(l)
BY Zenon DEF Msg!Skipped, Ail!Skipped, Msg!Unreadable, Ail!Unreadable

(* The line an error of the messages stands at is rejected, or skipped.    *)
LEMMA BlamedIsSkipped ==
  ASSUME NEW t \in Seq(SourceLines), NEW k \in 1 .. Len(t), k <= LastLowered(t),
         Ail!HasError(Ail!LowerToMessages(t).diagnostics, k)
  PROVE  Ail!Skipped(t[k])
<1> DEFINE low == Ail!LowerToMessages(t)
           n == low.rejected
<1>1. Msg!LowerToMessages(t) = low
  BY SameMessages
<1>2. Msg!IsText(t) /\ Len(t) \in Nat /\ n \in {Ail!NoValue} \cup 1 .. Len(t)
  BY LineOfText, MessagesOfText
<1>3. LastLowered(t) = IF n = Ail!NoValue THEN Len(t) ELSE n - 1
  BY DEF LastLowered, Ail!LastLine, Ail!Start
<1>4. Msg!IsResult(t, low, Len(t))
  BY <1>1, Msg!LoweredMessages, MsgAssumptions
<1>5. Msg!BadInItself(t[k]) => n # Ail!NoValue /\ n <= k
  BY <1>1, MsgAssumptions, Msg!RejectsFirstBad DEF Msg!NoValue, Ail!NoValue
<1>6. k \in Msg!ErrorLines(low.diagnostics)
  BY DEF Ail!HasError, Msg!ErrorLines
<1> HIDE DEF low
<1>7. k \in Msg!FaultyLines(t) \/ k = n
  BY <1>4, <1>6 DEF Msg!IsResult
<1> HIDE DEF n
<1>8. k # n /\ ~(n # Ail!NoValue /\ n <= k)
  BY <1>2, <1>3 DEF Ail!NoValue
<1>9. t[k].broken \/ Msg!BreaksRule(t[k])
  <2>1. Msg!ErrorLines(Msg!ParseDiagnostics(t)) = {m \in 1 .. Len(t) : t[m].broken \/ Msg!BreaksRule(t[m])}
    BY <1>2, Msg!ParseErrors, MsgAssumptions
  <2> QED
    BY <1>7, <1>8, <2>1, Zenon DEF Msg!FaultyLines
<1>10. Msg!Skipped(t[k])
  BY <1>5, <1>8, <1>9, Zenon DEF Msg!BadInItself
<1> QED
  BY <1>10, SameSkips, Zenon

(* What the loop has behind line n of t.                                   *)
JumpsUpTo(r, t, n) == Jumps(r.instructions) <=> \E k \in 1 .. n : JumpLine(t[k])
BlamedLater(r, t, n) ==
  \A j \in n + 1 .. Len(t) :
    Ail!HasError(r.diagnostics, j) => Ail!HasError(Ail!LowerToMessages(t).diagnostics, j)
JumpsFound(r, t, n) == JumpsUpTo(r, t, n) /\ BlamedLater(r, t, n)

LEMMA RoundFinds ==
  ASSUME NEW t \in Seq(SourceLines), NEW r, IsLowering(r, t), NEW n \in Nat,
         n + 1 <= LastLowered(t), n + 1 \in 1 .. Len(t), JumpsFound(r, t, n)
  PROVE  JumpsFound(AilRound(t, r, n + 1), t, n + 1)
<1> DEFINE k == n + 1
           next == AilRound(t, r, k)
<1>1. Len(t) \in Nat /\ k \in 1 .. Len(t) /\ k <= LastLowered(t)
  BY LineOfText
<1>2. \A j \in k + 1 .. Len(t) : j \in n + 1 .. Len(t) /\ j # k /\ j \in Nat
  BY <1>1
<1>3. (\E j \in 1 .. k : JumpLine(t[j])) <=> (\E j \in 1 .. n : JumpLine(t[j])) \/ JumpLine(t[k])
  <2>1. 1 .. k = (1 .. n) \cup {k}
    OBVIOUS
  <2> QED
    BY <2>1, Zenon
<1>4. k \in n + 1 .. Len(t)
  BY <1>1
<1> HIDE DEF k, next
<1>5. CASE Ail!Passed(r, t[k], k)
  <2>1. next = r
    BY <1>5, Zenon DEF AilRound, next
  <2>2. Ail!Skipped(t[k])
    <3>1. Ail!HasError(r.diagnostics, k) => Ail!HasError(Ail!LowerToMessages(t).diagnostics, k)
      BY <1>4, Zenon DEF JumpsFound, BlamedLater
    <3> QED
      BY <1>1, <1>5, <3>1, BlamedIsSkipped, Zenon DEF Ail!Passed
  <2>3. ~JumpLine(t[k])
    BY <2>2, Zenon DEF JumpLine
  <2>4. JumpsUpTo(r, t, k)
    BY <1>3, <2>3, Zenon DEF JumpsFound, JumpsUpTo
  <2>5. BlamedLater(r, t, k)
    BY <1>2, Zenon DEF JumpsFound, BlamedLater
  <2> QED
    BY <2>1, <2>4, <2>5, Zenon DEF JumpsFound, next, k
<1>6. CASE ~Ail!Passed(r, t[k], k)
  <2>1. next = Ail!AilLine(r, t[k], k)
    BY <1>6, Zenon DEF AilRound, next
  <2>2. ~Ail!Skipped(t[k])
    BY <1>6, Zenon DEF Ail!Passed
  <2>3. CASE t[k].statement.kind \in JumpKinds
    <3>1. AddsJump(r, next) /\ JumpLine(t[k])
      BY <1>1, <1>6, <2>1, <2>2, <2>3, LineAdds, Zenon DEF JumpLine
    <3>2. JumpsUpTo(next, t, k)
      BY <1>3, <3>1, Zenon DEF JumpsUpTo, AddsJump
    <3>3. BlamedLater(next, t, k)
      BY <1>2, <3>1, Zenon DEF JumpsFound, BlamedLater, AddsJump
    <3> QED
      BY <3>2, <3>3, Zenon DEF JumpsFound, next, k
  <2>4. CASE t[k].statement.kind \notin JumpKinds
    <3>1. AddsNoJump(r, next, k) /\ ~JumpLine(t[k])
      BY <1>1, <1>6, <2>1, <2>4, LineAdds, Zenon DEF JumpLine
    <3>2. JumpsUpTo(next, t, k)
      BY <1>3, <3>1, Zenon DEF JumpsFound, JumpsUpTo, AddsNoJump, JumpsAlike
    <3>3. BlamedLater(next, t, k)
      BY <1>2, <3>1, Zenon DEF JumpsFound, BlamedLater, AddsNoJump, BlamesOnly
    <3> QED
      BY <3>2, <3>3, Zenon DEF JumpsFound, next, k
  <2> QED
    BY <2>3, <2>4
<1> QED
  BY <1>5, <1>6, Zenon

LEMMA TextFinds ==
  ASSUME NEW t \in Seq(SourceLines)
  PROVE  \A n \in 0 .. LastLowered(t) : JumpsFound(AilLoop!After(t, n), t, n)
<1> DEFINE S == {n \in Nat : n <= LastLowered(t) => JumpsFound(AilLoop!After(t, n), t, n)}
<1>1. 0 \in S
  <2> DEFINE start == Ail!Start(Ail!LowerToMessages(t))
  <2>1. AilLoop!After(t, 0) = start
    BY AilLoop!LoopStarts
  <2>2. start.instructions = <<>> /\ start.diagnostics = Ail!LowerToMessages(t).diagnostics
    BY DEF Ail!Start
  <2> HIDE DEF start
  <2>3. ~Jumps(start.instructions)
    BY <2>2 DEF Jumps
  <2>4. JumpsUpTo(start, t, 0)
    <3>1. 1 .. 0 = {}
      OBVIOUS
    <3> QED
      BY <2>3, <3>1, Zenon DEF JumpsUpTo
  <2>5. BlamedLater(start, t, 0)
    BY <2>2, Zenon DEF BlamedLater
  <2>6. JumpsFound(AilLoop!After(t, 0), t, 0)
    BY <2>1, <2>4, <2>5, Zenon DEF JumpsFound
  <2> QED
    BY <2>6
<1>2. ASSUME NEW n \in Nat, n \in S PROVE n + 1 \in S
  <2> DEFINE r == AilLoop!After(t, n)
  <2> SUFFICES ASSUME n + 1 <= LastLowered(t) PROVE JumpsFound(AilLoop!After(t, n + 1), t, n + 1)
    OBVIOUS
  <2>0. LastLowered(t) \in Nat /\ LastLowered(t) <= Len(t) /\ Len(t) \in Nat
    BY StartLowered, LineOfText DEF LastLowered
  <2>1. AilLoop!After(t, n + 1) = AilRound(t, r, n + 1)
    BY AilLoop!LoopSteps
  <2>2. IsLowering(r, t)
    <3>1. n \in 0 .. LastLowered(t)
      BY <2>0
    <3> QED
      BY <3>1, TextLowered
  <2>3. JumpsFound(r, t, n) /\ n + 1 \in 1 .. Len(t)
    BY <1>2, <2>0
  <2> HIDE DEF r
  <2>4. JumpsFound(AilRound(t, r, n + 1), t, n + 1)
    BY <2>2, <2>3, RoundFinds
  <2> QED
    BY <2>1, <2>4
<1>3. Nat \subseteq S
  <2> HIDE DEF S
  <2> QED
    BY <1>1, <1>2, AilLoop!SetInduction
<1> QED
  BY <1>3

(* A text is lowered to a jump when a line that is lowered is one.         *)
LEMMA JumpsOfText ==
  ASSUME NEW t \in Seq(SourceLines)
  PROVE  Jumps(Ail!LowerToAil(t).instructions) <=> \E k \in 1 .. LastLowered(t) : JumpLine(t[k])
<1> DEFINE last == LastLowered(t)
           r == AilLoop!After(t, last)
<1>1. last \in 0 .. last
  BY StartLowered DEF LastLowered
<1>2. IsLowering(r, t) /\ JumpsFound(r, t, last)
  BY <1>1, TextLowered, TextFinds
<1>3. Ail!LowerToAil(t) = Ail!Finish(r)
  BY AilWhole DEF LastLowered
<1> HIDE DEF r, last
<1> DEFINE ds == r.diagnostics \o [i \in DOMAIN r.ifs |->
             Ail!Diag("Error", r.instructions[r.ifs[i].branch].source.line, "missing ENDIF")]
           low == Ail!LowerToAil(t)
<1>4. low = [r EXCEPT !.diagnostics = ds]
  BY <1>3, Zenon DEF Ail!Finish
<1>5. r = [instructions |-> r.instructions, diagnostics |-> r.diagnostics,
           messages |-> r.messages, rejected |-> r.rejected, ifs |-> r.ifs,
           labels |-> r.labels, plane |-> r.plane, rapid |-> r.rapid]
  BY <1>2, FieldsOfLowering DEF IsLowering
<1> HIDE DEF ds, low
<1>6. low.instructions = r.instructions
  BY <1>4, <1>5
<1> QED
  BY <1>2, <1>6, Zenon DEF JumpsFound, JumpsUpTo, low, last

----------------------------------------------------------------------------
(* A piece of a text without jumps has none.                               *)

LEMMA RenumberedOp ==
  ASSUME NEW i \in Instruction, NEW n
  PROVE  [i EXCEPT !.source.line = n].op = i.op
BY DEF Instruction

LEMMA JumpsOfLines ==
  ASSUME NEW p \in Seq(PendingLine)
  PROVE  Jumps(Lowered(p).code) <=> \E k \in 1 .. LastLowered(LinesOf(p)) : JumpLine(LinesOf(p)[k])
<1> DEFINE t == LinesOf(p)
           r == Ail!LowerToAil(t)
<1>1. t \in Seq(SourceLines)
  BY LinesTyped
<1>2. r.instructions \in Seq(LineCode(t))
  BY <1>1, AilOfText
<1>3. Lowered(p) = WithLines(r, p)
  BY DEF Lowered
<1>4. Jumps(r.instructions) <=> \E k \in 1 .. LastLowered(t) : JumpLine(t[k])
  BY <1>1, JumpsOfText
<1> HIDE DEF r, t
<1>5. Lowered(p).code = [x \in DOMAIN r.instructions |->
                           [r.instructions[x] EXCEPT !.source.line = p[@].line]]
  BY <1>3 DEF WithLines
<1>6. ASSUME NEW x \in DOMAIN r.instructions
      PROVE  Lowered(p).code[x].op = r.instructions[x].op
  <2> DEFINE i == r.instructions[x]
  <2>1. i \in Instruction
    BY <1>2 DEF LineCode
  <2>2. Lowered(p).code[x] = [i EXCEPT !.source.line = p[i.source.line].line]
    BY <1>5
  <2> HIDE DEF i
  <2> QED
    BY <2>1, <2>2, RenumberedOp DEF i
<1>7. DOMAIN Lowered(p).code = DOMAIN r.instructions
  BY <1>5
<1>8. Jumps(Lowered(p).code) <=> Jumps(r.instructions)
  BY <1>6, <1>7, Zenon DEF Jumps, IsJumpCode
<1> QED
  BY <1>4, <1>8, Zenon DEF t

(* What is lowered of a text stands before its first bad line, and without *)
(* arcs nothing else is left out.                                          *)
LEMMA GoodLinesLowered ==
  ASSUME NEW t \in Seq(SourceLines), NEW k \in 1 .. Len(t)
  PROVE  /\ k <= LastLowered(t) => \A j \in 1 .. k : ~Msg!BadInItself(t[j])
         /\ ~HasArc(t) /\ GoodUpTo(t, k) => k <= LastLowered(t)
<1> DEFINE n == Ail!LowerToMessages(t).rejected
           last == LastLowered(t)
<1>1. Len(t) \in Nat /\ n \in {Ail!NoValue} \cup 1 .. Len(t) /\ Ail!NoValue \notin Nat
  BY LineOfText, MessagesOfText DEF Ail!NoValue
<1>2. last = IF n = Ail!NoValue THEN Len(t) ELSE n - 1
  BY DEF LastLowered, Ail!LastLine, Ail!Start
<1>3. /\ n # Ail!NoValue => MayReject(t[n])
      /\ \A j \in 1 .. Len(t) : Msg!BadInItself(t[j]) => n # Ail!NoValue /\ n <= j
  <2>1. n = Msg!LowerToMessages(t).rejected
    BY SameMessages DEF n
  <2> QED
    BY <2>1, MsgAssumptions, Msg!RejectsFirstBad DEF Msg!NoValue, Ail!NoValue, MayReject
<1> HIDE DEF n, last
<1>4. ASSUME k <= last, NEW j \in 1 .. k PROVE ~Msg!BadInItself(t[j])
  <2>1. j \in 1 .. Len(t) /\ ~(n # Ail!NoValue /\ n <= j)
    BY <1>1, <1>2, <1>4
  <2> QED
    BY <1>3, <2>1
<1>5. ASSUME ~HasArc(t), GoodUpTo(t, k) PROVE k <= last
  <2>1. CASE n = Ail!NoValue
    BY <1>1, <1>2, <2>1
  <2>2. CASE n # Ail!NoValue
    <3>1. n \in 1 .. Len(t) /\ MayReject(t[n])
      BY <1>1, <1>3, <2>2
    <3>2. Msg!BadInItself(t[n])
      BY <1>5, <3>1, NoArcs
    <3>3. ~(n \in 1 .. k)
      BY <1>5, <3>2, Zenon DEF GoodUpTo
    <3> QED
      BY <1>1, <1>2, <2>2, <3>1, <3>3
  <2> QED
    BY <2>1, <2>2
<1> QED
  BY <1>4, <1>5 DEF last

LEMMA LinesOfPiece ==
  ASSUME NEW t \in Seq(SourceLines), NEW to \in 0 .. Len(t), NEW from \in 0 .. to
  PROVE  LET p == Piece(t, from, to) IN
         /\ p \in Seq(PendingLine) /\ LinesOf(p) \in Seq(SourceLines)
         /\ Len(LinesOf(p)) = to - from /\ \A k \in 1 .. to - from : LinesOf(p)[k] = t[from + k]
<1> DEFINE p == Piece(t, from, to)
<1>1. Len(t) \in Nat /\ to \in Nat /\ from \in Nat /\ from <= to
  OBVIOUS
<1>2. p \in Seq(PendingLine) /\ Len(p) = to - from
  BY <1>1, PieceTyped
<1>3. \A k \in 1 .. to - from : p[k].src = t[from + k]
  BY DEF Piece
<1> HIDE DEF p
<1>4. /\ LinesOf(p) \in Seq(SourceLines) /\ Len(LinesOf(p)) = Len(p)
      /\ \A k \in 1 .. Len(p) : LinesOf(p)[k] = p[k].src
  BY <1>2, LinesTyped
<1> QED
  BY <1>2, <1>3, <1>4 DEF p

(* A piece of a text without jumps, behind a good line, has none either.   *)
LEMMA PieceJumps ==
  ASSUME NEW t \in Seq(SourceLines), ~HasArc(t), ~HasJump(t), NEW to \in 0 .. Len(t),
         NEW from \in 0 .. to, GoodUpTo(t, from)
  PROVE  ~Jumps(Lowered(Piece(t, from, to)).code)
<1> DEFINE p == Piece(t, from, to)
           ls == LinesOf(p)
           all == Piece(t, 0, Len(t))
<1>1. Len(t) \in Nat /\ to \in Nat /\ from \in 0 .. Len(t) /\ from <= to /\ Len(t) \in 0 .. Len(t)
      /\ 0 \in 0 .. Len(t)
  OBVIOUS
<1>2. /\ p \in Seq(PendingLine) /\ ls \in Seq(SourceLines) /\ Len(ls) = to - from
      /\ \A k \in 1 .. to - from : ls[k] = t[from + k]
  BY LinesOfPiece
<1>3. /\ all \in Seq(PendingLine) /\ LinesOf(all) \in Seq(SourceLines) /\ Len(LinesOf(all)) = Len(t)
      /\ \A k \in 1 .. Len(t) : LinesOf(all)[k] = t[k]
  <2>1. /\ all \in Seq(PendingLine) /\ LinesOf(all) \in Seq(SourceLines)
        /\ Len(LinesOf(all)) = Len(t) - 0 /\ \A k \in 1 .. Len(t) - 0 : LinesOf(all)[k] = t[0 + k]
    BY <1>1, LinesOfPiece
  <2> HIDE DEF all
  <2> QED
    BY <1>1, <2>1
<1>4. LinesOf(all) = t
  BY <1>1, <1>3
<1>5. ~Jumps(Lowered(all).code)
  BY Zenon DEF HasJump, Whole, WholeText, Jumps, IsJumpCode
<1> HIDE DEF p, all
<1>6. ASSUME NEW k \in 1 .. LastLowered(ls) PROVE ~JumpLine(ls[k])
  <2>1. LastLowered(ls) \in 0 .. Len(ls)
    BY <1>2, StartLowered DEF LastLowered
  <2>2. k \in 1 .. Len(ls) /\ k <= LastLowered(ls)
    BY <1>1, <1>2, <2>1
  <2>3. \A j \in 1 .. k : ~Msg!BadInItself(ls[j])
    BY <1>2, <2>2, GoodLinesLowered
  <2>4. k \in 0 .. Len(t) - from /\ from + k \in 1 .. Len(t) /\ 1 .. k \subseteq 1 .. to - from
        /\ k \in 1 .. to - from
    BY <1>1, <1>2, <2>2
  <2>5. \A j \in 1 .. k : ~Msg!BadInItself(t[from + j])
    BY <1>2, <2>3, <2>4, Zenon
  <2>6. GoodUpTo(t, from + k)
    BY <1>1, <2>4, <2>5, GoodBehind
  <2>7. from + k <= LastLowered(t)
    BY <2>4, <2>6, GoodLinesLowered
  <2>8. from + k \in 1 .. LastLowered(t)
    <3>1. LastLowered(t) \in 0 .. Len(t)
      BY StartLowered DEF LastLowered
    <3> QED
      BY <1>1, <2>4, <2>7, <3>1
  <2>9. ~JumpLine(t[from + k])
    BY <1>3, <1>4, <1>5, <2>8, JumpsOfLines
  <2> QED
    BY <1>2, <2>4, <2>9
<1> QED
  BY <1>2, <1>6, JumpsOfLines DEF p

LEMMA BufferJumps ==
  ASSUME EngineInv, OnlyGood, ~HasArc(text), ~HasJump(text)
  PROVE  ~Jumps(Lowered(pending).code)
<1>1. text \in Seq(SourceLines) /\ fed \in 0 .. Len(text)
  BY TextTyped
<1>2. PICK from \in 0 .. fed : pending = Piece(text, from, fed) /\ GoodUpTo(text, from)
  BY Zenon DEF OnlyGood, BufferSound
<1> QED
  BY <1>1, <1>2, PieceJumps

----------------------------------------------------------------------------
(* Only a jump faults for a target that is missing, and so only a jump can *)
(* make the engine drop an executor with the tools it has changed.         *)

(* Why the executor faults, if it does.                                    *)
LastReason == diagnostics'[Len(diagnostics')].why
FaultsFor(reasons) == status' = "Fault" => LastReason \in reasons

NoJumpReason == Reason \ UnresolvedJumps

LEMMA LastOfMore ==
  ASSUME NEW S, NEW s \in Seq(S), NEW last \in S
  PROVE  Append(s, last)[Len(Append(s, last))] = last
OBVIOUS

LEMMA FaultNames ==
  ASSUME TypeOK, NEW why \in Reason, NEW next, Fault(why, next)
  PROVE  LastReason = why
<1>1. Diag("Error", why) \in Diagnostic /\ Diag("Error", why).why = why
  BY DEF Diag, Diagnostic
<1>2. diagnostics \in Seq(Diagnostic) /\ diagnostics' = Append(diagnostics, Diag("Error", why))
  BY DEF TypeOK, ControlOK, Fault
<1> DEFINE last == Diag("Error", why)
<1> HIDE DEF last
<1>3. diagnostics'[Len(diagnostics')] = last
  BY <1>1, <1>2, LastOfMore DEF last
<1> QED
  BY <1>1, <1>3 DEF LastReason, last

LEMMA NoFault == ASSUME NEW reasons, status' # "Fault" PROVE FaultsFor(reasons)
BY DEF FaultsFor

LEMMA FaultsByName ==
  ASSUME TypeOK, NEW why \in NoJumpReason, NEW next, Fault(why, next)
  PROVE  FaultsFor(NoJumpReason)
BY FaultNames DEF FaultsFor, NoJumpReason

LEMMA PolicyNames ==
  ASSUME TypeOK, NEW policy, NEW why \in NoJumpReason, ByPolicy(policy, why)
  PROVE  FaultsFor(NoJumpReason)
BY FaultsByName, NoFault DEF ByPolicy, ContinueWith

LEMMA OtherReasons ==
  {"condition", "operator", "assignment", "system variable", "system variable write",
   "unsupported M function", "runtime", "tool selection", "M6 without tool",
   "unresolved subprogram target", "empty call stack"} \subseteq NoJumpReason
BY DEF NoJumpReason, Reason, UnresolvedJumps

LEMMA ReadNoFault == ASSUME NEW outcome, WaitForRead(outcome) PROVE status' # "Fault"
BY DEF WaitForRead, Wait

LEMMA DispatchMoveNames ==
  ASSUME TypeOK, NEW whole, DispatchMove(whole)
  PROVE  FaultsFor(NoJumpReason)
<1>1. status' # "Fault" \/ Fault("runtime", At)
  BY DEF DispatchMove, Continue, ContinueWith, Wait
<1> QED
  BY <1>1, NoFault, FaultsByName, OtherReasons

LEMMA DispatchToolNames ==
  ASSUME TypeOK, NEW t, NEW pendingAtError, NEW warnings \in Seq(Diagnostic),
         DispatchToolChange(t, pendingAtError, warnings)
  PROVE  FaultsFor(NoJumpReason)
<1>1. \/ status' # "Fault"
      \/ diagnostics' = (diagnostics \o warnings) \o <<Diag("Error", "runtime")>>
  BY DEF DispatchToolChange, MountedNow, ContinueWith
<1>2. CASE diagnostics' = (diagnostics \o warnings) \o <<Diag("Error", "runtime")>>
  <2> DEFINE last == Diag("Error", "runtime")
             before == diagnostics \o warnings
  <2>1. last \in Diagnostic /\ last.why = "runtime"
    BY DEF Diag, Diagnostic, Reason
  <2>2. before \in Seq(Diagnostic)
    BY DEF TypeOK, ControlOK
  <2> HIDE DEF last, before
  <2>3. diagnostics' = Append(before, last)
    BY <1>2, <2>1, <2>2 DEF last, before
  <2>4. LastReason = "runtime"
    BY <2>1, <2>2, <2>3, LastOfMore DEF LastReason
  <2> QED
    BY <2>4, OtherReasons DEF FaultsFor
<1> QED
  BY <1>1, <1>2, NoFault

LEMMA SelectNames == ASSUME TypeOK, ~AtEnd, HandleToolSelect PROVE FaultsFor(NoJumpReason)
<1>1. Fetch.op = "tool select" /\ Fetch.tool \in Tool
  BY FetchType, InstructionFields DEF HandleToolSelect
<1> DEFINE r == options.resolve[Fetch.tool]
<1>2. SubstitutionWarning(r) \in Seq(Diagnostic)
  BY SubstitutionTyped
<1> HIDE DEF r
<1>3. \/ status' # "Fault"
      \/ DispatchToolChange(r.tool, NoTool, SubstitutionWarning(r))
      \/ Fault("tool selection", At + 1)
      \/ ByPolicy(FailurePolicy(r), "tool selection")
  BY DEF HandleToolSelect, SelectNow, Continue, ContinueWith, r
<1> QED
  BY <1>2, <1>3, NoFault, DispatchToolNames, FaultsByName, PolicyNames, OtherReasons

LEMMA ChangeNames == ASSUME TypeOK, ~AtEnd, HandleToolChange PROVE FaultsFor(NoJumpReason)
<1> DEFINE r == options.resolve[pendingTool]
<1>1. SubstitutionWarning(r) \in Seq(Diagnostic) /\ <<>> \in Seq(Diagnostic)
  BY SubstitutionTyped
<1> HIDE DEF r
<1>2. \/ DispatchToolChange(r.tool, pendingTool, SubstitutionWarning(r))
      \/ ByPolicy(FailurePolicy(r), "tool selection")
      \/ DispatchToolChange(WokenActive, NoTool, <<>>)
      \/ ByPolicy(options.m6WithoutPending, "M6 without tool")
  BY DEF HandleToolChange, r
<1> QED
  BY <1>1, <1>2, DispatchToolNames, PolicyNames, OtherReasons

(* Only a jump faults for a target that is not there.                      *)
LEMMA FaultIsNoJump ==
  ASSUME TypeOK, Advance, ~AtEnd => ~IsJumpCode(Fetch)
  PROVE  FaultsFor(NoJumpReason)
<1>1. CASE AtEnd /\ Completes
  BY <1>1, NoFault DEF Completes
<1>2. CASE HandleLabel \/ HandleModal
  BY <1>2, NoFault DEF HandleLabel, HandleModal, Continue, ContinueWith
<1>3. CASE ~AtEnd /\ (HandleGoto \/ HandleBranch)
  BY <1>3 DEF HandleGoto, HandleBranch, IsJumpCode
<1>4. CASE HandleAssign
  <2>1. \/ status' # "Fault" \/ Fault("assignment", At) \/ Fault("system variable write", At)
    BY <1>4, ReadNoFault DEF HandleAssign, Continue, ContinueWith
  <2> QED
    BY <2>1, NoFault, FaultsByName, OtherReasons
<1>5. CASE HandleMCode
  BY <1>5, NoFault, PolicyNames, OtherReasons DEF HandleMCode, Continue, ContinueWith
<1>6. CASE ~AtEnd /\ (HandleToolSelect \/ HandleToolChange)
  BY <1>6, SelectNames, ChangeNames
<1>7. CASE HandleMove
  <2>1. \/ status' # "Fault" \/ (\E whole : DispatchMove(whole)) \/ Fault("system variable", At)
    BY <1>7, ReadNoFault DEF HandleMove, Continue, ContinueWith
  <2> QED
    BY <2>1, NoFault, DispatchMoveNames, FaultsByName, OtherReasons
<1>8. CASE HandleCall
  <2>1. \/ status' # "Fault"
        \/ ByPolicy(options.unresolvedSubprogram, "unresolved subprogram target")
    BY <1>8 DEF HandleCall, Enter, ContinueWith
  <2> QED
    BY <2>1, NoFault, PolicyNames, OtherReasons
<1>9. CASE HandleReturn
  <2>1. status' # "Fault" \/ Fault("empty call stack", At)
    BY <1>9 DEF HandleReturn, Continue, ContinueWith
  <2> QED
    BY <2>1, NoFault, FaultsByName, OtherReasons
<1> QED
  BY <1>1, <1>2, <1>3, <1>4, <1>5, <1>6, <1>7, <1>8, <1>9 DEF Advance

----------------------------------------------------------------------------
(* The invariant of the tool.                                              *)

(* The tool on the spindle is the one the executor, or what it left, knows *)
(* of: while an executor runs, as for SpindleView.                         *)
ExecutorKnowsTool ==
  /\ ~Jumps(instructions)
  /\ spindle = IF Changed /\ outstanding = {} THEN Mount(blocked.tool) ELSE activeTool
  /\ \A w \in outstanding : w.tool = blocked.tool

ToolKnown == IF hasExecutor THEN ExecutorKnowsTool ELSE current.activeTool = spindle

GivenUp == estate \in {"Faulted", "Cancelled"}
ToolInv ==
  /\ PlaceInv /\ options.attached
  /\ StraightText /\ ~GivenUp => WaitsKnown /\ ToolKnown

LEMMA StraightMeans ==
  ASSUME EngineInv, StraightText
  PROVE  ~HasArc(text) /\ ~HasJump(text)
<1>1. text \in Texts
  BY TextTyped
<1>2. StraightText = IsStraight(text)
  BY <1>1 DEF StraightText, Known
<1> QED
  BY <1>2, Zenon DEF IsStraight

(* Nothing the tool depends on changes.                                    *)
LEMMA SameTool ==
  ASSUME ToolKnown, UNCHANGED <<instructions, status, blocked, activeTool, outstanding, spindle>>,
         UNCHANGED <<hasExecutor, current>>
  PROVE  ToolKnown'
<1>1. Changed' <=> Changed
  BY Zenon DEF Changed, Resuming
<1> QED
  BY <1>1, Zenon DEF ToolKnown, ExecutorKnowsTool, Jumps, IsJumpCode

LEMMA StartKnowsTool ==
  ASSUME EngineInv, OnlyGood, ~HasArc(text), ~HasJump(text), WaitsKnown, ToolKnown, StartExecutor
  PROVE  ToolKnown'
<1>1. /\ instructions' = Lowered(pending).code /\ status' = "Ready" /\ hasExecutor'
      /\ activeTool' = current.activeTool /\ ~hasExecutor
      /\ UNCHANGED <<outstanding, spindle>> /\ estate \notin {"Blocked", "Cancelled"}
  BY DEF StartExecutor, NewExecutor, Hands, Idle, Stays, environment
<1>2. outstanding = {}
  BY <1>1, NothingWaits
<1>3. current.activeTool = spindle
  BY <1>1, Zenon DEF ToolKnown
<1>4. ~Jumps(instructions')
  BY <1>1, BufferJumps
<1>5. ~Changed'
  BY <1>1 DEF Changed, Resuming
<1>6. ExecutorKnowsTool'
  BY <1>1, <1>2, <1>3, <1>4, <1>5, Zenon DEF ExecutorKnowsTool, Jumps, IsJumpCode
<1> QED
  BY <1>1, <1>6, Zenon DEF ToolKnown

LEMMA PumpKnowsTool ==
  ASSUME EngineInv, OnlyGood, ~HasArc(text), ~HasJump(text), WaitsKnown, ToolKnown, Pump, ~GivenUp'
  PROVE  ToolKnown'
<1>1. CASE Report \/ ContinueExecutor \/ NothingPending \/ NothingToRun
  <2>1. /\ UNCHANGED <<instructions, status, blocked, activeTool, outstanding, spindle>>
        /\ UNCHANGED <<hasExecutor, current>>
    BY <1>1 DEF Report, ContinueExecutor, NothingPending, NothingToRun, executor, program, control,
                tools, environment, verdict
  <2> QED
    BY <2>1, SameTool
<1>2. CASE CancelOnRequest
  BY <1>2 DEF CancelOnRequest, Cancel, GivenUp
<1>3. CASE StartExecutor
  BY <1>3, StartKnowsTool
<1> QED
  BY <1>1, <1>2, <1>3 DEF Pump

(* The executor of a text without jumps is never dropped.                  *)
LEMMA NeverDropped ==
  ASSUME EngineInv, ToolKnown, AdvanceExecutor
  PROVE  ~DropsExecutor
<1>1. TypeOK /\ Advance /\ hasExecutor
  BY DEF EngineInv, CallOK, AdvanceExecutor, Step
<1>2. ~Jumps(instructions)
  BY <1>1, Zenon DEF ToolKnown, ExecutorKnowsTool
<1>3. ~AtEnd => At \in DOMAIN instructions
  BY <1>1, WokenTypes DEF AtEnd, TypeOK, ProgramOK
<1>4. ~AtEnd => ~IsJumpCode(Fetch)
  BY <1>2, <1>3, Zenon DEF Jumps, Fetch
<1>5. FaultsFor(NoJumpReason)
  BY <1>1, <1>4, FaultIsNoJump
<1> QED
  BY <1>5 DEF FaultsFor, NoJumpReason, LastReason, DropsExecutor, WaitsForInput, MayWait

LEMMA AdvanceKnowsTool ==
  ASSUME NamesTokens, EngineInv, options.attached, WaitsKnown, ToolKnown, AdvanceExecutor, ~GivenUp'
  PROVE  ToolKnown'
<1>1. Advance /\ hasExecutor /\ estate \notin {"Blocked", "Cancelled"} /\ instructions' = instructions
  BY DEF EngineInv, CallOK, AdvanceExecutor, Step, Stays, program
<1>2. outstanding = {}
  BY <1>1, NothingWaits
<1>3. ~Jumps(instructions) /\ spindle = WokenActive
  <2>1. ExecutorKnowsTool
    BY <1>1, Zenon DEF ToolKnown
  <2> QED
    BY <1>2, <2>1 DEF ExecutorKnowsTool, WokenActive
<1>4. ToolSteps
  BY <1>1, StepToolSteps
<1>5. outstanding' = {} \/ (status' = "Blocked" /\ \A w \in outstanding' : w.tool = blocked'.tool)
  BY <1>1, <1>2, FirstWait DEF NoIssue
<1>6. CASE GoesOn \/ BecomesBlocked \/ Polls
  <2>1. hasExecutor'
    BY <1>1, <1>6 DEF GoesOn, BecomesBlocked, Polls
  <2>2. spindle' = IF Changed' /\ outstanding' = {} THEN Mount(blocked.tool)' ELSE activeTool'
    BY <1>3, <1>4 DEF ToolSteps, Underway
  <2>3. \A w \in outstanding' : w.tool = blocked'.tool
    BY <1>5
  <2>4. ExecutorKnowsTool'
    BY <1>1, <1>3, <2>2, <2>3, Zenon DEF ExecutorKnowsTool, Jumps, IsJumpCode
  <2> QED
    BY <2>1, <2>4, Zenon DEF ToolKnown
<1>7. CASE ExecutorCompletes
  <2>1. ~hasExecutor' /\ current'.activeTool = activeTool' /\ status' = "Completed"
    BY <1>7 DEF ExecutorCompletes, TakesOver
  <2>2. outstanding' = {}
    BY <1>5, <2>1
  <2>3. spindle' = activeTool'
    BY <1>3, <1>4, <2>2 DEF ToolSteps
  <2> QED
    BY <2>1, <2>3, Zenon DEF ToolKnown
<1>8. ~ExecutorFaults /\ ~DropsExecutor
  BY NeverDropped DEF ExecutorFaults, GivenUp
<1> QED
  BY <1>6, <1>7, <1>8 DEF AdvanceExecutor

LEMMA RuntimeKnowsTool ==
  ASSUME EngineInv, WaitsKnown, ToolKnown, RuntimeCompletes
  PROVE  ToolKnown'
<1>1. PICK w \in outstanding :
        /\ outstanding' = outstanding \ {w}
        /\ spindle' = IF w.tool = NoTool THEN spindle ELSE Mount(w.tool)
  BY DEF RuntimeCompletes
<1>2. UNCHANGED <<instructions, status, blocked, activeTool, hasExecutor>>
  BY DEF RuntimeCompletes, executor, program, control, tools, engineVars, verdict
<1>3. outstanding' = {} /\ estate = "Blocked"
  BY <1>1 DEF WaitsKnown, OneAtMost
<1>4. hasExecutor /\ status = "Blocked"
  BY <1>3 DEF EngineInv, VerdictOK
<1>5. ExecutorKnowsTool
  BY <1>4, Zenon DEF ToolKnown
<1>6. w.tool = blocked.tool /\ spindle = activeTool
  BY <1>1, <1>5 DEF ExecutorKnowsTool
<1>7. Changed' <=> blocked.tool # NoTool
  BY <1>2, <1>4 DEF Changed, Resuming
<1>8. spindle' = IF Changed' /\ outstanding' = {} THEN Mount(blocked.tool) ELSE activeTool
  BY <1>1, <1>3, <1>6, <1>7
<1>9. ExecutorKnowsTool'
  BY <1>2, <1>3, <1>5, <1>8, Zenon DEF ExecutorKnowsTool, Jumps, IsJumpCode
<1> QED
  BY <1>2, <1>4, <1>9, Zenon DEF ToolKnown

(* Every other call leaves the executor, the tool and the runtime alone.   *)
LEMMA OthersKnowTool ==
  ASSUME WaitsKnown, ToolKnown, ~GivenUp',
         \/ ExecutorStalls \/ ClientPushes \/ ClientPumps \/ ClientFinishes \/ ClientResumes
         \/ ClientMisuses \/ ClientCancels \/ RequestCancel \/ UNCHANGED allVars
  PROVE  ToolKnown' /\ WaitsKnown'
<1>1. CASE \/ ExecutorStalls \/ ClientPushes \/ ClientPumps \/ ClientFinishes \/ RequestCancel
           \/ UNCHANGED allVars
  <2>1. /\ UNCHANGED <<instructions, status, blocked, activeTool, outstanding, spindle>>
        /\ UNCHANGED <<hasExecutor, current>> /\ UNCHANGED <<completed, estate, waiting>>
    BY <1>1 DEF ExecutorStalls, ClientPushes, PushChunk, ClientPumps, CallPump, ClientFinishes,
                CallFinish, RequestCancel, allVars, engineVars, client, verdict, vars, executor,
                program, control, tools, environment
  <2> QED
    BY <2>1, SameTool, SameWaits
<1>2. CASE ClientResumes
  <2>1. PICK token : Resume(token)
    BY <1>2 DEF ClientResumes
  <2>2. /\ UNCHANGED <<instructions, status, blocked, activeTool, outstanding, spindle>>
        /\ UNCHANGED <<hasExecutor, current>>
    BY <2>1 DEF Resume, program, control, tools, environment
  <2> QED
    BY <1>2, <2>2, SameTool, ResumesLosesNone
<1>3. CASE ClientMisuses
  BY <1>3 DEF ClientMisuses, Resume, GivenUp
<1>4. CASE ClientCancels
  BY <1>4 DEF ClientCancels, CallCancel, Cancel, GivenUp
<1> QED
  BY <1>1, <1>2, <1>3, <1>4

(* Faulted and Cancelled are never left.                                   *)
LEMMA GivenUpStays ==
  ASSUME EngineInv, GivenUp, [EngineNext]_allVars
  PROVE  GivenUp'
<1>1. Stays /\ estate # "Blocked"
  BY DEF GivenUp, Stays
<1>2. CASE Pump
  BY <1>1, <1>2 DEF Pump, Report, ContinueExecutor, CancelOnRequest, NothingToRun, StartExecutor,
                    NothingPending, Idle, verdict, GivenUp
<1>3. CASE AdvanceExecutor
  BY <1>1, <1>3 DEF AdvanceExecutor, EngineInv, CallOK
<1>4. CASE ClientResumes \/ ClientMisuses
  BY <1>1, <1>4 DEF ClientResumes, ClientMisuses, Resume, GivenUp
<1>5. CASE ClientCancels
  BY <1>5 DEF ClientCancels, CallCancel, Cancel, GivenUp
<1>6. CASE \/ ExecutorStalls \/ ClientPushes \/ ClientPumps \/ ClientFinishes \/ RequestCancel
           \/ RuntimeCompletes \/ UNCHANGED allVars
  BY <1>6 DEF ExecutorStalls, ClientPushes, PushChunk, ClientPumps, CallPump, ClientFinishes,
              CallFinish, RequestCancel, RuntimeCompletes, allVars, engineVars, verdict, GivenUp
<1> QED
  BY <1>2, <1>3, <1>4, <1>5, <1>6 DEF EngineNext, EngineEnded

LEMMA SameTextAndOptions == ASSUME [EngineNext]_allVars PROVE text' = text /\ options' = options
<1>1. text' = text
  BY DEF EngineNext, EngineEnded, Pump, AdvanceExecutor, ExecutorStalls, ClientPushes, ClientPumps,
         ClientFinishes, ClientResumes, ClientMisuses, ClientCancels, RequestCancel,
         RuntimeCompletes, allVars, client
<1>2. CASE Pump
  BY <1>1, <1>2 DEF Pump, Report, ContinueExecutor, CancelOnRequest, Cancel, NothingToRun, StartExecutor,
              NewExecutor, NothingPending, executor, program
<1>3. CASE AdvanceExecutor
  BY <1>1, <1>3 DEF AdvanceExecutor, Step, program
<1>4. CASE ClientResumes \/ ClientMisuses \/ ClientCancels
  BY <1>1, <1>4 DEF ClientResumes, ClientMisuses, Resume, ClientCancels, CallCancel, Cancel, executor,
              program
<1>5. CASE \/ ExecutorStalls \/ ClientPushes \/ ClientPumps \/ ClientFinishes \/ RequestCancel
           \/ RuntimeCompletes \/ UNCHANGED allVars
  BY <1>1, <1>5 DEF ExecutorStalls, ClientPushes, PushChunk, ClientPumps, CallPump, ClientFinishes,
              CallFinish, RequestCancel, RuntimeCompletes, allVars, vars, executor, program
<1> QED
  BY <1>1, <1>2, <1>3, <1>4, <1>5 DEF EngineNext, EngineEnded

LEMMA ToolStep == ASSUME NamesTokens, ToolInv, [EngineNext]_allVars PROVE ToolInv'
<1>1. PlaceInv' /\ EngineInv
  BY PlaceStep DEF ToolInv, PlaceInv
<1>2. text' = text /\ options' = options
  BY SameTextAndOptions
<1>3. ASSUME StraightText', ~GivenUp' PROVE WaitsKnown' /\ ToolKnown'
  <2>1. StraightText
    BY <1>2, <1>3, Zenon DEF StraightText
  <2>2. ~GivenUp
    BY <1>1, <1>3, GivenUpStays
  <2>3. WaitsKnown /\ ToolKnown /\ options.attached
    BY <2>1, <2>2, Zenon DEF ToolInv
  <2>4. ~HasArc(text) /\ ~HasJump(text)
    BY <1>1, <2>1, StraightMeans
  <2>5. OnlyGood
    BY <2>4, Zenon DEF ToolInv, PlaceInv
  <2>6. CASE Pump
    BY <1>1, <1>3, <2>3, <2>4, <2>5, <2>6, PumpKnowsTool, PumpLosesNone
  <2>7. CASE AdvanceExecutor
    BY <1>1, <1>3, <2>3, <2>7, AdvanceKnowsTool, AdvanceLosesNone
  <2>8. CASE RuntimeCompletes
    BY <1>1, <2>3, <2>8, RuntimeKnowsTool, RuntimeLosesNone
  <2>9. CASE \/ ExecutorStalls \/ ClientPushes \/ ClientPumps \/ ClientFinishes \/ ClientResumes
             \/ ClientMisuses \/ ClientCancels \/ RequestCancel \/ UNCHANGED allVars
    BY <1>3, <2>3, <2>9, OthersKnowTool
  <2> QED
    BY <2>6, <2>7, <2>8, <2>9 DEF EngineNext, EngineEnded
<1> QED
  BY <1>1, <1>2, <1>3, Zenon DEF ToolInv

(* Whatever chunks a text without jumps and arcs comes in: between two     *)
(* executors the engine believes the tool to be on the spindle that is     *)
(* there.  A runtime that names the token of every wait, and options with  *)
(* a sink and a runtime, as the engine steps its executors.                *)
THEOREM ToolStaysKnown ==
  NamesTokens /\ (\A o \in OptionSets : o.attached) => (EngineSpec => []ToolCrossesChunks)
<1> SUFFICES ASSUME NamesTokens, \A o \in OptionSets : o.attached
             PROVE  EngineSpec => []ToolCrossesChunks
  OBVIOUS
<1>1. EngineInit => ToolInv
  <2> SUFFICES ASSUME EngineInit PROVE ToolInv
    OBVIOUS
  <2>1. options.attached /\ ~hasExecutor /\ outstanding = {} /\ completed = {}
        /\ current.activeTool = spindle
    BY DEF EngineInit
  <2>2. WaitsKnown /\ ToolKnown
    BY <2>1 DEF WaitsKnown, OneAtMost, ToolKnown
  <2> QED
    BY <2>1, <2>2, PlaceStarts, Zenon DEF ToolInv
<1>2. ToolInv /\ [EngineNext]_allVars => ToolInv'
  BY ToolStep
<1>3. ToolInv => ToolCrossesChunks
  BY Zenon DEF ToolInv, ToolKnown, GivenUp, ToolCrossesChunks
<1> QED
  BY <1>1, <1>2, <1>3, PTL DEF EngineSpec
=============================================================================
