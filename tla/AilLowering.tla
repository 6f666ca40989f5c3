---------------------------- MODULE AilLowering ----------------------------
(***************************************************************************)
(* lowerToAil of src/src/ail.cpp: from a parsed text to the instructions   *)
(* the executor runs.  It lowers the text to messages first, to learn      *)
(* where a line is rejected, and then goes over the lines before that one  *)
(* again, one operator below for each kind of line.  IF blocks become      *)
(* branches to labels of its own.                                          *)
(*                                                                         *)
(* Instructions are those of AilExecutor.Instruction; positions start at 1.*)
(***************************************************************************)
EXTENDS MessageLowering

CONSTANT DirectT  \* LowerOptions::tool_change_mode is DirectT

ASSUME DirectTAssumption == DirectT \in BOOLEAN

(* parseAndLowerAil hands the parser enable_iso_m98_calls only.            *)
ASSUME AilOptionsAssumption == ~Managed /\ ~Slashes

----------------------------------------------------------------------------
(* Instructions.                                                           *)

CodeName(code) ==
  CASE code = 0 -> "G0" [] code = 1 -> "G1" [] code = 2 -> "G2" [] code = 3 -> "G3"
    [] code = 17 -> "G17" [] code = 18 -> "G18" [] code = 19 -> "G19"
    [] code = 40 -> "G40" [] code = 41 -> "G41" [] code = 42 -> "G42"

(* sourceFromLine                                                          *)
SourceOf(l, k) == [block |-> IF l.number = NoValue THEN 0 ELSE l.number, line |-> k]

LabelAt(at, name) == [op |-> "label", source |-> at, name |-> name]
Goto(at, jump) == [op |-> "goto", source |-> at, to |-> jump]
Branch(at, test, then, else) ==
  [op |-> "branch", source |-> at, direct |-> test.direct, lhs |-> test.lhs, rhs |-> test.rhs,
   relation |-> test.relation, then |-> then, else |-> else]
Modal(at, group, value) == [op |-> "modal", source |-> at, group |-> group, value |-> value]

(* A selection is its index and its value; T0 deselects.                   *)
ToolSelect(at, head, value) ==
  [op |-> "tool select", source |-> at, immediate |-> DirectT,
   tool |-> <<IF head = "T1" THEN 1 ELSE NoValue, value>>]

(* The labels lowering makes up; a jump to one.                            *)
Internal(prefix, n) == <<prefix, n>>
To(label) == [opcode |-> "GOTO", kind |-> "label", target |-> label]

----------------------------------------------------------------------------
(* The words of a line: what each gives.                                   *)

(* isKnownPredefinedMFunction                                              *)
PredefinedM == (0 .. 6) \cup {17, 19, 30, 70} \cup (40 .. 45)

(* mCodeFromWord                                                           *)
IsMCode(w) == (w.head = "M" \/ (w.head = "M1" /\ w.eq)) /\ w.value \in Nat

MInstruction(w, at) ==
  CASE w.head = "M" /\ w.value = 17 -> [op |-> "return", source |-> at]
    [] w.head = "M" /\ w.value = 6 -> [op |-> "tool change", source |-> at]
    [] OTHER -> [op |-> "mcode", source |-> at, known |-> w.value \in PredefinedM]

WordCode(w, at) ==
  CASE w.head \in {"RTLION", "RTLIOF"} /\ w.value = NoValue -> <<Modal(at, "rapid", w.head)>>
    [] IsG(w, 17 .. 19) -> <<Modal(at, "plane", CodeName(w.value))>>
    [] IsG(w, 40 .. 42) -> <<Modal(at, "radius", CodeName(w.value))>>
    [] w.head \in {"T", "T1"} /\ w.value # NoValue -> <<ToolSelect(at, w.head, w.value)>>
    [] w.head = "RET" /\ w.value = NoValue /\ ~w.eq -> <<[op |-> "return", source |-> at]>>
    [] IsMCode(w) -> <<MInstruction(w, at)>>
    [] OTHER -> <<>>

(* applyLinearMoveAxisValuesFromLine: an axis is read at run time when no  *)
(* number for it follows the system variable.                              *)
ReadsSystem(ws) ==
  \E i \in DOMAIN ws :
    /\ ws[i].head \in Axes /\ ws[i].value = SystemRef /\ ws[i].eq
    /\ \A j \in i + 1 .. Len(ws) : ws[j].head = ws[i].head => ws[j].value \notin Nat

(* toInstruction, and what the line and the modes so far add to it.        *)
MoveOf(message, l, at, modes) ==
  [op |-> "move", source |-> at,
   motion |-> IF message.code = 4 THEN "none" ELSE CodeName(message.code),
   system |-> message.code \in {0, 1} /\ ReadsSystem(l.words),
   effective |-> CASE message.code = 0 -> modes.rapid
                   [] message.code \in {2, 3} -> modes.plane
                   [] OTHER -> "none"]

----------------------------------------------------------------------------
(* PROC and calls.                                                         *)

(* A line that is PROC and a name.                                         *)
IsProc(l) == l.words # <<>> /\ l.words[1].head = "PROC" /\ ~IsMalformedProc(l)

IsRepeat(w) == w.head = "P" /\ w.value \in Nat
IsIsoCall(ws) ==
  Iso /\ Len(ws) = 2 /\ IsM98(ws[1]) /\ ~ws[1].eq /\ ws[2].head = "P" /\ ws[2].value # NoValue

Call(target, repeat, anchor) == [target |-> target, repeat |-> repeat, anchor |-> anchor]

(* subprogramCallFromLine: the calls the words can be read as, at most     *)
(* one.  anchor is the word the arguments would stand behind; a program    *)
(* number is known by its P word.                                          *)
CallsIn(ws) ==
  IF Len(ws) = 1 /\ IsTarget(ws[1]) THEN {Call(ws[1].head, 1, 1)}
  ELSE IF IsIsoCall(ws) THEN {Call(<<"P", ws[2].value>>, 1, 0)}
  ELSE {Call(ws[i].head, ws[3 - i].value, i) :
          i \in {j \in {1, 2} : Len(ws) = 2 /\ IsTarget(ws[j]) /\ IsRepeat(ws[3 - j])}}

(* findInlineParenSuffixComment: a comment right behind the anchor.        *)
Suffixed(l, anchor) == l.remark = "suffix" /\ anchor = Len(l.words)

----------------------------------------------------------------------------
(* One operator per kind of line.  r is what lowering has so far:          *)
(* instructions, diagnostics, the open IF blocks, the count of labels made *)
(* up, the working plane and the rapid mode.                               *)

Emit(r, code) == [r EXCEPT !.instructions = @ \o code]
Report(r, severity, k, why) == [r EXCEPT !.diagnostics = Append(@, Diag(severity, k, why))]

(* A selector that is no number has been reported by the rules.            *)
AssignLine(r, l, k) ==
  LET s == l.statement
      at == SourceOf(l, k) IN
    IF s.to = "PROC" THEN Report(r, "Error", k, "malformed PROC")
    ELSE IF s.to \in {"T", "T1"} /\ s.rhs.kind = "literal"
         THEN Emit(r, <<ToolSelect(at, s.to, s.rhs.value)>>)
    ELSE Emit(r, <<[op |-> "assign", source |-> at, name |-> s.to, rhs |-> s.rhs]>>)

LastInstruction(r) == Len(r.instructions)  \* a mutant: off by one
NextInstruction(r) == Len(r.instructions) + 1

(* The branch goes to its THEN label or, until an ELSE is met, to the end. *)
IfLine(r, l, k) ==
  LET at == SourceOf(l, k)
      then == Internal("IF_THEN", r.labels + 1)
      end == Internal("IF_END", r.labels + 2) IN
    [Emit(r, <<Branch(at, l.statement.test, To(then), To(end)), LabelAt(at, then)>>) EXCEPT
       !.labels = @ + 2,
       !.ifs = Append(@, [branch |-> NextInstruction(r), end |-> end, hasElse |-> FALSE])]

InnermostIf(r) == Last(r.ifs)

ElseKeepsBranch(r, l, k) ==  \* a mutant: the branch still goes to the end
  LET label == Internal("IF_ELSE", r.labels + 1)
      at == SourceOf(l, k) IN
    [Emit(r, <<Goto(at, To(InnermostIf(r).end)), LabelAt(at, label)>>) EXCEPT
       !.labels = @ + 1, !.ifs[Len(r.ifs)].hasElse = TRUE]
ElseFallsThrough(r, l, k) ==  \* a mutant: no jump over the ELSE part
  LET label == Internal("IF_ELSE", r.labels + 1) IN
    [Emit(r, <<LabelAt(SourceOf(l, k), label)>>) EXCEPT
       !.instructions[InnermostIf(r).branch].else = To(label),
       !.labels = @ + 1, !.ifs[Len(r.ifs)].hasElse = TRUE]
ElseOfIf(r, l, k) ==
  LET label == Internal("IF_ELSE", r.labels + 1)
      at == SourceOf(l, k) IN
    [Emit(r, <<Goto(at, To(InnermostIf(r).end)), LabelAt(at, label)>>) EXCEPT
       !.instructions[InnermostIf(r).branch].else = To(label),
       !.labels = @ + 1, !.ifs[Len(r.ifs)].hasElse = TRUE]

ElseLine(r, l, k) ==
  IF r.ifs = <<>> THEN Report(r, "Error", k, "ELSE without IF")
  ELSE IF InnermostIf(r).hasElse THEN Report(r, "Error", k, "duplicate ELSE")
  ELSE ElseOfIf(r, l, k)

KeepsIfOpen(r, l, k) ==  \* a mutant: the block is not taken off the stack
  IF r.ifs = <<>> THEN Report(r, "Error", k, "ENDIF without IF")
  ELSE Emit(r, <<LabelAt(SourceOf(l, k), InnermostIf(r).end)>>)
EndIfLine(r, l, k) ==
  IF r.ifs = <<>> THEN Report(r, "Error", k, "ENDIF without IF")
  ELSE [Emit(r, <<LabelAt(SourceOf(l, k), InnermostIf(r).end)>>) EXCEPT !.ifs = Front(@)]

LabelLine(r, l, k) == Emit(r, <<LabelAt(SourceOf(l, k), l.statement.name)>>)
GotoLine(r, l, k) == Emit(r, <<Goto(SourceOf(l, k), l.statement.to)>>)
IfGotoLine(r, l, k) ==
  LET s == l.statement IN Emit(r, <<Branch(SourceOf(l, k), s.test, s.then, s.else)>>)

ProcLine(r, l, k) ==
  LET declared == Emit(r, <<LabelAt(SourceOf(l, k), l.words[2].head)>>) IN
    IF Suffixed(l, 2) THEN Report(declared, "Warning", k, "PROC signature") ELSE declared

CallLine(r, l, k) ==
  LET call == CHOOSE c \in CallsIn(l.words) : TRUE
      called == Emit(r, <<[op |-> "call", source |-> SourceOf(l, k), target |-> call.target,
                           repeat |-> call.repeat]>>) IN
    IF Suffixed(l, call.anchor) THEN Report(called, "Warning", k, "call arguments") ELSE called

(* One word, and what it makes of current_working_plane and                *)
(* current_rapid_mode.                                                     *)
LowerWord(r, l, k, i) ==
  LET w == l.words[i]
      code == WordCode(w, SourceOf(l, k)) IN
    [r EXCEPT !.instructions = @ \o code,
              !.plane = IF IsG(w, 17 .. 19) THEN CodeName(w.value) ELSE @,
              !.rapid = IF w.head \in {"RTLION", "RTLIOF"} /\ code # <<>> THEN w.head ELSE @]

(* The motion of the line, in the modes behind its last word.              *)
LowerMotion(r, l, k) ==
  LET messages == {i \in DOMAIN r.messages : r.messages[i].line = k}
      message == r.messages[CHOOSE i \in messages : TRUE] IN
    IF messages = {} THEN r ELSE Emit(r, <<MoveOf(message, l, SourceOf(l, k), r)>>)

WordsLine(r, l, k) ==
  LowerMotion(Loop(LAMBDA s, i : LowerWord(s, l, k, i), r, Len(l.words)), l, k)

(* Any other line: nothing, for the statements that are only parsed.       *)
KindOf(l) ==
  CASE l.statement.kind # "none" -> l.statement.kind
    [] IsMalformedProc(l) -> "malformed"
    [] IsProc(l) -> "proc"
    [] CallsIn(l.words) # {} -> "call"
    [] OTHER -> "words"

AilLine(r, l, k) ==
  LET kind == KindOf(l) IN
    CASE kind = "assign" -> AssignLine(r, l, k)
      [] kind = "if" -> IfLine(r, l, k)
      [] kind = "else" -> ElseLine(r, l, k)
      [] kind = "endif" -> EndIfLine(r, l, k)
      [] kind = "label" -> LabelLine(r, l, k)
      [] kind = "goto" -> GotoLine(r, l, k)
      [] kind = "if goto" -> IfGotoLine(r, l, k)
      [] kind = "malformed" -> Report(r, "Error", k, "malformed PROC")
      [] kind = "proc" -> ProcLine(r, l, k)
      [] kind = "call" -> CallLine(r, l, k)
      [] kind = "words" -> WordsLine(r, l, k)
      [] kind = "loop" -> r

----------------------------------------------------------------------------
(* The whole text.                                                         *)

Start(lowered) ==
  [instructions |-> <<>>, diagnostics |-> lowered.diagnostics, messages |-> lowered.messages,
   rejected |-> lowered.rejected, ifs |-> <<>>, labels |-> 0, plane |-> "G17", rapid |-> "none"]

(* The lines before the rejected one.                                      *)
GoesOnBehind(t, r) == Len(t)  \* a mutant: the rejected line does not end the text
LastLine(t, r) == IF r.rejected = NoValue THEN Len(t) ELSE r.rejected - 1

PassesErrorsOnly(r, l, k) == HasError(r.diagnostics, k)  \* a mutant: skipped lines are lowered
Passed(r, l, k) == Skipped(l) \/ HasError(r.diagnostics, k)

ReturnsAsIs(r) == r  \* a mutant: open blocks are not reported

(* A block left open is reported at its IF, whose line is not rejected.    *)
Finish(r) ==
  [r EXCEPT !.diagnostics = @ \o [i \in DOMAIN r.ifs |->
     Diag("Error", r.instructions[r.ifs[i].branch].source.line, "missing ENDIF")]]

LowerToAil(t) ==
  LET start == Start(LowerToMessages(t)) IN
    Finish(Loop(LAMBDA r, k : IF Passed(r, t[k], k) THEN r ELSE AilLine(r, t[k], k),
                start, LastLine(t, start)))
=============================================================================
