------------------------- MODULE StructuredLowering -------------------------
(***************************************************************************)
(* The loop of lowerToAil as a state machine, one action per kind of line, *)
(* and what the instructions it leaves behind must be: jumps that find     *)
(* their labels, IF blocks of which one branch runs, and no word lost.     *)
(***************************************************************************)
EXTENDS AilLowering

CONSTANT Texts  \* the texts that are lowered

ASSUME StructuredTextsAssumption == Texts \subseteq Seq(TextLines)

VARIABLES
  text,  \* the argument
  pos,   \* the line the loop is at
  word,  \* and the word of that line
  out    \* result, if_stack, generated_label_counter, the current modes

loweringVars == <<text, pos, word, out>>

Line == text[pos]
InLoop == pos <= Len(text) /\ (out.rejected = NoValue \/ pos < out.rejected)
GoOn(result) == out' = result /\ pos' = pos + 1 /\ word' = 1 /\ UNCHANGED text

PassLine == InLoop /\ Passed(out, Line, pos) /\ GoOn(out)

AtLine(kind) == InLoop /\ ~Passed(out, Line, pos) /\ KindOf(Line) = kind

LowerAssignment == AtLine("assign") /\ GoOn(AssignLine(out, Line, pos))
LowerIf == AtLine("if") /\ GoOn(IfLine(out, Line, pos))
LowerElse == AtLine("else") /\ GoOn(ElseLine(out, Line, pos))
LowerEndIf == AtLine("endif") /\ GoOn(EndIfLine(out, Line, pos))
LowerLabel == AtLine("label") /\ GoOn(LabelLine(out, Line, pos))
LowerGoto == AtLine("goto") /\ GoOn(GotoLine(out, Line, pos))
LowerIfGoto == AtLine("if goto") /\ GoOn(IfGotoLine(out, Line, pos))
LowerProc == AtLine("proc") /\ GoOn(ProcLine(out, Line, pos))
LowerCall == AtLine("call") /\ GoOn(CallLine(out, Line, pos))
LowerNextWord ==
  /\ AtLine("words") /\ word <= Len(Line.words)
  /\ out' = LowerWord(out, Line, pos, word) /\ word' = word + 1 /\ UNCHANGED <<text, pos>>
LowerWords == AtLine("words") /\ word > Len(Line.words) /\ GoOn(LowerMotion(out, Line, pos))
LowerLoop == AtLine("loop") /\ GoOn(out)  \* and a malformed line the rules have rejected

(* pos = Len(text) + 2: the function has returned.                         *)
Returned == pos = Len(text) + 2
ReturnAil ==
  /\ ~InLoop /\ ~Returned
  /\ out' = Finish(out) /\ pos' = Len(text) + 2 /\ UNCHANGED <<text, word>>

LoweringInit == text \in Texts /\ pos = 1 /\ word = 1 /\ out = Start(LowerToMessages(text))

LoweringNext ==
  \/ PassLine \/ LowerAssignment \/ LowerIf \/ LowerElse \/ LowerEndIf \/ LowerLabel
  \/ LowerGoto \/ LowerIfGoto \/ LowerProc \/ LowerCall \/ LowerNextWord \/ LowerWords
  \/ LowerLoop \/ ReturnAil

LoweringSpec == LoweringInit /\ [][LoweringNext]_loweringVars

----------------------------------------------------------------------------
(* Properties.                                                             *)

Internals(n) == {"IF_THEN", "IF_END", "IF_ELSE"} \X (1 .. n)

(* The types of the variables: the stack of open blocks points at branches *)
(* that were emitted, and labels are counted.                              *)
LoweringTypeOK ==
  /\ text \in Texts /\ pos \in 1 .. Len(text) + 2
  /\ word \in 1 .. (IF pos \in DOMAIN text THEN Len(Line.words) ELSE 0) + 1
  /\ out.labels \in Nat /\ out.plane \in {"G17", "G18", "G19"}
  /\ out.rapid \in {"none", "RTLION", "RTLIOF"} /\ out.rejected \in {NoValue} \cup DOMAIN text
  /\ \A i \in DOMAIN out.ifs :
       /\ out.ifs[i].branch \in DOMAIN out.instructions
       /\ out.instructions[out.ifs[i].branch].op = "branch"
       /\ out.ifs[i].end \in Internals(out.labels) /\ out.ifs[i].hasElse \in BOOLEAN

Definitions(label) ==
  {d \in DOMAIN out.instructions :
     out.instructions[d].op = "label" /\ out.instructions[d].name = label}

JumpsAt(i) ==
  LET ins == out.instructions[i] IN
    CASE ins.op = "goto" -> {ins.to}
      [] ins.op = "branch" -> {ins.then, ins.else} \ {NoGoto}
      [] OTHER -> {}

OpenEnds == {out.ifs[i].end : i \in DOMAIN out.ifs}

(* No label that lowering makes up is defined twice, and every jump to one *)
(* finds it further on, unless it is the end of a block still open.        *)
LabelsUnique ==
  \A label \in Internals(out.labels) : \A d, e \in Definitions(label) : d = e
JumpsResolved ==
  \A i \in DOMAIN out.instructions : \A g \in JumpsAt(i) :
    g.kind = "label" /\ g.target \in Internals(out.labels) =>
      g.target \in OpenEnds \/ \E d \in Definitions(g.target) : d > i
LabelsSound == LabelsUnique /\ JumpsResolved

(* The reading of IF, ELSE and ENDIF by counting, over the lines that are  *)
(* not passed over.                                                        *)
Read == 1 .. LastLine(text, out)
KindAt(k) == IF Skipped(text[k]) THEN "none" ELSE text[k].statement.kind
Lines(kind, i, k) == Cardinality({m \in i .. k : KindAt(m) = kind})
Depth(i, k) == Lines("if", i, k) - Lines("endif", i, k)
Encloses(i, k) == KindAt(i) = "if" /\ i < k /\ \A m \in i .. k : Depth(i, m) >= 1
IsElseOf(e, i) == KindAt(e) = "else" /\ Encloses(i, e) /\ Depth(i, e) = 1

Balanced ==
  /\ \A k \in Read : Depth(1, k) >= 0
  /\ Depth(1, LastLine(text, out)) = 0
  /\ \A e \in Read : KindAt(e) = "else" =>
       \E i \in Read : IsElseOf(e, i) /\ \A f \in Read : IsElseOf(f, i) => f >= e

(* Blocks that do not match are reported, blocks that match are not, also  *)
(* when a line is rejected or skipped in between.                          *)
UnbalancedReported ==
  Returned =>
    (Balanced <=> \A i \in DOMAIN out.diagnostics :
       out.diagnostics[i].why \notin
         {"ELSE without IF", "duplicate ELSE", "ENDIF without IF", "missing ENDIF"})

(* Line k runs when each IF around it has gone the way of its part.        *)
Runs(k, verdict) ==
  \A i \in Read : Encloses(i, k) => (verdict[i] <=> ~ \E e \in Read : e < k /\ IsElseOf(e, i))
Moves(k) == ~Skipped(text[k]) /\ MotionOf(text[k].words) # NoValue

(* Where a jump goes, and what is run from the first instruction on.       *)
Found(jump) ==
  IF Definitions(jump.target) = {} THEN Len(out.instructions) + 1
  ELSE CHOOSE d \in Definitions(jump.target) : TRUE
Behind(i, verdict) ==
  LET ins == out.instructions[i] IN
    CASE ins.op = "goto" -> Found(ins.to)
      [] ins.op = "branch" -> IF verdict[ins.source.line] THEN Found(ins.then) ELSE Found(ins.else)
      [] OTHER -> i + 1
MovesRun(verdict) ==
  LET from[i \in 1 .. Len(out.instructions) + 1] ==
        IF i > Len(out.instructions) THEN <<>>
        ELSE (IF out.instructions[i].op = "move" THEN <<out.instructions[i].source.line>> ELSE <<>>)
             \o from[Behind(i, verdict)]
  IN from[1]

HasOnlyBlocks ==
  \A k \in Read : KindAt(k) \in {"none", "if", "else", "endif", "loop"}

(* However the conditions turn out, exactly the moves run that the nesting *)
(* of the blocks selects, in the order of the text.                        *)
RunsAsWritten ==
  Returned /\ HasOnlyBlocks /\ Balanced =>
    \A verdict \in [{k \in Read : KindAt(k) = "if"} -> BOOLEAN] :
      MovesRun(verdict) = SelectSeq([k \in Read |-> k], LAMBDA k : Moves(k) /\ Runs(k, verdict))

From(k, ops) ==
  Cardinality({i \in DOMAIN out.instructions :
    out.instructions[i].source.line = k /\ out.instructions[i].op \in ops})

(* What the rules let pass lowering does not drop: every M and T word and  *)
(* every motion of a line that was read gives one instruction, and no PROC *)
(* is left that lowering does not understand.                              *)
WordsKept ==
  Returned => \A k \in Read : ~Skipped(text[k]) =>
    /\ KindOf(text[k]) # "malformed"
    /\ KindOf(text[k]) = "words" =>
         /\ From(k, {"mcode", "tool change", "tool select"})
              = Cardinality({i \in DOMAIN text[k].words :
                  text[k].words[i].head \in {"M", "M1", "T", "T1"}
                  /\ ~(text[k].words[i].head = "M" /\ text[k].words[i].value = 17)})
         /\ From(k, {"move"}) = IF Moves(k) THEN 1 ELSE 0

(* The plane an arc is given fits its center words: the plane message      *)
(* lowering has checked them against and the one that is put into the      *)
(* instruction are kept apart in two loops.                                *)
ArcsFitTheirPlane ==
  \A i \in DOMAIN out.instructions : out.instructions[i].op = "move" =>
    LET move == out.instructions[i]
        words == text[move.source.line].words IN
      move.motion \in {"G2", "G3"} =>
        \E plane \in 17 .. 19 :
          /\ move.effective = CodeName(plane)
          /\ \A w \in DOMAIN words :
               words[w].head \in Centers /\ words[w].value # NoValue =>
                 IsAllowed(words[w].head, plane)
=============================================================================
