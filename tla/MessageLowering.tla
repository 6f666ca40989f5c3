-------------------------- MODULE MessageLowering --------------------------
(***************************************************************************)
(* What becomes of a whole text on the way parse -> messages: the semantic *)
(* rules of src/src/semantic_rules.cpp, then lowerToMessages of            *)
(* src/src/messages.cpp with the motion families G0 to G4.                 *)
(*                                                                         *)
(* A line is what the parser makes of it: a statement, or the sequence of  *)
(* its words; it also says which lines have syntax errors (broken).        *)
(* Locations are line numbers: nothing here depends on columns.            *)
(***************************************************************************)
EXTENDS Integers, Sequences, FiniteSets, SequencesExt, Loops

CONSTANTS
  TextLines,        \* the lines a text may consist of
  ActiveSkipLevels, \* LowerOptions::active_skip_levels
  Name,             \* names of labels, subprograms and variables
  NoGoto,           \* a branch without ELSE target
  Iso, Managed, Slashes  \* ParseOptions: enable_iso_m98_calls, tool_management,
                         \* enable_double_slash_comments

NoValue == -1       \* a word without value, a line without number or skip mark
NotNumeric == -2    \* a value that is not a number
SystemRef == -3     \* a value that names a system variable, as in X=$P_ACT_X
Unreadable == 99    \* a skip level that is not an integer, as in /1.5

(* B is one of the axes the coordinate rule does not know; M1 and T1 are   *)
(* an M and a T with an address extension.                                 *)
Axes == {"X", "B"}
Centers == {"I", "J", "K"}
Letters == Axes \cup Centers \cup {"G", "F", "S", "N", "P", "M", "T"}
LongHeads == {"AP", "AR", "M1", "T1", "PROC", "RET", "RTLION", "RTLIOF"} \cup Name

(* eq: the value stands behind an equals sign.                             *)
Word == [head : Letters \cup LongHeads, value : Nat \cup {NoValue, NotNumeric, SystemRef},
         eq : BOOLEAN]

Jump ==
  [opcode : {"GOTO", "GOTOF", "GOTOB", "GOTOC"}, kind : {"label"}, target : Name]
  \cup [opcode : {"GOTO", "GOTOF", "GOTOB", "GOTOC"}, kind : {"number"}, target : Nat]

(* An expression by what evaluating it does.                               *)
Expression ==
  [kind : {"literal"}, value : Int] \cup [kind : {"user"}, name : Name]
  \cup [kind : {"system", "unsupported", "error"}]

(* direct: a comparison of two expressions, and not for the resolver.      *)
Condition ==
  [direct : BOOLEAN, lhs : Expression, rhs : Expression,
   relation : {"EQ", "NE", "LT", "LE", "GT", "GE", "other"}]

(* The optionals of a parsed line, of which at most one is set; "none": it *)
(* has words instead, or nothing; "loop" are WHILE, FOR and the like, which*)
(* are only parsed.                                                        *)
Statement ==
  [kind : {"none", "else", "endif", "loop"}]
  \cup [kind : {"assign"}, to : Name \cup {"T", "T1", "PROC", "$"}, rhs : Expression]
  \cup [kind : {"if"}, test : Condition]
  \cup [kind : {"label"}, name : Name]
  \cup [kind : {"goto"}, to : Jump]
  \cup [kind : {"if goto"}, test : Condition, then : Jump, else : Jump \cup {NoGoto}]

(* skip: the level after the slash, 0 for a plain slash.  remark: the      *)
(* comment that ends the line, in parentheses and not empty, or after two  *)
(* slashes.                                                                *)
TextLine ==
  [words : Seq(Word), statement : Statement, number : Nat \cup {NoValue},
   skip : Nat \cup {NoValue}, remark : {"none", "suffix", "slashes"}, broken : BOOLEAN]

ASSUME TextLinesAssumption ==
  /\ TextLines \subseteq TextLine
  /\ \A l \in TextLines : l.statement.kind # "none" => l.words = <<>>
ASSUME SkipAssumption == ActiveSkipLevels \subseteq Nat
ASSUME ParseOptionsAssumption == {Iso, Managed, Slashes} \subseteq BOOLEAN

Diag(severity, line, why) == [severity |-> severity, line |-> line, why |-> why]

----------------------------------------------------------------------------
(* The semantic rules: the first one a line breaks reports it.             *)

Motion == 0 .. 4
IsG(w, codes) == w.head = "G" /\ w.value \in codes

(* G4BlockRule: G4 stands alone with one F or one S.                       *)
BreaksG4Block(ws) ==
  LET g4 == {i \in DOMAIN ws : IsG(ws[i], {4})}
      dwell == {i \in DOMAIN ws : ws[i].head \in {"F", "S"}} IN
    /\ g4 # {}
    /\ ~ /\ Cardinality(g4) = 1 /\ Cardinality(dwell) = 1 /\ g4 \cup dwell = DOMAIN ws
         /\ \A i \in dwell : ws[i].value \in Nat

(* MotionExclusivityRule.                                                  *)
HasTwoMotions(ws) ==
  \E i, j \in DOMAIN ws : IsG(ws[i], 0 .. 3) /\ IsG(ws[j], 0 .. 3) /\ ws[i].value # ws[j].value

(* G1CoordinateModeRule: looked at only at words that are no motion code,  *)
(* so a G1 behind the coordinates goes unnoticed.                          *)
MixesCoordinates(ws) ==
  \E i \in DOMAIN ws :
    /\ ~IsG(ws[i], Motion)
    /\ \E m \in 1 .. i : IsG(ws[m], {1}) /\ \A k \in m + 1 .. i : ~IsG(ws[k], Motion)
    /\ \E a, p \in 1 .. i : ws[a].head = "X" /\ ws[p].head = "AP"

(* LineNumberWordRule, BlockSkipLevelRule.                                 *)
HasStrayNumber(ws) == \E i \in DOMAIN ws : ws[i].head = "N"
HasBadSkipLevel(l) == l.skip > 9

(* isSubprogramTargetWord: a lone X is one too.                            *)
IsTarget(w) == ~w.eq /\ w.value = NoValue /\ w.head \notin {"RET", "RTLION", "RTLIOF"}

(* ProcDeclarationShapeRule: PROC stands before one name and nothing else. *)
IsMalformedProc(l) ==
  \/ l.statement.kind = "assign" /\ l.statement.to = "PROC"
  \/ /\ l.words # <<>> /\ l.words[1].head = "PROC"
     /\ ~ /\ Len(l.words) = 2 /\ l.words[1].value = NoValue /\ ~l.words[1].eq
          /\ IsTarget(l.words[2])

(* AssignmentShapeRule.                                                    *)
LacksEquals(ws) ==
  \E i \in DOMAIN ws : ws[i].head \in LongHeads /\ ws[i].value # NoValue /\ ~ws[i].eq

(* MCodeShapeRule; a value beyond 32 bits counts as NotNumeric.            *)
IsM98(w) == w.head = "M" /\ w.value = 98
LaxM(ws) ==  \* a mutant: a value that is no number goes unnoticed
  \E i \in DOMAIN ws :
    \/ ws[i].head \in {"M", "M1"} /\ ws[i].value = NoValue
    \/ ws[i].head = "M1" /\ (~ws[i].eq \/ ws[i].value \in {0, 1, 2, 17, 30})
BreaksMShape(ws) ==
  \E i \in DOMAIN ws :
    \/ ws[i].head \in {"M", "M1"} /\ ws[i].value \notin Nat
    \/ ws[i].head = "M1" /\ (~ws[i].eq \/ ws[i].value \in {0, 1, 2, 17, 30})
    \/ ~Iso /\ IsM98(ws[i]) /\ \E p \in DOMAIN ws : ws[p].head = "P" /\ ws[p].value # NoValue

(* ToolSelectorShapeRule, of a word and of an assignment.                  *)
Selects(w) ==
  IF Managed THEN w.eq /\ w.value # NoValue ELSE w.value \in Nat /\ (w.head = "T1" => w.eq)
SelectsBy(e) == (e.kind = "literal" /\ e.value \in Nat) \/ (Managed /\ e.kind \in {"user", "system"})
BreaksTShape(l) ==
  \/ l.statement.kind = "assign" /\ l.statement.to \in {"T", "T1"} /\ ~SelectsBy(l.statement.rhs)
  \/ \E i \in DOMAIN l.words : l.words[i].head \in {"T", "T1"} /\ ~Selects(l.words[i])

(* DoubleSlashCommentRule is the last one.  Whichever rule comes first     *)
(* gives the line one error and ends its inspection.                       *)
BreaksRule(l) ==
  \/ BreaksG4Block(l.words) \/ HasTwoMotions(l.words) \/ MixesCoordinates(l.words)
  \/ HasStrayNumber(l.words) \/ HasBadSkipLevel(l)
  \/ IsMalformedProc(l) \/ LacksEquals(l.words) \/ BreaksMShape(l.words) \/ BreaksTShape(l)
  \/ ~Slashes /\ l.remark = "slashes"

(* A block number met twice is worth a warning when any line of the text   *)
(* jumps to a number.                                                      *)
JumpsOf(s) ==
  CASE s.kind = "goto" -> {s.to}
    [] s.kind = "if goto" -> {s.then, s.else} \ {NoGoto}
    [] OTHER -> {}

IsDuplicate(t, k) ==
  /\ \E j \in DOMAIN t : \E g \in JumpsOf(t[j].statement) : g.kind = "number"
  /\ t[k].number # NoValue /\ \E j \in 1 .. k - 1 : t[j].number = t[k].number

SyntaxOfLine(t, ds, k) == IF t[k].broken THEN Append(ds, Diag("Error", k, "syntax")) ELSE ds
SyntaxDiagnostics(t) == Loop(LAMBDA ds, k : SyntaxOfLine(t, ds, k), <<>>, Len(t))

SemanticsOfLine(t, ds, k) ==
  ds \o (IF IsDuplicate(t, k) THEN <<Diag("Warning", k, "duplicate N")>> ELSE <<>>)
     \o (IF BreaksRule(t[k]) THEN <<Diag("Error", k, "rule")>> ELSE <<>>)
SemanticDiagnostics(t) == Loop(LAMBDA ds, k : SemanticsOfLine(t, ds, k), <<>>, Len(t))

(* parse: what it reports of a text.                                       *)
ParseDiagnostics(t) == SyntaxDiagnostics(t) \o SemanticDiagnostics(t)

----------------------------------------------------------------------------
(* Lowering of one line.                                                   *)

(* shouldSkipLine: an unreadable level counts as 0.                        *)
SkipsAnyLevel(l) == l.skip # NoValue  \* a mutant: inactive levels skip too
Skipped(l) == (IF l.skip = Unreadable THEN 0 ELSE l.skip) \in ActiveSkipLevels

HasDiagnostic(ds, k) == \E i \in DOMAIN ds : ds[i].line = k  \* a mutant: warnings count
HasError(ds, k) == \E i \in DOMAIN ds : ds[i].line = k /\ ds[i].severity = "Error"

LastValue(ws, Test(_)) ==
  LET at == SelectLastInSeq(ws, Test) IN IF at = 0 THEN NoValue ELSE ws[at].value

(* At most one code of G0 to G4: the rules have seen to it.                *)
MotionOf(ws) == LastValue(ws, LAMBDA w : IsG(w, Motion))

OwnPlaneOnly(ws, current) ==  \* a mutant: the plane holds for one line only
  LET own == LastValue(ws, LAMBDA w : IsG(w, 17 .. 19)) IN IF own = NoValue THEN 17 ELSE own
PlaneOf(ws, current) ==
  LET own == LastValue(ws, LAMBDA w : IsG(w, 17 .. 19)) IN IF own = NoValue THEN current ELSE own

IsAllowed(head, plane) ==
  head \in CASE plane = 17 -> {"I", "J"} [] plane = 18 -> {"I", "K"} [] plane = 19 -> {"J", "K"}

(* validateArcPlaneWords.                                                  *)
PlaneDiagnostics(l, k, plane) ==
  LET wrong == {i \in DOMAIN l.words :
                  /\ l.words[i].head \in Centers /\ l.words[i].value # NoValue
                  /\ ~IsAllowed(l.words[i].head, plane)} IN
    IF MotionOf(l.words) \notin {2, 3} THEN <<>>
    ELSE [i \in 1 .. Cardinality(wrong) |-> Diag("Error", k, "plane")]

(* addArcLoweringWarnings.                                                 *)
LoweringDiagnostics(l, k) ==
  LET ignored == {i \in DOMAIN l.words : l.words[i].head \in {"AP", "AR"}} IN
    IF MotionOf(l.words) \notin {2, 3} THEN <<>>
    ELSE [i \in 1 .. Cardinality(ignored) |-> Diag("Warning", k, "arc word")]

(* The lowerers of the families: each reads its own words, the last wins.  *)
FieldsOf(code) ==
  CASE code \in {0, 1} -> Axes \cup {"F"}
    [] code \in {2, 3} -> Axes \cup Centers \cup {"F"}
    [] code = 4 -> {"F", "S"}

MessageOf(l, k) ==
  LET code == MotionOf(l.words) IN
    [line |-> k, number |-> l.number, code |-> code,
     fields |-> [h \in FieldsOf(code) |->
                   LastValue(l.words, LAMBDA w : w.head = h /\ w.value \in Nat)]]

----------------------------------------------------------------------------
(* lowerToMessages: from the first line to the first rejected one.         *)

LowerLine(t, r, k) ==
  LET l == t[k]
      plane == PlaneOf(l.words, r.plane)
      wrong == PlaneDiagnostics(l, k, plane) IN
    IF r.rejected # NoValue \/ Skipped(l) THEN r
    ELSE IF HasError(r.diagnostics, k) THEN [r EXCEPT !.rejected = k]
    ELSE IF MotionOf(l.words) = NoValue THEN [r EXCEPT !.plane = plane]
    ELSE IF wrong # <<>> THEN [r EXCEPT !.rejected = k, !.diagnostics = @ \o wrong]
    ELSE [r EXCEPT !.plane = plane, !.messages = Append(@, MessageOf(l, k)),
                   !.diagnostics = @ \o LoweringDiagnostics(l, k)]

(* rejected is the one line that is rejected; its reasons are the errors   *)
(* of that line among the diagnostics.                                     *)
Unlowered(t) ==
  [plane |-> 17, messages |-> <<>>, diagnostics |-> ParseDiagnostics(t), rejected |-> NoValue]
LowerToMessages(t) == Loop(LAMBDA r, k : LowerLine(t, r, k), Unlowered(t), Len(t))
=============================================================================
