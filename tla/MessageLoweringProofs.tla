------------------------ MODULE MessageLoweringProofs ------------------------
(***************************************************************************)
(* What lowerToMessages makes of any text, of any length: the loop over    *)
(* its lines, round by round, and what follows by induction on them.       *)
(***************************************************************************)
EXTENDS MessageLowering, TLAPS, SequenceTheorems, FiniteSetTheorems

IsSeq(s) == \E S : s \in Seq(S)

----------------------------------------------------------------------------
(* Appending to a sequence.                                                *)

(* Appending adds one element behind the others.                           *)
LEMMA Appended ==
  ASSUME NEW s, IsSeq(s), NEW e
  PROVE  /\ IsSeq(Append(s, e)) /\ Len(s) \in Nat /\ DOMAIN s = 1 .. Len(s)
         /\ Len(Append(s, e)) = Len(s) + 1 /\ DOMAIN Append(s, e) = 1 .. Len(s) + 1
         /\ \A i \in DOMAIN s : Append(s, e)[i] = s[i]
         /\ Append(s, e)[Len(s) + 1] = e
<1>1. PICK S : s \in Seq(S)
  BY DEF IsSeq
<1>2. s \in Seq(S \cup {e}) /\ e \in S \cup {e}
  BY <1>1, SeqMonotonic
<1>3. Append(s, e) \in Seq(S \cup {e})
  BY <1>2, AppendProperties
<1>4. IsSeq(Append(s, e))
  BY <1>3 DEF IsSeq
<1>5. QED
  BY <1>2, <1>3, <1>4, AppendProperties, LenProperties

(* Putting nothing behind a sequence, or one element.                      *)
LEMMA NothingBehind == ASSUME NEW s, IsSeq(s) PROVE s \o <<>> = s
BY DEF IsSeq

LEMMA OneBehind == ASSUME NEW s, IsSeq(s), NEW e PROVE s \o <<e>> = Append(s, e)
BY DEF IsSeq

(* Changing the element at i keeps length and the other elements.          *)
LEMMA Changed ==
  ASSUME NEW s, IsSeq(s), NEW i \in DOMAIN s, NEW e
  PROVE  /\ IsSeq([s EXCEPT ![i] = e]) /\ DOMAIN [s EXCEPT ![i] = e] = DOMAIN s
         /\ Len([s EXCEPT ![i] = e]) = Len(s)
         /\ [s EXCEPT ![i] = e][i] = e
         /\ \A j \in DOMAIN s : j # i => [s EXCEPT ![i] = e][j] = s[j]
<1>1. PICK S : s \in Seq(S)
  BY DEF IsSeq
<1>2. s \in Seq(S \cup {e})
  BY <1>1, SeqMonotonic
<1>3. [s EXCEPT ![i] = e] \in Seq(S \cup {e})
  BY <1>2
<1>4. IsSeq([s EXCEPT ![i] = e])
  BY <1>3 DEF IsSeq
<1> QED
  BY <1>2, <1>3, <1>4

(* Taking off the last element.                                            *)
LEMMA Shortened ==
  ASSUME NEW s, IsSeq(s), s # <<>>
  PROVE  /\ IsSeq(SubSeq(s, 1, Len(s) - 1)) /\ Len(s) \in Nat \ {0}
         /\ DOMAIN s = 1 .. Len(s) /\ DOMAIN SubSeq(s, 1, Len(s) - 1) = 1 .. Len(s) - 1
         /\ \A i \in 1 .. Len(s) - 1 : SubSeq(s, 1, Len(s) - 1)[i] = s[i]
<1>1. PICK S : s \in Seq(S)
  BY DEF IsSeq
<1>2. SubSeq(s, 1, Len(s) - 1) \in Seq(S)
  BY <1>1
<1>3. IsSeq(SubSeq(s, 1, Len(s) - 1))
  BY <1>2 DEF IsSeq
<1> QED
  BY <1>1, <1>3

----------------------------------------------------------------------------
(* The loops of the module, as LoopTheorems knows them.                    *)

SyntaxLoop == INSTANCE LoopTheorems WITH Round <- SyntaxOfLine, First <- LAMBDA t : <<>>
SemanticsLoop == INSTANCE LoopTheorems WITH Round <- SemanticsOfLine, First <- LAMBDA t : <<>>
TextLoop == INSTANCE LoopTheorems WITH Round <- LowerLine, First <- Unlowered

(* What lowerToMessages has of the text t behind its first n lines.        *)
Lowered(t, n) == TextLoop!After(t, n)

(* The loop of lowerToMessages, and one round of it.                       *)
LEMMA LoweredWhole == \A t : LowerToMessages(t) = Lowered(t, Len(t))
BY DEF LowerToMessages, Lowered, TextLoop!After, TextLoop!Loop, Loop

LEMMA LoweredByLine ==
  \A t : /\ Lowered(t, 0) = Unlowered(t)
         /\ \A n \in Nat : Lowered(t, n + 1) = LowerLine(t, Lowered(t, n), n + 1)
BY TextLoop!LoopStarts, TextLoop!LoopSteps DEF Lowered

(* The same for the syntax errors of the parser ...                        *)
LEMMA SyntaxByLine ==
  \A t : /\ SyntaxDiagnostics(t) = SyntaxLoop!After(t, Len(t)) /\ SyntaxLoop!After(t, 0) = <<>>
         /\ \A n \in Nat : SyntaxLoop!After(t, n + 1) = SyntaxOfLine(t, SyntaxLoop!After(t, n), n + 1)
<1>1. \A t : SyntaxDiagnostics(t) = SyntaxLoop!After(t, Len(t))
  BY DEF SyntaxDiagnostics, SyntaxLoop!After, SyntaxLoop!Loop, Loop
<1>2. QED
  BY <1>1, SyntaxLoop!LoopStarts, SyntaxLoop!LoopSteps
(* ... and for addSemanticDiagnostics.                                     *)
LEMMA SemanticsByLine ==
  \A t : /\ SemanticDiagnostics(t) = SemanticsLoop!After(t, Len(t))
         /\ SemanticsLoop!After(t, 0) = <<>>
         /\ \A n \in Nat : SemanticsLoop!After(t, n + 1) =
                             SemanticsOfLine(t, SemanticsLoop!After(t, n), n + 1)
<1>1. \A t : SemanticDiagnostics(t) = SemanticsLoop!After(t, Len(t))
  BY DEF SemanticDiagnostics, SemanticsLoop!After, SemanticsLoop!Loop, Loop
<1>2. QED
  BY <1>1, SemanticsLoop!LoopStarts, SemanticsLoop!LoopSteps

(* Induction, as LoopTheorems has it.                                      *)
LEMMA SetInduction ==
  ASSUME NEW S, 0 \in S, \A n \in Nat : n \in S => n + 1 \in S
  PROVE  Nat \subseteq S
BY TextLoop!SetInduction

----------------------------------------------------------------------------
(* The last word that passes a test.                                       *)

(* A set of positions that has one has a last one.                         *)
LEMMA Greatest ==
  ASSUME NEW n \in Nat, NEW I, I \subseteq 1 .. n, I # {}
  PROVE  Max(I) \in I /\ \A i \in I : i <= Max(I)
<1> DEFINE S == {m \in Nat : \A J : J \subseteq 1 .. m /\ J # {} => \E i \in J : \A j \in J : i >= j}
<1>1. 0 \in S
  OBVIOUS
<1>2. ASSUME NEW m \in Nat, m \in S
      PROVE  m + 1 \in S
  <2> SUFFICES ASSUME NEW J, J \subseteq 1 .. m + 1, J # {}
               PROVE  \E i \in J : \A j \in J : i >= j
    OBVIOUS
  <2>1. CASE m + 1 \in J
    BY <2>1
  <2>2. CASE m + 1 \notin J
    <3>1. J \subseteq 1 .. m
      BY <2>2
    <3>2. QED
      BY <1>2, <3>1
  <2>3. QED
    BY <2>1, <2>2
<1>3. \E i \in I : \A j \in I : i >= j
  <2> HIDE DEF S
  <2>1. n \in S
    BY <1>1, <1>2, SetInduction
  <2>2. QED
    BY <2>1 DEF S
<1>4. Max(I) \in I /\ \A j \in I : Max(I) >= j
  BY <1>3 DEF Max
<1>5. QED
  BY <1>4

(* LastValue is the value of the last word that passes the test.           *)
LEMMA LastOfHits ==
  ASSUME NEW n \in Nat, NEW I, I \subseteq 1 .. n
  PROVE  LET at == IF I # {} THEN Max(I) ELSE 0 IN
           /\ at = 0 <=> I = {}
           /\ at # 0 => at \in I /\ \A i \in I : i <= at
<1>1. CASE I = {}
  BY <1>1
<1>2. CASE I # {}
  <2>1. Max(I) \in I /\ \A i \in I : i <= Max(I)
    BY <1>2, Greatest
  <2>2. Max(I) # 0
    BY <2>1
  <2>3. QED
    BY <1>2, <2>1, <2>2
<1>3. QED
  BY <1>1, <1>2

(* A line has a motion code of G0 to G4, or none.                          *)
LEMMA MotionCode ==
  ASSUME NEW ws, Len(ws) \in Nat, DOMAIN ws = 1 .. Len(ws)
  PROVE  /\ MotionOf(ws) \in Motion \cup {NoValue}
         /\ MotionOf(ws) = NoValue <=> \A i \in DOMAIN ws : ~IsG(ws[i], Motion)
<1> DEFINE I == {i \in 1 .. Len(ws) : IsG(ws[i], Motion)}
           at == IF I # {} THEN Max(I) ELSE 0
<1>1. MotionOf(ws) = IF at = 0 THEN NoValue ELSE ws[at].value
  BY DEF MotionOf, LastValue, SelectLastInSeq
<1>2. (at = 0 <=> I = {}) /\ (at # 0 => at \in I)
  BY LastOfHits
<1>3. NoValue \notin Motion
  BY DEF NoValue, Motion
<1> HIDE DEF at
<1>4. QED
  BY <1>1, <1>2, <1>3 DEF IsG

(* The plane of a line is that of its last plane code, or the one before.  *)
LEMMA PlaneCode ==
  ASSUME NEW ws, Len(ws) \in Nat, DOMAIN ws = 1 .. Len(ws), NEW current
  PROVE  LET own == {i \in DOMAIN ws : IsG(ws[i], 17 .. 19)} IN
           /\ own = {} => PlaneOf(ws, current) = current
           /\ \A i \in own : (\A j \in own : j <= i) => PlaneOf(ws, current) = ws[i].value
           /\ own # {} => PlaneOf(ws, current) \in 17 .. 19
<1> DEFINE own == {i \in 1 .. Len(ws) : IsG(ws[i], 17 .. 19)}
           at == IF own # {} THEN Max(own) ELSE 0
           value == IF at = 0 THEN NoValue ELSE ws[at].value
<1>1. PlaneOf(ws, current) = IF value = NoValue THEN current ELSE value
  BY DEF PlaneOf, LastValue, SelectLastInSeq
<1>2. (at = 0 <=> own = {}) /\ (at # 0 => at \in own /\ \A i \in own : i <= at)
  BY LastOfHits
<1> HIDE DEF at
<1>3. own = {} => PlaneOf(ws, current) = current
  BY <1>1, <1>2
<1>4. at # 0 => PlaneOf(ws, current) = ws[at].value /\ ws[at].value \in 17 .. 19
  BY <1>1, <1>2 DEF IsG, NoValue
<1>5. ASSUME NEW i \in own, \A j \in own : j <= i
      PROVE  i = at
  BY <1>2, <1>5
<1>6. QED
  BY <1>2, <1>3, <1>4, <1>5

(* From one of G17 to G19 every line goes to one of them.                  *)
LEMMA PlaneStaysPlane ==
  ASSUME NEW ws, Len(ws) \in Nat, DOMAIN ws = 1 .. Len(ws), NEW current \in 17 .. 19
  PROVE  PlaneOf(ws, current) \in 17 .. 19
BY PlaneCode

----------------------------------------------------------------------------
(* Diagnostics: which lines they report errors of.                         *)

Reasons == {"syntax", "rule", "duplicate N", "plane", "arc word"}
Diagnostic == [severity : {"Error", "Warning"}, line : Nat \ {0}, why : Reasons]

ErrorLines(ds) == {ds[i].line : i \in {j \in DOMAIN ds : ds[j].severity = "Error"}}

(* HasError asks for the lines that have an error.                         *)
LEMMA ErrorIsLine == \A ds, k : HasError(ds, k) <=> k \in ErrorLines(ds)
BY DEF HasError, ErrorLines

(* Two lists of diagnostics have the errors of both.                       *)
LEMMA ErrorsOfBoth ==
  ASSUME NEW ds \in Seq(Diagnostic), NEW es \in Seq(Diagnostic)
  PROVE  /\ ds \o es \in Seq(Diagnostic)
         /\ ErrorLines(ds \o es) = ErrorLines(ds) \cup ErrorLines(es)
<1>1. /\ ds \o es \in Seq(Diagnostic) /\ Len(ds \o es) = Len(ds) + Len(es)
      /\ Len(ds) \in Nat /\ Len(es) \in Nat
  BY ConcatProperties
<1>2. \A i \in DOMAIN ds : i \in DOMAIN (ds \o es) /\ (ds \o es)[i] = ds[i]
  BY <1>1
<1>3. \A i \in DOMAIN es : Len(ds) + i \in DOMAIN (ds \o es) /\ (ds \o es)[Len(ds) + i] = es[i]
  BY <1>1
<1>4. ASSUME NEW i \in DOMAIN (ds \o es)
      PROVE  (\E j \in DOMAIN ds : i = j) \/ (\E j \in DOMAIN es : i = Len(ds) + j)
  <2>1. CASE i <= Len(ds)
    BY <1>1, <2>1
  <2>2. CASE i > Len(ds)
    <3>1. i - Len(ds) \in DOMAIN es /\ i = Len(ds) + (i - Len(ds))
      BY <1>1, <2>2
    <3>2. QED
      BY <3>1
  <2>3. QED
    BY <1>1, <2>1, <2>2
<1>5. ErrorLines(ds) \subseteq ErrorLines(ds \o es)
  BY <1>2 DEF ErrorLines
<1>6. ErrorLines(es) \subseteq ErrorLines(ds \o es)
  BY <1>3 DEF ErrorLines
<1>7. ErrorLines(ds \o es) \subseteq ErrorLines(ds) \cup ErrorLines(es)
  BY <1>2, <1>3, <1>4 DEF ErrorLines
<1>8. QED
  BY <1>1, <1>5, <1>6, <1>7

LEMMA NoErrors == <<>> \in Seq(Diagnostic) /\ ErrorLines(<<>>) = {}
BY DEF ErrorLines

(* An error more is one of its line, a warning more is none.               *)
LEMMA OneError ==
  ASSUME NEW line \in Nat \ {0}, NEW why \in Reasons
  PROVE  /\ <<Diag("Error", line, why)>> \in Seq(Diagnostic)
         /\ ErrorLines(<<Diag("Error", line, why)>>) = {line}
<1>1. <<Diag("Error", line, why)>> \in Seq(Diagnostic)
  BY DEF Diag, Diagnostic
<1>2. ErrorLines(<<Diag("Error", line, why)>>) = {line}
  BY DEF Diag, ErrorLines
<1>3. QED
  BY <1>1, <1>2

LEMMA OneWarning ==
  ASSUME NEW line \in Nat \ {0}, NEW why \in Reasons
  PROVE  /\ <<Diag("Warning", line, why)>> \in Seq(Diagnostic)
         /\ ErrorLines(<<Diag("Warning", line, why)>>) = {}
<1>1. <<Diag("Warning", line, why)>> \in Seq(Diagnostic)
  BY DEF Diag, Diagnostic
<1>2. ErrorLines(<<Diag("Warning", line, why)>>) = {}
  BY DEF Diag, ErrorLines
<1>3. QED
  BY <1>1, <1>2

(* The syntax errors are those of the broken lines.                        *)
LEMMA SyntaxErrors ==
  ASSUME NEW t, Len(t) \in Nat
  PROVE  /\ SyntaxDiagnostics(t) \in Seq(Diagnostic)
         /\ ErrorLines(SyntaxDiagnostics(t)) = {k \in 1 .. Len(t) : t[k].broken}
<1> DEFINE reported(n) == SyntaxLoop!After(t, n)
           S == {n \in Nat : /\ reported(n) \in Seq(Diagnostic)
                             /\ ErrorLines(reported(n)) = {k \in 1 .. n : t[k].broken}}
<1>1. 0 \in S
  <2>1. reported(0) = <<>>
    BY SyntaxByLine
  <2>2. {k \in 1 .. 0 : t[k].broken} = {}
    OBVIOUS
  <2> HIDE DEF reported
  <2>3. QED
    BY <2>1, <2>2, NoErrors
<1>2. ASSUME NEW n \in Nat, n \in S
      PROVE  n + 1 \in S
  <2>1. reported(n + 1) = SyntaxOfLine(t, reported(n), n + 1)
    BY SyntaxByLine
  <2> HIDE DEF reported
  <2>2. CASE ~t[n + 1].broken
    BY <1>2, <2>1, <2>2 DEF SyntaxOfLine
  <2>3. CASE t[n + 1].broken
    <3> DEFINE new == <<Diag("Error", n + 1, "syntax")>>
    <3>1. new \in Seq(Diagnostic) /\ ErrorLines(new) = {n + 1}
      <4>1. n + 1 \in Nat \ {0}
        OBVIOUS
      <4>2. QED
        BY <4>1, OneError DEF Reasons
    <3>2. reported(n + 1) = reported(n) \o new
      BY <1>2, <2>1, <2>3, OneBehind DEF SyntaxOfLine, IsSeq
    <3> HIDE DEF new
    <3>3. /\ reported(n + 1) \in Seq(Diagnostic)
          /\ ErrorLines(reported(n + 1)) = ErrorLines(reported(n)) \cup {n + 1}
      BY <1>2, <3>1, <3>2, ErrorsOfBoth
    <3>4. QED
      BY <1>2, <2>3, <3>3
  <2>4. QED
    BY <2>2, <2>3
<1>3. Len(t) \in S
  <2> HIDE DEF S
  <2>1. QED
    BY <1>1, <1>2, SetInduction
<1>4. QED
  BY <1>3, SyntaxByLine

(* The rules report an error of exactly the lines that break one.          *)
LEMMA RuleErrors ==
  ASSUME NEW t, Len(t) \in Nat
  PROVE  /\ SemanticDiagnostics(t) \in Seq(Diagnostic)
         /\ ErrorLines(SemanticDiagnostics(t)) = {k \in 1 .. Len(t) : BreaksRule(t[k])}
<1> DEFINE reported(n) == SemanticsLoop!After(t, n)
           wrong == {k \in Nat : BreaksRule(t[k])}
           S == {n \in Nat : /\ reported(n) \in Seq(Diagnostic)
                             /\ ErrorLines(reported(n)) = wrong \cap 1 .. n}
<1>1. 0 \in S
  <2>1. reported(0) = <<>>
    BY SemanticsByLine
  <2> HIDE DEF reported, wrong
  <2>2. wrong \cap 1 .. 0 = {}
    OBVIOUS
  <2>3. QED
    BY <2>1, <2>2, NoErrors
<1>2. ASSUME NEW n \in Nat, n \in S
      PROVE  n + 1 \in S
  <2>0. n + 1 \in Nat \ {0}
    OBVIOUS
  <2> DEFINE warned == IF IsDuplicate(t, n + 1) THEN <<Diag("Warning", n + 1, "duplicate N")>> ELSE <<>>
             broken == IF BreaksRule(t[n + 1]) THEN <<Diag("Error", n + 1, "rule")>> ELSE <<>>
  <2>1. reported(n + 1) = reported(n) \o warned \o broken
    BY SemanticsByLine DEF SemanticsOfLine
  <2>2. warned \in Seq(Diagnostic) /\ ErrorLines(warned) = {}
    <3>1. CASE IsDuplicate(t, n + 1)
      <4>1. warned = <<Diag("Warning", n + 1, "duplicate N")>>
        BY <3>1
      <4>2. QED
        BY <2>0, <4>1, OneWarning DEF Reasons
    <3>2. CASE ~IsDuplicate(t, n + 1)
      BY <3>2, NoErrors
    <3>3. QED
      BY <3>1, <3>2, Zenon
  <2>3. broken \in Seq(Diagnostic) /\ ErrorLines(broken) = wrong \cap {n + 1}
    <3>1. CASE BreaksRule(t[n + 1])
      <4>1. wrong \cap {n + 1} = {n + 1}
        BY <2>0, <3>1, Zenon
      <4>2. broken = <<Diag("Error", n + 1, "rule")>>
        BY <3>1
      <4>3. QED
        <5> HIDE DEF wrong, broken
        <5>1. QED
          BY <2>0, <4>1, <4>2, OneError DEF Reasons
    <3>2. CASE ~BreaksRule(t[n + 1])
      <4>1. wrong \cap {n + 1} = {}
        BY <3>2, Zenon
      <4>2. QED
        <5> HIDE DEF wrong
        <5>1. QED
          BY <3>2, <4>1, NoErrors
    <3>3. QED
      BY <3>1, <3>2, Zenon
  <2> HIDE DEF reported, warned, broken, wrong
  <2>4. /\ reported(n) \o warned \in Seq(Diagnostic)
        /\ ErrorLines(reported(n) \o warned) = ErrorLines(reported(n))
    BY <1>2, <2>2, ErrorsOfBoth
  <2>5. /\ reported(n + 1) \in Seq(Diagnostic)
        /\ ErrorLines(reported(n + 1)) = ErrorLines(reported(n)) \cup (wrong \cap {n + 1})
    BY <2>1, <2>3, <2>4, ErrorsOfBoth
  <2>6. QED
    BY <1>2, <2>5
<1>3. Len(t) \in S
  <2> HIDE DEF S
  <2>1. QED
    BY <1>1, <1>2, SetInduction
<1>4. {k \in 1 .. Len(t) : BreaksRule(t[k])} = wrong \cap 1 .. Len(t)
  OBVIOUS
<1>5. QED
  <2> HIDE DEF wrong
  <2>1. QED
    BY <1>3, <1>4, SemanticsByLine

(* The parser reports an error of exactly the lines that are broken or     *)
(* break a rule.                                                           *)
LEMMA ParseErrors ==
  ASSUME NEW t, Len(t) \in Nat
  PROVE  /\ ParseDiagnostics(t) \in Seq(Diagnostic)
         /\ ErrorLines(ParseDiagnostics(t)) = {k \in 1 .. Len(t) : t[k].broken \/ BreaksRule(t[k])}
<1> DEFINE broken == {k \in 1 .. Len(t) : t[k].broken}
           wrong == {k \in 1 .. Len(t) : BreaksRule(t[k])}
<1>1. /\ ParseDiagnostics(t) \in Seq(Diagnostic)
      /\ ErrorLines(ParseDiagnostics(t)) = broken \cup wrong
  <2> HIDE DEF broken, wrong
  <2>1. QED
    BY SyntaxErrors, RuleErrors, ErrorsOfBoth DEF ParseDiagnostics, broken, wrong
<1>2. broken \cup wrong = {k \in 1 .. Len(t) : t[k].broken \/ BreaksRule(t[k])}
  BY Zenon
<1>3. QED
  BY <1>1, <1>2

----------------------------------------------------------------------------
(* What one line adds.                                                     *)

(* All a proof needs to know of a text: it has lines, and they have words. *)
IsText(t) ==
  /\ Len(t) \in Nat /\ DOMAIN t = 1 .. Len(t)
  /\ \A k \in 1 .. Len(t) :
       Len(t[k].words) \in Nat /\ DOMAIN t[k].words = 1 .. Len(t[k].words)

(* A sequence of lines is a text.                                          *)
LEMMA LinesMakeText == \A t \in Seq(TextLines) : IsText(t)
<1> TAKE t \in Seq(TextLines)
<1>1. ASSUME NEW k \in 1 .. Len(t)
      PROVE  Len(t[k].words) \in Nat /\ DOMAIN t[k].words = 1 .. Len(t[k].words)
  <2>1. t[k] \in TextLine
    BY TextLinesAssumption
  <2>2. t[k].words \in Seq(Word)
    BY <2>1 DEF TextLine
  <2>3. QED
    BY <2>2
<1>2. QED
  BY <1>1 DEF IsText

(* Any number of errors of one line are errors of that line.               *)
LEMMA SameError ==
  ASSUME NEW n \in Nat, NEW line \in Nat \ {0}, NEW why \in Reasons,
         NEW ds, ds = [i \in 1 .. n |-> Diag("Error", line, why)]
  PROVE  /\ ds \in Seq(Diagnostic) /\ (ds = <<>> <=> n = 0)
         /\ ErrorLines(ds) = IF n = 0 THEN {} ELSE {line}
<1>1. Diag("Error", line, why) \in Diagnostic
  BY DEF Diag, Diagnostic
<1>2. ds \in Seq(Diagnostic) /\ Len(ds) = n
  BY <1>1
<1>3. ds = <<>> <=> n = 0
  BY <1>2
<1>4. \A i \in DOMAIN ds : ds[i].severity = "Error" /\ ds[i].line = line
  BY DEF Diag
<1>5. ErrorLines(ds) \subseteq {line}
  BY <1>4 DEF ErrorLines
<1>6. ASSUME ds # <<>>
      PROVE  line \in ErrorLines(ds)
  <2>1. 1 \in DOMAIN ds
    BY <1>2, <1>3, <1>6
  <2>2. QED
    BY <1>4, <2>1 DEF ErrorLines
<1>7. ds = <<>> => ErrorLines(ds) = {}
  BY NoErrors
<1>8. QED
  BY <1>2, <1>3, <1>5, <1>6, <1>7

(* Warnings, as many as there are, are no errors.                          *)
LEMMA SameWarning ==
  ASSUME NEW n \in Nat, NEW line \in Nat \ {0}, NEW why \in Reasons,
         NEW ds, ds = [i \in 1 .. n |-> Diag("Warning", line, why)]
  PROVE  ds \in Seq(Diagnostic) /\ ErrorLines(ds) = {}
<1>1. Diag("Warning", line, why) \in Diagnostic
  BY DEF Diag, Diagnostic
<1>2. ds \in Seq(Diagnostic)
  BY <1>1
<1>3. \A i \in DOMAIN ds : ds[i].severity = "Warning"
  BY DEF Diag
<1>4. ErrorLines(ds) = {}
  BY <1>3 DEF ErrorLines
<1>5. QED
  BY <1>2, <1>4

IsArc(l) == MotionOf(l.words) \in {2, 3}
FitsPlane(l, plane) ==
  \A i \in DOMAIN l.words :
    l.words[i].head \in Centers /\ l.words[i].value # NoValue => IsAllowed(l.words[i].head, plane)

(* validateArcPlaneWords reports errors of its line, and none exactly if   *)
(* every center word fits the plane.                                       *)
LEMMA PlaneErrors ==
  ASSUME NEW l, Len(l.words) \in Nat, DOMAIN l.words = 1 .. Len(l.words),
         NEW k \in Nat \ {0}, NEW plane
  PROVE  LET ds == PlaneDiagnostics(l, k, plane) IN
           /\ ds \in Seq(Diagnostic) /\ ErrorLines(ds) = IF ds = <<>> THEN {} ELSE {k}
           /\ ds = <<>> <=> ~IsArc(l) \/ FitsPlane(l, plane)
<1> DEFINE ds == PlaneDiagnostics(l, k, plane)
           wrong == {i \in DOMAIN l.words :
                       /\ l.words[i].head \in Centers /\ l.words[i].value # NoValue
                       /\ ~IsAllowed(l.words[i].head, plane)}
           reports == [i \in 1 .. Cardinality(wrong) |-> Diag("Error", k, "plane")]
<1>1. IsFiniteSet(wrong)
  <2>1. IsFiniteSet(1 .. Len(l.words))
    BY FS_Interval
  <2>2. QED
    BY <2>1, FS_Subset
<1>2. Cardinality(wrong) \in Nat /\ (Cardinality(wrong) = 0 <=> wrong = {})
  <2> HIDE DEF wrong
  <2>1. QED
    BY <1>1, FS_CardinalityType, FS_EmptySet
<1>3. wrong = {} <=> FitsPlane(l, plane)
  BY DEF FitsPlane
<1>4. /\ reports \in Seq(Diagnostic) /\ (reports = <<>> <=> wrong = {})
      /\ ErrorLines(reports) = IF reports = <<>> THEN {} ELSE {k}
  <2>1. "plane" \in Reasons
    BY DEF Reasons
  <2> DEFINE n == Cardinality(wrong)
  <2>2. reports = [i \in 1 .. n |-> Diag("Error", k, "plane")]
    OBVIOUS
  <2> HIDE DEF wrong, reports, n
  <2>3. n \in Nat /\ (n = 0 <=> wrong = {})
    BY <1>2 DEF n
  <2>a. n \in Nat
    BY <2>3
  <2>b. \A es : es = [i \in 1 .. n |-> Diag("Error", k, "plane")] => es \in Seq(Diagnostic) /\ (es = <<>> <=> n = 0)
          /\ ErrorLines(es) = IF n = 0 THEN {} ELSE {k}
    BY <2>1, <2>a, SameError
  <2>4. /\ reports \in Seq(Diagnostic) /\ (reports = <<>> <=> n = 0)
        /\ ErrorLines(reports) = IF n = 0 THEN {} ELSE {k}
    BY <2>2, <2>b
  <2>5. QED
    BY <2>3, <2>4
<1>5. ds = IF IsArc(l) THEN reports ELSE <<>>
  BY DEF PlaneDiagnostics, IsArc
<1> HIDE DEF ds, reports, wrong
<1>6. QED
  BY <1>3, <1>4, <1>5, NoErrors DEF ds

(* addArcLoweringWarnings reports warnings only.                           *)
LEMMA ArcWarnings ==
  ASSUME NEW l, Len(l.words) \in Nat, DOMAIN l.words = 1 .. Len(l.words), NEW k \in Nat \ {0}
  PROVE  LoweringDiagnostics(l, k) \in Seq(Diagnostic) /\ ErrorLines(LoweringDiagnostics(l, k)) = {}
<1> DEFINE ignored == {i \in DOMAIN l.words : l.words[i].head \in {"AP", "AR"}}
           reports == [i \in 1 .. Cardinality(ignored) |-> Diag("Warning", k, "arc word")]
<1>1. IsFiniteSet(ignored)
  <2>1. IsFiniteSet(1 .. Len(l.words))
    BY FS_Interval
  <2>2. QED
    BY <2>1, FS_Subset
<1>2. Cardinality(ignored) \in Nat
  BY <1>1, FS_CardinalityType
<1>3. reports \in Seq(Diagnostic) /\ ErrorLines(reports) = {}
  <2>1. "arc word" \in Reasons
    BY DEF Reasons
  <2> DEFINE n == Cardinality(ignored)
  <2>2. reports = [i \in 1 .. n |-> Diag("Warning", k, "arc word")]
    OBVIOUS
  <2> HIDE DEF ignored, reports, n
  <2>3. n \in Nat
    BY <1>2 DEF n
  <2>4. QED
    BY <2>1, <2>2, <2>3, SameWarning
<1>4. LoweringDiagnostics(l, k) = IF IsArc(l) THEN reports ELSE <<>>
  BY DEF LoweringDiagnostics, IsArc
<1> HIDE DEF reports
<1>5. QED
  BY <1>3, <1>4, NoErrors

----------------------------------------------------------------------------
(* The loop over the lines.                                                *)

MessagesOf(t, n) == {MessageOf(t[k], k) : k \in 1 .. n}

Result(t, n) ==
  [plane : 17 .. 19, messages : Seq(MessagesOf(t, n)), diagnostics : Seq(Diagnostic),
   rejected : {NoValue} \cup 1 .. n]

(* The lines no message can come from whatever the plane is: the errors of *)
(* the parser and of the rules.                                            *)
FaultyLines(t) == ErrorLines(ParseDiagnostics(t))

(* What the loop keeps to: a line has an error when the parser says so, or *)
(* when it is the one that was rejected.                                   *)
IsResult(t, r, n) ==
  /\ r \in Result(t, n)
  /\ ErrorLines(r.diagnostics) = FaultyLines(t) \cup ({r.rejected} \ {NoValue})

(* A message more is one of the next line.                                 *)
LEMMA MoreMessages ==
  ASSUME NEW t, NEW n \in Nat, NEW ms \in Seq(MessagesOf(t, n))
  PROVE  /\ ms \in Seq(MessagesOf(t, n + 1))
         /\ Append(ms, MessageOf(t[n + 1], n + 1)) \in Seq(MessagesOf(t, n + 1))
<1>1. MessagesOf(t, n) \subseteq MessagesOf(t, n + 1)
  BY DEF MessagesOf
<1>2. MessageOf(t[n + 1], n + 1) \in MessagesOf(t, n + 1)
  BY DEF MessagesOf
<1>3. ms \in Seq(MessagesOf(t, n + 1))
  BY <1>1, SeqMonotonic
<1>4. QED
  BY <1>2, <1>3, AppendProperties

(* One line: it is passed over, rejected, sets the plane or gives a        *)
(* message.                                                                *)
PlaneAt(t, r, k) == PlaneOf(t[k].words, r.plane)
WrongAt(t, r, k) == PlaneDiagnostics(t[k], k, PlaneAt(t, r, k))

(* The five ways a line can go: it is not looked at or skipped ...         *)
LEMMA PassedOver ==
  ASSUME NEW t, NEW r, NEW k, r.rejected # NoValue \/ Skipped(t[k])
  PROVE  LowerLine(t, r, k) = r
BY Zenon DEF LowerLine

(* ... rejected for an error of the parser or of a rule ...                *)
LEMMA Rejected ==
  ASSUME NEW t, NEW n, NEW r, IsResult(t, r, n), r.rejected = NoValue,
         NEW k, ~Skipped(t[k]), k \in FaultyLines(t)
  PROVE  LowerLine(t, r, k) = [r EXCEPT !.rejected = k]
<1>1. HasError(r.diagnostics, k)
  BY ErrorIsLine DEF IsResult
<1>2. QED
  BY <1>1, Zenon DEF LowerLine

(* ... without a motion, so that it can only set the plane ...             *)
LEMMA SetsPlane ==
  ASSUME NEW t, NEW n, NEW r, IsResult(t, r, n), r.rejected = NoValue,
         NEW k, ~Skipped(t[k]), k \notin FaultyLines(t), MotionOf(t[k].words) = NoValue
  PROVE  LowerLine(t, r, k) = [r EXCEPT !.plane = PlaneAt(t, r, k)]
<1>1. ~HasError(r.diagnostics, k)
  BY ErrorIsLine DEF IsResult
<1>2. QED
  BY <1>1, Zenon DEF LowerLine, PlaneAt, WrongAt

(* ... rejected for a center that does not fit the plane ...               *)
LEMMA RejectsArc ==
  ASSUME NEW t, NEW n, NEW r, IsResult(t, r, n), r.rejected = NoValue,
         NEW k, ~Skipped(t[k]), k \notin FaultyLines(t), 
         MotionOf(t[k].words) # NoValue, WrongAt(t, r, k) # <<>>
  PROVE  LowerLine(t, r, k) = [r EXCEPT !.rejected = k, !.diagnostics = @ \o WrongAt(t, r, k)]
<1>1. ~HasError(r.diagnostics, k)
  BY ErrorIsLine DEF IsResult
<1>2. QED
  BY <1>1, Zenon DEF LowerLine, PlaneAt, WrongAt

(* ... or it gives a message.                                              *)
LEMMA GivesMessage ==
  ASSUME NEW t, NEW n, NEW r, IsResult(t, r, n), r.rejected = NoValue,
         NEW k, ~Skipped(t[k]), k \notin FaultyLines(t), 
         MotionOf(t[k].words) # NoValue, WrongAt(t, r, k) = <<>>
  PROVE  LowerLine(t, r, k) =
           [r EXCEPT !.plane = PlaneAt(t, r, k), !.messages = Append(@, MessageOf(t[k], k)),
                     !.diagnostics = @ \o LoweringDiagnostics(t[k], k)]
<1>1. ~HasError(r.diagnostics, k)
  BY ErrorIsLine DEF IsResult
<1>2. QED
  BY <1>1, Zenon DEF LowerLine, PlaneAt, WrongAt

(* One line more: what was a result of the first n lines is one of n + 1.  *)
LEMMA LowerLineKeeps ==
  ASSUME NEW t, IsText(t), NEW n \in Nat, n < Len(t), NEW r, IsResult(t, r, n)
  PROVE  IsResult(t, LowerLine(t, r, n + 1), n + 1)
<1> DEFINE l == t[n + 1]
           k == n + 1
           plane == PlaneAt(t, r, n + 1)
           next == LowerLine(t, r, n + 1)
           wrong == WrongAt(t, r, n + 1)
           warned == LoweringDiagnostics(l, n + 1)
           more == Append(r.messages, MessageOf(l, n + 1))
<1>1. /\ r \in Result(t, n) /\ r.plane \in 17 .. 19 /\ r.messages \in Seq(MessagesOf(t, n))
      /\ r.diagnostics \in Seq(Diagnostic) /\ r.rejected \in {NoValue} \cup 1 .. n
      /\ ErrorLines(r.diagnostics) = FaultyLines(t) \cup ({r.rejected} \ {NoValue})
  BY DEF IsResult, Result
<1>2. Len(l.words) \in Nat /\ DOMAIN l.words = 1 .. Len(l.words) /\ k \in Nat \ {0}
  BY DEF IsText
<1>3. plane \in 17 .. 19
  BY <1>1, <1>2, PlaneStaysPlane DEF PlaneAt
<1>4. r \in Result(t, n + 1) /\ more \in Seq(MessagesOf(t, n + 1))
  BY <1>1, MoreMessages DEF Result
<1>5. /\ wrong \in Seq(Diagnostic) /\ ErrorLines(wrong) = (IF wrong = <<>> THEN {} ELSE {k})
      /\ warned \in Seq(Diagnostic) /\ ErrorLines(warned) = {}
  BY <1>2, PlaneErrors, ArcWarnings DEF WrongAt
<1>6. /\ r.diagnostics \o wrong \in Seq(Diagnostic)
      /\ ErrorLines(r.diagnostics \o wrong) = ErrorLines(r.diagnostics) \cup ErrorLines(wrong)
      /\ r.diagnostics \o warned \in Seq(Diagnostic)
      /\ ErrorLines(r.diagnostics \o warned) = ErrorLines(r.diagnostics)
  BY <1>1, <1>5, ErrorsOfBoth
<1>7. NoValue \notin Nat
  BY DEF NoValue
<1>b. r = [plane |-> r.plane, messages |-> r.messages, diagnostics |-> r.diagnostics,
           rejected |-> r.rejected]
  BY <1>1 DEF Result
<1>c. k \in 1 .. n + 1
  BY <1>2
<1> HIDE DEF plane, wrong, warned, more, next
<1>8. ASSUME r.rejected # NoValue \/ Skipped(l)
      PROVE  IsResult(t, next, n + 1)
  BY <1>1, <1>4, <1>8, PassedOver DEF IsResult, next
<1>9. ASSUME r.rejected = NoValue, ~Skipped(l), k \in FaultyLines(t)
      PROVE  IsResult(t, next, n + 1)
  <2>1. next = [r EXCEPT !.rejected = k]
    BY <1>9, Rejected DEF next
  <2>a. next = [plane |-> r.plane, messages |-> r.messages, diagnostics |-> r.diagnostics,
                rejected |-> k]
    BY <1>b, <2>1
  <2>2. next \in Result(t, n + 1)
    BY <1>1, <1>2, <1>c, <2>a, MoreMessages DEF Result
  <2>3. next.diagnostics = r.diagnostics /\ next.rejected = k
    BY <1>4, <2>1 DEF Result
  <2>4. QED
    BY <1>1, <1>2, <1>9, <2>2, <2>3 DEF IsResult
<1>10. ASSUME r.rejected = NoValue, ~Skipped(l), k \notin FaultyLines(t), MotionOf(l.words) = NoValue
       PROVE  IsResult(t, next, n + 1)
  <2>1. next = [r EXCEPT !.plane = plane]
    BY <1>10, SetsPlane DEF next, plane, wrong, warned
  <2>2. next \in Result(t, n + 1)
    BY <1>1, <1>b, <1>3, <1>4, <2>1 DEF Result
  <2>3. next.diagnostics = r.diagnostics /\ next.rejected = NoValue
    BY <1>4, <1>10, <2>1 DEF Result
  <2>4. QED
    BY <1>1, <1>10, <2>2, <2>3 DEF IsResult
<1>11. ASSUME r.rejected = NoValue, ~Skipped(l), k \notin FaultyLines(t), MotionOf(l.words) # NoValue,
              wrong # <<>>
       PROVE  IsResult(t, next, n + 1)
  <2>1. next = [r EXCEPT !.rejected = k, !.diagnostics = @ \o wrong]
    BY <1>11, RejectsArc DEF next, plane, wrong, warned
  <2>a. next = [plane |-> r.plane, messages |-> r.messages,
                diagnostics |-> r.diagnostics \o wrong, rejected |-> k]
    BY <1>b, <2>1
  <2>2. next \in Result(t, n + 1)
    BY <1>1, <1>2, <1>6, <1>c, <2>a, MoreMessages DEF Result
  <2>3. next.diagnostics = r.diagnostics \o wrong /\ next.rejected = k
    BY <1>4, <2>1 DEF Result
  <2>4. QED
    BY <1>1, <1>2, <1>5, <1>6, <1>7, <1>11, <2>2, <2>3 DEF IsResult
<1>12. ASSUME r.rejected = NoValue, ~Skipped(l), k \notin FaultyLines(t), MotionOf(l.words) # NoValue,
              wrong = <<>>
       PROVE  IsResult(t, next, n + 1)
  <2>1. next = [r EXCEPT !.plane = plane, !.messages = Append(@, MessageOf(l, n + 1)),
                         !.diagnostics = @ \o warned]
    BY <1>12, GivesMessage DEF next, plane, wrong, warned
  <2>a. next = [plane |-> plane, messages |-> more,
                diagnostics |-> r.diagnostics \o warned, rejected |-> NoValue]
    BY <1>b, <1>12, <2>1 DEF more
  <2>2. next \in Result(t, n + 1)
    BY <1>3, <1>4, <1>6, <2>a DEF Result
  <2>3. next.diagnostics = r.diagnostics \o warned /\ next.rejected = NoValue
    BY <1>4, <1>12, <2>1 DEF Result
  <2>4. QED
    BY <1>1, <1>6, <1>12, <2>2, <2>3 DEF IsResult
<1>13. QED
  BY <1>8, <1>9, <1>10, <1>11, <1>12, Zenon DEF next

(* lowerToMessages of any text, of any length, after any number of lines:  *)
(* messages of these lines, a plane of G17 to G19, and at most one         *)
(* rejected line, which is one of them.                                    *)
THEOREM LoweredIsResult ==
  ASSUME NEW t, IsText(t)
  PROVE  \A n \in 0 .. Len(t) : IsResult(t, Lowered(t, n), n)
<1> DEFINE S == {n \in Nat : n <= Len(t) => IsResult(t, Lowered(t, n), n)}
<1>1. 0 \in S
  <2>1. Lowered(t, 0) = Unlowered(t)
    BY LoweredByLine
  <2>2. <<>> \in Seq(MessagesOf(t, 0)) /\ ParseDiagnostics(t) \in Seq(Diagnostic)
    BY ParseErrors DEF IsText
  <2>3. IsResult(t, Unlowered(t), 0)
    BY <2>2 DEF Unlowered, IsResult, Result, FaultyLines
  <2>4. QED
    BY <2>1, <2>3
<1>2. ASSUME NEW n \in Nat, n \in S
      PROVE  n + 1 \in S
  <2>1. n + 1 <= Len(t) => IsResult(t, Lowered(t, n + 1), n + 1)
    <3> SUFFICES ASSUME n + 1 <= Len(t)
                 PROVE  IsResult(t, Lowered(t, n + 1), n + 1)
      OBVIOUS
    <3>1. n < Len(t) /\ IsResult(t, Lowered(t, n), n)
      BY <1>2 DEF IsText
    <3>2. QED
      BY <3>1, LoweredByLine, LowerLineKeeps
  <2>2. QED
    BY <2>1
<1>3. Nat \subseteq S
  <2> HIDE DEF S
  <2>1. QED
    BY <1>1, <1>2, SetInduction
<1>4. QED
  BY <1>3 DEF IsText

----------------------------------------------------------------------------
(* A line takes nothing back of what the lines before it have given.       *)

LEMMA PrefixOfItself == \A s : IsSeq(s) => IsPrefix(s, s)
<1>1. \A s : IsSeq(s) => Len(s) \in Nat
  BY Appended
<1>2. QED
  BY <1>1 DEF IsPrefix

(* A sequence is a beginning of itself with anything behind it.            *)
LEMMA PrefixOfBoth == \A S : \A s, u \in Seq(S) : IsPrefix(s, s \o u)
<1> SUFFICES ASSUME NEW S, NEW s \in Seq(S), NEW u \in Seq(S)
             PROVE  IsPrefix(s, s \o u)
  OBVIOUS
<1>1. s \o u \in Seq(S) /\ Len(s \o u) = Len(s) + Len(u) /\ Len(s) \in Nat /\ Len(u) \in Nat
  BY ConcatProperties
<1>2. \A i \in 1 .. Len(s) : (s \o u)[i] = s[i]
  BY <1>1
<1>3. SubSeq(s, 1, Len(s)) = SubSeq(s \o u, 1, Len(s))
  BY <1>1, <1>2
<1>4. QED
  BY <1>1, <1>3 DEF IsPrefix

(* What it means for the elements.                                         *)
LEMMA PrefixByElements ==
  ASSUME NEW s, IsSeq(s), NEW u, IsSeq(u)
  PROVE  IsPrefix(s, u) <=> Len(s) <= Len(u) /\ \A i \in 1 .. Len(s) : s[i] = u[i]
<1>1. PICK S : s \in Seq(S)
  BY DEF IsSeq
<1>2. PICK U : u \in Seq(U)
  BY DEF IsSeq
<1>3. Len(s) \in Nat /\ Len(u) \in Nat
  BY <1>1, <1>2
<1>4. ASSUME Len(s) <= Len(u), SubSeq(s, 1, Len(s)) = SubSeq(u, 1, Len(s)), NEW i \in 1 .. Len(s)
      PROVE  s[i] = u[i]
  <2>1. SubSeq(s, 1, Len(s))[i] = s[i] /\ SubSeq(u, 1, Len(s))[i] = u[i]
    BY <1>1, <1>2, <1>3, <1>4
  <2>2. QED
    BY <1>4, <2>1
<1>5. ASSUME Len(s) <= Len(u), \A i \in 1 .. Len(s) : s[i] = u[i]
      PROVE  SubSeq(s, 1, Len(s)) = SubSeq(u, 1, Len(s))
  BY <1>1, <1>2, <1>3, <1>5
<1>6. QED
  BY <1>4, <1>5 DEF IsPrefix

LEMMA PrefixOfPrefix ==
  ASSUME NEW s, IsSeq(s), NEW u, IsSeq(u), NEW v, IsSeq(v), IsPrefix(s, u), IsPrefix(u, v)
  PROVE  IsPrefix(s, v)
<1>1. Len(s) \in Nat /\ Len(u) \in Nat /\ Len(v) \in Nat
  BY Appended
<1>2. QED
  BY <1>1, PrefixByElements

Grows(r, next) ==
  /\ IsPrefix(r.messages, next.messages) /\ IsPrefix(r.diagnostics, next.diagnostics)
  /\ r.rejected # NoValue => next = r

(* What a line adds stands behind what was there.                          *)
LEMMA LowerLineGrows ==
  ASSUME NEW t, IsText(t), NEW n \in Nat, n < Len(t), NEW r, IsResult(t, r, n)
  PROVE  Grows(r, LowerLine(t, r, n + 1))
<1> DEFINE k == n + 1
           next == LowerLine(t, r, k)
           wrong == WrongAt(t, r, k)
           warned == LoweringDiagnostics(t[k], k)
           more == Append(r.messages, MessageOf(t[k], k))
<1>1. /\ r.messages \in Seq(MessagesOf(t, n)) /\ r.diagnostics \in Seq(Diagnostic)
      /\ r = [plane |-> r.plane, messages |-> r.messages, diagnostics |-> r.diagnostics,
              rejected |-> r.rejected]
  BY DEF IsResult, Result
<1>2. Len(t[k].words) \in Nat /\ DOMAIN t[k].words = 1 .. Len(t[k].words) /\ k \in Nat \ {0}
  BY DEF IsText
<1>3. wrong \in Seq(Diagnostic) /\ warned \in Seq(Diagnostic)
  BY <1>2, PlaneErrors, ArcWarnings DEF WrongAt
<1>4. /\ IsPrefix(r.messages, r.messages) /\ IsPrefix(r.diagnostics, r.diagnostics)
      /\ IsPrefix(r.diagnostics, r.diagnostics \o wrong)
      /\ IsPrefix(r.diagnostics, r.diagnostics \o warned)
  BY <1>1, <1>3, PrefixOfItself, PrefixOfBoth DEF IsSeq
<1>5. IsPrefix(r.messages, more)
  <2>1. IsSeq(r.messages)
    BY <1>1 DEF IsSeq
  <2> DEFINE old == r.messages
             new == MessageOf(t[k], k)
  <2>2. IsSeq(more) /\ Len(old) \in Nat /\ Len(more) = Len(old) + 1 /\ \A i \in 1 .. Len(old) : more[i] = old[i]
    <3> HIDE DEF new
    <3>1. QED
      BY <2>1, Appended DEF old, more, new
  <2> HIDE DEF more, new
  <2>3. QED
    BY <2>1, <2>2, PrefixByElements
<1> HIDE DEF wrong, warned, more, next, k
<1>6. CASE r.rejected # NoValue \/ Skipped(t[k])
  <2>1. next = r
    BY <1>6, PassedOver DEF next
  <2>2. QED
    BY <1>4, <2>1 DEF Grows, next, k
<1>7. CASE r.rejected = NoValue /\ ~Skipped(t[k]) /\ k \in FaultyLines(t)
  <2>1. next = [r EXCEPT !.rejected = k]
    BY <1>7, Rejected DEF next
  <2>2. next.messages = r.messages /\ next.diagnostics = r.diagnostics
    BY <1>1, <2>1
  <2>3. QED
    BY <1>4, <1>7, <2>2 DEF Grows, next, k
<1>8. CASE r.rejected = NoValue /\ ~Skipped(t[k]) /\ k \notin FaultyLines(t) /\ MotionOf(t[k].words) = NoValue
  <2>1. next = [r EXCEPT !.plane = PlaneAt(t, r, k)]
    BY <1>8, SetsPlane DEF next
  <2>2. next.messages = r.messages /\ next.diagnostics = r.diagnostics
    BY <1>1, <2>1
  <2>3. QED
    BY <1>4, <1>8, <2>2 DEF Grows, next, k
<1>9. CASE r.rejected = NoValue /\ ~Skipped(t[k]) /\ k \notin FaultyLines(t) /\ MotionOf(t[k].words) # NoValue
  <2>1. CASE wrong # <<>>
    <3>1. next = [r EXCEPT !.rejected = k, !.diagnostics = @ \o wrong]
      BY <1>9, <2>1, RejectsArc DEF next, wrong
    <3>2. next.messages = r.messages /\ next.diagnostics = r.diagnostics \o wrong
      BY <1>1, <3>1
    <3>3. QED
      BY <1>4, <1>9, <3>2 DEF Grows, next, k
  <2>2. CASE wrong = <<>>
    <3>1. next = [r EXCEPT !.plane = PlaneAt(t, r, k), !.messages = more,
                           !.diagnostics = @ \o warned]
      BY <1>9, <2>2, GivesMessage DEF next, wrong, more, warned
    <3>2. next.messages = more /\ next.diagnostics = r.diagnostics \o warned
      BY <1>1, <3>1
    <3>3. QED
      BY <1>4, <1>5, <1>9, <3>2 DEF Grows, next, k
  <2>3. QED
    BY <2>1, <2>2
<1>10. QED
  BY <1>6, <1>7, <1>8, <1>9, Zenon

(* What n lines have given is a beginning of what more lines give; a       *)
(* rejected line is the end.                                               *)
THEOREM LoweredGrows ==
  ASSUME NEW t, IsText(t), NEW n \in 0 .. Len(t), NEW m \in n .. Len(t)
  PROVE  Grows(Lowered(t, n), Lowered(t, m))
<1> DEFINE S == {d \in Nat : n + d <= Len(t) => Grows(Lowered(t, n), Lowered(t, n + d))}
<1>0. Len(t) \in Nat
  BY DEF IsText
<1>a. \A k \in 0 .. Len(t) : IsSeq(Lowered(t, k).messages) /\ IsSeq(Lowered(t, k).diagnostics)
  BY LoweredIsResult DEF IsResult, Result, IsSeq
<1>1. 0 \in S
  <2>1. n + 0 = n
    BY <1>0
  <2>2. Grows(Lowered(t, n), Lowered(t, n))
    BY <1>a, PrefixOfItself DEF Grows
  <2>3. QED
    BY <2>1, <2>2
<1>2. ASSUME NEW d \in Nat, d \in S
      PROVE  d + 1 \in S
  <2> DEFINE k == n + d
  <2> SUFFICES ASSUME k + 1 <= Len(t)
               PROVE  Grows(Lowered(t, n), Lowered(t, k + 1))
    BY <1>0
  <2>1. k \in Nat /\ k < Len(t) /\ k \in 0 .. Len(t) /\ k + 1 \in 0 .. Len(t)
    BY <1>0
  <2>2. Grows(Lowered(t, n), Lowered(t, k))
    BY <1>2, <2>1
  <2> HIDE DEF k
  <2>3. IsResult(t, Lowered(t, k), k)
    BY <2>1, LoweredIsResult
  <2>4. Grows(Lowered(t, k), Lowered(t, k + 1))
    BY <2>1, <2>3, LoweredByLine, LowerLineGrows
  <2>5. QED
    BY <1>a, <2>1, <2>2, <2>4, PrefixOfPrefix DEF Grows
<1>3. m - n \in S
  <2>1. m - n \in Nat
    BY <1>0
  <2> HIDE DEF S
  <2>2. QED
    BY <1>1, <1>2, <2>1, SetInduction
<1>4. n + (m - n) = m
  BY <1>0
<1>5. QED
  BY <1>0, <1>3, <1>4

----------------------------------------------------------------------------
(* What becomes of line k when no line before it was rejected.             *)

Stops(t, k) ==
  ~Skipped(t[k]) /\ (k \in FaultyLines(t) \/ WrongAt(t, Lowered(t, k - 1), k) # <<>>)
GivesOne(t, k) == ~Skipped(t[k]) /\ MotionOf(t[k].words) # NoValue

(* What a line does, said without the loop: nothing behind a rejection; a  *)
(* skipped line nothing; a faulty line or a misfit arc is the rejected     *)
(* one; any other line sets the plane and gives a message if it moves.     *)
LEMMA LineOutcome ==
  ASSUME NEW t, IsText(t), NEW k \in 1 .. Len(t)
  PROVE  LET r == Lowered(t, k - 1)
             next == Lowered(t, k) IN
           /\ r.rejected # NoValue => next = r
           /\ r.rejected = NoValue /\ Stops(t, k) => next.rejected = k /\ next.messages = r.messages
           /\ r.rejected = NoValue /\ ~Stops(t, k) =>
                /\ next.rejected = NoValue
                /\ next.messages = IF GivesOne(t, k) THEN Append(r.messages, MessageOf(t[k], k))
                                   ELSE r.messages
                /\ next.plane = IF Skipped(t[k]) THEN r.plane ELSE PlaneAt(t, r, k)
<1> DEFINE r == Lowered(t, k - 1)
           next == Lowered(t, k)
           wrong == WrongAt(t, r, k)
<1>1. Len(t) \in Nat /\ k \in Nat /\ k - 1 \in Nat /\ k - 1 \in 0 .. Len(t) /\ (k - 1) + 1 = k
  BY DEF IsText
<1>2. next = LowerLine(t, r, k)
  <2>1. Lowered(t, (k - 1) + 1) = LowerLine(t, r, (k - 1) + 1)
    BY <1>1, LoweredByLine
  <2>2. QED
    BY <1>1, <2>1
<1>3. IsResult(t, r, k - 1)
  BY <1>1, LoweredIsResult
<1>4. r = [plane |-> r.plane, messages |-> r.messages, diagnostics |-> r.diagnostics,
           rejected |-> r.rejected]
  BY <1>3 DEF IsResult, Result
<1>5. wrong # <<>> => MotionOf(t[k].words) # NoValue
  <2>1. MotionOf(t[k].words) \notin {2, 3} => wrong = <<>>
    BY DEF WrongAt, PlaneDiagnostics
  <2>2. QED
    BY <2>1 DEF NoValue
<1>6. Stops(t, k) <=> ~Skipped(t[k]) /\ (k \in FaultyLines(t) \/ wrong # <<>>)
  BY Zenon DEF Stops
<1>7. GivesOne(t, k) <=> ~Skipped(t[k]) /\ MotionOf(t[k].words) # NoValue
  BY Zenon DEF GivesOne
<1> HIDE DEF r, next, wrong
<1>8. CASE r.rejected # NoValue
  <2>1. next = r
    BY <1>2, <1>8, PassedOver
  <2>2. QED
    BY <1>8, <2>1 DEF r, next
<1>9. CASE r.rejected = NoValue /\ Skipped(t[k])
  <2>1. next = r
    BY <1>2, <1>9, PassedOver
  <2>2. QED
    BY <1>6, <1>7, <1>9, <2>1 DEF r, next
<1>10. CASE r.rejected = NoValue /\ ~Skipped(t[k]) /\ k \in FaultyLines(t)
  <2>1. next = [r EXCEPT !.rejected = k]
    BY <1>2, <1>3, <1>10, Rejected
  <2>2. next.rejected = k /\ next.messages = r.messages
    BY <1>4, <2>1
  <2>3. QED
    BY <1>6, <1>10, <2>2 DEF r, next
<1>11. CASE r.rejected = NoValue /\ ~Skipped(t[k]) /\ k \notin FaultyLines(t) /\ wrong # <<>>
  <2>1. next = [r EXCEPT !.rejected = k, !.diagnostics = @ \o wrong]
    BY <1>2, <1>3, <1>5, <1>11, RejectsArc DEF wrong
  <2>2. next.rejected = k /\ next.messages = r.messages
    BY <1>4, <2>1
  <2>3. QED
    BY <1>6, <1>11, <2>2 DEF r, next
<1>12. CASE r.rejected = NoValue /\ ~Skipped(t[k]) /\ k \notin FaultyLines(t) /\ wrong = <<>>
  <2>1. CASE MotionOf(t[k].words) = NoValue
    <3>1. next = [r EXCEPT !.plane = PlaneAt(t, r, k)]
      BY <1>2, <1>3, <1>12, <2>1, SetsPlane
    <3>2. next.rejected = NoValue /\ next.messages = r.messages /\ next.plane = PlaneAt(t, r, k)
      BY <1>4, <1>12, <3>1
    <3>3. QED
      BY <1>6, <1>7, <1>12, <2>1, <3>2 DEF r, next
  <2>2. CASE MotionOf(t[k].words) # NoValue
    <3>1. next = [r EXCEPT !.plane = PlaneAt(t, r, k), !.messages = Append(@, MessageOf(t[k], k)),
                           !.diagnostics = @ \o LoweringDiagnostics(t[k], k)]
      BY <1>2, <1>3, <1>12, <2>2, GivesMessage DEF wrong
    <3>2. /\ next.rejected = NoValue /\ next.plane = PlaneAt(t, r, k)
          /\ next.messages = Append(r.messages, MessageOf(t[k], k))
      BY <1>4, <1>12, <3>1
    <3>3. QED
      BY <1>6, <1>7, <1>12, <2>2, <3>2 DEF r, next
  <2>3. QED
    BY <2>1, <2>2
<1>13. QED
  BY <1>8, <1>9, <1>10, <1>11, <1>12, Zenon

----------------------------------------------------------------------------
(* Which lines give the messages, and which is rejected.                   *)

Stopping(t) == {k \in 1 .. Len(t) : Stops(t, k)}
Giving(t) == {k \in 1 .. Len(t) : GivesOne(t, k)}
LinesOf(ms) == {ms[i].line : i \in DOMAIN ms}

(* The lines of the first n that come before a rejected one.               *)
Reading(r, n) == IF r.rejected = NoValue THEN 1 .. n ELSE 1 .. r.rejected - 1

InLineOrder(ms) == \A i, j \in DOMAIN ms : i < j => ms[i].line < ms[j].line

FromLines(t, r, n) ==
  /\ Stopping(t) \cap Reading(r, n) = {}
  /\ r.rejected # NoValue => r.rejected \in Stopping(t)
  /\ LinesOf(r.messages) = Giving(t) \cap Reading(r, n)
  /\ Len(r.messages) = Cardinality(LinesOf(r.messages))
  /\ InLineOrder(r.messages)
  /\ \A i \in DOMAIN r.messages :
       r.messages[i] = MessageOf(t[r.messages[i].line], r.messages[i].line)

(* One message more keeps them in the order of their lines.                *)
LEMMA MessageAppended ==
  ASSUME NEW ms, IsSeq(ms), NEW n \in Nat, LinesOf(ms) \subseteq 1 .. n, InLineOrder(ms),
         Len(ms) = Cardinality(LinesOf(ms)), NEW m, m.line = n + 1
  PROVE  /\ LinesOf(Append(ms, m)) = LinesOf(ms) \cup {n + 1}
         /\ InLineOrder(Append(ms, m))
         /\ Len(Append(ms, m)) = Cardinality(LinesOf(Append(ms, m)))
<1>1. /\ Len(ms) \in Nat /\ DOMAIN ms = 1 .. Len(ms) /\ DOMAIN Append(ms, m) = 1 .. Len(ms) + 1
      /\ Len(Append(ms, m)) = Len(ms) + 1
      /\ \A i \in DOMAIN ms : Append(ms, m)[i] = ms[i]
      /\ Append(ms, m)[Len(ms) + 1] = m
  BY Appended
<1> DEFINE more == Append(ms, m)
<1> HIDE DEF more
<1>2. LinesOf(more) = LinesOf(ms) \cup {n + 1}
  <2>a. /\ \A i \in DOMAIN ms : i \in DOMAIN more /\ more[i] = ms[i]
        /\ Len(ms) + 1 \in DOMAIN more /\ more[Len(ms) + 1].line = n + 1
    BY <1>1 DEF more
  <2>1. LinesOf(ms) \subseteq LinesOf(more)
    BY <2>a DEF LinesOf
  <2>2. n + 1 \in LinesOf(more)
    BY <2>a DEF LinesOf
  <2>3. ASSUME NEW i \in DOMAIN more
        PROVE  more[i].line \in LinesOf(ms) \cup {n + 1}
    <3>1. i \in DOMAIN ms \/ i = Len(ms) + 1
      BY <1>1 DEF more
    <3>2. QED
      BY <1>1, <3>1 DEF LinesOf, more
  <2>4. QED
    BY <2>1, <2>2, <2>3 DEF LinesOf
<1>3. InLineOrder(more)
  <2> SUFFICES ASSUME NEW i \in DOMAIN more, NEW j \in DOMAIN more, i < j
               PROVE  more[i].line < more[j].line
    BY DEF InLineOrder
  <2>1. i \in DOMAIN ms
    BY <1>1 DEF more
  <2>2. CASE j \in DOMAIN ms
    BY <1>1, <2>1, <2>2 DEF InLineOrder, more
  <2>3. CASE j = Len(ms) + 1
    <3>1. ms[i].line \in 1 .. n
      BY <2>1 DEF LinesOf
    <3>2. more[i].line = ms[i].line /\ more[j].line = n + 1
      BY <1>1, <2>1, <2>3 DEF more
    <3>3. QED
      BY <3>1, <3>2
  <2>4. QED
    BY <1>1, <2>2, <2>3 DEF more
<1>4. Cardinality(LinesOf(ms) \cup {n + 1}) = Len(ms) + 1
  <2>1. IsFiniteSet(1 .. n)
    BY FS_Interval
  <2>2. IsFiniteSet(LinesOf(ms))
    BY <2>1, FS_Subset
  <2>3. n + 1 \notin LinesOf(ms)
    OBVIOUS
  <2>4. QED
    BY <2>2, <2>3, FS_AddElement
<1>5. QED
  BY <1>1, <1>2, <1>3, <1>4 DEF more

(* Every message lowerToMessages returns is of a line before the rejected  *)
(* one that moves and is not skipped, every such line has one, and they    *)
(* stand in the order of the lines.                                        *)
THEOREM LoweredFromLines ==
  ASSUME NEW t, IsText(t)
  PROVE  \A n \in 0 .. Len(t) : FromLines(t, Lowered(t, n), n)
<1> DEFINE S == {n \in Nat : n <= Len(t) => FromLines(t, Lowered(t, n), n)}
<1>0. Len(t) \in Nat
  BY DEF IsText
<1>1. 0 \in S
  <2>1. Lowered(t, 0).messages = <<>> /\ Lowered(t, 0).rejected = NoValue
    BY LoweredByLine DEF Unlowered
  <2>2. LinesOf(<<>>) = {} /\ InLineOrder(<<>>) /\ Len(<<>>) = 0 /\ DOMAIN <<>> = {}
    BY DEF LinesOf, InLineOrder
  <2>3. Cardinality({}) = 0
    BY FS_EmptySet
  <2>4. Reading(Lowered(t, 0), 0) = {}
    BY <2>1 DEF Reading
  <2>5. FromLines(t, Lowered(t, 0), 0)
    BY <2>1, <2>2, <2>3, <2>4 DEF FromLines
  <2>6. QED
    BY <2>5
<1>2. ASSUME NEW n \in Nat, n \in S
      PROVE  n + 1 \in S
  <2> DEFINE k == n + 1
             r == Lowered(t, n)
             next == Lowered(t, k)
  <2> SUFFICES ASSUME k <= Len(t)
               PROVE  FromLines(t, next, k)
    OBVIOUS
  <2>1. /\ n \in 0 .. Len(t) /\ k \in 1 .. Len(t) /\ k - 1 = n
        /\ FromLines(t, r, n)
    BY <1>0, <1>2
  <2>2. /\ r.rejected # NoValue => next = r
        /\ r.rejected = NoValue /\ k \in Stopping(t) => next.rejected = k /\ next.messages = r.messages
        /\ r.rejected = NoValue /\ k \notin Stopping(t) =>
             /\ next.rejected = NoValue
             /\ k \in Giving(t) => next.messages = Append(r.messages, MessageOf(t[k], k))
             /\ k \notin Giving(t) => next.messages = r.messages
    <3>1. k \in Stopping(t) <=> Stops(t, k)
      BY <2>1, Zenon DEF Stopping
    <3>2. k \in Giving(t) <=> GivesOne(t, k)
      BY <2>1, Zenon DEF Giving
    <3>3. /\ Lowered(t, k - 1).rejected # NoValue => Lowered(t, k) = Lowered(t, k - 1)
          /\ Lowered(t, k - 1).rejected = NoValue /\ Stops(t, k) =>
               Lowered(t, k).rejected = k /\ Lowered(t, k).messages = Lowered(t, k - 1).messages
          /\ Lowered(t, k - 1).rejected = NoValue /\ ~Stops(t, k) =>
               /\ Lowered(t, k).rejected = NoValue
               /\ Lowered(t, k).messages =
                    IF GivesOne(t, k) THEN Append(Lowered(t, k - 1).messages, MessageOf(t[k], k))
                    ELSE Lowered(t, k - 1).messages
      BY <2>1, LineOutcome, Zenon
    <3> HIDE DEF k
    <3>4. QED
      BY <2>1, <3>1, <3>2, <3>3, Zenon
  <2>3. /\ IsSeq(r.messages) /\ r.rejected \in {NoValue} \cup 1 .. n
    BY <2>1, LoweredIsResult DEF IsResult, Result, IsSeq
  <2>4. NoValue \notin Nat
    BY DEF NoValue
  <2> HIDE DEF r, next
  <2>5. CASE r.rejected # NoValue
    BY <2>1, <2>2, <2>5 DEF FromLines, Reading
  <2>6. CASE r.rejected = NoValue /\ k \in Stopping(t)
    <3>1. Reading(next, k) = Reading(r, n)
      BY <2>1, <2>2, <2>4, <2>6 DEF Reading
    <3>2. QED
      BY <2>1, <2>2, <2>6, <3>1 DEF FromLines
  <2>7. CASE r.rejected = NoValue /\ k \notin Stopping(t)
    <3>1. Reading(next, k) = Reading(r, n) \cup {k} /\ Reading(r, n) = 1 .. n
      BY <2>2, <2>7 DEF Reading
    <3>2. CASE k \notin Giving(t)
      <4>1. next.messages = r.messages /\ next.rejected = NoValue
        BY <2>2, <2>7, <3>2
      <4> HIDE DEF k
      <4>2. QED
        BY <2>1, <2>7, <3>1, <3>2, <4>1 DEF FromLines
    <3>3. CASE k \in Giving(t)
      <4> DEFINE m == MessageOf(t[k], k)
                 old == r.messages
      <4>1. next.messages = Append(old, m) /\ next.rejected = NoValue
        BY <2>2, <2>7, <3>3
      <4>2. m.line = k
        BY DEF MessageOf
      <4>3. LinesOf(old) \subseteq 1 .. n /\ InLineOrder(old) /\ Len(old) = Cardinality(LinesOf(old))
        BY <2>1, <3>1 DEF FromLines
      <4> HIDE DEF m, old
      <4>4. /\ LinesOf(Append(old, m)) = LinesOf(old) \cup {k} /\ InLineOrder(Append(old, m))
            /\ Len(Append(old, m)) = Cardinality(LinesOf(Append(old, m)))
        BY <2>3, <4>2, <4>3, MessageAppended DEF old
      <4>5. \A i \in DOMAIN Append(old, m) :
              Append(old, m)[i] = MessageOf(t[Append(old, m)[i].line], Append(old, m)[i].line)
        <5> TAKE i \in DOMAIN Append(old, m)
        <5>1. i \in DOMAIN old \/ i = Len(old) + 1
          BY <2>3, Appended DEF old
        <5>2. CASE i \in DOMAIN old
          BY <2>1, <2>3, <5>2, Appended DEF FromLines, old
        <5>3. CASE i = Len(old) + 1
          <6>1. Append(old, m)[i] = m
            BY <2>3, <5>3, Appended DEF old
          <6>2. QED
            BY <4>2, <6>1 DEF m
        <5>4. QED
          BY <5>1, <5>2, <5>3
      <4> HIDE DEF k
      <4>6. Stopping(t) \cap Reading(next, k) = {}
        BY <2>1, <2>7, <3>1 DEF FromLines
      <4>7. LinesOf(next.messages) = Giving(t) \cap Reading(next, k)
        BY <2>1, <3>1, <3>3, <4>1, <4>4 DEF FromLines, old
      <4>8. QED
        BY <4>1, <4>4, <4>5, <4>6, <4>7 DEF FromLines
    <3>4. QED
      BY <3>2, <3>3
  <2>8. QED
    BY <2>5, <2>6, <2>7
<1>3. Nat \subseteq S
  <2> HIDE DEF S
  <2>1. QED
    BY <1>1, <1>2, SetInduction
<1>4. QED
  BY <1>0, <1>3

(* Up to the rejected line nothing was rejected.                           *)
LEMMA NothingBefore ==
  ASSUME NEW t, IsText(t), NEW k \in 1 .. Len(t),
         k \in Reading(Lowered(t, Len(t)), Len(t)) \/ k = Lowered(t, Len(t)).rejected
  PROVE  Lowered(t, k - 1).rejected = NoValue
<1>1. Len(t) \in Nat /\ k - 1 \in 0 .. Len(t) /\ Len(t) \in k - 1 .. Len(t)
  BY DEF IsText
<1>2. Lowered(t, k - 1).rejected # NoValue => Lowered(t, Len(t)) = Lowered(t, k - 1)
  BY <1>1, LoweredGrows DEF Grows
<1>3. Lowered(t, k - 1).rejected \in {NoValue} \cup 1 .. k - 1
  BY <1>1, LoweredIsResult DEF IsResult, Result
<1>4. QED
  BY <1>1, <1>2, <1>3 DEF Reading

(* The same of the result as a whole.                                      *)
LEMMA LoweredMessages ==
  ASSUME NEW t \in Seq(TextLines)
  PROVE  /\ FromLines(t, LowerToMessages(t), Len(t)) /\ IsResult(t, LowerToMessages(t), Len(t))
         /\ Len(t) \in Nat /\ DOMAIN t = 1 .. Len(t)
<1>1. IsText(t) /\ Len(t) \in Nat /\ DOMAIN t = 1 .. Len(t)
  BY LinesMakeText
<1>2. Len(t) \in 0 .. Len(t)
  BY <1>1
<1>3. QED
  BY <1>1, <1>2, LoweredWhole, LoweredFromLines, LoweredIsResult
----------------------------------------------------------------------------
(* The rejected line is the first bad one, if it is no arc.                *)

(* A line that is rejected wherever it stands.                             *)
BadInItself(l) == ~Skipped(l) /\ (l.broken \/ BreaksRule(l))

(* A bad line stops the loop, and only such a line or an arc does.         *)
LEMMA StopsAtBad ==
  ASSUME NEW t, IsText(t), NEW k \in 1 .. Len(t)
  PROVE  (BadInItself(t[k]) => Stops(t, k)) /\ (Stops(t, k) => BadInItself(t[k]) \/ IsArc(t[k]))
<1> DEFINE wrong == WrongAt(t, Lowered(t, k - 1), k)
<1>1. k \in FaultyLines(t) <=> t[k].broken \/ BreaksRule(t[k])
  <2>1. FaultyLines(t) = {m \in 1 .. Len(t) : t[m].broken \/ BreaksRule(t[m])}
    BY ParseErrors DEF FaultyLines, IsText
  <2> QED
    BY <2>1, Zenon
<1>2. wrong # <<>> => IsArc(t[k])
  BY Zenon DEF WrongAt, PlaneDiagnostics, IsArc
<1>3. Stops(t, k) <=> ~Skipped(t[k]) /\ (k \in FaultyLines(t) \/ wrong # <<>>)
  BY Zenon DEF Stops
<1> HIDE DEF wrong
<1> QED
  BY <1>1, <1>2, <1>3, Zenon DEF BadInItself

(* For every text: the rejected line is bad by itself or an arc, and no    *)
(* bad line stands before it or in a text of which no line is rejected.    *)
THEOREM RejectsFirstBad ==
  ASSUME NEW t \in Seq(TextLines)
  PROVE  LET n == LowerToMessages(t).rejected IN
           /\ n # NoValue => n \in 1 .. Len(t) /\ (BadInItself(t[n]) \/ IsArc(t[n]))
           /\ \A k \in 1 .. Len(t) : BadInItself(t[k]) => n # NoValue /\ n <= k
<1> DEFINE r == LowerToMessages(t)
           n == r.rejected
<1>1. FromLines(t, r, Len(t)) /\ IsResult(t, r, Len(t)) /\ Len(t) \in Nat /\ IsText(t)
  BY LoweredMessages, LinesMakeText
<1>2. n \in {NoValue} \cup 1 .. Len(t) /\ NoValue \notin 1 .. Len(t)
  BY <1>1 DEF IsResult, Result, NoValue
<1>3. /\ Stopping(t) \cap Reading(r, Len(t)) = {} /\ (n # NoValue => n \in Stopping(t))
  BY <1>1 DEF FromLines
<1> HIDE DEF r
<1>4. ASSUME n # NoValue PROVE n \in 1 .. Len(t) /\ (BadInItself(t[n]) \/ IsArc(t[n]))
  <2>1. n \in 1 .. Len(t) /\ Stops(t, n)
    BY <1>3, <1>4 DEF Stopping
  <2> QED
    BY <1>1, <2>1, StopsAtBad
<1>5. ASSUME NEW k \in 1 .. Len(t), BadInItself(t[k]) PROVE n # NoValue /\ n <= k
  <2>1. k \in Stopping(t)
    BY <1>1, <1>5, StopsAtBad, Zenon DEF Stopping
  <2>2. k \notin Reading(r, Len(t))
    BY <1>3, <2>1
  <2> QED
    BY <1>2, <2>2 DEF Reading
<1> QED
  BY <1>4, <1>5 DEF r

----------------------------------------------------------------------------
(* Every diagnostic names a line of the text.                              *)

DiagnosticOf(t) == [severity : {"Error", "Warning"}, line : 1 .. Len(t), why : Reasons]

LEMMA SyntaxInText ==
  ASSUME NEW t, Len(t) \in Nat
  PROVE  SyntaxDiagnostics(t) \in Seq(DiagnosticOf(t))
<1> DEFINE reported(n) == SyntaxLoop!After(t, n)
           S == {n \in Nat : n <= Len(t) => reported(n) \in Seq(DiagnosticOf(t))}
<1>1. 0 \in S
  <2>1. reported(0) = <<>>
    BY SyntaxByLine
  <2>2. <<>> \in Seq(DiagnosticOf(t))
    BY DEF DiagnosticOf
  <2> HIDE DEF reported
  <2> QED
    BY <2>1, <2>2
<1>2. ASSUME NEW n \in Nat, n \in S PROVE n + 1 \in S
  <2>1. reported(n + 1) = SyntaxOfLine(t, reported(n), n + 1)
    BY SyntaxByLine
  <2> HIDE DEF reported
  <2>2. n + 1 <= Len(t) => Diag("Error", n + 1, "syntax") \in DiagnosticOf(t)
    BY DEF Diag, DiagnosticOf, Reasons
  <2>3. CASE ~t[n + 1].broken
    BY <1>2, <2>1, <2>3 DEF SyntaxOfLine
  <2>4. CASE t[n + 1].broken
    <3>1. reported(n + 1) = Append(reported(n), Diag("Error", n + 1, "syntax"))
      BY <2>1, <2>4, Zenon DEF SyntaxOfLine
    <3> QED
      BY <1>2, <2>2, <3>1, AppendProperties
  <2> QED
    BY <2>3, <2>4
<1>3. Len(t) \in S
  <2> HIDE DEF S
  <2> QED
    BY <1>1, <1>2, SetInduction
<1> QED
  BY <1>3, SyntaxByLine

LEMMA SemanticsInText ==
  ASSUME NEW t, Len(t) \in Nat
  PROVE  SemanticDiagnostics(t) \in Seq(DiagnosticOf(t))
<1> DEFINE reported(n) == SemanticsLoop!After(t, n)
           S == {n \in Nat : n <= Len(t) => reported(n) \in Seq(DiagnosticOf(t))}
<1>1. 0 \in S
  <2>1. reported(0) = <<>>
    BY SemanticsByLine
  <2>2. <<>> \in Seq(DiagnosticOf(t))
    BY DEF DiagnosticOf
  <2> HIDE DEF reported
  <2> QED
    BY <2>1, <2>2
<1>2. ASSUME NEW n \in Nat, n \in S PROVE n + 1 \in S
  <2> SUFFICES ASSUME n + 1 <= Len(t) PROVE reported(n + 1) \in Seq(DiagnosticOf(t))
    OBVIOUS
  <2> DEFINE warned == IF IsDuplicate(t, n + 1) THEN <<Diag("Warning", n + 1, "duplicate N")>> ELSE <<>>
             broken == IF BreaksRule(t[n + 1]) THEN <<Diag("Error", n + 1, "rule")>> ELSE <<>>
  <2>1. reported(n + 1) = reported(n) \o warned \o broken
    BY SemanticsByLine DEF SemanticsOfLine
  <2>2. /\ <<Diag("Warning", n + 1, "duplicate N")>> \in Seq(DiagnosticOf(t))
        /\ <<Diag("Error", n + 1, "rule")>> \in Seq(DiagnosticOf(t))
        /\ <<>> \in Seq(DiagnosticOf(t))
    BY DEF Diag, DiagnosticOf, Reasons
  <2>3. warned \in Seq(DiagnosticOf(t)) /\ broken \in Seq(DiagnosticOf(t))
    BY <2>2, Zenon
  <2>4. reported(n) \in Seq(DiagnosticOf(t))
    BY <1>2
  <2> HIDE DEF reported, warned, broken
  <2>5. reported(n) \o warned \in Seq(DiagnosticOf(t))
    BY <2>3, <2>4, ConcatProperties
  <2>6. (reported(n) \o warned) \o broken \in Seq(DiagnosticOf(t))
    BY <2>3, <2>5, ConcatProperties
  <2> QED
    BY <2>1, <2>6
<1>3. Len(t) \in S
  <2> HIDE DEF S
  <2> QED
    BY <1>1, <1>2, SetInduction
<1> QED
  BY <1>3, SemanticsByLine

LEMMA ParsedInText ==
  ASSUME NEW t, Len(t) \in Nat
  PROVE  ParseDiagnostics(t) \in Seq(DiagnosticOf(t))
BY SyntaxInText, SemanticsInText, ConcatProperties DEF ParseDiagnostics

(* As many reports of one line as there are words to report.               *)
LEMMA CountedInText ==
  ASSUME NEW t, NEW k \in 1 .. Len(t), NEW severity \in {"Error", "Warning"}, NEW why \in Reasons,
         NEW P, IsFiniteSet(P)
  PROVE  [i \in 1 .. Cardinality(P) |-> Diag(severity, k, why)] \in Seq(DiagnosticOf(t))
<1>1. Cardinality(P) \in Nat
  BY FS_CardinalityType
<1>2. Diag(severity, k, why) \in DiagnosticOf(t)
  BY DEF Diag, DiagnosticOf
<1> QED
  BY <1>1, <1>2

LEMMA ArcsInText ==
  ASSUME NEW t, IsText(t), NEW k \in 1 .. Len(t), NEW plane
  PROVE  /\ PlaneDiagnostics(t[k], k, plane) \in Seq(DiagnosticOf(t))
         /\ LoweringDiagnostics(t[k], k) \in Seq(DiagnosticOf(t))
<1> DEFINE wrong == {i \in DOMAIN t[k].words :
                       /\ t[k].words[i].head \in Centers /\ t[k].words[i].value # NoValue
                       /\ ~IsAllowed(t[k].words[i].head, plane)}
           ignored == {i \in DOMAIN t[k].words : t[k].words[i].head \in {"AP", "AR"}}
<1>1. IsFiniteSet(DOMAIN t[k].words)
  <2>1. DOMAIN t[k].words = 1 .. Len(t[k].words) /\ Len(t[k].words) \in Nat
    BY DEF IsText
  <2> DEFINE last == Len(t[k].words)
  <2>2. IsFiniteSet(1 .. last)
    <3>1. 1 \in Int /\ last \in Int
      BY <2>1
    <3> HIDE DEF last
    <3> QED
      BY <3>1, FS_Interval
  <2> QED
    BY <2>1, <2>2
<1>2. IsFiniteSet(wrong) /\ IsFiniteSet(ignored)
  BY <1>1, FS_Subset
<1>3. "plane" \in Reasons /\ "arc word" \in Reasons /\ <<>> \in Seq(DiagnosticOf(t))
  BY DEF Reasons
<1>4. [i \in 1 .. Cardinality(wrong) |-> Diag("Error", k, "plane")] \in Seq(DiagnosticOf(t))
  <2> HIDE DEF wrong
  <2> QED
    BY <1>2, <1>3, CountedInText
<1>5. [i \in 1 .. Cardinality(ignored) |-> Diag("Warning", k, "arc word")] \in Seq(DiagnosticOf(t))
  <2> HIDE DEF ignored
  <2> QED
    BY <1>2, <1>3, CountedInText
<1>6. PlaneDiagnostics(t[k], k, plane) \in Seq(DiagnosticOf(t))
  BY <1>3, <1>4, Zenon DEF PlaneDiagnostics
<1>7. LoweringDiagnostics(t[k], k) \in Seq(DiagnosticOf(t))
  BY <1>3, <1>5, Zenon DEF LoweringDiagnostics
<1> QED
  BY <1>6, <1>7

(* What lowerToMessages reports, it reports of lines of the text.          *)
THEOREM ReportsLinesOfText ==
  ASSUME NEW t, IsText(t)
  PROVE  LowerToMessages(t).diagnostics \in Seq(DiagnosticOf(t))
<1> DEFINE S == {n \in Nat : n <= Len(t) => Lowered(t, n).diagnostics \in Seq(DiagnosticOf(t))}
<1>0. Len(t) \in Nat
  BY DEF IsText
<1>1. 0 \in S
  BY <1>0, LoweredByLine, ParsedInText DEF Unlowered
<1>2. ASSUME NEW n \in Nat, n \in S PROVE n + 1 \in S
  <2> SUFFICES ASSUME n + 1 <= Len(t) PROVE Lowered(t, n + 1).diagnostics \in Seq(DiagnosticOf(t))
    OBVIOUS
  <2> DEFINE r == Lowered(t, n)
             next == Lowered(t, n + 1)
             wrong == WrongAt(t, r, n + 1)
             warned == LoweringDiagnostics(t[n + 1], n + 1)
  <2>1. IsResult(t, r, n) /\ n + 1 \in 1 .. Len(t)
    BY <1>0, LoweredIsResult
  <2>2. next = LowerLine(t, r, n + 1)
    BY LoweredByLine
  <2>3. r.diagnostics \in Seq(DiagnosticOf(t))
    BY <1>2
  <2>4. wrong \in Seq(DiagnosticOf(t)) /\ warned \in Seq(DiagnosticOf(t))
    BY <2>1, ArcsInText DEF WrongAt
  <2>5. \A new \in Seq(DiagnosticOf(t)) : r.diagnostics \o new \in Seq(DiagnosticOf(t))
    BY <2>3, ConcatProperties
  <2>6. r = [plane |-> r.plane, messages |-> r.messages, diagnostics |-> r.diagnostics,
             rejected |-> r.rejected]
    BY <2>1 DEF IsResult, Result
  <2>7. next.diagnostics \in {r.diagnostics, r.diagnostics \o wrong, r.diagnostics \o warned}
    <3> HIDE DEF r, next, wrong, warned
    <3>1. CASE r.rejected # NoValue \/ Skipped(t[n + 1])
      BY <2>2, <3>1, PassedOver
    <3>2. CASE r.rejected = NoValue /\ ~Skipped(t[n + 1]) /\ n + 1 \in FaultyLines(t)
      <4>1. next = [r EXCEPT !.rejected = n + 1]
        BY <2>1, <2>2, <3>2, Rejected
      <4> QED
        BY <2>6, <4>1
    <3>3. CASE /\ r.rejected = NoValue /\ ~Skipped(t[n + 1]) /\ n + 1 \notin FaultyLines(t)
               /\ MotionOf(t[n + 1].words) = NoValue
      <4>1. next = [r EXCEPT !.plane = PlaneAt(t, r, n + 1)]
        BY <2>1, <2>2, <3>3, SetsPlane
      <4> QED
        BY <2>6, <4>1
    <3>4. CASE /\ r.rejected = NoValue /\ ~Skipped(t[n + 1]) /\ n + 1 \notin FaultyLines(t)
               /\ MotionOf(t[n + 1].words) # NoValue /\ wrong # <<>>
      <4>1. next = [r EXCEPT !.rejected = n + 1, !.diagnostics = @ \o wrong]
        BY <2>1, <2>2, <3>4, RejectsArc DEF wrong
      <4> QED
        BY <2>6, <4>1
    <3>5. CASE /\ r.rejected = NoValue /\ ~Skipped(t[n + 1]) /\ n + 1 \notin FaultyLines(t)
               /\ MotionOf(t[n + 1].words) # NoValue /\ wrong = <<>>
      <4>1. next = [r EXCEPT !.plane = PlaneAt(t, r, n + 1),
                             !.messages = Append(@, MessageOf(t[n + 1], n + 1)),
                             !.diagnostics = @ \o warned]
        BY <2>1, <2>2, <3>5, GivesMessage DEF wrong, warned
      <4> QED
        BY <2>6, <4>1
    <3> QED
      BY <3>1, <3>2, <3>3, <3>4, <3>5, Zenon
  <2> QED
    BY <2>3, <2>4, <2>5, <2>7
<1>3. Len(t) \in S
  <2> HIDE DEF S
  <2> QED
    BY <1>0, <1>1, <1>2, SetInduction
<1> QED
  BY <1>0, <1>3, LoweredWhole
=============================================================================
