------------------------- MODULE ParseSessionProofs -------------------------
(***************************************************************************)
(* The editor's session and its client for all texts, entries and edits:   *)
(* what an edit leaves as it was, what lowering accepts, and that a queue  *)
(* kept up to date by line differences is the queue of the text.           *)
(***************************************************************************)
EXTENDS ParseSession, MessageLoweringProofs

----------------------------------------------------------------------------
(* The text of the entries.                                                *)

JoinLoop == INSTANCE LoopTheorems WITH
  Round <- LAMBDA entries, t, k : t \o entries[k], First <- LAMBDA entries : <<>>

(* The text of the first n entries.                                        *)
Joined(entries, n) == JoinLoop!After(entries, n)

(* The text of the entries, entry by entry.                                *)
LEMMA JoinedWhole == \A entries : RawText(entries) = Joined(entries, Len(entries))
BY DEF RawText, Joined, JoinLoop!After, JoinLoop!Loop, Loop

LEMMA JoinedByEntry ==
  \A entries :
    /\ Joined(entries, 0) = <<>>
    /\ \A n \in Nat : Joined(entries, n + 1) = Joined(entries, n) \o entries[n + 1]
BY JoinLoop!LoopStarts, JoinLoop!LoopSteps DEF Joined

(* What an entry of lines_ can be: something typed, or a line of the text  *)
(* the session was opened with.                                            *)
Entry == Entries \cup {<<l>> : l \in RawLines}

(* No entry is empty: sanitizeLine leaves at least one line.               *)
LEMMA EntryHasLines == \A e \in Entry : e \in Seq(RawLines) /\ Len(e) >= 1
<1>1. \A e \in Entries : e \in Seq(RawLines) /\ Len(e) >= 1
  <2> TAKE e \in Entries
  <2>1. e \in Seq(RawLines) /\ e # <<>>
    BY SessionAssumption
  <2>2. QED
    BY <2>1
<1>2. \A l \in RawLines : <<l>> \in Seq(RawLines) /\ Len(<<l>>) = 1
  OBVIOUS
<1>3. SUFFICES ASSUME NEW e \in Entry
               PROVE  e \in Seq(RawLines) /\ Len(e) >= 1
  OBVIOUS
<1>4. CASE e \in Entries
  BY <1>1, <1>4
<1>5. CASE e \in {<<l>> : l \in RawLines}
  <2>1. PICK l \in RawLines : e = <<l>>
    BY <1>5
  <2>2. e \in Seq(RawLines) /\ Len(e) = 1
    BY <1>2, <2>1
  <2>3. QED
    BY <2>2
<1>6. QED
  BY <1>4, <1>5 DEF Entry

(* The first n entries make a text of at least n lines.                    *)
LEMMA JoinedIsText ==
  ASSUME NEW entries \in Seq(Entry)
  PROVE  \A n \in 0 .. Len(entries) : Joined(entries, n) \in Seq(RawLines) /\ Len(Joined(entries, n)) >= n
<1> DEFINE S == {n \in Nat : n <= Len(entries) =>
                   Joined(entries, n) \in Seq(RawLines) /\ Len(Joined(entries, n)) >= n}
<1>1. 0 \in S
  <2>1. <<>> \in Seq(RawLines) /\ Len(<<>>) = 0
    OBVIOUS
  <2>2. Joined(entries, 0) = <<>>
    BY JoinedByEntry
  <2>3. Joined(entries, 0) \in Seq(RawLines)
    BY <2>1, <2>2
  <2>4. Len(Joined(entries, 0)) >= 0
    BY <2>1, <2>2
  <2>5. QED
    BY <2>3, <2>4
<1>2. ASSUME NEW n \in Nat, n \in S
      PROVE  n + 1 \in S
  <2> DEFINE old == Joined(entries, n)
             new == entries[n + 1]
  <2> SUFFICES ASSUME n + 1 <= Len(entries)
               PROVE  Joined(entries, n + 1) \in Seq(RawLines) /\ Len(Joined(entries, n + 1)) >= n + 1
    OBVIOUS
  <2>1. old \in Seq(RawLines) /\ Len(old) >= n
    BY <1>2
  <2>2. new \in Seq(RawLines) /\ Len(new) >= 1
    BY EntryHasLines
  <2>3. Joined(entries, n + 1) = old \o new
    BY JoinedByEntry
  <2> HIDE DEF old, new
  <2>4. old \o new \in Seq(RawLines) /\ Len(old \o new) = Len(old) + Len(new) /\ Len(old) \in Nat /\ Len(new) \in Nat
    BY <2>1, <2>2
  <2>5. Len(old) + Len(new) >= n + 1
    BY <2>1, <2>2, <2>4
  <2>6. QED
    BY <2>3, <2>4, <2>5
<1>3. Nat \subseteq S
  <2> HIDE DEF S
  <2>1. QED
    BY <1>1, <1>2, SetInduction
<1>4. QED
  BY <1>3

(* So there is a text of all of them.                                      *)
LEMMA EntriesMakeRawText == \A entries \in Seq(Entry) : RawText(entries) \in Seq(RawLines)
<1> TAKE entries \in Seq(Entry)
<1>1. Len(entries) \in 0 .. Len(entries)
  OBVIOUS
<1>2. QED
  BY <1>1, JoinedWhole, JoinedIsText

----------------------------------------------------------------------------
(* The lines of the parser.                                                *)

ParseLoop == INSTANCE LoopTheorems WITH
  Round <- LAMBDA t, ls, k : Append(ls, LineAt(t, k)), First <- LAMBDA t : <<>>
UntilLoop == INSTANCE LoopTheorems WITH
  Round <- LAMBDA t, end, k : IF k <= end THEN end ELSE EndOf(t, k), First <- LAMBDA t : 0

LEMMA ParsedByLine ==
  \A t :
    /\ ParseLoop!After(t, 0) = <<>>
    /\ \A n \in Nat : ParseLoop!After(t, n + 1) = Append(ParseLoop!After(t, n), LineAt(t, n + 1))
    /\ Parsed(t) = ParseLoop!After(t, Len(t))
<1>1. \A t : Parsed(t) = ParseLoop!After(t, Len(t))
  BY DEF Parsed, ParseLoop!After, ParseLoop!Loop, Loop
<1>2. QED
  BY <1>1, ParseLoop!LoopStarts, ParseLoop!LoopSteps

LEMMA UntilByLine ==
  \A t :
    /\ Until(t, 0) = 0
    /\ \A n \in Nat : Until(t, n + 1) = IF n + 1 <= Until(t, n) THEN Until(t, n) ELSE EndOf(t, n + 1)
<1>1. \A t, n : Until(t, n) = UntilLoop!After(t, n)
  BY DEF Until, UntilLoop!After, UntilLoop!Loop, Loop
<1>2. QED
  BY <1>1, UntilLoop!LoopStarts, UntilLoop!LoopSteps

(* What is typed at a line makes a line that can be lowered.               *)
LEMMA LineIsText ==
  ASSUME NEW t \in Seq(RawLines), NEW k \in 1 .. Len(t)
  PROVE  LineAt(t, k) \in TextLines
<1>1. t[k] \in RawLines
  OBVIOUS
<1>2. /\ t[k].head \in TextLines /\ EmptyLine \in TextLines
      /\ WithRemark(t[k].head) \in TextLines /\ WithStraySign(t[k].head) \in TextLines
  <2>1. \A l \in RawLines : l \in RawLine
    BY RawLinesAssumption
  <2>2. \A l \in RawLine : l.head \in TextLines
    BY DEF RawLine
  <2>3. Typed(EmptyLine).head = EmptyLine
    BY DEF Typed
  <2>4. QED
    BY <1>1, <2>1, <2>2, <2>3, RawLinesAssumption
<1>3. LineAt(t, k) \in {EmptyLine, t[k].head, WithRemark(t[k].head), WithStraySign(t[k].head)}
  BY Zenon DEF LineAt
<1>4. QED
  BY <1>2, <1>3

(* Every line that is typed is a line of the parser, with its number.      *)
LEMMA ParsedLines ==
  ASSUME NEW t \in Seq(RawLines)
  PROVE  /\ Parsed(t) \in Seq(TextLines) /\ Len(Parsed(t)) = Len(t)
         /\ \A k \in 1 .. Len(t) : Parsed(t)[k] = LineAt(t, k)
<1> DEFINE IsRead(ls, n) == ls \in Seq(TextLines) /\ Len(ls) = n
                              /\ \A k \in 1 .. n : ls[k] = LineAt(t, k)
           S == {n \in Nat : n <= Len(t) => IsRead(ParseLoop!After(t, n), n)}
<1>1. 0 \in S
  <2>1. IsRead(<<>>, 0)
    OBVIOUS
  <2> HIDE DEF IsRead
  <2>2. QED
    BY <2>1, ParsedByLine
<1>2. ASSUME NEW n \in Nat, n \in S
      PROVE  n + 1 \in S
  <2> DEFINE ls == ParseLoop!After(t, n)
             l == LineAt(t, n + 1)
  <2>1. SUFFICES ASSUME n + 1 <= Len(t)
                 PROVE  IsRead(ParseLoop!After(t, n + 1), n + 1)
    <3> HIDE DEF IsRead
    <3>1. QED
      OBVIOUS
  <2>2. n + 1 \in 1 .. Len(t) /\ n <= Len(t)
    BY <2>1
  <2>3. l \in TextLines
    BY <2>2, LineIsText
  <2>4. IsRead(ls, n)
    <3> HIDE DEF IsRead
    <3>1. QED
      BY <1>2, <2>2
  <2>5. IsRead(Append(ls, l), n + 1)
    <3>1. l = LineAt(t, n + 1)
      OBVIOUS
    <3> HIDE DEF ls, l
    <3>2. QED
      BY <2>3, <2>4, <3>1
  <2> HIDE DEF IsRead
  <2>6. QED
    BY <2>5, ParsedByLine
<1>3. IsRead(ParseLoop!After(t, Len(t)), Len(t))
  <2> HIDE DEF S
  <2>1. Len(t) \in S
    BY <1>1, <1>2, SetInduction
  <2> HIDE DEF IsRead
  <2>2. QED
    BY <2>1 DEF S
<1>4. QED
  BY <1>3, ParsedByLine

(* So what the entries make can be lowered.                                *)
LEMMA EntriesMakeText == \A entries \in Seq(Entry) : TextOf(entries) \in Seq(TextLines)
BY EntriesMakeRawText, ParsedLines DEF TextOf

----------------------------------------------------------------------------
(* A result of lowering, as the session and its client hold it.            *)

IsLowered(r) == \E t \in Seq(TextLines) : r = LowerToMessages(t)

EntriesInv == lines \in Seq(Entry) /\ current = LowerToMessages(TextOf(lines))
NumbersInv == fromLine \in Nat \ {0} /\ edits \in 0 .. MaxEdits /\ thrown \in BOOLEAN

(* An edit, behind the end too, leaves entries.                            *)
LEMMA EditedEntries ==
  ASSUME NEW n \in Nat \ {0}, NEW e \in Entry, lines \in Seq(Entry)
  PROVE  [Resized(n) EXCEPT ![n] = e] \in Seq(Entry)
<1> DEFINE length == IF n > Len(lines) THEN n ELSE Len(lines)
<1>1. length \in Nat /\ n \in 1 .. length
  OBVIOUS
<1>2. <<Typed(EmptyLine)>> \in Entry
  BY RawLinesAssumption DEF Entry
<1>3. \A k \in 1 .. length : (IF k <= Len(lines) THEN lines[k] ELSE <<Typed(EmptyLine)>>) \in Entry
  BY <1>1, <1>2
<1> HIDE DEF length
<1>4. [k \in 1 .. length |-> IF k <= Len(lines) THEN lines[k] ELSE <<Typed(EmptyLine)>>] \in [1 .. length -> Entry]
  BY <1>3
<1>5. Resized(n) \in [1 .. length -> Entry]
  BY <1>4 DEF Resized, length
<1>6. [Resized(n) EXCEPT ![n] = e] \in [1 .. length -> Entry]
  BY <1>1, <1>5
<1>7. QED
  BY <1>1, <1>6, SeqDef

(* Edits, reparses and the client keep the entries and the numbers.        *)
LEMMA EntriesStep == EntriesInv /\ NumbersInv /\ SessionNext => EntriesInv' /\ NumbersInv'
<1> SUFFICES ASSUME EntriesInv, NumbersInv, SessionNext
             PROVE  EntriesInv' /\ NumbersInv'
  OBVIOUS
<1>1. ASSUME NEW n \in EditLines
      PROVE  AtLeastOne(n) \in Nat \ {0}
  BY SessionAssumption DEF AtLeastOne
<1>2. ASSUME NEW n \in EditLines, edits < MaxEdits, edits' = edits + 1
      PROVE  edits' \in 0 .. MaxEdits
  BY <1>2, SessionAssumption DEF NumbersInv
<1>3. ASSUME NEW n \in EditLines, ReparseFromLine(n)
      PROVE  EntriesInv' /\ NumbersInv'
  BY <1>1, <1>2, <1>3 DEF ReparseFromLine, Reparse, EntriesInv, NumbersInv
<1>4. ASSUME NEW n \in EditLines, NEW e \in Entries, ApplyLineEdit(n, e)
      PROVE  EntriesInv' /\ NumbersInv'
  <2>1. e \in Entry
    BY DEF Entry
  <2>2. lines' \in Seq(Entry)
    BY <1>1, <1>4, <2>1, EditedEntries DEF ApplyLineEdit, EntriesInv
  <2>3. QED
    BY <1>1, <1>2, <1>4, <2>2 DEF ApplyLineEdit, Reparse, EntriesInv, NumbersInv
<1>5. ASSUME Sync
      PROVE  EntriesInv' /\ NumbersInv'
  <2>1. thrown' \in BOOLEAN
    BY <1>5 DEF Sync, Throws
  <2>2. QED
    BY <1>5, <2>1 DEF Sync, EntriesInv, NumbersInv
<1>6. QED
  BY <1>3, <1>4, <1>5 DEF SessionNext

(* They are sound in the beginning.                                        *)
LEMMA EntriesInitial == SessionInit => EntriesInv /\ NumbersInv
<1> SUFFICES ASSUME SessionInit
             PROVE  EntriesInv /\ NumbersInv
  OBVIOUS
<1>1. PICK t \in Texts : lines = [k \in DOMAIN t |-> <<t[k]>>]
  BY DEF SessionInit
<1>2. t \in Seq(RawLines)
  BY SessionAssumption
<1>3. lines \in [1 .. Len(t) -> Entry] /\ Len(t) \in Nat
  BY <1>1, <1>2 DEF Entry
<1>4. lines \in Seq(Entry)
  BY <1>3, SeqDef
<1>5. EntriesInv
  BY <1>4 DEF SessionInit, EntriesInv
<1>6. 0 \in 0 .. MaxEdits /\ 1 \in Nat \ {0}
  BY SessionAssumption
<1>7. NumbersInv
  BY <1>6 DEF SessionInit, NumbersInv
<1>8. QED
  BY <1>5, <1>7

(* An edit at any line with any text leaves a text that can be parsed; its *)
(* result is that of the whole text, and its rejected line one of it.      *)
THEOREM SessionTypes == SessionSpec => []SessionTypeOK
<1>1. EntriesInv /\ NumbersInv /\ UNCHANGED sessionVars => EntriesInv' /\ NumbersInv'
  BY DEF sessionVars, EntriesInv, NumbersInv
<1>2. EntriesInv /\ NumbersInv => SessionTypeOK
  <2> SUFFICES ASSUME EntriesInv, NumbersInv
               PROVE  SessionTypeOK
    OBVIOUS
  <2>1. \A k \in DOMAIN lines : lines[k] \in Entry
    BY DEF EntriesInv
  <2>2. TextOf(lines) \in Seq(TextLines)
    BY EntriesMakeText DEF EntriesInv
  <2>3. current.rejected \in DOMAIN TextOf(lines) \cup {NoValue}
    BY <2>2, LoweredMessages DEF EntriesInv, IsResult, Result
  <2>4. QED
    BY <2>1, <2>3 DEF SessionTypeOK, Entry, NumbersInv
<1>3. QED
  BY <1>1, <1>2, EntriesInitial, EntriesStep, PTL DEF SessionSpec

----------------------------------------------------------------------------
(* The plane in force.                                                     *)

(* The lines that set the plane.                                           *)
Setting(t) ==
  {k \in 1 .. Len(t) : ~Skipped(t[k]) /\ \E i \in DOMAIN t[k].words : IsG(t[k].words[i], 17 .. 19)}

(* IsPlaneAt by the lines that set a plane.                                *)
LEMMA PlaneBySettings ==
  ASSUME NEW t, IsText(t), NEW n \in 0 .. Len(t), NEW plane
  PROVE  IsPlaneAt(t, n, plane) <=>
           LET sets == Setting(t) \cap 1 .. n IN
             \/ sets = {} /\ plane = 17
             \/ \E k \in sets : (\A j \in sets : j <= k) /\ plane = PlaneOf(t[k].words, 17)
<1> DEFINE sets == {k \in 1 .. n : ~Skipped(t[k])
                      /\ \E i \in DOMAIN t[k].words : IsG(t[k].words[i], 17 .. 19)}
<1>1. 1 .. n \subseteq 1 .. Len(t)
  BY DEF IsText
<1>2. sets = Setting(t) \cap 1 .. n
  <2>1. \A k : k \in sets <=> k \in Setting(t) \cap 1 .. n
    BY <1>1, Zenon DEF Setting
  <2> HIDE DEF sets
  <2>2. QED
    BY <2>1
<1>3. IsPlaneAt(t, n, plane) <=>
        \/ sets = {} /\ plane = 17
        \/ \E k \in sets : (\A j \in sets : j <= k) /\ plane = PlaneOf(t[k].words, 17)
  BY Zenon DEF IsPlaneAt
<1> HIDE DEF sets
<1>4. QED
  BY <1>2, <1>3

(* The codes of a line hide whatever the plane was before it.              *)
LEMMA OwnCodes ==
  ASSUME NEW ws, Len(ws) \in Nat, DOMAIN ws = 1 .. Len(ws), NEW one, NEW other,
         \E i \in DOMAIN ws : IsG(ws[i], 17 .. 19)
  PROVE  PlaneOf(ws, one) = PlaneOf(ws, other)
<1> DEFINE own == {i \in DOMAIN ws : IsG(ws[i], 17 .. 19)}
<1>1. own \subseteq 1 .. Len(ws) /\ own # {}
  OBVIOUS
<1>2. \A before : \A i \in own : (\A j \in own : j <= i) => PlaneOf(ws, before) = ws[i].value
  <2> TAKE before
  <2>1. QED
    BY PlaneCode
<1> HIDE DEF own
<1>3. Max(own) \in own /\ \A j \in own : j <= Max(own)
  BY <1>1, Greatest
<1>4. QED
  BY <1>2, <1>3

(* There is one plane in force at a line.                                  *)
LEMMA OnePlane ==
  ASSUME NEW t, IsText(t), NEW n \in 0 .. Len(t), NEW p, NEW q,
         IsPlaneAt(t, n, p), IsPlaneAt(t, n, q)
  PROVE  p = q
<1> DEFINE sets == Setting(t) \cap 1 .. n
<1>1. \A plane : IsPlaneAt(t, n, plane) <=>
        \/ sets = {} /\ plane = 17
        \/ \E k \in sets : (\A j \in sets : j <= k) /\ plane = PlaneOf(t[k].words, 17)
  BY PlaneBySettings
<1>2. sets \subseteq Int
  BY DEF IsText
<1> HIDE DEF sets
<1>3. CASE sets = {}
  BY <1>1, <1>3
<1>4. CASE sets # {}
  <2>1. PICK k \in sets : (\A j \in sets : j <= k) /\ p = PlaneOf(t[k].words, 17)
    BY <1>1, <1>4
  <2>2. PICK l \in sets : (\A j \in sets : j <= l) /\ q = PlaneOf(t[l].words, 17)
    BY <1>1, <1>4
  <2>3. k = l
    BY <1>2, <2>1, <2>2
  <2>4. QED
    BY <2>1, <2>2, <2>3
<1>5. QED
  BY <1>3, <1>4

(* What one line does to the plane.                                        *)
LEMMA PlaneBehindLine ==
  ASSUME NEW t, IsText(t), NEW n \in 0 .. Len(t), n + 1 \in 1 .. Len(t),
         NEW plane, IsPlaneAt(t, n, plane)
  PROVE  /\ Skipped(t[n + 1]) => IsPlaneAt(t, n + 1, plane)
         /\ ~Skipped(t[n + 1]) => IsPlaneAt(t, n + 1, PlaneOf(t[n + 1].words, plane))
<1> DEFINE k == n + 1
           before == Setting(t) \cap 1 .. n
           now == Setting(t) \cap 1 .. k
           next == PlaneOf(t[k].words, plane)
<1>1. n \in Nat /\ k \in 0 .. Len(t) /\ Len(t[k].words) \in Nat /\ DOMAIN t[k].words = 1 .. Len(t[k].words)
  BY DEF IsText
<1>2. \/ before = {} /\ plane = 17
      \/ \E j \in before : (\A i \in before : i <= j) /\ plane = PlaneOf(t[j].words, 17)
  BY PlaneBySettings
<1>3. now = before \cup (Setting(t) \cap {k})
  BY <1>1
<1>4. CASE k \notin Setting(t)
  <2>1. now = before
    BY <1>3, <1>4
  <2>2. IsPlaneAt(t, k, plane)
    BY <1>1, <1>2, <2>1, PlaneBySettings
  <2>3. ASSUME ~Skipped(t[k])
        PROVE  next = plane
    <3>1. {i \in DOMAIN t[k].words : IsG(t[k].words[i], 17 .. 19)} = {}
      BY <1>4, <2>3, Zenon DEF Setting
    <3>2. QED
      BY <1>1, <3>1, PlaneCode
  <2> HIDE DEF k, next
  <2>4. QED
    BY <2>2, <2>3 DEF k, next
<1>5. CASE k \in Setting(t)
  <2>1. ~Skipped(t[k]) /\ \E i \in DOMAIN t[k].words : IsG(t[k].words[i], 17 .. 19)
    BY <1>5, Zenon DEF Setting
  <2>2. next = PlaneOf(t[k].words, 17)
    BY <1>1, <2>1, OwnCodes
  <2>3. k \in now /\ \A j \in now : j <= k
    BY <1>1, <1>5
  <2> HIDE DEF k, next
  <2>4. \E l \in Setting(t) \cap 1 .. k :
           (\A j \in Setting(t) \cap 1 .. k : j <= l) /\ next = PlaneOf(t[l].words, 17)
    BY <2>2, <2>3
  <2>5. IsPlaneAt(t, k, next)
    BY <1>1, <2>4, PlaneBySettings
  <2>6. QED
    BY <2>1, <2>5 DEF k, next
<1>6. QED
  BY <1>4, <1>5

(* The plane lowerToMessages carries is the one in force.                  *)
LEMMA PlaneInForce ==
  ASSUME NEW t, IsText(t)
  PROVE  \A n \in 0 .. Len(t) : Lowered(t, n).rejected = NoValue => IsPlaneAt(t, n, Lowered(t, n).plane)
<1> DEFINE S == {n \in Nat : n <= Len(t) /\ Lowered(t, n).rejected = NoValue =>
                   IsPlaneAt(t, n, Lowered(t, n).plane)}
<1>0. Len(t) \in Nat
  BY DEF IsText
<1>1. 0 \in S
  <2>1. Lowered(t, 0).plane = 17
    BY LoweredByLine DEF Unlowered
  <2>2. Setting(t) \cap 1 .. 0 = {}
    OBVIOUS
  <2>3. IsPlaneAt(t, 0, 17)
    BY <1>0, <2>2, PlaneBySettings
  <2>4. QED
    BY <2>1, <2>3
<1>2. ASSUME NEW n \in Nat, n \in S
      PROVE  n + 1 \in S
  <2> DEFINE k == n + 1
             r == Lowered(t, n)
             next == Lowered(t, k)
  <2>0. k \in Nat
    OBVIOUS
  <2> SUFFICES ASSUME k <= Len(t), next.rejected = NoValue
               PROVE  IsPlaneAt(t, k, next.plane)
    BY <2>0, Zenon
  <2>1. k \in 1 .. Len(t) /\ n \in 0 .. Len(t) /\ k - 1 = n /\ k # NoValue
    BY <1>0 DEF NoValue
  <2>2. /\ Lowered(t, k - 1).rejected # NoValue => Lowered(t, k) = Lowered(t, k - 1)
        /\ Lowered(t, k - 1).rejected = NoValue /\ Stops(t, k) => Lowered(t, k).rejected = k
        /\ Lowered(t, k - 1).rejected = NoValue /\ ~Stops(t, k) =>
             Lowered(t, k).plane = IF Skipped(t[k]) THEN Lowered(t, k - 1).plane
                                   ELSE PlaneAt(t, Lowered(t, k - 1), k)
    BY <2>1, LineOutcome, Zenon
  <2> HIDE DEF k
  <2>3. r.rejected = NoValue /\ next.plane = IF Skipped(t[k]) THEN r.plane ELSE PlaneOf(t[k].words, r.plane)
    BY <2>1, <2>2, Zenon DEF PlaneAt
  <2>4. IsPlaneAt(t, n, r.plane)
    BY <1>2, <2>1, <2>3
  <2>5. /\ Skipped(t[k]) => IsPlaneAt(t, k, r.plane)
        /\ ~Skipped(t[k]) => IsPlaneAt(t, k, PlaneOf(t[k].words, r.plane))
    BY <2>1, <2>4, PlaneBehindLine, Zenon DEF k
  <2>6. QED
    BY <2>3, <2>5, Zenon
<1>3. Nat \subseteq S
  <2> HIDE DEF S
  <2>1. QED
    BY <1>1, <1>2, SetInduction
<1>4. QED
  BY <1>0, <1>3

----------------------------------------------------------------------------
(* The first bad line.                                                     *)

(* As long as no line was rejected, the next one is bad exactly if it      *)
(* stops the lowering.                                                     *)
LEMMA BadStops ==
  ASSUME NEW t, IsText(t), NEW k \in 1 .. Len(t), Lowered(t, k - 1).rejected = NoValue
  PROVE  ~Skipped(t[k]) /\ IsBad(t, k) <=> k \in Stopping(t)
<1> DEFINE r == Lowered(t, k - 1)
           l == t[k]
           plane == PlaneOf(l.words, r.plane)
           wrong == PlaneDiagnostics(l, k, plane)
<1>1. /\ Len(t) \in Nat /\ k - 1 \in 0 .. Len(t) /\ (k - 1) + 1 = k /\ k \in Nat \ {0}
      /\ Len(l.words) \in Nat /\ DOMAIN l.words = 1 .. Len(l.words) /\ k \in 0 .. Len(t)
  BY DEF IsText
<1>2. k \in Stopping(t) <=> ~Skipped(l) /\ (k \in FaultyLines(t) \/ wrong # <<>>)
  BY <1>1, Zenon DEF Stopping, Stops, WrongAt, PlaneAt
<1>3. k \in FaultyLines(t) <=> l.broken \/ BreaksRule(l)
  <2>1. FaultyLines(t) = {i \in 1 .. Len(t) : t[i].broken \/ BreaksRule(t[i])}
    BY <1>1, ParseErrors DEF FaultyLines
  <2>2. QED
    BY <2>1, Zenon
<1>4. wrong # <<>> <=> IsArc(l) /\ ~FitsPlane(l, plane)
  <2> HIDE DEF l, plane
  <2>1. wrong = <<>> <=> ~IsArc(l) \/ FitsPlane(l, plane)
    BY <1>1, PlaneErrors
  <2>2. QED
    BY <2>1, Zenon
<1>5. plane \in 17 .. 19
  <2>1. r.plane \in 17 .. 19
    BY <1>1, LoweredIsResult DEF IsResult, Result
  <2>2. QED
    BY <1>1, <2>1, PlaneStaysPlane
<1>6. ~Skipped(l) => IsPlaneAt(t, k, plane)
  <2>1. IsPlaneAt(t, k - 1, r.plane)
    BY <1>1, PlaneInForce
  <2>2. ~Skipped(t[(k - 1) + 1]) => IsPlaneAt(t, (k - 1) + 1, PlaneOf(t[(k - 1) + 1].words, r.plane))
    BY <1>1, <2>1, PlaneBehindLine, Zenon
  <2>3. QED
    BY <1>1, <2>2
<1>7. ASSUME ~Skipped(l), NEW p \in 17 .. 19
      PROVE  IsPlaneAt(t, k, p) <=> p = plane
  <2>1. IsPlaneAt(t, k, p) => p = plane
    BY <1>1, <1>6, <1>7, OnePlane, Zenon
  <2>2. QED
    BY <1>6, <1>7, <2>1, Zenon
<1> HIDE DEF plane, l, wrong
<1>8. ASSUME ~Skipped(l)
      PROVE  (\E p \in 17 .. 19, i \in DOMAIN l.words :
                /\ IsPlaneAt(t, k, p) /\ l.words[i].head \in Centers
                /\ l.words[i].value # NoValue /\ ~IsAllowed(l.words[i].head, p))
             <=> ~FitsPlane(l, plane)
  BY <1>5, <1>7, <1>8, Zenon DEF FitsPlane
<1>9. IsBad(t, k) <=>
        \/ l.broken \/ BreaksRule(l)
        \/ /\ IsArc(l)
           /\ \E p \in 17 .. 19, i \in DOMAIN l.words :
                /\ IsPlaneAt(t, k, p) /\ l.words[i].head \in Centers
                /\ l.words[i].value # NoValue /\ ~IsAllowed(l.words[i].head, p)
  BY Zenon DEF IsBad, IsArc, l
<1>10. QED
  BY <1>2, <1>3, <1>4, <1>8, <1>9, Zenon DEF l

(* What LoweredUpToFirstBad says of a text and its result.                 *)
LEMMA FirstBad ==
  ASSUME NEW t, IsText(t), NEW bad, bad = {n \in DOMAIN t : ~Skipped(t[n]) /\ IsBad(t, n)},
         NEW r, r = Lowered(t, Len(t))
  PROVE  /\ r.rejected = NoValue => bad = {}
         /\ r.rejected # NoValue => r.rejected \in bad /\ \A b \in bad : r.rejected <= b
         /\ Giving(t) \cap Reading(r, Len(t)) =
              {n \in DOMAIN t : (\A b \in bad : n < b) /\ ~Skipped(t[n]) /\ MotionOf(t[n].words) # NoValue}
<1>1. Len(t) \in Nat /\ DOMAIN t = 1 .. Len(t) /\ Len(t) \in 0 .. Len(t)
  BY DEF IsText
<1>2. FromLines(t, r, Len(t)) /\ r.rejected \in {NoValue} \cup 1 .. Len(t)
  BY <1>1, LoweredFromLines, LoweredIsResult DEF IsResult, Result
<1>3. ASSUME NEW k \in 1 .. Len(t), k \in Reading(r, Len(t)) \/ k = r.rejected
      PROVE  k \in bad <=> k \in Stopping(t)
  <2>1. Lowered(t, k - 1).rejected = NoValue
    BY <1>3, NothingBefore
  <2>2. ~Skipped(t[k]) /\ IsBad(t, k) <=> k \in Stopping(t)
    BY <2>1, BadStops
  <2>3. k \in bad <=> ~Skipped(t[k]) /\ IsBad(t, k)
    BY <1>1, Zenon
  <2>4. QED
    BY <2>2, <2>3, Zenon
<1>4. bad \subseteq 1 .. Len(t)
  BY <1>1, Zenon
<1> DEFINE lowered == {n \in 1 .. Len(t) : (\A b \in bad : n < b) /\ ~Skipped(t[n])
                                           /\ MotionOf(t[n].words) # NoValue}
<1>5. \A n : n \in lowered <=> n \in Giving(t) /\ \A b \in bad : n < b
  BY Zenon DEF Giving, GivesOne
<1>6. Giving(t) \subseteq 1 .. Len(t)
  BY DEF Giving
<1> HIDE DEF lowered
<1>7. CASE r.rejected = NoValue
  <2>1. Reading(r, Len(t)) = 1 .. Len(t)
    BY <1>7 DEF Reading
  <2>2. bad = {}
    BY <1>2, <1>3, <1>4, <2>1 DEF FromLines
  <2>3. Giving(t) \cap 1 .. Len(t) = lowered
    BY <1>5, <1>6, <2>2
  <2>4. QED
    BY <1>1, <1>7, <2>1, <2>2, <2>3 DEF lowered
<1>8. CASE r.rejected # NoValue
  <2>1. Reading(r, Len(t)) = 1 .. r.rejected - 1 /\ r.rejected \in 1 .. Len(t)
    BY <1>2, <1>8 DEF Reading
  <2>2. r.rejected \in bad
    BY <1>2, <1>3, <1>8, <2>1 DEF FromLines
  <2>3. \A b \in bad : r.rejected <= b
    <3> SUFFICES ASSUME NEW b \in bad, b < r.rejected
                 PROVE  FALSE
      BY <1>4, <2>1
    <3>1. b \in Reading(r, Len(t)) /\ b \in 1 .. Len(t)
      BY <1>4, <2>1
    <3>2. QED
      BY <1>2, <1>3, <3>1 DEF FromLines
  <2>4. \A n \in 1 .. Len(t) : (\A b \in bad : n < b) <=> n \in 1 .. r.rejected - 1
    BY <1>4, <2>1, <2>2, <2>3
  <2>5. Giving(t) \cap Reading(r, Len(t)) = lowered
    BY <1>5, <1>6, <2>1, <2>4
  <2>6. QED
    BY <1>1, <1>8, <2>2, <2>3, <2>5 DEF lowered
<1>9. QED
  BY <1>7, <1>8

(* Whatever is edited, lowering goes exactly up to the first bad line, and *)
(* each line before it that moves has its one message.                     *)
THEOREM SessionLowers == SessionSpec => []LoweredUpToFirstBad
<1>1. EntriesInv /\ NumbersInv /\ UNCHANGED sessionVars => EntriesInv' /\ NumbersInv'
  BY DEF sessionVars, EntriesInv, NumbersInv
<1>2. EntriesInv => LoweredUpToFirstBad
  <2> DEFINE t == TextOf(lines)
             bad == {n \in DOMAIN t : ~Skipped(t[n]) /\ IsBad(t, n)}
             lowered == {n \in DOMAIN t : (\A b \in bad : n < b) /\ ~Skipped(t[n])
                                          /\ MotionOf(t[n].words) # NoValue}
  <2> SUFFICES ASSUME EntriesInv
               PROVE  /\ bad = {} => current.rejected = NoValue
                      /\ bad # {} => current.rejected \in bad /\ \A b \in bad : current.rejected <= b
                      /\ {current.messages[i].line : i \in DOMAIN current.messages} = lowered
                      /\ Len(current.messages) = Cardinality(lowered)
    BY Zenon DEF LoweredUpToFirstBad
  <2>1. t \in Seq(TextLines) /\ current = LowerToMessages(t)
    BY EntriesMakeText DEF EntriesInv
  <2>2. IsText(t) /\ current = Lowered(t, Len(t))
    BY <2>1, LinesMakeText, LoweredWhole
  <2>3. FromLines(t, current, Len(t))
    BY <2>1, LoweredMessages
  <2> HIDE DEF t
  <2>4. /\ current.rejected = NoValue => bad = {}
        /\ current.rejected # NoValue => current.rejected \in bad /\ \A b \in bad : current.rejected <= b
        /\ Giving(t) \cap Reading(current, Len(t)) = lowered
    BY <2>2, FirstBad, Zenon
  <2> HIDE DEF bad, lowered
  <2>5. QED
    BY <2>3, <2>4 DEF FromLines, LinesOf
<1>3. QED
  BY <1>1, <1>2, EntriesInitial, EntriesStep, PTL DEF SessionSpec

----------------------------------------------------------------------------
(* The client's queue.                                                     *)

(* Lines in order: no two messages are of one line, so the index has all.  *)
LEMMA IndexHasAll ==
  ASSUME NEW ms, Len(ms) \in Nat, DOMAIN ms = 1 .. Len(ms), InLineOrder(ms), LinesOf(ms) \subseteq Nat
  PROVE  /\ DOMAIN IndexByLine(ms) = LinesOf(ms)
         /\ \A i \in DOMAIN ms : IndexByLine(ms)[ms[i].line] = ms[i]
         /\ \A n \in LinesOf(ms) : IndexByLine(ms)[n].line = n
         /\ IndexByLine(ms) = [n \in LinesOf(ms) |-> IndexByLine(ms)[n]]
<1> DEFINE last(n) == SelectLastInSeq(ms, LAMBDA m : m.line = n)
           index == IndexByLine(ms)
<1>1. index = [n \in LinesOf(ms) |-> ms[last(n)]]
  BY DEF IndexByLine, LinesOf
<1>2. ASSUME NEW i \in DOMAIN ms
      PROVE  last(ms[i].line) = i
  <2> DEFINE hits == {j \in 1 .. Len(ms) : ms[j].line = ms[i].line}
             at == IF hits # {} THEN Max(hits) ELSE 0
  <2>1. last(ms[i].line) = at
    BY DEF SelectLastInSeq
  <2>2. hits \subseteq 1 .. Len(ms) /\ i \in hits
    OBVIOUS
  <2>3. \A j \in hits : j = i
    <3> SUFFICES ASSUME NEW j \in 1 .. Len(ms), ms[j].line = ms[i].line, j # i
                 PROVE  FALSE
      OBVIOUS
    <3>1. ms[i].line \in Nat
      BY DEF LinesOf
    <3>2. i < j \/ j < i
      OBVIOUS
    <3>3. QED
      BY <3>1, <3>2 DEF InLineOrder
  <2>4. at \in hits
    <3> HIDE DEF hits
    <3>1. QED
      BY <2>2, Greatest
  <2>5. QED
    BY <2>1, <2>3, <2>4
<1>3. ASSUME NEW i \in DOMAIN ms
      PROVE  index[ms[i].line] = ms[i]
  <2>1. ms[i].line \in LinesOf(ms)
    BY DEF LinesOf
  <2> HIDE DEF index, last
  <2>2. QED
    BY <1>1, <1>2, <2>1
<1>4. \A n \in LinesOf(ms) : index[n].line = n
  <2> TAKE n \in LinesOf(ms)
  <2>1. PICK i \in DOMAIN ms : n = ms[i].line
    BY DEF LinesOf
  <2> HIDE DEF index
  <2>2. QED
    BY <1>3, <2>1
<1> HIDE DEF last
<1>5. DOMAIN index = LinesOf(ms) /\ index = [n \in LinesOf(ms) |-> index[n]]
  <2> HIDE DEF index
  <2>1. QED
    BY <1>1
<1>6. QED
  BY <1>3, <1>4, <1>5

OrderLoop == INSTANCE LoopTheorems WITH
  Round <- LAMBDA index, ms, n : IF n \in DOMAIN index THEN Append(ms, index[n]) ELSE ms,
  First <- LAMBDA index : <<>>

(* Its messages of the lines up to n, in order.                            *)
Ordered(index, n) == OrderLoop!After(index, n)

(* The order applyMessageDiff puts the messages in, line by line.          *)
LEMMA OrderedWhole ==
  \A index : InOrder(index) = Ordered(index, IF DOMAIN index = {} THEN 0 ELSE Max(DOMAIN index))
BY DEF InOrder, Ordered, OrderLoop!After, OrderLoop!Loop, Loop

LEMMA OrderedByLine ==
  \A index :
    /\ Ordered(index, 0) = <<>>
    /\ \A n \in Nat : Ordered(index, n + 1) =
         IF n + 1 \in DOMAIN index THEN Append(Ordered(index, n), index[n + 1]) ELSE Ordered(index, n)
BY OrderLoop!LoopStarts, OrderLoop!LoopSteps DEF Ordered

(* The first messages and the next one.                                    *)
LEMMA OneMore ==
  ASSUME NEW ms, IsSeq(ms), NEW c \in 0 .. Len(ms), c + 1 \in 1 .. Len(ms)
  PROVE  Append(SubSeq(ms, 1, c), ms[c + 1]) = SubSeq(ms, 1, c + 1)
<1>1. PICK S : ms \in Seq(S)
  BY DEF IsSeq
<1>2. Len(ms) \in Nat /\ c \in Nat
  BY <1>1
<1>3. QED
  BY <1>1, <1>2

(* Up to line n the order has the messages of ms of these lines.           *)
LEMMA OrderedPart ==
  ASSUME NEW ms, IsSeq(ms), InLineOrder(ms), LinesOf(ms) \subseteq Nat \ {0}
  PROVE  \A n \in Nat : \E c \in 0 .. Len(ms) :
           /\ Ordered(IndexByLine(ms), n) = SubSeq(ms, 1, c)
           /\ \A i \in DOMAIN ms : ms[i].line <= n <=> i <= c
<1> DEFINE index == IndexByLine(ms)
           S == {n \in Nat : \E c \in 0 .. Len(ms) :
                   /\ Ordered(index, n) = SubSeq(ms, 1, c)
                   /\ \A i \in DOMAIN ms : ms[i].line <= n <=> i <= c}
<1>1. Len(ms) \in Nat /\ DOMAIN ms = 1 .. Len(ms) /\ \A i \in DOMAIN ms : ms[i].line \in Nat \ {0}
  BY Appended DEF LinesOf
<1>2. /\ DOMAIN index = LinesOf(ms) /\ \A i \in DOMAIN ms : index[ms[i].line] = ms[i]
  BY <1>1, IndexHasAll
<1> HIDE DEF index
<1>3. 0 \in S
  <2>1. Ordered(index, 0) = <<>> /\ SubSeq(ms, 1, 0) = <<>>
    BY OrderedByLine
  <2>2. \A i \in DOMAIN ms : ms[i].line <= 0 <=> i <= 0
    BY <1>1
  <2>3. 0 \in 0 .. Len(ms) /\ 0 \in Nat
    BY <1>1
  <2>4. Ordered(index, 0) = SubSeq(ms, 1, 0)
    BY <2>1
  <2>5. QED
    BY <2>2, <2>3, <2>4, Zenon
<1>4. ASSUME NEW n \in Nat, n \in S
      PROVE  n + 1 \in S
  <2>1. PICK c \in 0 .. Len(ms) : /\ Ordered(index, n) = SubSeq(ms, 1, c)
                                  /\ \A i \in DOMAIN ms : ms[i].line <= n <=> i <= c
    BY <1>4
  <2>2. Ordered(index, n + 1) =
          IF n + 1 \in DOMAIN index THEN Append(Ordered(index, n), index[n + 1]) ELSE Ordered(index, n)
    BY OrderedByLine
  <2>3. CASE n + 1 \notin LinesOf(ms)
    <3>1. \A i \in DOMAIN ms : ms[i].line <= n + 1 <=> i <= c
      BY <1>1, <2>1, <2>3 DEF LinesOf
    <3>2. Ordered(index, n + 1) = SubSeq(ms, 1, c)
      BY <1>2, <2>1, <2>2, <2>3
    <3>3. n + 1 \in Nat
      OBVIOUS
    <3>4. QED
      BY <3>1, <3>2, <3>3, Zenon
  <2>4. CASE n + 1 \in LinesOf(ms)
    <3>1. PICK i \in DOMAIN ms : ms[i].line = n + 1
      BY <2>4 DEF LinesOf
    <3>2. i > c /\ c + 1 \in DOMAIN ms
      BY <1>1, <2>1, <3>1
    <3>3. i = c + 1
      <4>1. ms[c + 1].line > n
        BY <1>1, <2>1, <3>2
      <4>2. c + 1 < i => ms[c + 1].line < ms[i].line
        BY <3>2 DEF InLineOrder
      <4>3. QED
        BY <1>1, <3>1, <3>2, <4>1, <4>2
    <3>4. index[n + 1] = ms[c + 1]
      BY <1>2, <3>1, <3>3
    <3>5. Ordered(index, n + 1) = SubSeq(ms, 1, c + 1)
      BY <1>1, <1>2, <2>1, <2>2, <2>4, <3>2, <3>4, OneMore
    <3>6. ASSUME NEW j \in DOMAIN ms
          PROVE  ms[j].line <= n + 1 <=> j <= c + 1
      <4>1. j > c + 1 => ms[j].line > n + 1
        BY <3>1, <3>3, <1>1 DEF InLineOrder
      <4>2. j <= c => ms[j].line <= n
        BY <2>1
      <4>3. QED
        BY <1>1, <3>1, <3>3, <4>1, <4>2
    <3>7. c + 1 \in 0 .. Len(ms)
      BY <1>1, <3>2
    <3>8. n + 1 \in Nat
      OBVIOUS
    <3>9. QED
      BY <3>5, <3>6, <3>7, <3>8, Zenon
  <2>5. QED
    BY <2>3, <2>4
<1>5. Nat \subseteq S
  <2> HIDE DEF S
  <2>1. QED
    BY <1>3, <1>4, SetInduction
<1>6. QED
  BY <1>5 DEF index

(* So an index put in order is the list it was made of.                    *)
LEMMA OrderKeeps ==
  ASSUME NEW ms, IsSeq(ms), InLineOrder(ms), NEW bound \in Nat, LinesOf(ms) \subseteq 1 .. bound
  PROVE  InOrder(IndexByLine(ms)) = ms
<1> DEFINE index == IndexByLine(ms)
           last == IF DOMAIN index = {} THEN 0 ELSE Max(DOMAIN index)
<1>1. Len(ms) \in Nat /\ DOMAIN ms = 1 .. Len(ms) /\ LinesOf(ms) \subseteq Nat \ {0}
  BY Appended
<1>2. DOMAIN index = LinesOf(ms)
  BY <1>1, IndexHasAll
<1>3. last \in Nat /\ \A i \in DOMAIN ms : ms[i].line <= last
  <2>1. DOMAIN index # {} => Max(DOMAIN index) \in DOMAIN index /\ \A n \in DOMAIN index : n <= Max(DOMAIN index)
    <3> HIDE DEF index
    <3>1. QED
      BY <1>2, Greatest
  <2>2. \A i \in DOMAIN ms : ms[i].line \in DOMAIN index
    BY <1>2 DEF LinesOf
  <2> HIDE DEF index
  <2>3. QED
    BY <1>1, <1>2, <2>1, <2>2
<1>4. PICK c \in 0 .. Len(ms) : /\ Ordered(index, last) = SubSeq(ms, 1, c)
                                /\ \A i \in DOMAIN ms : ms[i].line <= last <=> i <= c
  <2> HIDE DEF last
  <2>1. QED
    BY <1>1, <1>3, OrderedPart
<1> HIDE DEF last
<1>5. c = Len(ms)
  <2>1. ASSUME c # Len(ms)
        PROVE  FALSE
    <3>1. c < Len(ms) /\ Len(ms) \in DOMAIN ms
      <4> DEFINE length == Len(ms)
      <4>1. length \in Nat /\ c \in 0 .. length /\ c # length
        BY <1>1, <2>1
      <4> HIDE DEF length
      <4>2. c < length /\ length \in 1 .. length
        BY <4>1
      <4>3. QED
        BY <1>1, <4>2 DEF length
    <3>2. ms[Len(ms)].line <= last <=> Len(ms) <= c
      BY <1>4, <3>1
    <3>3. QED
      BY <1>1, <1>3, <3>1, <3>2
  <2>2. QED
    BY <2>1
<1>6. SubSeq(ms, 1, Len(ms)) = ms
  BY DEF IsSeq
<1>7. QED
  BY <1>4, <1>5, <1>6, OrderedWhole DEF last

(* The difference of two results brings the one to the other.              *)
LEMMA DiffLeadsOver ==
  ASSUME NEW r, IsLowered(r), NEW s, IsLowered(s)
  PROVE  ApplyDiff(r.messages, DiffByLine(IndexByLine(r.messages), IndexByLine(s.messages))) = s.messages
<1> DEFINE before == IndexByLine(r.messages)
           after == IndexByLine(s.messages)
           diff == DiffByLine(before, after)
           left == (DOMAIN before \ diff.removed) \cup DOMAIN diff.entries
           merged == [n \in left |-> IF n \in DOMAIN diff.entries THEN diff.entries[n] ELSE before[n]]
<1>1. ASSUME NEW q, IsLowered(q)
      PROVE  /\ IsSeq(q.messages) /\ InLineOrder(q.messages)
             /\ Len(q.messages) \in Nat /\ DOMAIN q.messages = 1 .. Len(q.messages)
             /\ \E bound \in Nat : LinesOf(q.messages) \subseteq 1 .. bound
             /\ \A i \in DOMAIN q.messages :
                  LET m == q.messages[i] IN
                    m = [line |-> m.line, number |-> m.number, code |-> m.code, fields |-> m.fields]
  <2>1. PICK t \in Seq(TextLines) : q = LowerToMessages(t)
    BY <1>1 DEF IsLowered
  <2>2. FromLines(t, q, Len(t)) /\ IsResult(t, q, Len(t)) /\ Len(t) \in Nat
    BY <2>1, LoweredMessages
  <2>3. IsSeq(q.messages) /\ InLineOrder(q.messages)
    BY <2>2 DEF FromLines, IsResult, Result, IsSeq
  <2>4. LinesOf(q.messages) \subseteq 1 .. Len(t)
    BY <2>2 DEF FromLines, Giving
  <2>5. \A l, k : LET m == MessageOf(l, k) IN
          m = [line |-> m.line, number |-> m.number, code |-> m.code, fields |-> m.fields]
    BY DEF MessageOf
  <2>6. \A i \in DOMAIN q.messages :
          q.messages[i] = MessageOf(t[q.messages[i].line], q.messages[i].line)
    BY <2>2 DEF FromLines
  <2>7. QED
    BY <2>2, <2>3, <2>4, <2>5, <2>6, Appended
<1>2. /\ DOMAIN before = LinesOf(r.messages) /\ DOMAIN after = LinesOf(s.messages)
      /\ \A n \in DOMAIN before : before[n].line = n
      /\ \A n \in DOMAIN after : after[n].line = n
      /\ after = [n \in DOMAIN after |-> after[n]]
  <2>1. ASSUME NEW q, IsLowered(q)
        PROVE  LinesOf(q.messages) \subseteq Nat
    <3>1. PICK bound \in Nat : LinesOf(q.messages) \subseteq 1 .. bound
      BY <1>1, <2>1
    <3>2. QED
      BY <3>1
  <2>2. QED
    BY <1>1, <2>1, IndexHasAll
<1>3. ASSUME NEW q, IsLowered(q), NEW n \in LinesOf(q.messages)
      PROVE  LET m == IndexByLine(q.messages)[n] IN
               m = [line |-> m.line, number |-> m.number, code |-> m.code, fields |-> m.fields]
  <2>1. PICK i \in DOMAIN q.messages : n = q.messages[i].line
    BY DEF LinesOf
  <2>2. IndexByLine(q.messages)[n] = q.messages[i]
    <3>1. PICK bound \in Nat : LinesOf(q.messages) \subseteq 1 .. bound
      BY <1>1, <1>3
    <3>2. LinesOf(q.messages) \subseteq Nat
      BY <3>1
    <3>3. QED
      BY <1>1, <1>3, <2>1, <3>2, IndexHasAll
  <2>3. QED
    BY <1>1, <1>3, <2>2
<1> DEFINE new == {n \in DOMAIN after : n \in DOMAIN before => ~MessageEqual(before[n], after[n])}
<1>4. diff.removed = DOMAIN before \ DOMAIN after /\ diff.entries = [n \in new |-> after[n]]
  BY DEF DiffByLine
<1>5. ASSUME NEW n \in DOMAIN after, n \notin new
      PROVE  n \in DOMAIN before /\ before[n] = after[n]
  <2>1. n \in DOMAIN before /\ MessageEqual(before[n], after[n])
    BY <1>5, Zenon
  <2>2. before[n].line = after[n].line
    BY <1>2, <2>1
  <2>3. before[n].code = after[n].code /\ before[n].number = after[n].number /\ before[n].fields = after[n].fields
    BY <2>1 DEF MessageEqual
  <2> DEFINE a == after[n]
             b == before[n]
  <2>4. a = [line |-> a.line, number |-> a.number, code |-> a.code, fields |-> a.fields]
    BY <1>2, <1>3, Zenon
  <2>5. b = [line |-> b.line, number |-> b.number, code |-> b.code, fields |-> b.fields]
    BY <1>2, <1>3, <2>1, Zenon
  <2> HIDE DEF before, after
  <2>6. QED
    BY <2>1, <2>2, <2>3, <2>4, <2>5
<1>6. new \subseteq DOMAIN after
  OBVIOUS
<1>7. merged = after
  <2> HIDE DEF before, after, diff, new
  <2>1. DOMAIN diff.entries = new /\ left = DOMAIN after
    BY <1>4, <1>5, <1>6
  <2>2. \A n \in left : (IF n \in DOMAIN diff.entries THEN diff.entries[n] ELSE before[n]) = after[n]
    BY <1>4, <1>5, <1>6, <2>1
  <2> HIDE DEF left
  <2>3. merged = [n \in left |-> after[n]]
    BY <2>2
  <2>4. QED
    BY <1>2, <2>1, <2>3
<1>8. ApplyDiff(r.messages, diff) = InOrder(merged)
  BY DEF ApplyDiff
<1> HIDE DEF merged, diff, after
<1>9. InOrder(after) = s.messages
  BY <1>1, OrderKeeps DEF after
<1>10. QED
  BY <1>7, <1>8, <1>9 DEF diff, after

QueueInv == IsLowered(base) /\ queue = base.messages

(* However many edits lie between two of its diffs, the client's queue is  *)
(* the messages of the result it last saw.                                 *)
THEOREM SessionQueue == SessionSpec => []QueueKeepsUp
<1>1. EntriesInv => IsLowered(current)
  BY EntriesMakeText DEF EntriesInv, IsLowered
<1>2. SessionInit => QueueInv
  <2> SUFFICES ASSUME SessionInit
               PROVE  QueueInv
    OBVIOUS
  <2>1. IsLowered(current)
    BY <1>1, EntriesInitial
  <2>2. QED
    BY <2>1 DEF SessionInit, QueueInv
<1>3. EntriesInv /\ QueueInv /\ [SessionNext]_sessionVars => QueueInv'
  <2> SUFFICES ASSUME EntriesInv, QueueInv, [SessionNext]_sessionVars
               PROVE  QueueInv'
    OBVIOUS
  <2>1. UNCHANGED <<base, queue>> => QueueInv'
    BY DEF QueueInv
  <2>2. ASSUME Sync
        PROVE  QueueInv'
    <3>1. CASE thrown'
      BY <2>1, <2>2, <3>1, Zenon DEF Sync
    <3>2. CASE ~thrown'
      <4>1. /\ base' = current
            /\ queue' = ApplyDiff(queue, DiffByLine(IndexByLine(base.messages), IndexByLine(current.messages)))
        BY <2>2, <3>2, Zenon DEF Sync
      <4>2. queue' = current.messages
        BY <1>1, <4>1, DiffLeadsOver DEF QueueInv
      <4>3. IsLowered(base')
        BY <1>1, <4>1
      <4>4. QED
        BY <4>1, <4>2, <4>3 DEF QueueInv
    <3>3. QED
      BY <3>1, <3>2, Zenon
  <2>3. ~Sync => UNCHANGED <<base, queue>>
    BY DEF SessionNext, ReparseFromLine, ApplyLineEdit, Reparse, sessionVars
  <2>4. QED
    BY <2>1, <2>2, <2>3
<1>4. QueueInv => QueueKeepsUp
  BY DEF QueueInv, QueueKeepsUp
<1>5. EntriesInv /\ NumbersInv /\ UNCHANGED sessionVars => EntriesInv' /\ NumbersInv'
  BY DEF sessionVars, EntriesInv, NumbersInv
<1>6. QED
  BY <1>2, <1>3, <1>4, <1>5, EntriesInitial, EntriesStep, PTL DEF SessionSpec

----------------------------------------------------------------------------
(* Keeping some elements of a sequence.                                    *)

KeepLoop == INSTANCE LoopTheorems WITH
  Round <- LAMBDA of, kept, i : IF i \in of[2] THEN Append(kept, of[1][i]) ELSE kept,
  First <- LAMBDA of : <<>>

(* Those of the first k.                                                   *)
Kept(s, at, k) == KeepLoop!After(<<s, at>>, k)

(* The loop of Keep, element by element.                                   *)
LEMMA KeptWhole == \A s, at : Keep(s, at) = Kept(s, at, Len(s))
BY DEF Keep, Kept, KeepLoop!After, KeepLoop!Loop, Loop

LEMMA KeptByElement ==
  \A s, at :
    /\ Kept(s, at, 0) = <<>>
    /\ \A n \in Nat : Kept(s, at, n + 1) =
         IF n + 1 \in at THEN Append(Kept(s, at, n), s[n + 1]) ELSE Kept(s, at, n)
<1> TAKE s, at
<1> DEFINE of == <<s, at>>
<1>1. /\ KeepLoop!After(of, 0) = <<>>
      /\ \A n \in Nat : KeepLoop!After(of, n + 1) =
           IF n + 1 \in of[2] THEN Append(KeepLoop!After(of, n), of[1][n + 1]) ELSE KeepLoop!After(of, n)
  BY KeepLoop!LoopStarts, KeepLoop!LoopSteps
<1>2. QED
  BY <1>1 DEF Kept

(* What is kept is a sequence.                                             *)
LEMMA KeptIsSeq == \A s, at : \A n \in Nat : IsSeq(Kept(s, at, n))
<1> TAKE s, at
<1> DEFINE S == {n \in Nat : IsSeq(Kept(s, at, n))}
<1>1. 0 \in S
  <2>1. <<>> \in Seq({})
    OBVIOUS
  <2>2. IsSeq(<<>>)
    BY <2>1 DEF IsSeq
  <2>3. QED
    BY <2>2, KeptByElement
<1>2. ASSUME NEW n \in Nat, n \in S
      PROVE  n + 1 \in S
  <2>1. IsSeq(Append(Kept(s, at, n), s[n + 1]))
    BY <1>2, Appended
  <2>2. IsSeq(Kept(s, at, n + 1))
    BY <1>2, <2>1, KeptByElement
  <2>3. n + 1 \in Nat
    OBVIOUS
  <2>4. QED
    BY <2>2, <2>3
<1>3. Nat \subseteq S
  <2> HIDE DEF S
  <2>1. QED
    BY <1>1, <1>2, SetInduction
<1>4. QED
  BY <1>3

(* Only the first k elements and the positions among them matter.          *)
LEMMA KeptOfSame ==
  ASSUME NEW s, NEW r, NEW at, NEW to, NEW k \in Nat,
         \A i \in 1 .. k : s[i] = r[i] /\ (i \in at <=> i \in to)
  PROVE  Kept(s, at, k) = Kept(r, to, k)
<1> DEFINE S == {n \in Nat : n <= k => Kept(s, at, n) = Kept(r, to, n)}
<1>1. 0 \in S
  BY KeptByElement
<1>2. ASSUME NEW n \in Nat, n \in S
      PROVE  n + 1 \in S
  <2> SUFFICES ASSUME n + 1 <= k
               PROVE  Kept(s, at, n + 1) = Kept(r, to, n + 1)
    OBVIOUS
  <2>1. n + 1 \in 1 .. k /\ Kept(s, at, n) = Kept(r, to, n)
    BY <1>2
  <2>2. s[n + 1] = r[n + 1] /\ (n + 1 \in at <=> n + 1 \in to)
    BY <2>1
  <2>3. QED
    BY <2>1, <2>2, KeptByElement
<1>3. Nat \subseteq S
  <2> HIDE DEF S
  <2>1. QED
    BY <1>1, <1>2, SetInduction
<1>4. QED
  BY <1>3

(* One element more behind two sequences.                                  *)
LEMMA BehindBoth ==
  ASSUME NEW s, IsSeq(s), NEW r, IsSeq(r), NEW e
  PROVE  s \o Append(r, e) = Append(s \o r, e)
<1>1. PICK S : s \in Seq(S)
  BY DEF IsSeq
<1>2. PICK R : r \in Seq(R)
  BY DEF IsSeq
<1>3. QED
  BY <1>1, <1>2

(* What is kept of two sequences is what is kept of each.                  *)
LEMMA KeptOfBoth ==
  \A s, r : IsSeq(s) /\ IsSeq(r) => \A at, to, both :
    (\A i \in DOMAIN s : i \in both <=> i \in at) /\ (\A i \in DOMAIN r : Len(s) + i \in both <=> i \in to)
      => Keep(s \o r, both) = Keep(s, at) \o Keep(r, to)
<1> TAKE s, r
<1> HAVE IsSeq(s) /\ IsSeq(r)
<1> TAKE at, to, both
<1> HAVE (\A i \in DOMAIN s : i \in both <=> i \in at) /\ (\A i \in DOMAIN r : Len(s) + i \in both <=> i \in to)
<1>1. /\ Len(s) \in Nat /\ Len(r) \in Nat /\ DOMAIN s = 1 .. Len(s) /\ DOMAIN r = 1 .. Len(r)
      /\ Len(s \o r) = Len(s) + Len(r)
      /\ \A i \in 1 .. Len(s) : (s \o r)[i] = s[i]
      /\ \A i \in 1 .. Len(r) : (s \o r)[Len(s) + i] = r[i]
  <2>1. PICK S : s \in Seq(S)
    BY DEF IsSeq
  <2>2. PICK R : r \in Seq(R)
    BY DEF IsSeq
  <2>3. QED
    BY <2>1, <2>2
<1> DEFINE q == s \o r
           l == Len(s)
           first == Kept(s, at, l)
           S == {n \in Nat : n <= Len(r) => Kept(q, both, l + n) = first \o Kept(r, to, n)}
<1>2. IsSeq(first) /\ \A n \in Nat : IsSeq(Kept(r, to, n))
  BY <1>1, KeptIsSeq
<1>3. Kept(q, both, l) = first
  <2>1. \A i \in 1 .. l : q[i] = s[i] /\ (i \in both <=> i \in at)
    BY <1>1
  <2> HIDE DEF q
  <2>2. QED
    BY <1>1, <2>1, KeptOfSame
<1>4. 0 \in S
  <2>1. first \o <<>> = first
    BY <1>2, NothingBehind
  <2>2. l + 0 = l /\ Kept(r, to, 0) = <<>>
    BY <1>1, KeptByElement
  <2> HIDE DEF first, q, l
  <2>3. QED
    BY <1>3, <2>1, <2>2
<1>5. ASSUME NEW n \in Nat, n \in S
      PROVE  n + 1 \in S
  <2> SUFFICES ASSUME n + 1 <= Len(r)
               PROVE  Kept(q, both, l + (n + 1)) = first \o Kept(r, to, n + 1)
    OBVIOUS
  <2>1. /\ n + 1 \in 1 .. Len(r) /\ Kept(q, both, l + n) = first \o Kept(r, to, n)
        /\ l + n \in Nat /\ l + (n + 1) = (l + n) + 1
    BY <1>1, <1>5
  <2>2. q[l + (n + 1)] = r[n + 1] /\ (l + (n + 1) \in both <=> n + 1 \in to)
    BY <1>1, <2>1
  <2> HIDE DEF q, l, first
  <2>3. Kept(q, both, (l + n) + 1) =
          IF (l + n) + 1 \in both THEN Append(Kept(q, both, l + n), q[(l + n) + 1]) ELSE Kept(q, both, l + n)
    BY <2>1, KeptByElement
  <2>4. Kept(r, to, n + 1) = IF n + 1 \in to THEN Append(Kept(r, to, n), r[n + 1]) ELSE Kept(r, to, n)
    BY KeptByElement
  <2>5. first \o Append(Kept(r, to, n), r[n + 1]) = Append(first \o Kept(r, to, n), r[n + 1])
    BY <1>2, BehindBoth
  <2>6. QED
    BY <2>1, <2>2, <2>3, <2>4, <2>5
<1>6. Len(r) \in S
  <2> HIDE DEF S
  <2>1. QED
    BY <1>1, <1>4, <1>5, SetInduction
<1>7. Kept(q, both, l + Len(r)) = first \o Kept(r, to, Len(r))
  BY <1>1, <1>6
<1>8. QED
  BY <1>1, <1>7, KeptWhole

(* Where nothing is to be kept, nothing is.                                *)
LEMMA NothingKept == \A s, at : IsSeq(s) /\ at \cap DOMAIN s = {} => Keep(s, at) = <<>>
<1> SUFFICES ASSUME NEW s, NEW at, IsSeq(s), at \cap DOMAIN s = {}
             PROVE  Keep(s, at) = <<>>
  OBVIOUS
<1>0. Len(s) \in Nat /\ DOMAIN s = 1 .. Len(s)
  BY Appended
<1> DEFINE S == {n \in Nat : n <= Len(s) => Kept(s, at, n) = <<>>}
<1>1. 0 \in S
  BY KeptByElement
<1>2. ASSUME NEW n \in Nat, n \in S
      PROVE  n + 1 \in S
  <2>1. n + 1 <= Len(s) => n + 1 \notin at
    BY <1>0
  <2>2. n + 1 <= Len(s) => Kept(s, at, n) = <<>>
    BY <1>0, <1>2
  <2>3. n + 1 <= Len(s) => Kept(s, at, n + 1) = <<>>
    BY <2>1, <2>2, KeptByElement
  <2>4. QED
    BY <2>3
<1>3. Nat \subseteq S
  <2> HIDE DEF S
  <2>1. QED
    BY <1>1, <1>2, SetInduction
<1>4. QED
  BY <1>0, <1>3, KeptWhole

----------------------------------------------------------------------------
(* What PrefixKept looks at.                                               *)

(* The errors before line n of two lists of diagnostics.                   *)
LEMMA ErrorsBeforeOfBoth ==
  ASSUME NEW ds, IsSeq(ds), NEW es, IsSeq(es), NEW n
  PROVE  ErrorsBefore(ds \o es, n) = ErrorsBefore(ds, n) \o ErrorsBefore(es, n)
<1> DEFINE wanted(s) == {i \in DOMAIN s : s[i].severity = "Error" /\ s[i].line < n}
<1>1. /\ Len(ds) \in Nat /\ Len(es) \in Nat /\ DOMAIN ds = 1 .. Len(ds) /\ DOMAIN es = 1 .. Len(es)
      /\ DOMAIN (ds \o es) = 1 .. Len(ds) + Len(es)
      /\ \A i \in 1 .. Len(ds) : (ds \o es)[i] = ds[i]
      /\ \A i \in 1 .. Len(es) : (ds \o es)[Len(ds) + i] = es[i]
  <2>1. PICK S : ds \in Seq(S)
    BY DEF IsSeq
  <2>2. PICK R : es \in Seq(R)
    BY DEF IsSeq
  <2>3. QED
    BY <2>1, <2>2
<1>2. \A i \in DOMAIN ds : i \in wanted(ds \o es) <=> i \in wanted(ds)
  <2> TAKE i \in DOMAIN ds
  <2>1. i \in DOMAIN (ds \o es) /\ (ds \o es)[i] = ds[i]
    BY <1>1
  <2>2. QED
    BY <2>1, Zenon
<1>3. \A i \in DOMAIN es : Len(ds) + i \in wanted(ds \o es) <=> i \in wanted(es)
  <2> TAKE i \in DOMAIN es
  <2>1. Len(ds) + i \in DOMAIN (ds \o es) /\ (ds \o es)[Len(ds) + i] = es[i]
    BY <1>1
  <2>2. QED
    BY <2>1, Zenon
<1>4. \A s : ErrorsBefore(s, n) = Keep(s, wanted(s))
  BY DEF ErrorsBefore
<1> DEFINE inFirst == wanted(ds)
           inSecond == wanted(es)
           inBoth == wanted(ds \o es)
<1>5. Keep(ds \o es, inBoth) = Keep(ds, inFirst) \o Keep(es, inSecond)
  <2>1. \A i \in DOMAIN ds : i \in inBoth <=> i \in inFirst
    BY <1>2
  <2>2. \A i \in DOMAIN es : Len(ds) + i \in inBoth <=> i \in inSecond
    BY <1>3
  <2> HIDE DEF wanted, inFirst, inSecond, inBoth
  <2>3. QED
    BY <2>1, <2>2, KeptOfBoth
<1> HIDE DEF wanted
<1>6. QED
  BY <1>4, <1>5 DEF inFirst, inSecond, inBoth

(* The same diagnostics behind the same errors.                            *)
LEMMA SameBehind ==
  ASSUME NEW ds, IsSeq(ds), NEW es, IsSeq(es), NEW more, IsSeq(more), NEW n
  PROVE  ErrorsBefore(ds, n) = ErrorsBefore(es, n) =>
           ErrorsBefore(ds \o more, n) = ErrorsBefore(es \o more, n)
<1>1. ErrorsBefore(ds \o more, n) = ErrorsBefore(ds, n) \o ErrorsBefore(more, n)
  BY ErrorsBeforeOfBoth
<1>2. ErrorsBefore(es \o more, n) = ErrorsBefore(es, n) \o ErrorsBefore(more, n)
  BY ErrorsBeforeOfBoth
<1>3. QED
  BY <1>1, <1>2

(* The errors before line n are a sequence.                                *)
LEMMA ErrorsBeforeIsSeq == \A ds, n : IsSeq(ds) => IsSeq(ErrorsBefore(ds, n))
<1> TAKE ds, n
<1>1. IsSeq(ds) => Len(ds) \in Nat
  BY Appended
<1>2. QED
  BY <1>1, KeptWhole, KeptIsSeq DEF ErrorsBefore

(* Diagnostics without an error before line n add none.                    *)
LEMMA NoErrorsBefore ==
  ASSUME NEW ds, IsSeq(ds), NEW es, IsSeq(es), NEW n,
         \A i \in DOMAIN es : ~(es[i].severity = "Error" /\ es[i].line < n)
  PROVE  ErrorsBefore(ds \o es, n) = ErrorsBefore(ds, n)
<1> DEFINE wanted == {i \in DOMAIN es : es[i].severity = "Error" /\ es[i].line < n}
<1>1. wanted \cap DOMAIN es = {}
  OBVIOUS
<1>2. ErrorsBefore(es, n) = Keep(es, wanted)
  BY DEF ErrorsBefore
<1> HIDE DEF wanted
<1>3. ErrorsBefore(es, n) = <<>>
  BY <1>1, <1>2, NothingKept
<1>4. ErrorsBefore(ds \o es, n) = ErrorsBefore(ds, n) \o ErrorsBefore(es, n)
  BY ErrorsBeforeOfBoth
<1>5. IsSeq(ErrorsBefore(ds, n))
  BY ErrorsBeforeIsSeq
<1>6. ErrorsBefore(ds, n) \o <<>> = ErrorsBefore(ds, n)
  BY <1>5, NothingBehind
<1>7. QED
  BY <1>3, <1>4, <1>6

(* One message more.                                                       *)
LEMMA BeforeAppended ==
  ASSUME NEW ms, IsSeq(ms), NEW m, NEW n
  PROVE  ~(m.line < n) => Before(Append(ms, m), n) = Before(ms, n)
<1> SUFFICES ASSUME ~(m.line < n)
             PROVE  Before(Append(ms, m), n) = Before(ms, n)
  OBVIOUS
<1> DEFINE more == Append(ms, m)
           wanted(s) == {i \in DOMAIN s : s[i].line < n}
<1>1. /\ Len(ms) \in Nat /\ DOMAIN ms = 1 .. Len(ms) /\ DOMAIN more = 1 .. Len(ms) + 1
      /\ Len(more) = Len(ms) + 1 /\ \A i \in DOMAIN ms : more[i] = ms[i]
      /\ more[Len(ms) + 1] = m
  BY Appended
<1>2. Before(more, n) = Kept(more, wanted(more), Len(ms) + 1) /\ Before(ms, n) = Kept(ms, wanted(ms), Len(ms))
  BY <1>1, KeptWhole DEF Before
<1>3. Len(ms) + 1 \notin wanted(more)
  BY <1>1
<1>4. \A i \in 1 .. Len(ms) : more[i] = ms[i] /\ (i \in wanted(more) <=> i \in wanted(ms))
  <2> TAKE i \in 1 .. Len(ms)
  <2>1. i \in DOMAIN ms /\ i \in DOMAIN more /\ more[i] = ms[i]
    BY <1>1
  <2>2. QED
    BY <2>1, Zenon
<1> HIDE DEF more, wanted
<1>5. Kept(more, wanted(more), Len(ms) + 1) = Kept(more, wanted(more), Len(ms))
  BY <1>1, <1>3, KeptByElement
<1>6. Kept(more, wanted(more), Len(ms)) = Kept(ms, wanted(ms), Len(ms))
  BY <1>1, <1>4, KeptOfSame
<1>7. QED
  BY <1>2, <1>5, <1>6 DEF more

----------------------------------------------------------------------------
(* The errors the parser reports of the lines before line n.               *)

(* An empty line is no error, is not skipped and does nothing.             *)
LEMMA EmptyDoesNothing ==
  /\ Len(EmptyLine.words) = 0 /\ DOMAIN EmptyLine.words = {}
  /\ ~EmptyLine.broken /\ ~BreaksRule(EmptyLine) /\ ~Skipped(EmptyLine)
  /\ MotionOf(EmptyLine.words) = NoValue
<1>1. /\ EmptyLine.words = <<>> /\ EmptyLine.statement = [kind |-> "none"] /\ EmptyLine.skip = NoValue
      /\ EmptyLine.remark = "none" /\ EmptyLine.broken = FALSE
  BY DEF EmptyLine
<1>2. Len(EmptyLine.words) = 0 /\ DOMAIN EmptyLine.words = {}
  BY <1>1
<1>3. ~Skipped(EmptyLine)
  BY <1>1, SkipAssumption DEF Skipped, NoValue, Unreadable
<1>4. MotionOf(EmptyLine.words) = NoValue
  <2> DEFINE ws == EmptyLine.words
  <2>1. Len(ws) \in Nat /\ DOMAIN ws = 1 .. Len(ws) /\ \A i \in DOMAIN ws : FALSE
    BY <1>2
  <2> HIDE DEF ws
  <2>2. MotionOf(ws) = NoValue <=> \A i \in DOMAIN ws : ~IsG(ws[i], Motion)
    BY <2>1, MotionCode
  <2>3. QED
    BY <2>1, <2>2 DEF ws
<1>5. ~BreaksRule(EmptyLine)
  <2>1. ~HasBadSkipLevel(EmptyLine)
    BY <1>1 DEF HasBadSkipLevel, NoValue
  <2>2. ~IsMalformedProc(EmptyLine) /\ ~BreaksTShape(EmptyLine)
    BY <1>1, <1>2 DEF IsMalformedProc, BreaksTShape
  <2>3. /\ ~BreaksG4Block(EmptyLine.words) /\ ~HasTwoMotions(EmptyLine.words)
        /\ ~MixesCoordinates(EmptyLine.words) /\ ~HasStrayNumber(EmptyLine.words)
        /\ ~LacksEquals(EmptyLine.words) /\ ~BreaksMShape(EmptyLine.words)
    BY <1>2, Zenon DEF BreaksG4Block, HasTwoMotions, MixesCoordinates, HasStrayNumber, LacksEquals,
                       BreaksMShape
  <2>4. EmptyLine.remark # "slashes"
    BY <1>1
  <2>5. QED
    BY <2>1, <2>2, <2>3, <2>4, Zenon DEF BreaksRule
<1>6. QED
  BY <1>1, <1>2, <1>3, <1>4, <1>5, Zenon

(* A sequence of one element.                                              *)
LEMMA OneElement == \A e : IsSeq(<<e>>) /\ DOMAIN <<e>> = {1} /\ <<e>>[1] = e
<1> TAKE e
<1>1. <<e>> \in Seq({e}) /\ Len(<<e>>) = 1 /\ <<e>>[1] = e
  OBVIOUS
<1>2. DOMAIN <<e>> = {1}
  BY <1>1
<1>3. IsSeq(<<e>>)
  BY <1>1 DEF IsSeq
<1>4. QED
  BY <1>1, <1>2, <1>3

(* One error of line k, if that is before line n.                          *)
ErrorOf(k, why, n) == ErrorsBefore(<<Diag("Error", k, why)>>, n)

(* Two sequences, one behind the other, are a sequence.                    *)
LEMMA BothAreSeq == \A s, r : IsSeq(s) /\ IsSeq(r) => IsSeq(s \o r)
<1> TAKE s, r
<1> SUFFICES ASSUME IsSeq(s), IsSeq(r)
             PROVE  IsSeq(s \o r)
  OBVIOUS
<1>1. PICK S : s \in Seq(S)
  BY DEF IsSeq
<1>2. PICK R : r \in Seq(R)
  BY DEF IsSeq
<1>3. s \in Seq(S \cup R) /\ r \in Seq(S \cup R)
  BY <1>1, <1>2, SeqMonotonic
<1>4. s \o r \in Seq(S \cup R)
  BY <1>3, ConcatProperties
<1>5. QED
  BY <1>4 DEF IsSeq

(* A line's reports are diagnostics behind those of the lines before.      *)
LEMMA ReportsStaySeqs ==
  ASSUME NEW t, NEW ds, IsSeq(ds), NEW k
  PROVE  IsSeq(SyntaxOfLine(t, ds, k)) /\ IsSeq(SemanticsOfLine(t, ds, k))
<1>1. IsSeq(SyntaxOfLine(t, ds, k))
  BY Appended DEF SyntaxOfLine
<1> DEFINE w == Diag("Warning", k, "duplicate N")
           d == Diag("Error", k, "rule")
           warned == IF IsDuplicate(t, k) THEN <<w>> ELSE <<>>
           new == IF BreaksRule(t[k]) THEN <<d>> ELSE <<>>
<1>2. IsSeq(<<>>)
  <2>1. <<>> \in Seq({})
    OBVIOUS
  <2>2. QED
    BY <2>1 DEF IsSeq
<1>3. IsSeq(warned) /\ IsSeq(new)
  <2>1. IsSeq(<<w>>) /\ IsSeq(<<d>>)
    BY OneElement
  <2> HIDE DEF w, d
  <2>2. QED
    BY <1>2, <2>1, Zenon
<1>4. SemanticsOfLine(t, ds, k) = ds \o warned \o new
  BY DEF SemanticsOfLine
<1> HIDE DEF warned, new
<1>5. QED
  BY <1>1, <1>3, <1>4, BothAreSeq

(* What the parser reports of a line adds the errors of that line, the     *)
(* same ones in every text the line stands in.                             *)
LEMMA SyntaxOfOne ==
  ASSUME NEW t, NEW ds, IsSeq(ds), NEW k, NEW n
  PROVE  /\ t[k].broken =>
              ErrorsBefore(SyntaxOfLine(t, ds, k), n) = ErrorsBefore(ds, n) \o ErrorOf(k, "syntax", n)
         /\ ~t[k].broken \/ ~(k < n) => ErrorsBefore(SyntaxOfLine(t, ds, k), n) = ErrorsBefore(ds, n)
<1> DEFINE d == Diag("Error", k, "syntax")
           new == <<d>>
<1>1. IsSeq(new) /\ DOMAIN new = {1} /\ new[1] = d
  BY OneElement, Zenon
<1>2. ds \o new = Append(ds, d)
  BY OneBehind
<1>4. ErrorsBefore(ds \o new, n) = ErrorsBefore(ds, n) \o ErrorOf(k, "syntax", n)
  <2>1. ErrorsBefore(ds \o new, n) = ErrorsBefore(ds, n) \o ErrorsBefore(new, n)
    <3> HIDE DEF new
    <3>1. QED
      BY <1>1, ErrorsBeforeOfBoth
  <2>2. QED
    BY <2>1 DEF ErrorOf
<1>5. ~(k < n) => ErrorsBefore(ds \o new, n) = ErrorsBefore(ds, n)
  <2>1. d.line = k
    BY DEF Diag
  <2> HIDE DEF new, d
  <2>2. QED
    BY <1>1, <2>1, NoErrorsBefore
<1> HIDE DEF new, d
<1>6. SyntaxOfLine(t, ds, k) = IF t[k].broken THEN ds \o new ELSE ds
  BY <1>2 DEF SyntaxOfLine, d
<1>7. QED
  BY <1>4, <1>5, <1>6

(* So do the rules of the language.                                        *)
LEMMA RulesOfOne ==
  ASSUME NEW t, NEW ds, IsSeq(ds), NEW k, NEW n
  PROVE  /\ BreaksRule(t[k]) =>
              ErrorsBefore(SemanticsOfLine(t, ds, k), n) = ErrorsBefore(ds, n) \o ErrorOf(k, "rule", n)
         /\ ~BreaksRule(t[k]) \/ ~(k < n) =>
              ErrorsBefore(SemanticsOfLine(t, ds, k), n) = ErrorsBefore(ds, n)
<1> DEFINE w == Diag("Warning", k, "duplicate N")
           d == Diag("Error", k, "rule")
           warned == IF IsDuplicate(t, k) THEN <<w>> ELSE <<>>
           new == <<d>>
           with == ds \o warned
<1>1. IsSeq(new) /\ DOMAIN new = {1} /\ new[1] = d /\ IsSeq(<<>>) /\ IsSeq(<<w>>)
  <2>1. <<>> \in Seq({})
    OBVIOUS
  <2>2. IsSeq(<<>>)
    BY <2>1 DEF IsSeq
  <2>3. QED
    BY <2>2, OneElement, Zenon
<1>2. IsSeq(warned) /\ \A i \in DOMAIN warned : warned[i] = w
  <2>1. \A i \in DOMAIN <<w>> : <<w>>[i] = w
    BY OneElement
  <2>2. \A i \in DOMAIN <<>> : FALSE
    OBVIOUS
  <2> HIDE DEF w
  <2>3. warned = <<w>> \/ warned = <<>>
    BY Zenon
  <2> HIDE DEF warned
  <2>4. QED
    BY <1>1, <2>1, <2>2, <2>3, Zenon
<1>3. w.severity = "Warning" /\ d.line = k
  BY DEF Diag
<1>5. /\ BreaksRule(t[k]) => SemanticsOfLine(t, ds, k) = with \o new
      /\ ~BreaksRule(t[k]) => SemanticsOfLine(t, ds, k) = with \o <<>>
  BY DEF SemanticsOfLine
<1> HIDE DEF warned, w
<1>6. IsSeq(with) /\ ErrorsBefore(with, n) = ErrorsBefore(ds, n)
  BY <1>2, <1>3, BothAreSeq, NoErrorsBefore
<1>7. ErrorsBefore(with \o new, n) = ErrorsBefore(ds, n) \o ErrorOf(k, "rule", n)
  <2>1. ErrorsBefore(with \o new, n) = ErrorsBefore(with, n) \o ErrorsBefore(new, n)
    <3> HIDE DEF new, with
    <3>1. QED
      BY <1>1, <1>6, ErrorsBeforeOfBoth
  <2>2. QED
    BY <1>6, <2>1 DEF ErrorOf
<1> HIDE DEF with, d
<1>8. with \o <<>> = with
  BY <1>6, NothingBehind
<1>10. ~(k < n) => ErrorsBefore(with \o new, n) = ErrorsBefore(with, n)
  <2> HIDE DEF new
  <2>1. QED
    BY <1>1, <1>3, <1>6, NoErrorsBefore
<1>11. CASE BreaksRule(t[k])
  BY <1>5, <1>6, <1>7, <1>10, <1>11, Zenon
<1>12. CASE ~BreaksRule(t[k])
  BY <1>5, <1>6, <1>8, <1>12, Zenon
<1>13. QED
  BY <1>11, <1>12, Zenon

(* What the parser and the rules have reported of the first k lines.       *)
Syntax(t, k) == SyntaxLoop!After(t, k)
Rules(t, k) == SemanticsLoop!After(t, k)

(* The reports, line by line.                                              *)
LEMMA ReportsByLine ==
  \A t : /\ SyntaxDiagnostics(t) = Syntax(t, Len(t)) /\ SemanticDiagnostics(t) = Rules(t, Len(t))
         /\ Syntax(t, 0) = <<>> /\ Rules(t, 0) = <<>>
         /\ \A k \in Nat : /\ Syntax(t, k + 1) = SyntaxOfLine(t, Syntax(t, k), k + 1)
                           /\ Rules(t, k + 1) = SemanticsOfLine(t, Rules(t, k), k + 1)
BY SyntaxByLine, SemanticsByLine DEF Syntax, Rules

(* The reports are sequences.                                              *)
LEMMA ReportsAreSeqs == \A t : \A k \in Nat : IsSeq(Syntax(t, k)) /\ IsSeq(Rules(t, k))
<1> TAKE t
<1> DEFINE S == {k \in Nat : IsSeq(Syntax(t, k)) /\ IsSeq(Rules(t, k))}
<1>1. 0 \in S
  <2>1. <<>> \in Seq({})
    OBVIOUS
  <2>2. IsSeq(<<>>)
    BY <2>1 DEF IsSeq
  <2>3. QED
    BY <2>2, ReportsByLine
<1>2. ASSUME NEW k \in Nat, k \in S
      PROVE  k + 1 \in S
  <2>1. IsSeq(SyntaxOfLine(t, Syntax(t, k), k + 1)) /\ IsSeq(SemanticsOfLine(t, Rules(t, k), k + 1))
    BY <1>2, ReportsStaySeqs
  <2>2. k + 1 \in Nat
    OBVIOUS
  <2>3. QED
    BY <2>1, <2>2, ReportsByLine
<1>3. Nat \subseteq S
  <2> HIDE DEF S
  <2>1. QED
    BY <1>1, <1>2, SetInduction
<1>4. QED
  BY <1>3

(* One line more, and what it adds to the errors before line n.            *)
LEMMA ReportsOfLine ==
  ASSUME NEW t, NEW k \in Nat, NEW i, i = k + 1, NEW n
  PROVE  /\ t[i].broken =>
              ErrorsBefore(Syntax(t, i), n) = ErrorsBefore(Syntax(t, k), n) \o ErrorOf(i, "syntax", n)
         /\ ~t[i].broken \/ ~(i < n) => ErrorsBefore(Syntax(t, i), n) = ErrorsBefore(Syntax(t, k), n)
         /\ BreaksRule(t[i]) =>
              ErrorsBefore(Rules(t, i), n) = ErrorsBefore(Rules(t, k), n) \o ErrorOf(i, "rule", n)
         /\ ~BreaksRule(t[i]) \/ ~(i < n) => ErrorsBefore(Rules(t, i), n) = ErrorsBefore(Rules(t, k), n)
<1> DEFINE ds == Syntax(t, k)
           es == Rules(t, k)
<1>1. /\ IsSeq(ds) /\ Syntax(t, i) = SyntaxOfLine(t, ds, i)
      /\ IsSeq(es) /\ Rules(t, i) = SemanticsOfLine(t, es, i)
  BY ReportsByLine, ReportsAreSeqs
<1> HIDE DEF ds, es
<1>2. t[i].broken =>
        ErrorsBefore(SyntaxOfLine(t, ds, i), n) = ErrorsBefore(ds, n) \o ErrorOf(i, "syntax", n)
  BY <1>1, SyntaxOfOne
<1>3. ~t[i].broken \/ ~(i < n) => ErrorsBefore(SyntaxOfLine(t, ds, i), n) = ErrorsBefore(ds, n)
  BY <1>1, SyntaxOfOne
<1>4. BreaksRule(t[i]) =>
        ErrorsBefore(SemanticsOfLine(t, es, i), n) = ErrorsBefore(es, n) \o ErrorOf(i, "rule", n)
  BY <1>1, RulesOfOne
<1>5. ~BreaksRule(t[i]) \/ ~(i < n) =>
        ErrorsBefore(SemanticsOfLine(t, es, i), n) = ErrorsBefore(es, n)
  BY <1>1, RulesOfOne
<1>6. QED
  BY <1>1, <1>2, <1>3, <1>4, <1>5, Zenon DEF ds, es

(* The same lines have the same errors, whatever text they stand in.       *)
LEMMA SameReports ==
  ASSUME NEW t, NEW u, NEW m \in Nat, \A k \in 1 .. m : t[k] = u[k], NEW n
  PROVE  /\ ErrorsBefore(Syntax(t, m), n) = ErrorsBefore(Syntax(u, m), n)
         /\ ErrorsBefore(Rules(t, m), n) = ErrorsBefore(Rules(u, m), n)
<1> DEFINE S == {k \in Nat : k <= m => /\ ErrorsBefore(Syntax(t, k), n) = ErrorsBefore(Syntax(u, k), n)
                                       /\ ErrorsBefore(Rules(t, k), n) = ErrorsBefore(Rules(u, k), n)}
<1>1. 0 \in S
  BY ReportsByLine
<1>2. ASSUME NEW k \in Nat, k \in S
      PROVE  k + 1 \in S
  <2> DEFINE i == k + 1
  <2> SUFFICES ASSUME i <= m
               PROVE  /\ ErrorsBefore(Syntax(t, i), n) = ErrorsBefore(Syntax(u, i), n)
                      /\ ErrorsBefore(Rules(t, i), n) = ErrorsBefore(Rules(u, i), n)
    OBVIOUS
  <2>1. /\ ErrorsBefore(Syntax(t, k), n) = ErrorsBefore(Syntax(u, k), n)
        /\ ErrorsBefore(Rules(t, k), n) = ErrorsBefore(Rules(u, k), n)
        /\ t[i] = u[i]
    BY <1>2
  <2> HIDE DEF i
  <2>2. \A v : /\ v[i].broken =>
                    ErrorsBefore(Syntax(v, i), n) = ErrorsBefore(Syntax(v, k), n) \o ErrorOf(i, "syntax", n)
               /\ ~v[i].broken => ErrorsBefore(Syntax(v, i), n) = ErrorsBefore(Syntax(v, k), n)
               /\ BreaksRule(v[i]) =>
                    ErrorsBefore(Rules(v, i), n) = ErrorsBefore(Rules(v, k), n) \o ErrorOf(i, "rule", n)
               /\ ~BreaksRule(v[i]) => ErrorsBefore(Rules(v, i), n) = ErrorsBefore(Rules(v, k), n)
    <3> TAKE v
    <3>1. i = k + 1
      BY DEF i
    <3>2. QED
      BY <3>1, ReportsOfLine
  <2>3. ErrorsBefore(Syntax(t, i), n) = ErrorsBefore(Syntax(u, i), n)
    BY <2>1, <2>2, Zenon
  <2>4. ErrorsBefore(Rules(t, i), n) = ErrorsBefore(Rules(u, i), n)
    BY <2>1, <2>2, Zenon
  <2>5. QED
    BY <2>3, <2>4
<1>3. Nat \subseteq S
  <2> HIDE DEF S
  <2>1. QED
    BY <1>1, <1>2, SetInduction
<1>4. QED
  BY <1>3

(* The lines behind the first m are empty, or not before line n.           *)
Quiet(t, m, n) == \A k \in m + 1 .. Len(t) : ~(k < n) \/ t[k] = EmptyLine

(* They report no error before line n.                                     *)
LEMMA QuietReports ==
  ASSUME NEW t, Len(t) \in Nat, NEW m \in 0 .. Len(t), NEW n, Quiet(t, m, n)
  PROVE  /\ ErrorsBefore(Syntax(t, Len(t)), n) = ErrorsBefore(Syntax(t, m), n)
         /\ ErrorsBefore(Rules(t, Len(t)), n) = ErrorsBefore(Rules(t, m), n)
<1> DEFINE S == {d \in Nat : m + d <= Len(t) =>
                   /\ ErrorsBefore(Syntax(t, m + d), n) = ErrorsBefore(Syntax(t, m), n)
                   /\ ErrorsBefore(Rules(t, m + d), n) = ErrorsBefore(Rules(t, m), n)}
<1>1. 0 \in S
  BY m + 0 = m
<1>2. ASSUME NEW d \in Nat, d \in S
      PROVE  d + 1 \in S
  <2> DEFINE k == m + d
             i == k + 1
  <2>0. m + (d + 1) = i /\ k \in Nat /\ d + 1 \in Nat
    OBVIOUS
  <2> SUFFICES ASSUME i <= Len(t)
               PROVE  /\ ErrorsBefore(Syntax(t, i), n) = ErrorsBefore(Syntax(t, m), n)
                      /\ ErrorsBefore(Rules(t, i), n) = ErrorsBefore(Rules(t, m), n)
    BY <2>0
  <2>1. /\ ErrorsBefore(Syntax(t, k), n) = ErrorsBefore(Syntax(t, m), n)
        /\ ErrorsBefore(Rules(t, k), n) = ErrorsBefore(Rules(t, m), n)
        /\ i \in m + 1 .. Len(t)
    BY <1>2
  <2>2. ~(i < n) \/ t[i] = EmptyLine
    BY <2>1 DEF Quiet
  <2>3. ~t[i].broken \/ ~(i < n)
    BY <2>2, EmptyDoesNothing
  <2>4. ~BreaksRule(t[i]) \/ ~(i < n)
    BY <2>2, EmptyDoesNothing, Zenon
  <2>5. /\ ErrorsBefore(Syntax(t, i), n) = ErrorsBefore(Syntax(t, k), n)
        /\ ErrorsBefore(Rules(t, i), n) = ErrorsBefore(Rules(t, k), n)
    <3>1. i = k + 1
      BY DEF i
    <3> HIDE DEF S
    <3>2. QED
      BY <2>0, <2>3, <2>4, <3>1, ReportsOfLine
  <2>6. QED
    BY <2>1, <2>5
<1>3. Len(t) - m \in S
  <2>1. Len(t) - m \in Nat
    OBVIOUS
  <2> HIDE DEF S
  <2>2. QED
    BY <1>1, <1>2, <2>1, SetInduction
<1>4. m + (Len(t) - m) = Len(t)
  OBVIOUS
<1>5. QED
  BY <1>3, <1>4

(* So two texts with the same first m lines and nothing more before line n *)
(* have the same errors there.                                             *)
LEMMA SameErrors ==
  ASSUME NEW t, NEW u, Len(t) \in Nat, Len(u) \in Nat, NEW m \in 0 .. Len(t), m <= Len(u), NEW n,
         \A k \in 1 .. m : t[k] = u[k], Quiet(t, m, n), Quiet(u, m, n)
  PROVE  ErrorsBefore(ParseDiagnostics(t), n) = ErrorsBefore(ParseDiagnostics(u), n)
<1>1. \A v : Len(v) \in Nat =>
        ErrorsBefore(ParseDiagnostics(v), n) =
          ErrorsBefore(Syntax(v, Len(v)), n) \o ErrorsBefore(Rules(v, Len(v)), n)
  <2> TAKE v
  <2> SUFFICES ASSUME Len(v) \in Nat
               PROVE  ErrorsBefore(ParseDiagnostics(v), n) =
                        ErrorsBefore(Syntax(v, Len(v)), n) \o ErrorsBefore(Rules(v, Len(v)), n)
    OBVIOUS
  <2>1. ParseDiagnostics(v) = Syntax(v, Len(v)) \o Rules(v, Len(v))
    BY ReportsByLine DEF ParseDiagnostics
  <2>2. IsSeq(Syntax(v, Len(v))) /\ IsSeq(Rules(v, Len(v)))
    BY ReportsAreSeqs
  <2> DEFINE ds == Syntax(v, Len(v))
             es == Rules(v, Len(v))
  <2> HIDE DEF ds, es
  <2>3. ErrorsBefore(ds \o es, n) = ErrorsBefore(ds, n) \o ErrorsBefore(es, n)
    BY <2>2, ErrorsBeforeOfBoth DEF ds, es
  <2>4. QED
    BY <2>1, <2>3 DEF ds, es
<1>2. m \in 0 .. Len(u) /\ m \in Nat
  OBVIOUS
<1>3. /\ ErrorsBefore(Syntax(t, m), n) = ErrorsBefore(Syntax(u, m), n)
      /\ ErrorsBefore(Rules(t, m), n) = ErrorsBefore(Rules(u, m), n)
  BY <1>2, SameReports
<1>4. /\ ErrorsBefore(Syntax(t, Len(t)), n) = ErrorsBefore(Syntax(t, m), n)
      /\ ErrorsBefore(Rules(t, Len(t)), n) = ErrorsBefore(Rules(t, m), n)
  BY QuietReports
<1>5. /\ ErrorsBefore(Syntax(u, Len(u)), n) = ErrorsBefore(Syntax(u, m), n)
      /\ ErrorsBefore(Rules(u, Len(u)), n) = ErrorsBefore(Rules(u, m), n)
  BY <1>2, QuietReports
<1>6. QED
  BY <1>1, <1>3, <1>4, <1>5

----------------------------------------------------------------------------
(* The messages and the rejection of the lines before line n.              *)

(* What line k makes of the result r of the lines before it, part by part. *)
GoesOn(t, k, r, next) ==
  /\ r.rejected # NoValue \/ Skipped(t[k]) => next = r
  /\ r.rejected = NoValue /\ ~Skipped(t[k]) /\ k \in FaultyLines(t) =>
       /\ next.plane = r.plane /\ next.messages = r.messages
       /\ next.rejected = k /\ next.diagnostics = r.diagnostics
  /\ r.rejected = NoValue /\ ~Skipped(t[k]) /\ k \notin FaultyLines(t) /\ WrongAt(t, r, k) # <<>> =>
       /\ next.plane = r.plane /\ next.messages = r.messages
       /\ next.rejected = k /\ next.diagnostics = r.diagnostics \o WrongAt(t, r, k)
  /\ r.rejected = NoValue /\ ~Skipped(t[k]) /\ k \notin FaultyLines(t) /\ WrongAt(t, r, k) = <<>> =>
       /\ next.plane = PlaneAt(t, r, k) /\ next.rejected = NoValue
       /\ MotionOf(t[k].words) = NoValue =>
            next.messages = r.messages /\ next.diagnostics = r.diagnostics
       /\ MotionOf(t[k].words) # NoValue =>
            /\ next.messages = Append(r.messages, MessageOf(t[k], k))
            /\ next.diagnostics = r.diagnostics \o LoweringDiagnostics(t[k], k)

(* A step of lowering takes the result to such a one.                      *)
LEMMA LineParts ==
  ASSUME NEW t, IsText(t), NEW k \in 1 .. Len(t)
  PROVE  GoesOn(t, k, Lowered(t, k - 1), Lowered(t, k))
<1> DEFINE r == Lowered(t, k - 1)
           next == Lowered(t, k)
           wrong == WrongAt(t, r, k)
<1>1. Len(t) \in Nat /\ k \in Nat /\ k - 1 \in Nat /\ k - 1 \in 0 .. Len(t) /\ (k - 1) + 1 = k
  BY DEF IsText
<1>2. next = LowerLine(t, r, k)
  <2>1. Lowered(t, (k - 1) + 1) = LowerLine(t, r, (k - 1) + 1)
    BY <1>1, LoweredByLine
  <2>2. QED
    BY <1>1, <2>1
<1>3. IsResult(t, r, k - 1)
  BY <1>1, LoweredIsResult
<1>4. r = [plane |-> r.plane, messages |-> r.messages, diagnostics |-> r.diagnostics,
           rejected |-> r.rejected]
  BY <1>3 DEF IsResult, Result
<1>5. wrong # <<>> => MotionOf(t[k].words) # NoValue
  <2>1. MotionOf(t[k].words) \notin {2, 3} => wrong = <<>>
    BY DEF WrongAt, PlaneDiagnostics
  <2>2. QED
    BY <2>1 DEF NoValue
<1> HIDE DEF wrong, r, next
<1>6. ASSUME r.rejected # NoValue \/ Skipped(t[k])
      PROVE  next = r
  BY <1>2, <1>6, PassedOver
<1>7. ASSUME r.rejected = NoValue, ~Skipped(t[k]), k \in FaultyLines(t)
      PROVE  /\ next.plane = r.plane /\ next.messages = r.messages
             /\ next.rejected = k /\ next.diagnostics = r.diagnostics
  <2>1. next = [r EXCEPT !.rejected = k]
    BY <1>2, <1>3, <1>7, Rejected
  <2>2. QED
    BY <1>4, <2>1
<1>8. ASSUME r.rejected = NoValue, ~Skipped(t[k]), k \notin FaultyLines(t), wrong # <<>>
      PROVE  /\ next.plane = r.plane /\ next.messages = r.messages
             /\ next.rejected = k /\ next.diagnostics = r.diagnostics \o wrong
  <2>1. next = [r EXCEPT !.rejected = k, !.diagnostics = @ \o wrong]
    BY <1>2, <1>3, <1>5, <1>8, RejectsArc DEF wrong
  <2>2. QED
    BY <1>4, <2>1
<1>9. ASSUME r.rejected = NoValue, ~Skipped(t[k]), k \notin FaultyLines(t), wrong = <<>>
      PROVE  /\ next.plane = PlaneAt(t, r, k) /\ next.rejected = NoValue
             /\ MotionOf(t[k].words) = NoValue =>
                  next.messages = r.messages /\ next.diagnostics = r.diagnostics
             /\ MotionOf(t[k].words) # NoValue =>
                  /\ next.messages = Append(r.messages, MessageOf(t[k], k))
                  /\ next.diagnostics = r.diagnostics \o LoweringDiagnostics(t[k], k)
  <2>1. CASE MotionOf(t[k].words) = NoValue
    <3>1. next = [r EXCEPT !.plane = PlaneAt(t, r, k)]
      BY <1>2, <1>3, <1>9, <2>1, SetsPlane
    <3>2. QED
      BY <1>4, <1>9, <2>1, <3>1
  <2>2. CASE MotionOf(t[k].words) # NoValue
    <3>1. next = [r EXCEPT !.plane = PlaneAt(t, r, k), !.messages = Append(@, MessageOf(t[k], k)),
                           !.diagnostics = @ \o LoweringDiagnostics(t[k], k)]
      BY <1>2, <1>3, <1>9, <2>2, GivesMessage DEF wrong
    <3>2. QED
      BY <1>4, <1>9, <2>2, <3>1
  <2>3. QED
    BY <2>1, <2>2
<1>10. QED
  BY <1>6, <1>7, <1>8, <1>9, Zenon DEF GoesOn, wrong, r, next

(* The lines with an error of the parser or of a rule.                     *)
LEMMA FaultyByLine ==
  ASSUME NEW t, IsText(t), NEW k \in 1 .. Len(t)
  PROVE  k \in FaultyLines(t) <=> t[k].broken \/ BreaksRule(t[k])
<1>1. FaultyLines(t) = {i \in 1 .. Len(t) : t[i].broken \/ BreaksRule(t[i])}
  BY ParseErrors DEF FaultyLines, IsText
<1>2. QED
  BY <1>1, Zenon

(* What a line adds to the diagnostics: only a rejected arc has errors,    *)
(* and they are of its line.                                               *)
LEMMA AddedDiagnostics ==
  ASSUME NEW t, IsText(t), NEW k \in 1 .. Len(t), NEW r, NEW n
  PROVE  /\ IsSeq(WrongAt(t, r, k)) /\ \A i \in DOMAIN WrongAt(t, r, k) : WrongAt(t, r, k)[i].line = k
         /\ IsSeq(LoweringDiagnostics(t[k], k))
         /\ \A i \in DOMAIN LoweringDiagnostics(t[k], k) : LoweringDiagnostics(t[k], k)[i].severity # "Error"
<1> DEFINE wrong == WrongAt(t, r, k)
           warned == LoweringDiagnostics(t[k], k)
<1>1. Len(t[k].words) \in Nat /\ DOMAIN t[k].words = 1 .. Len(t[k].words) /\ k \in Nat \ {0}
  BY DEF IsText
<1>2. wrong \in Seq(Diagnostic) /\ ErrorLines(wrong) \subseteq {k}
  <2> DEFINE plane == PlaneAt(t, r, k)
  <2>1. PlaneDiagnostics(t[k], k, plane) \in Seq(Diagnostic)
    BY <1>1, PlaneErrors, Zenon
  <2>2. ErrorLines(PlaneDiagnostics(t[k], k, plane)) =
          IF PlaneDiagnostics(t[k], k, plane) = <<>> THEN {} ELSE {k}
    BY <1>1, PlaneErrors, Zenon
  <2> HIDE DEF plane
  <2>3. ErrorLines(PlaneDiagnostics(t[k], k, plane)) \subseteq {k}
    BY <2>2
  <2>4. QED
    BY <2>1, <2>3 DEF WrongAt, plane
<1>3. \A i \in DOMAIN wrong : wrong[i].line = k
  <2>1. MotionOf(t[k].words) \notin {2, 3} => wrong = <<>>
    BY DEF WrongAt, PlaneDiagnostics
  <2>2. MotionOf(t[k].words) \in {2, 3} => \A i \in DOMAIN wrong : wrong[i] = Diag("Error", k, "plane")
    BY DEF WrongAt, PlaneDiagnostics
  <2> HIDE DEF wrong
  <2>3. QED
    BY <2>1, <2>2 DEF Diag
<1>4. warned \in Seq(Diagnostic)
  BY <1>1, ArcWarnings
<1>5. \A i \in DOMAIN warned : warned[i].severity # "Error"
  <2>1. MotionOf(t[k].words) \notin {2, 3} => warned = <<>>
    BY DEF LoweringDiagnostics
  <2>2. MotionOf(t[k].words) \in {2, 3} => \A i \in DOMAIN warned : warned[i] = Diag("Warning", k, "arc word")
    BY DEF LoweringDiagnostics
  <2>3. Diag("Warning", k, "arc word").severity = "Warning" /\ \A i \in DOMAIN <<>> : FALSE
    BY DEF Diag
  <2> HIDE DEF warned
  <2>4. QED
    BY <2>1, <2>2, <2>3
<1> HIDE DEF wrong, warned
<1>6. IsSeq(wrong) /\ IsSeq(warned)
  BY <1>2, <1>4 DEF IsSeq
<1>7. QED
  BY <1>3, <1>5, <1>6 DEF wrong, warned

(* Two results that are the same for what comes next and before line n.    *)
Alike(r, s, n) ==
  /\ r.plane = s.plane /\ r.messages = s.messages /\ r.rejected = s.rejected
  /\ ErrorsBefore(r.diagnostics, n) = ErrorsBefore(s.diagnostics, n)

(* The same line keeps them so, whatever comes behind it.                  *)
LEMMA AlikeStep ==
  ASSUME NEW t, IsText(t), NEW u, IsText(u), NEW k \in 1 .. Len(t), k \in 1 .. Len(u), t[k] = u[k],
         NEW n, Alike(Lowered(t, k - 1), Lowered(u, k - 1), n)
  PROVE  Alike(Lowered(t, k), Lowered(u, k), n)
<1> DEFINE r == Lowered(t, k - 1)
           s == Lowered(u, k - 1)
           next == Lowered(t, k)
           then == Lowered(u, k)
           l == t[k]
           wrong == WrongAt(t, r, k)
           warned == LoweringDiagnostics(l, k)
<1>1. GoesOn(t, k, r, next) /\ GoesOn(u, k, s, then)
  BY LineParts
<1>2. /\ r.plane = s.plane /\ r.messages = s.messages /\ r.rejected = s.rejected
      /\ ErrorsBefore(r.diagnostics, n) = ErrorsBefore(s.diagnostics, n)
  BY DEF Alike
<1>3. k \in FaultyLines(t) <=> k \in FaultyLines(u)
  <2>1. k \in FaultyLines(t) <=> t[k].broken \/ BreaksRule(t[k])
    BY FaultyByLine
  <2>2. k \in FaultyLines(u) <=> u[k].broken \/ BreaksRule(u[k])
    BY FaultyByLine
  <2>3. QED
    BY <2>1, <2>2, Zenon
<1>4. WrongAt(u, s, k) = wrong /\ PlaneAt(u, s, k) = PlaneAt(t, r, k)
  <2> HIDE DEF r, s
  <2>1. PlaneAt(u, s, k) = PlaneAt(t, r, k)
    BY <1>2 DEF PlaneAt
  <2>2. QED
    BY <2>1 DEF WrongAt
<1>5. IsSeq(r.diagnostics) /\ IsSeq(s.diagnostics)
  <2>1. k - 1 \in 0 .. Len(t) /\ k - 1 \in 0 .. Len(u)
    BY DEF IsText
  <2>2. QED
    BY <2>1, LoweredIsResult DEF IsResult, Result, IsSeq
<1>6. IsSeq(wrong) /\ IsSeq(warned)
  BY AddedDiagnostics
<1> HIDE DEF r, s, next, then, wrong, warned
<1>7. /\ ErrorsBefore(r.diagnostics \o wrong, n) = ErrorsBefore(s.diagnostics \o wrong, n)
      /\ ErrorsBefore(r.diagnostics \o warned, n) = ErrorsBefore(s.diagnostics \o warned, n)
  <2>1. IsSeq(r.diagnostics) /\ IsSeq(s.diagnostics)
    BY <1>5
  <2>2. ErrorsBefore(r.diagnostics, n) = ErrorsBefore(s.diagnostics, n)
    BY <1>2
  <2> DEFINE ds == r.diagnostics
             es == s.diagnostics
  <2> HIDE DEF ds, es
  <2>3. ErrorsBefore(ds, n) = ErrorsBefore(es, n) => ErrorsBefore(ds \o wrong, n) = ErrorsBefore(es \o wrong, n)
    BY <1>6, <2>1, SameBehind DEF ds, es
  <2>4. ErrorsBefore(ds, n) = ErrorsBefore(es, n) => ErrorsBefore(ds \o warned, n) = ErrorsBefore(es \o warned, n)
    BY <1>6, <2>1, SameBehind DEF ds, es
  <2>5. QED
    BY <2>2, <2>3, <2>4 DEF ds, es
<1>8. CASE r.rejected # NoValue \/ Skipped(l)
  <2>1. next = r /\ then = s
    BY <1>1, <1>2, <1>8, Zenon DEF GoesOn
  <2>2. QED
    BY <1>2, <2>1 DEF Alike, next, then
<1>9. CASE r.rejected = NoValue /\ ~Skipped(l) /\ k \in FaultyLines(t)
  <2>1. /\ next.plane = r.plane /\ next.messages = r.messages
        /\ next.rejected = k /\ next.diagnostics = r.diagnostics
    BY <1>1, <1>9, Zenon DEF GoesOn
  <2>2. /\ then.plane = s.plane /\ then.messages = s.messages
        /\ then.rejected = k /\ then.diagnostics = s.diagnostics
    BY <1>1, <1>2, <1>3, <1>9, Zenon DEF GoesOn
  <2>3. QED
    BY <1>2, <2>1, <2>2 DEF Alike, next, then
<1>10. CASE r.rejected = NoValue /\ ~Skipped(l) /\ k \notin FaultyLines(t) /\ wrong # <<>>
  <2>1. /\ next.plane = r.plane /\ next.messages = r.messages
        /\ next.rejected = k /\ next.diagnostics = r.diagnostics \o wrong
    BY <1>1, <1>10, Zenon DEF GoesOn, wrong
  <2>2. /\ then.plane = s.plane /\ then.messages = s.messages
        /\ then.rejected = k /\ then.diagnostics = s.diagnostics \o wrong
    BY <1>1, <1>2, <1>3, <1>4, <1>10, Zenon DEF GoesOn
  <2>3. QED
    BY <1>2, <1>7, <2>1, <2>2 DEF Alike, next, then
<1>11. CASE r.rejected = NoValue /\ ~Skipped(l) /\ k \notin FaultyLines(t) /\ wrong = <<>>
  <2>1. /\ next.plane = PlaneAt(t, r, k) /\ next.rejected = NoValue
        /\ then.plane = PlaneAt(t, r, k) /\ then.rejected = NoValue
    BY <1>1, <1>2, <1>3, <1>4, <1>11, Zenon DEF GoesOn, wrong
  <2>2. CASE MotionOf(l.words) = NoValue
    <3>1. /\ next.messages = r.messages /\ next.diagnostics = r.diagnostics
          /\ then.messages = s.messages /\ then.diagnostics = s.diagnostics
      BY <1>1, <1>2, <1>3, <1>4, <1>11, <2>2, Zenon DEF GoesOn, wrong
    <3>2. QED
      BY <1>2, <2>1, <3>1 DEF Alike, next, then
  <2>3. CASE MotionOf(l.words) # NoValue
    <3>1. /\ next.messages = Append(r.messages, MessageOf(l, k))
          /\ next.diagnostics = r.diagnostics \o warned
      BY <1>1, <1>11, <2>3, Zenon DEF GoesOn, wrong, warned
    <3>2. /\ then.messages = Append(s.messages, MessageOf(l, k))
          /\ then.diagnostics = s.diagnostics \o warned
      BY <1>1, <1>2, <1>3, <1>4, <1>11, <2>3, Zenon DEF GoesOn, wrong, warned
    <3>3. QED
      BY <1>2, <1>7, <2>1, <3>1, <3>2 DEF Alike, next, then
  <2>4. QED
    BY <2>2, <2>3
<1>12. QED
  BY <1>8, <1>9, <1>10, <1>11, Zenon

(* Two texts that begin with the same m lines are alike up to there.       *)
LEMMA AlikeStart ==
  ASSUME NEW t, IsText(t), NEW u, IsText(u), NEW m \in 0 .. Len(t), m <= Len(u), NEW n,
         \A k \in 1 .. m : t[k] = u[k], Quiet(t, m, n), Quiet(u, m, n)
  PROVE  Alike(Lowered(t, m), Lowered(u, m), n)
<1> DEFINE S == {k \in Nat : k <= m => Alike(Lowered(t, k), Lowered(u, k), n)}
<1>0. Len(t) \in Nat /\ Len(u) \in Nat /\ m \in Nat
  BY DEF IsText
<1>1. 0 \in S
  <2>1. ErrorsBefore(ParseDiagnostics(t), n) = ErrorsBefore(ParseDiagnostics(u), n)
    BY <1>0, SameErrors
  <2>2. Alike(Unlowered(t), Unlowered(u), n)
    BY <2>1 DEF Alike, Unlowered
  <2>3. QED
    BY <2>2, LoweredByLine
<1>2. ASSUME NEW k \in Nat, k \in S
      PROVE  k + 1 \in S
  <2> DEFINE i == k + 1
  <2> SUFFICES ASSUME i <= m
               PROVE  Alike(Lowered(t, i), Lowered(u, i), n)
    OBVIOUS
  <2>1. i \in 1 .. Len(t) /\ i \in 1 .. Len(u) /\ t[i] = u[i] /\ i - 1 = k
    BY <1>0
  <2>2. Alike(Lowered(t, i - 1), Lowered(u, i - 1), n)
    BY <1>2, <2>1
  <2> HIDE DEF i
  <2>3. QED
    BY <2>1, <2>2, AlikeStep
<1>3. Nat \subseteq S
  <2> HIDE DEF S
  <2>1. QED
    BY <1>1, <1>2, SetInduction
<1>4. QED
  BY <1>0, <1>3

(* What changes before line n of a result: nothing.                          *)
KeepsBefore(r, next, n) ==
  /\ Before(next.messages, n) = Before(r.messages, n)
  /\ ErrorsBefore(next.diagnostics, n) = ErrorsBefore(r.diagnostics, n)
  /\ r.rejected # NoValue => next.rejected = r.rejected
  /\ r.rejected = NoValue => next.rejected = NoValue \/ ~(next.rejected < n)

(* A line that is empty or not before line n leaves everything before it.  *)
LEMMA QuietStep ==
  ASSUME NEW t, IsText(t), NEW k \in 1 .. Len(t), NEW n, ~(k < n) \/ t[k] = EmptyLine,
         NEW r, NEW next, GoesOn(t, k, r, next), IsSeq(r.messages), IsSeq(r.diagnostics)
  PROVE  KeepsBefore(r, next, n)
<1> DEFINE wrong == WrongAt(t, r, k)
           warned == LoweringDiagnostics(t[k], k)
<1>1. IsSeq(wrong) /\ IsSeq(warned)
  BY AddedDiagnostics
<1>2. /\ \A i \in DOMAIN wrong : wrong[i].line = k
      /\ \A i \in DOMAIN warned : warned[i].severity # "Error"
  BY AddedDiagnostics
<1> HIDE DEF wrong, warned
<1>3. ErrorsBefore(r.diagnostics \o warned, n) = ErrorsBefore(r.diagnostics, n)
  BY <1>1, <1>2, NoErrorsBefore
<1>4. ~(k < n) => ErrorsBefore(r.diagnostics \o wrong, n) = ErrorsBefore(r.diagnostics, n)
  BY <1>1, <1>2, NoErrorsBefore
<1>5. ~(k < n) => Before(Append(r.messages, MessageOf(t[k], k)), n) = Before(r.messages, n)
  <2>1. MessageOf(t[k], k).line = k
    BY DEF MessageOf
  <2>2. QED
    BY <2>1, BeforeAppended
<1>6. ASSUME k < n
      PROVE  /\ k \notin FaultyLines(t) /\ MotionOf(t[k].words) = NoValue /\ wrong = <<>>
  <2>1. t[k] = EmptyLine
    BY <1>6
  <2>2. MotionOf(t[k].words) = NoValue
    BY <2>1, EmptyDoesNothing
  <2>3. wrong = <<>>
    <3>1. MotionOf(t[k].words) \notin {2, 3}
      BY <2>2 DEF NoValue
    <3>2. QED
      BY <3>1, Zenon DEF wrong, WrongAt, PlaneDiagnostics
  <2>4. k \notin FaultyLines(t)
    <3>1. k \in FaultyLines(t) <=> t[k].broken \/ BreaksRule(t[k])
      BY FaultyByLine
    <3>2. QED
      BY <2>1, <3>1, EmptyDoesNothing, Zenon
  <2>5. QED
    BY <2>2, <2>3, <2>4
<1>7. CASE r.rejected # NoValue \/ Skipped(t[k])
  <2>1. next = r
    BY <1>7, Zenon DEF GoesOn
  <2>2. QED
    BY <2>1 DEF KeepsBefore
<1>8. CASE r.rejected = NoValue /\ ~Skipped(t[k]) /\ k \in FaultyLines(t)
  <2>1. next.messages = r.messages /\ next.rejected = k /\ next.diagnostics = r.diagnostics
    BY <1>8, Zenon DEF GoesOn
  <2>2. ~(k < n)
    BY <1>6, <1>8
  <2>3. QED
    BY <1>8, <2>1, <2>2 DEF KeepsBefore
<1>9. CASE r.rejected = NoValue /\ ~Skipped(t[k]) /\ k \notin FaultyLines(t) /\ wrong # <<>>
  <2>1. next.messages = r.messages /\ next.rejected = k /\ next.diagnostics = r.diagnostics \o wrong
    BY <1>9, Zenon DEF GoesOn, wrong
  <2>2. ~(k < n)
    BY <1>6, <1>9
  <2>3. QED
    BY <1>4, <1>9, <2>1, <2>2 DEF KeepsBefore
<1>10. CASE r.rejected = NoValue /\ ~Skipped(t[k]) /\ k \notin FaultyLines(t) /\ wrong = <<>>
  <2>1. next.rejected = NoValue
    BY <1>10, Zenon DEF GoesOn, wrong
  <2>2. CASE MotionOf(t[k].words) = NoValue
    <3>1. next.messages = r.messages /\ next.diagnostics = r.diagnostics
      BY <1>10, <2>2, Zenon DEF GoesOn, wrong
    <3>2. QED
      BY <1>10, <2>1, <3>1 DEF KeepsBefore
  <2>3. CASE MotionOf(t[k].words) # NoValue
    <3>1. /\ next.messages = Append(r.messages, MessageOf(t[k], k))
          /\ next.diagnostics = r.diagnostics \o warned
      BY <1>10, <2>3, Zenon DEF GoesOn, wrong, warned
    <3>2. ~(k < n)
      BY <1>6, <2>3
    <3>3. QED
      BY <1>3, <1>5, <1>10, <2>1, <3>1, <3>2 DEF KeepsBefore
  <2>4. QED
    BY <2>2, <2>3
<1>11. QED
  BY <1>7, <1>8, <1>9, <1>10, Zenon

(* The empty lines, and those from line n on, one after the other.         *)
LEMMA QuietEnd ==
  ASSUME NEW t, IsText(t), NEW m \in 0 .. Len(t), NEW n, Quiet(t, m, n)
  PROVE  KeepsBefore(Lowered(t, m), Lowered(t, Len(t)), n)
<1> DEFINE S == {d \in Nat : m + d <= Len(t) => KeepsBefore(Lowered(t, m), Lowered(t, m + d), n)}
<1>0. Len(t) \in Nat /\ m \in Nat
  BY DEF IsText
<1>1. 0 \in S
  BY <1>0, m + 0 = m DEF KeepsBefore
<1>2. ASSUME NEW d \in Nat, d \in S
      PROVE  d + 1 \in S
  <2> DEFINE k == m + (d + 1)
             start == Lowered(t, m)
             r == Lowered(t, k - 1)
             next == Lowered(t, k)
  <2> SUFFICES ASSUME k <= Len(t)
               PROVE  KeepsBefore(start, next, n)
    BY <1>0
  <2>1. k \in 1 .. Len(t) /\ k - 1 \in 0 .. Len(t) /\ k - 1 = m + d /\ k \in m + 1 .. Len(t) /\ m + d <= Len(t)
    BY <1>0
  <2>2. KeepsBefore(start, r, n)
    BY <1>2, <2>1
  <2>3. GoesOn(t, k, r, next)
    BY <2>1, LineParts
  <2>4. IsSeq(r.messages) /\ IsSeq(r.diagnostics)
    BY <2>1, LoweredIsResult DEF IsResult, Result, IsSeq
  <2>5. ~(k < n) \/ t[k] = EmptyLine
    BY <2>1 DEF Quiet
  <2>6. k \in 1 .. Len(t)
    BY <2>1
  <2> HIDE DEF r, next, start, k
  <2>7. KeepsBefore(r, next, n)
    BY <2>3, <2>4, <2>5, <2>6, QuietStep
  <2>8. QED
    BY <2>2, <2>7 DEF KeepsBefore
<1>3. Len(t) - m \in S
  <2>1. Len(t) - m \in Nat
    BY <1>0
  <2> HIDE DEF S
  <2>2. QED
    BY <1>1, <1>2, <2>1, SetInduction
<1>4. m + (Len(t) - m) = Len(t)
  BY <1>0
<1>5. QED
  BY <1>0, <1>3, <1>4

(* The results of two texts that agree before line n agree before line n.  *)
SameBefore(r, s, n) ==
  /\ Before(r.messages, n) = Before(s.messages, n)
  /\ ErrorsBefore(r.diagnostics, n) = ErrorsBefore(s.diagnostics, n)
  /\ (r.rejected # NoValue /\ r.rejected < n) \/ (s.rejected # NoValue /\ s.rejected < n) =>
       r.rejected = s.rejected

LEMMA LoweredBefore ==
  ASSUME NEW t \in Seq(TextLines), NEW u \in Seq(TextLines), NEW m \in 0 .. Len(t), m <= Len(u), NEW n,
         \A k \in 1 .. m : t[k] = u[k], Quiet(t, m, n), Quiet(u, m, n)
  PROVE  SameBefore(LowerToMessages(t), LowerToMessages(u), n)
<1> DEFINE r == Lowered(t, m)
           s == Lowered(u, m)
           a == Lowered(t, Len(t))
           b == Lowered(u, Len(u))
<1>1. IsText(t) /\ IsText(u) /\ m \in 0 .. Len(u)
  BY LinesMakeText
<1>2. Alike(r, s, n)
  BY <1>1, AlikeStart
<1>3. KeepsBefore(r, a, n) /\ KeepsBefore(s, b, n)
  BY <1>1, QuietEnd
<1>4. LowerToMessages(t) = a /\ LowerToMessages(u) = b
  BY LoweredWhole
<1> HIDE DEF r, s, a, b
<1>5. SameBefore(a, b, n)
  BY <1>2, <1>3, Zenon DEF Alike, KeepsBefore, SameBefore
<1>6. QED
  BY <1>4, <1>5

----------------------------------------------------------------------------
(* What an edit leaves of the text.                                        *)

(* The same first entries make the same text.                              *)
LEMMA JoinedSame ==
  ASSUME NEW entries, NEW more, NEW j \in Nat, \A i \in 1 .. j : entries[i] = more[i]
  PROVE  Joined(entries, j) = Joined(more, j)
<1> DEFINE S == {i \in Nat : i <= j => Joined(entries, i) = Joined(more, i)}
<1>1. 0 \in S
  BY JoinedByEntry
<1>2. ASSUME NEW i \in Nat, i \in S
      PROVE  i + 1 \in S
  <2> SUFFICES ASSUME i + 1 <= j
               PROVE  Joined(entries, i + 1) = Joined(more, i + 1)
    OBVIOUS
  <2>1. i + 1 \in 1 .. j /\ Joined(entries, i) = Joined(more, i)
    BY <1>2
  <2>2. entries[i + 1] = more[i + 1]
    BY <2>1
  <2>3. /\ Joined(entries, i + 1) = Joined(entries, i) \o entries[i + 1]
        /\ Joined(more, i + 1) = Joined(more, i) \o more[i + 1]
    BY JoinedByEntry
  <2>4. QED
    BY <2>1, <2>2, <2>3
<1>3. Nat \subseteq S
  <2> HIDE DEF S
  <2>1. QED
    BY <1>1, <1>2, SetInduction
<1>4. QED
  BY <1>3

(* A text begins with another one.                                         *)
Begins(t, p) == Len(p) <= Len(t) /\ \A k \in 1 .. Len(p) : t[k] = p[k]

(* More entries make a text that begins with that of fewer.                *)
LEMMA JoinedBegins ==
  ASSUME NEW entries \in Seq(Entry), NEW j \in 0 .. Len(entries), NEW i \in j .. Len(entries)
  PROVE  Begins(Joined(entries, i), Joined(entries, j))
<1> DEFINE first == Joined(entries, j)
           S == {d \in Nat : j + d <= Len(entries) => Begins(Joined(entries, j + d), first)}
<1>0. Len(entries) \in Nat /\ j \in Nat /\ first \in Seq(RawLines)
  BY JoinedIsText
<1>1. 0 \in S
  <2>1. j + 0 = j
    BY <1>0
  <2>2. Begins(first, first)
    <3> HIDE DEF first
    <3>1. QED
      BY <1>0 DEF Begins
  <2>3. QED
    BY <2>1, <2>2
<1>2. ASSUME NEW d \in Nat, d \in S
      PROVE  d + 1 \in S
  <2> DEFINE k == j + d
             old == Joined(entries, k)
             new == entries[k + 1]
  <2>0. j + (d + 1) = k + 1 /\ k \in Nat /\ d + 1 \in Nat
    BY <1>0
  <2> SUFFICES ASSUME k + 1 <= Len(entries)
               PROVE  Begins(Joined(entries, k + 1), first)
    BY <2>0
  <2>1. k \in 0 .. Len(entries) /\ k + 1 \in DOMAIN entries
    BY <1>0, <2>0
  <2>2. Begins(old, first)
    BY <1>2, <2>1
  <2>3. old \in Seq(RawLines)
    BY <2>1, JoinedIsText
  <2>4. new \in Seq(RawLines)
    BY <2>1, EntryHasLines
  <2>5. Joined(entries, k + 1) = old \o new
    BY <2>0, JoinedByEntry
  <2> HIDE DEF old, new, first, k
  <2>6. Begins(old \o new, first)
    BY <1>0, <2>2, <2>3, <2>4 DEF Begins
  <2>7. QED
    BY <2>5, <2>6
<1>3. i - j \in S
  <2>1. i - j \in Nat
    BY <1>0
  <2> HIDE DEF S
  <2>2. QED
    BY <1>1, <1>2, <2>1, SetInduction
<1>4. j + (i - j) = i
  BY <1>0
<1>5. QED
  BY <1>3, <1>4

(* The entries an edit adds before its own are empty.                      *)
LEMMA JoinedPadded ==
  ASSUME NEW entries \in Seq(Entry), NEW j \in 0 .. Len(entries), NEW i \in j .. Len(entries),
         \A k \in j + 1 .. i : entries[k] = <<Typed(EmptyLine)>>
  PROVE  \A k \in Len(Joined(entries, j)) + 1 .. Len(Joined(entries, i)) : Joined(entries, i)[k] = Typed(EmptyLine)
<1> DEFINE first == Joined(entries, j)
           Padded(p) == \A k \in Len(first) + 1 .. Len(p) : p[k] = Typed(EmptyLine)
           S == {d \in Nat : j + d <= i => Padded(Joined(entries, j + d))}
<1>0. Len(entries) \in Nat /\ j \in Nat /\ i \in Nat /\ first \in Seq(RawLines)
  BY JoinedIsText
<1>1. 0 \in S
  <2>1. j + 0 = j
    BY <1>0
  <2>2. Padded(first)
    <3> HIDE DEF first
    <3>1. QED
      BY <1>0
  <2> HIDE DEF Padded
  <2>3. QED
    BY <2>1, <2>2
<1>2. ASSUME NEW d \in Nat, d \in S
      PROVE  d + 1 \in S
  <2> DEFINE k == j + d
             old == Joined(entries, k)
  <2>0. j + (d + 1) = k + 1 /\ k \in Nat /\ d + 1 \in Nat
    BY <1>0
  <2> SUFFICES ASSUME k + 1 <= i
               PROVE  Padded(Joined(entries, k + 1))
    <3> HIDE DEF Padded
    <3>1. QED
      BY <2>0
  <2>1. k \in 0 .. Len(entries) /\ k + 1 \in j + 1 .. i /\ k <= i
    BY <1>0, <2>0
  <2>2. Padded(old)
    <3> HIDE DEF Padded
    <3>1. QED
      BY <1>2, <2>1
  <2>3. old \in Seq(RawLines)
    BY <2>1, JoinedIsText
  <2>4. Joined(entries, k + 1) = old \o <<Typed(EmptyLine)>>
    BY <2>0, <2>1, JoinedByEntry
  <2> DEFINE e == Typed(EmptyLine)
             size == Len(first)
  <2>5. size \in Nat
    BY <1>0
  <2>6. \A n \in size + 1 .. Len(old) : old[n] = e
    BY <2>2
  <2> HIDE DEF old, first, k, e, size
  <2>7. \A n \in size + 1 .. Len(old \o <<e>>) : (old \o <<e>>)[n] = e
    BY <2>3, <2>5, <2>6
  <2>8. QED
    BY <2>4, <2>7 DEF e, size
<1>3. i - j \in S
  <2>1. i - j \in Nat
    BY <1>0
  <2> HIDE DEF S
  <2>2. QED
    BY <1>1, <1>2, <2>1, SetInduction
<1>4. j + (i - j) = i
  BY <1>0
<1>5. Padded(Joined(entries, i))
  <2> HIDE DEF Padded
  <2>1. QED
    BY <1>0, <1>3, <1>4
<1>6. QED
  BY <1>5

(* Quiet, of lines as they are typed.                                      *)
RawQuiet(t, m, n) == \A k \in m + 1 .. Len(t) : ~(k < n) \/ t[k] = Typed(EmptyLine)

(* An edit of line n leaves the text before line n as it was, or adds      *)
(* empty lines to it.                                                      *)
LEMMA EditLeavesBefore ==
  ASSUME lines \in Seq(Entry), NEW n \in Nat \ {0}, NEW e \in Entry, NEW more,
         more = [Resized(n) EXCEPT ![n] = e]
  PROVE  \E m \in 0 .. Len(RawText(lines)) :
           /\ m <= Len(RawText(more)) /\ \A k \in 1 .. m : RawText(lines)[k] = RawText(more)[k]
           /\ RawQuiet(RawText(lines), m, n) /\ RawQuiet(RawText(more), m, n)
<1> DEFINE size == Len(lines)
           length == IF n > size THEN n ELSE size
           j == IF n - 1 <= size THEN n - 1 ELSE size
           t == RawText(lines)
           u == RawText(more)
           first == Joined(lines, j)
           padded == Joined(more, n - 1)
           m == Len(first)
<1>1. /\ size \in Nat /\ DOMAIN lines = 1 .. size /\ length \in Nat /\ n \in 1 .. length
      /\ j \in 0 .. size /\ j \in 0 .. length /\ n - 1 \in j .. length
  OBVIOUS
<1>2. Resized(n) = [k \in 1 .. length |-> IF k <= size THEN lines[k] ELSE <<Typed(EmptyLine)>>]
  BY DEF Resized
<1>3. more \in Seq(Entry)
  BY EditedEntries
<1>4. DOMAIN more = 1 .. length
  BY <1>2
<1>5. Len(more) = length
  <2> HIDE DEF length
  <2>1. QED
    BY <1>1, <1>3, <1>4
<1>6. \A k \in 1 .. length : k # n => more[k] = IF k <= size THEN lines[k] ELSE <<Typed(EmptyLine)>>
  BY <1>2
<1>7. /\ \A k \in 1 .. j : lines[k] = more[k]
      /\ \A k \in j + 1 .. n - 1 : more[k] = <<Typed(EmptyLine)>>
  BY <1>1, <1>6
<1> HIDE DEF length
<1>8. Joined(more, j) = first
  <2>1. j \in Nat
    BY <1>1
  <2> HIDE DEF j
  <2>2. QED
    BY <1>7, <2>1, JoinedSame
<1>9. t = Joined(lines, size) /\ u = Joined(more, length)
  BY <1>5, JoinedWhole
<1>10. Begins(t, first)
  <2>1. j \in 0 .. Len(lines) /\ size \in j .. Len(lines)
    BY <1>1
  <2> HIDE DEF j
  <2>2. QED
    BY <1>9, <2>1, JoinedBegins
<1>11. Begins(u, first) /\ Begins(u, padded)
  <2>1. j \in 0 .. Len(more) /\ length \in j .. Len(more)
    BY <1>1, <1>5
  <2>2. n - 1 \in 0 .. Len(more) /\ length \in n - 1 .. Len(more)
    BY <1>1, <1>5
  <2> HIDE DEF j
  <2>3. Begins(Joined(more, length), Joined(more, j))
    BY <1>3, <2>1, JoinedBegins
  <2>4. Begins(Joined(more, length), Joined(more, n - 1))
    BY <1>3, <2>2, JoinedBegins
  <2>5. QED
    BY <1>8, <1>9, <2>3, <2>4
<1>12. \A k \in m + 1 .. Len(padded) : padded[k] = Typed(EmptyLine)
  <2>1. j \in 0 .. Len(more) /\ n - 1 \in j .. Len(more)
    BY <1>1, <1>5
  <2> HIDE DEF j
  <2>2. \A k \in Len(Joined(more, j)) + 1 .. Len(Joined(more, n - 1)) : Joined(more, n - 1)[k] = Typed(EmptyLine)
    BY <1>3, <1>7, <2>1, JoinedPadded
  <2>3. QED
    BY <1>8, <2>2
<1>13. /\ m \in Nat /\ m >= j /\ Len(padded) \in Nat /\ Len(padded) >= n - 1
       /\ t \in Seq(RawLines) /\ u \in Seq(RawLines)
  <2>1. j \in 0 .. Len(lines) /\ n - 1 \in 0 .. Len(more)
    BY <1>1, <1>5
  <2>2. first \in Seq(RawLines) /\ m >= j
    <3> HIDE DEF j
    <3>1. QED
      BY <2>1, JoinedIsText
  <2>3. padded \in Seq(RawLines) /\ Len(padded) >= n - 1
    BY <1>3, <2>1, JoinedIsText
  <2>4. t \in Seq(RawLines) /\ u \in Seq(RawLines)
    BY <1>3, EntriesMakeRawText
  <2>5. m \in Nat
    <3> HIDE DEF first
    <3>1. QED
      BY <2>2
  <2>6. Len(padded) \in Nat
    <3> HIDE DEF padded
    <3>1. QED
      BY <2>3
  <2> HIDE DEF first, padded, j, m, t, u
  <2>7. QED
    BY <2>2, <2>3, <2>4, <2>5, <2>6
<1>14. RawQuiet(t, m, n)
  <2>1. CASE n - 1 <= size
    <3>1. j = n - 1
      BY <2>1
    <3>2. m >= n - 1
      BY <1>13, <3>1
    <3> HIDE DEF m, t
    <3>3. QED
      BY <1>13, <3>2 DEF RawQuiet
  <2>2. CASE ~(n - 1 <= size)
    <3>1. j = size
      BY <2>2
    <3>2. Len(t) = m
      BY <1>9, <3>1
    <3> HIDE DEF m, t
    <3>3. QED
      BY <1>13, <3>2 DEF RawQuiet
  <2>3. QED
    BY <2>1, <2>2
<1>15. RawQuiet(u, m, n)
  <2> HIDE DEF u, padded, m, j
  <2>1. SUFFICES ASSUME NEW k \in m + 1 .. Len(u), k < n
                 PROVE  u[k] = Typed(EmptyLine)
    BY DEF RawQuiet
  <2>2. k \in m + 1 .. Len(padded) /\ k \in 1 .. Len(padded)
    BY <1>13, <2>1
  <2>3. QED
    BY <1>11, <1>12, <2>2 DEF Begins
<1>16. /\ m \in 0 .. Len(t) /\ m <= Len(u)
       /\ \A k \in 1 .. m : t[k] = u[k]
  <2> HIDE DEF t, u, first
  <2>1. QED
    BY <1>10, <1>11, <1>13 DEF Begins
<1> HIDE DEF m, t, u
<1>17. QED
  BY <1>14, <1>15, <1>16 DEF t, u

----------------------------------------------------------------------------
(* The comments before a line.                                             *)

(* The first of some lines.                                                *)
LEMMA FirstOf ==
  ASSUME NEW S \in SUBSET Nat, S # {}
  PROVE  Min(S) \in S /\ \A k \in S : Min(S) <= k
<1> DEFINE below == OpToRel(<, Nat)
<1>1. IsWellFoundedOn(below, Nat)
  BY NatLessThanWellFounded
<1>2. PICK first \in S : \A k \in S : <<k, first>> \notin below
  <2> HIDE DEF below
  <2>1. QED
    BY <1>1, WFMin
<1>3. ASSUME NEW k \in S
      PROVE  first <= k
  <2>1. k \in Nat /\ first \in Nat
    OBVIOUS
  <2>2. k < first => <<k, first>> \in below
    BY <2>1 DEF OpToRel
  <2> HIDE DEF below
  <2>3. ~(k < first)
    BY <1>2, <2>2
  <2>4. QED
    BY <2>1, <2>3
<1>4. QED
  BY <1>3 DEF Min

(* Two sets of lines that agree up to one they have begin alike.           *)
LEMMA FirstAgrees ==
  ASSUME NEW S \in SUBSET Nat, NEW T \in SUBSET Nat, NEW m \in Nat,
         \A k \in 1 .. m : k \in S <=> k \in T, 0 \notin S, 0 \notin T,
         NEW j \in S, j <= m
  PROVE  Min(S) = Min(T)
<1>1. j \in T /\ j \in Nat
  OBVIOUS
<1> DEFINE s == Min(S)
           r == Min(T)
<1>2. s \in S /\ s <= j /\ r \in T /\ r <= j /\ (r \in S => s <= r) /\ (s \in T => r <= s)
  BY <1>1, FirstOf
<1> HIDE DEF s, r
<1>3. s \in 1 .. m /\ r \in 1 .. m
  <2>1. s \in Nat /\ r \in Nat /\ s # 0 /\ r # 0
    BY <1>2
  <2>2. QED
    BY <1>1, <1>2, <2>1
<1>4. s \in T /\ r \in S
  BY <1>2, <1>3
<1>5. s = r
  BY <1>2, <1>3, <1>4
<1>6. QED
  BY <1>5 DEF s, r

(* t and u are alike before line n: their first m lines are the same, and  *)
(* those behind, if they come before n, are empty.                         *)
RawAlike(t, u, m, n) ==
  /\ t \in Seq(RawLines) /\ u \in Seq(RawLines)
  /\ m \in 0 .. Len(t) /\ m <= Len(u) /\ \A k \in 1 .. m : t[k] = u[k]
  /\ RawQuiet(t, m, n) /\ RawQuiet(u, m, n)

(* A comment that ends before line n ends where it did.                    *)
LEMMA EndsAlike ==
  ASSUME NEW t, NEW u, NEW m, NEW n \in Nat, RawAlike(t, u, m, n), NEW k \in 1 .. m, NEW signs,
         "no" \notin signs, NEW j \in Ends(t, k, signs), j < n
  PROVE  Ends(u, k, signs) # {} /\ Min(Ends(t, k, signs)) = Min(Ends(u, k, signs))
<1> DEFINE S == Ends(t, k, signs)
           T == Ends(u, k, signs)
<1>1. m \in Nat /\ k \in Nat /\ k >= 1 /\ Len(t) \in Nat /\ Len(u) \in Nat /\ m <= Len(t) /\ m <= Len(u)
  BY DEF RawAlike
<1>2. S \in SUBSET Nat /\ T \in SUBSET Nat /\ 0 \notin S /\ 0 \notin T
  BY <1>1 DEF Ends
<1>3. \A i \in 1 .. m : i \in S <=> i \in T
  BY <1>1 DEF Ends, RawAlike
<1>4. j <= m
  <2>1. j \in 1 .. Len(t) /\ t[j].closes # "no"
    BY <1>1 DEF Ends
  <2>2. Typed(EmptyLine).closes = "no"
    BY DEF Typed
  <2>3. t[j] # Typed(EmptyLine)
    BY <2>1, <2>2
  <2>4. ~(j \in m + 1 .. Len(t))
    BY <2>3 DEF RawAlike, RawQuiet
  <2>5. QED
    BY <1>1, <2>1, <2>4
<1>5. j \in S /\ j \in T
  <2>1. j \in 1 .. m
    BY <1>1, <1>2, <1>4
  <2>2. QED
    BY <1>3, <2>1
<1> HIDE DEF S, T
<1>6. Min(S) = Min(T)
  BY <1>1, <1>2, <1>3, <1>4, <1>5, FirstAgrees
<1>7. QED
  BY <1>5, <1>6 DEF S, T

(* So does every comment that is opened before line n, when each of them   *)
(* has met its own sign by then.                                           *)
LEMMA EndOfAlike ==
  ASSUME NEW t, NEW u, NEW m, NEW n \in Nat, RawAlike(t, u, m, n), NEW k \in 1 .. m, k < n,
         CommentsEndBefore(t, n), ~InComment(t, k)
  PROVE  EndOf(t, k) = EndOf(u, k)
<1> DEFINE own == {"star"}
           any == {"plain", "star"}
<1>1. k \in DOMAIN t /\ t[k] = u[k]
  BY DEF RawAlike
<1>2. CASE t[k].opens = "no"
  BY <1>1, <1>2 DEF EndOf
<1>3. CASE t[k].opens # "no" /\ t[k].opens # "star"
  <2>1. PICK j \in Ends(t, k, any) : j < n
    BY <1>1, <1>3 DEF CommentsEndBefore
  <2>2. Ends(u, k, any) # {} /\ Min(Ends(t, k, any)) = Min(Ends(u, k, any))
    BY <2>1, EndsAlike
  <2>3. EndOf(t, k) = Min(Ends(t, k, any))
    BY <1>3, <2>1 DEF EndOf
  <2>4. EndOf(u, k) = Min(Ends(u, k, any))
    BY <1>1, <1>3, <2>2 DEF EndOf
  <2>5. QED
    BY <2>2, <2>3, <2>4
<1>4. CASE t[k].opens = "star"
  <2>1. PICK j \in Ends(t, k, own) : j < n
    BY <1>1, <1>4 DEF CommentsEndBefore
  <2>2. Ends(u, k, own) # {} /\ Min(Ends(t, k, own)) = Min(Ends(u, k, own))
    BY <2>1, EndsAlike
  <2>3. Ends(t, k, any) # {} /\ Ends(u, k, any) # {}
    BY <2>1, <2>2 DEF Ends
  <2>4. EndOf(t, k) = Min(Ends(t, k, own))
    BY <1>4, <2>1, <2>3 DEF EndOf
  <2>5. EndOf(u, k) = Min(Ends(u, k, own))
    BY <1>1, <1>4, <2>2, <2>3 DEF EndOf
  <2>6. QED
    BY <2>2, <2>4, <2>5
<1>5. QED
  BY <1>2, <1>3, <1>4

(* So the same lines before n are in a comment.                            *)
LEMMA UntilAlike ==
  ASSUME NEW t, NEW u, NEW m, NEW n \in Nat, RawAlike(t, u, m, n), CommentsEndBefore(t, n)
  PROVE  \A k \in 0 .. m : k < n => Until(t, k) = Until(u, k)
<1> DEFINE S == {k \in Nat : k <= m /\ k < n => Until(t, k) = Until(u, k)}
<1>0. m \in Nat
  BY DEF RawAlike
<1>1. 0 \in S
  BY UntilByLine
<1>2. ASSUME NEW k \in Nat, k \in S
      PROVE  k + 1 \in S
  <2>1. SUFFICES ASSUME k + 1 <= m, k + 1 < n
                 PROVE  Until(t, k + 1) = Until(u, k + 1)
    OBVIOUS
  <2>2. k <= m /\ k < n /\ k + 1 \in 1 .. m /\ (k + 1) - 1 = k
    BY <1>0, <2>1
  <2>3. Until(t, k) = Until(u, k)
    BY <1>2, <2>2
  <2>4. InComment(t, k + 1) <=> k + 1 <= Until(t, k)
    BY <2>2 DEF InComment
  <2>5. ~(k + 1 <= Until(t, k)) => EndOf(t, k + 1) = EndOf(u, k + 1)
    BY <2>1, <2>2, <2>4, EndOfAlike
  <2>6. QED
    BY <2>3, <2>5, UntilByLine
<1>3. QED
  <2> HIDE DEF S
  <2>1. Nat \subseteq S
    BY <1>1, <1>2, SetInduction
  <2>2. QED
    BY <1>0, <2>1 DEF S

(* So the parser reads the same lines before n; those added are empty.     *)
LEMMA ParsedAlike ==
  ASSUME NEW t, NEW u, NEW m, NEW n \in Nat, RawAlike(t, u, m, n), CommentsEndBefore(t, n)
  PROVE  \A k \in 1 .. m : k < n => LineAt(t, k) = LineAt(u, k)
<1> SUFFICES ASSUME NEW k \in 1 .. m, k < n
             PROVE  LineAt(t, k) = LineAt(u, k)
  OBVIOUS
<1>1. t[k] = u[k] /\ k - 1 \in 0 .. m /\ k - 1 < n
  BY DEF RawAlike
<1>2. InComment(t, k) <=> InComment(u, k)
  BY <1>1, UntilAlike DEF InComment
<1>3. ~InComment(t, k) => EndOf(t, k) = EndOf(u, k)
  BY EndOfAlike
<1>4. QED
  BY <1>1, <1>2, <1>3 DEF LineAt

LEMMA EmptyParsed ==
  ASSUME NEW t, NEW k, t[k] = Typed(EmptyLine)
  PROVE  LineAt(t, k) = EmptyLine
<1>1. t[k].head = EmptyLine /\ t[k].opens = "no" /\ t[k].closes = "no"
  BY DEF Typed
<1>2. QED
  BY <1>1 DEF LineAt

LEMMA ParsedBefore ==
  ASSUME NEW t, NEW u, NEW m, NEW n \in Nat \ {0}, RawAlike(t, u, m, n), CommentsEndBefore(t, n)
  PROVE  \E i \in 0 .. Len(Parsed(t)) :
           /\ i <= Len(Parsed(u)) /\ \A k \in 1 .. i : Parsed(t)[k] = Parsed(u)[k]
           /\ Quiet(Parsed(t), i, n) /\ Quiet(Parsed(u), i, n)
<1> DEFINE i == IF m < n THEN m ELSE n - 1
           p == Parsed(t)
           q == Parsed(u)
<1>1. /\ m \in Nat /\ i \in Nat /\ i <= m /\ i < n /\ Len(t) \in Nat /\ Len(u) \in Nat
      /\ m <= Len(t) /\ m <= Len(u)
  BY DEF RawAlike
<1>2. /\ Len(p) = Len(t) /\ \A k \in 1 .. Len(t) : p[k] = LineAt(t, k)
      /\ Len(q) = Len(u) /\ \A k \in 1 .. Len(u) : q[k] = LineAt(u, k)
  BY ParsedLines DEF RawAlike
<1>3. \A k \in i + 1 .. Len(t) : ~(k < n) \/ k \in m + 1 .. Len(t)
  BY <1>1
<1>4. \A k \in i + 1 .. Len(u) : ~(k < n) \/ k \in m + 1 .. Len(u)
  BY <1>1
<1> HIDE DEF i, p, q
<1>5. ASSUME NEW k \in 1 .. i
      PROVE  p[k] = q[k]
  <2>1. k \in 1 .. m /\ k < n /\ k \in 1 .. Len(t) /\ k \in 1 .. Len(u)
    BY <1>1
  <2>2. QED
    BY <1>2, <2>1, ParsedAlike
<1>6. Quiet(p, i, n)
  <2>1. SUFFICES ASSUME NEW k \in i + 1 .. Len(p), k < n
                 PROVE  p[k] = EmptyLine
    BY DEF Quiet
  <2>2. k \in 1 .. Len(t) /\ k \in m + 1 .. Len(t)
    BY <1>1, <1>2, <1>3, <2>1
  <2>3. t[k] = Typed(EmptyLine)
    BY <2>1, <2>2 DEF RawAlike, RawQuiet
  <2>4. QED
    BY <1>2, <2>2, <2>3, EmptyParsed
<1>7. Quiet(q, i, n)
  <2>1. SUFFICES ASSUME NEW k \in i + 1 .. Len(q), k < n
                 PROVE  q[k] = EmptyLine
    BY DEF Quiet
  <2>2. k \in 1 .. Len(u) /\ k \in m + 1 .. Len(u)
    BY <1>1, <1>2, <1>4, <2>1
  <2>3. u[k] = Typed(EmptyLine)
    BY <2>1, <2>2 DEF RawAlike, RawQuiet
  <2>4. QED
    BY <1>2, <2>2, <2>3, EmptyParsed
<1>8. i \in 0 .. Len(p) /\ i <= Len(q)
  BY <1>1, <1>2
<1>9. QED
  BY <1>5, <1>6, <1>7, <1>8 DEF p, q

(* So an edit leaves its result before the line it resumes from.           *)
LEMMA EditKeepsBefore ==
  ASSUME lines \in Seq(Entry), NEW n \in Nat \ {0}, NEW e \in Entry, NEW more,
         more = [Resized(n) EXCEPT ![n] = e], CommentsEndBefore(RawText(lines), n)
  PROVE  SameBefore(LowerToMessages(TextOf(lines)), LowerToMessages(TextOf(more)), n)
<1> DEFINE t == TextOf(lines)
           u == TextOf(more)
<1>1. t \in Seq(TextLines) /\ u \in Seq(TextLines)
  BY EditedEntries, EntriesMakeText
<1>2. PICK m \in 0 .. Len(t) : /\ m <= Len(u) /\ \A k \in 1 .. m : t[k] = u[k]
                               /\ Quiet(t, m, n) /\ Quiet(u, m, n)
  <2>1. RawText(lines) \in Seq(RawLines) /\ RawText(more) \in Seq(RawLines)
    BY EditedEntries, EntriesMakeRawText
  <2>2. PICK m : RawAlike(RawText(lines), RawText(more), m, n)
    BY <2>1, EditLeavesBefore DEF RawAlike
  <2>3. QED
    BY <2>2, ParsedBefore DEF TextOf
<1> HIDE DEF t, u
<1>3. SameBefore(LowerToMessages(t), LowerToMessages(u), n)
  BY <1>1, <1>2, LoweredBefore
<1>4. QED
  BY <1>3 DEF t, u

(* A call that resumes from a line at which no comment is open leaves what *)
(* lowering has made of the lines before it: their messages, their errors, *)
(* a rejection among them; whatever is edited from that line on, comments  *)
(* that are opened or closed there too.                                    *)
THEOREM SessionKeepsPrefix == SessionSpec => PrefixKept
<1> DEFINE Same ==
      /\ Before(current'.messages, fromLine') = Before(current.messages, fromLine')
      /\ ErrorsBefore(current'.diagnostics, fromLine') = ErrorsBefore(current.diagnostics, fromLine')
      /\ LET kept == current.rejected # NoValue /\ current.rejected < fromLine'
             keeps == current'.rejected # NoValue /\ current'.rejected < fromLine' IN
           (kept \/ keeps) => current'.rejected = current.rejected
           Keeps == CommentsEndBefore(RawText(lines), fromLine') => Same
<1>1. current' = current => Same
  OBVIOUS
<1>2. SameBefore(current, current', fromLine') => Same
  BY DEF SameBefore
<1> HIDE DEF Same
<1>3. EntriesInv /\ SessionNext => Keeps
  <2> SUFFICES ASSUME EntriesInv, SessionNext, CommentsEndBefore(RawText(lines), fromLine')
               PROVE  Same
    OBVIOUS
  <2>1. ASSUME NEW n \in EditLines, ReparseFromLine(n)
        PROVE  Same
    BY <1>1, <2>1 DEF ReparseFromLine, Reparse, EntriesInv
  <2>2. ASSUME NEW n \in EditLines, NEW e \in Entries, ApplyLineEdit(n, e)
        PROVE  Same
    <3> DEFINE from == AtLeastOne(n)
    <3>1. from \in Nat \ {0} /\ e \in Entry
      BY SessionAssumption DEF AtLeastOne, Entry
    <3>2. /\ lines' = [Resized(from) EXCEPT ![from] = e]
          /\ current' = LowerToMessages(TextOf(lines')) /\ fromLine' = from
      BY <2>2 DEF ApplyLineEdit, Reparse
    <3> HIDE DEF from
    <3>3. SameBefore(LowerToMessages(TextOf(lines)), LowerToMessages(TextOf(lines')), from)
      BY <3>1, <3>2, EditKeepsBefore DEF EntriesInv
    <3>4. SameBefore(current, current', fromLine')
      BY <3>2, <3>3 DEF EntriesInv
    <3>5. QED
      BY <1>2, <3>4
  <2>3. ASSUME Sync
        PROVE  Same
    BY <1>1, <2>3 DEF Sync
  <2>4. QED
    BY <2>1, <2>2, <2>3 DEF SessionNext
<1>4. EntriesInv /\ NumbersInv /\ UNCHANGED sessionVars => EntriesInv' /\ NumbersInv'
  BY DEF sessionVars, EntriesInv, NumbersInv
<1>5. EntriesInv /\ [SessionNext]_sessionVars => [Keeps]_sessionVars
  BY <1>3
<1>6. QED
  BY <1>4, <1>5, EntriesInitial, EntriesStep, PTL DEF SessionSpec, PrefixKept, Keeps, Same
=============================================================================
