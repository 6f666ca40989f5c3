---------------------------- MODULE ParseSession ----------------------------
(***************************************************************************)
(* ParseSession of src/src/session.cpp: an editor's lines, lowered again   *)
(* as a whole after every edit; and its client, which keeps a queue of     *)
(* messages up to date with diffMessagesByLine and applyMessageDiff of     *)
(* src/src/message_diff.cpp, perhaps after several edits.                  *)
(*                                                                         *)
(* An entry of lines_ is the text given to one edit; nothing keeps that    *)
(* text from holding a line break, so an entry is a sequence of lines.     *)
(*                                                                         *)
(* A line as it is typed, a raw line, is not yet what the parser makes of  *)
(* it: the comments of src/grammar/GCode.g4 run over line breaks, so what  *)
(* one line opens another one closes, and those between them say nothing.  *)
(* head is what a line says outside of such a comment.  It stands before   *)
(* the sign that opens one; behind the sign that closes one stands nothing.*)
(* A line may close with a comment of its own (head.remark), whose closing *)
(* sign ends an open comment as well.                                      *)
(***************************************************************************)
EXTENDS MessageLowering

CONSTANTS
  RawLines,  \* the lines that may be typed
  Texts,     \* the texts a session may be opened with
  Entries,   \* what a line may be replaced by
  EditLines, \* the line numbers edits are made at, as the client gives them
  MaxEdits   \* bound on the calls that change or reparse the text

(* opens, closes: the sign of a comment that goes on, or ends, here, a     *)
(* parenthesis alone or with a star on its inner side.  A line has both of *)
(* them only when it opens with a star and closes without one.             *)
Sign == {"no", "plain", "star"}
RawLine == [head : TextLines, opens : Sign, closes : Sign]

(* A line that a comment goes on from, which it may only behind words.     *)
WithRemark(l) == [l EXCEPT !.remark = "suffix", !.broken = @ \/ l.statement.kind # "none"]

(* A line with a sign that no token has.                                   *)
WithStraySign(l) == [l EXCEPT !.broken = TRUE]

(* An empty string, as the parser reads it; and as it is typed.            *)
EmptyLine == [words |-> <<>>, statement |-> [kind |-> "none"], number |-> NoValue,
              skip |-> NoValue, remark |-> "none", broken |-> FALSE]
Typed(l) == [head |-> l, opens |-> "no", closes |-> "no"]

ASSUME RawLinesAssumption ==
  /\ RawLines \subseteq RawLine /\ Typed(EmptyLine) \in RawLines
  /\ \A l \in RawLines :
       /\ WithRemark(l.head) \in TextLines /\ WithStraySign(l.head) \in TextLines
       /\ l.opens # "no" => l.head.remark = "none"
       /\ l.opens # "no" /\ l.closes # "no" => l.opens = "star" /\ l.closes = "plain"
       /\ l.head.remark = "suffix" => l.closes # "no"

ASSUME SessionAssumption ==
  /\ Texts \subseteq Seq(RawLines) /\ Entries \subseteq Seq(RawLines) \ {<<>>}
  /\ EditLines \subseteq Int /\ MaxEdits \in Nat

VARIABLES
  lines,    \* lines_
  current,  \* current_, the result of the last lowering
  fromLine, \* ResumeResult::from_line of the last call
  edits,    \* how many calls were made
  base,     \* the client: the result its queue was last brought up to
  queue,    \* the client: its messages
  thrown    \* the last diff has thrown

sessionVars == <<lines, current, fromLine, edits, base, queue, thrown>>

AsGiven(n) == n  \* a mutant: line numbers below 1 are not raised
AtLeastOne(n) == IF n < 1 THEN 1 ELSE n

----------------------------------------------------------------------------
(* The text and the parser's lines.                                        *)

(* joinLines: the entries one after the other.                             *)
RawText(entries) == Loop(LAMBDA t, k : t \o entries[k], <<>>, Len(entries))

(* COMMENT: where the comment ends that line k opens, or 0 if it never     *)
(* does.  One with a star ends at the next sign with a star, however many  *)
(* without one come before it, since the longer token wins; if there is no *)
(* such sign it is one without a star.  That ends at the next sign.        *)
Ends(t, k, signs) == {j \in k .. Len(t) : t[j].closes \in signs}
EndOf(t, k) ==
  LET any == Ends(t, k, {"plain", "star"})
      own == Ends(t, k, {"star"}) IN
    IF t[k].opens = "no" \/ any = {} THEN 0
    ELSE IF t[k].opens = "star" /\ own # {} THEN Min(own) ELSE Min(any)

(* The line at which the last comment opened within n lines ends.          *)
Until(t, n) == Loop(LAMBDA end, k : IF k <= end THEN end ELSE EndOf(t, k), 0, n)
InComment(t, k) == k <= Until(t, k - 1)

(* The lines of the parser: a comment is one token of the line that opens  *)
(* it, the lines within it keep their numbers and say nothing.  A sign that*)
(* opens or closes no comment is an error of its line.                     *)
LineAt(t, k) ==
  LET l == t[k]
      isStray == \/ l.opens # "no" /\ EndOf(t, k) = 0
                 \/ l.opens = "no" /\ l.closes # "no" /\ l.head.remark = "none" IN
    IF InComment(t, k) THEN EmptyLine
    ELSE IF isStray THEN WithStraySign(l.head)
    ELSE IF l.opens # "no" THEN WithRemark(l.head) ELSE l.head
Parsed(t) == Loop(LAMBDA ls, k : Append(ls, LineAt(t, k)), <<>>, Len(t))

(* joinLines, splitLines and the parser: always the text as a whole.       *)
TextOf(entries) == Parsed(RawText(entries))

----------------------------------------------------------------------------
(* The session.                                                            *)

(* reparseFromLine: from_line is only reported.                            *)
Reparse(entries, n) ==
  /\ current' = LowerToMessages(TextOf(entries)) /\ fromLine' = AtLeastOne(n)
  /\ edits < MaxEdits /\ edits' = edits + 1
  /\ UNCHANGED <<base, queue, thrown>>

ReparseFromLine(n) == Reparse(lines, n) /\ UNCHANGED lines

(* Lines that are missing up to the edited one are added empty.            *)
Resized(n) == [k \in 1 .. (IF n > Len(lines) THEN n ELSE Len(lines)) |->
                 IF k <= Len(lines) THEN lines[k] ELSE <<Typed(EmptyLine)>>]

ApplyLineEdit(n, entry) ==
  /\ lines' = [Resized(AtLeastOne(n)) EXCEPT ![AtLeastOne(n)] = entry]
  /\ Reparse(lines', n)

----------------------------------------------------------------------------
(* The diff.                                                               *)

(* indexByLine: of two messages of one line the later one counts.          *)
IndexByLine(ms) ==
  [n \in {ms[i].line : i \in DOMAIN ms} |-> ms[SelectLastInSeq(ms, LAMBDA m : m.line = n)]]

(* messageEqual has no case for G0: two of them are taken for G4s, and     *)
(* std::get throws.                                                        *)
CannotCompare(m, o) == m.code = 0 /\ o.code = 0
SameTarget(m, o) == m.code = o.code /\ m.fields = o.fields  \* a mutant: N not compared
MessageEqual(m, o) == m.code = o.code /\ m.number = o.number /\ m.fields = o.fields

Throws(before, after) ==
  \E n \in DOMAIN before \cap DOMAIN after : CannotCompare(before[n], after[n])

DiffByLine(before, after) ==
  LET Changed(n) == n \in DOMAIN before => ~MessageEqual(before[n], after[n])
      new == {n \in DOMAIN after : Changed(n)} IN
    [removed |-> DOMAIN before \ DOMAIN after, entries |-> [n \in new |-> after[n]]]

(* applyMessageDiff: the messages that are left, in the order of lines.    *)
InOrder(index) ==
  Loop(LAMBDA ms, n : IF n \in DOMAIN index THEN Append(ms, index[n]) ELSE ms, <<>>,
       IF DOMAIN index = {} THEN 0 ELSE Max(DOMAIN index))

ApplyDiff(ms, diff) ==
  LET index == IndexByLine(ms)
      left == (DOMAIN index \ diff.removed) \cup DOMAIN diff.entries IN
    InOrder([n \in left |-> IF n \in DOMAIN diff.entries THEN diff.entries[n] ELSE index[n]])

(* The client brings its queue up to date; a throwing diff changes nothing.*)
Sync ==
  LET before == IndexByLine(base.messages)  after == IndexByLine(current.messages) IN
    /\ thrown' = Throws(before, after)
    /\ IF thrown' THEN UNCHANGED <<base, queue>>
       ELSE base' = current /\ queue' = ApplyDiff(queue, DiffByLine(before, after))
    /\ UNCHANGED <<lines, current, fromLine, edits>>

----------------------------------------------------------------------------

SessionInit ==
  /\ \E t \in Texts : lines = [k \in DOMAIN t |-> <<t[k]>>]
  /\ current = LowerToMessages(TextOf(lines))
  /\ fromLine = 1 /\ edits = 0 /\ base = current /\ queue = current.messages /\ thrown = FALSE

SessionNext ==
  \/ \E n \in EditLines : ReparseFromLine(n) \/ \E e \in Entries : ApplyLineEdit(n, e)
  \/ Sync

SessionSpec == SessionInit /\ [][SessionNext]_sessionVars

----------------------------------------------------------------------------
(* Properties.                                                             *)

(* The types of the variables.                                             *)
SessionTypeOK ==
  /\ \A k \in DOMAIN lines : lines[k] \in Entries \cup {<<l>> : l \in RawLines}
  /\ fromLine \in Nat \ {0} /\ edits \in 0 .. MaxEdits /\ thrown \in BOOLEAN
  /\ current.rejected \in DOMAIN TextOf(lines) \cup {NoValue}

(* The plane in force at line n: the last one set by a line that counts.   *)
IsPlaneAt(t, n, plane) ==
  LET sets == {k \in 1 .. n : ~Skipped(t[k])
                 /\ \E i \in DOMAIN t[k].words : IsG(t[k].words[i], 17 .. 19)} IN
    \/ sets = {} /\ plane = 17
    \/ \E k \in sets : (\A j \in sets : j <= k) /\ plane = PlaneOf(t[k].words, 17)

(* A line no message can come from: a parse error, a broken rule, or an    *)
(* arc whose center does not fit the plane in force.                       *)
IsBad(t, n) ==
  \/ t[n].broken \/ BreaksRule(t[n])
  \/ /\ MotionOf(t[n].words) \in {2, 3}
     /\ \E p \in 17 .. 19, i \in DOMAIN t[n].words :
          /\ IsPlaneAt(t, n, p) /\ t[n].words[i].head \in Centers
          /\ t[n].words[i].value # NoValue /\ ~IsAllowed(t[n].words[i].head, p)

(* After every call: the rejected line is the first bad one that is not    *)
(* skipped; each line before it that moves has one message, and no other   *)
(* line has any.                                                           *)
LoweredUpToFirstBad ==
  LET t == TextOf(lines)
      bad == {n \in DOMAIN t : ~Skipped(t[n]) /\ IsBad(t, n)}
      lowered == {n \in DOMAIN t : (\A b \in bad : n < b) /\ ~Skipped(t[n])
                                   /\ MotionOf(t[n].words) # NoValue} IN
    /\ bad = {} => current.rejected = NoValue
    /\ bad # {} => current.rejected \in bad /\ \A b \in bad : current.rejected <= b
    /\ {current.messages[i].line : i \in DOMAIN current.messages} = lowered
    /\ Len(current.messages) = Cardinality(lowered)

(* The elements of s at these positions, in their order.                   *)
Keep(s, at) ==
  Loop(LAMBDA kept, i : IF i \in at THEN Append(kept, s[i]) ELSE kept, <<>>, Len(s))

Before(ms, n) == Keep(ms, {i \in DOMAIN ms : ms[i].line < n})
ErrorsBefore(ds, n) == Keep(ds, {i \in DOMAIN ds : ds[i].severity = "Error" /\ ds[i].line < n})

(* No comment opened before line n goes on at n or could be made to: each  *)
(* of them has met the sign of its own kind.                               *)
CommentsEndBefore(t, n) ==
  \A k \in DOMAIN t :
    k < n /\ t[k].opens # "no" /\ ~InComment(t, k) =>
      \E j \in Ends(t, k, IF t[k].opens = "star" THEN {"star"} ELSE {"plain", "star"}) : j < n

(* A call that resumes from a line at which no comment is open leaves the  *)
(* messages of the lines before it as they were, their errors, and a       *)
(* rejection among them.  (Not their warnings: a jump to a number, added   *)
(* anywhere, brings warnings about numbers used twice to lines before it.  *)
(* And not where a comment may still be closed: adding a sign that closes  *)
(* it, or taking it away, changes lines before the one resumed from, where *)
(* incremental_session.md of src/docs/src/development/design promises,     *)
(* without exception, that they are kept.)                                 *)
PrefixKept ==
  [][CommentsEndBefore(RawText(lines), fromLine') =>
     /\ Before(current'.messages, fromLine') = Before(current.messages, fromLine')
     /\ ErrorsBefore(current'.diagnostics, fromLine') = ErrorsBefore(current.diagnostics, fromLine')
     /\ LET kept == current.rejected # NoValue /\ current.rejected < fromLine'
            keeps == current'.rejected # NoValue /\ current'.rejected < fromLine' IN
          (kept \/ keeps) => current'.rejected = current.rejected]_sessionVars

(* The client's queue is the messages of the result it last saw, whatever  *)
(* the edits between were, as if it had taken them over whole.             *)
QueueKeepsUp == queue = base.messages

(* CHANGELOG_AGENT.md: the diff and apply helpers reconstruct the message  *)
(* list.  A diff of two results always comes about.                        *)
DiffComesAbout == ~thrown
=============================================================================
