--------------------------- MODULE StreamLowering ---------------------------
(***************************************************************************)
(* lowerToMessagesStream of src/src/messages.cpp: the same lowering with   *)
(* callbacks instead of a result, limits on what it may see, and a hook    *)
(* that may cancel it at any time.  The code is a second copy of the loop  *)
(* of lowerToMessages; what keeps the two together is stated below.        *)
(***************************************************************************)
EXTENDS MessageLowering

CONSTANTS
  Texts,    \* the texts that are streamed
  Limits,   \* the StreamOptions: records of lines, messages, diagnostics
  Unlimited \* the empty optional of a limit, larger than any count

ASSUME StreamTextsAssumption == Texts \subseteq Seq(TextLines)
ASSUME LimitsAssumption ==
  Unlimited \in Nat /\ \A l \in Limits : l \in [lines : Nat, messages : Nat, diagnostics : Nat]

VARIABLES
  text, limits,     \* the arguments
  at,               \* where the function is
  pos, plane,       \* lines begun; current_plane
  owed,             \* diagnostics collected and not shown yet
  shown,            \* calls of the callbacks, in order
  cancelAt,         \* how many calls were made when should_cancel() turned true
  returned          \* what the function has returned

streamVars == <<text, limits, at, pos, plane, owed, shown, cancelAt, returned>>

(* What the calls of one kind have shown.                                  *)
OfKind(kind, calls, whats, i) ==
  IF calls[i].kind = kind THEN Append(whats, calls[i].what) ELSE whats
Shown(kind) == Loop(LAMBDA whats, i : OfKind(kind, shown, whats, i), <<>>, Len(shown))

Call(kind, what) == [kind |-> kind, what |-> what]

CountFrom(first, kind, calls) ==
  Cardinality({i \in DOMAIN calls : i >= first /\ calls[i].kind = kind})
Count(kind, calls) == CountFrom(1, kind, calls)

(* lines_seen, messages_seen, diagnostics_seen                             *)
ForgetsMessages(lines, calls) ==  \* a mutant: messages are not limited
  lines > limits.lines \/ Count("diagnostic", calls) > limits.diagnostics
Exceeds(lines, calls) ==
  \/ lines > limits.lines \/ Count("message", calls) > limits.messages
  \/ Count("diagnostic", calls) > limits.diagnostics

NotYet == -1
LimitsOnly(lines, calls) == Exceeds(lines, calls)  \* a mutant: the hook is not asked
ShouldStop(lines, calls) == Exceeds(lines, calls) \/ cancelAt # NotYet

Return(answer) == at' = "returned" /\ returned' = answer
GoTo(place) == at' = place /\ UNCHANGED returned

(* emitParseDiagnostics, and the diagnostics of a lowered line: each is    *)
(* shown and then the limits are looked at.                                *)
ShowDiagnostic ==
  /\ at \in {"parse diagnostics", "line diagnostics"} /\ owed # <<>>
  /\ shown' = Append(shown, Call("diagnostic", Head(owed))) /\ owed' = Tail(owed)
  /\ IF ShouldStop(pos, shown') THEN Return("FALSE") ELSE GoTo(at)
  /\ UNCHANGED <<text, limits, pos, plane, cancelAt>>

DiagnosticsShown ==
  /\ at \in {"parse diagnostics", "line diagnostics"} /\ owed = <<>> /\ GoTo("lines")
  /\ UNCHANGED <<text, limits, pos, plane, owed, shown, cancelAt>>

OneTooMany == pos <= Len(text)  \* a mutant: the end of the text is a line
MoreLines == pos < Len(text)

BeginLine ==
  /\ at = "lines" /\ MoreLines /\ pos' = pos + 1
  /\ IF ShouldStop(pos', shown) THEN Return("FALSE") ELSE GoTo("line")
  /\ UNCHANGED <<text, limits, plane, owed, shown, cancelAt>>

EndOfText ==
  /\ at = "lines" /\ ~MoreLines /\ Return("TRUE")
  /\ UNCHANGED <<text, limits, pos, plane, owed, shown, cancelAt>>

Line == text[pos]
HasMotion == MotionOf(Line.words) # NoValue
Plane == PlaneOf(Line.words, plane)
Wrong == PlaneDiagnostics(Line, pos, Plane)
Rejectable == ~Skipped(Line) /\ HasError(ParseDiagnostics(text), pos)

SkipLine ==
  /\ at = "line" /\ Skipped(Line) /\ GoTo("lines")
  /\ UNCHANGED <<text, limits, pos, plane, owed, shown, cancelAt>>

RejectAndGoOn ==  \* a mutant: no return after the callback
  shown' = Append(shown, Call("rejected", pos)) /\ GoTo("lines")
Reject == shown' = Append(shown, Call("rejected", pos)) /\ Return("FALSE")

RejectLine ==
  /\ at = "line" /\ Rejectable /\ Reject
  /\ UNCHANGED <<text, limits, pos, plane, owed, cancelAt>>

KeepsPlane == plane' = plane  \* a mutant: a line of its own does not set the plane
TakesPlane == plane' = Plane

PlaneOnly ==
  /\ at = "line" /\ ~Skipped(Line) /\ ~Rejectable /\ ~HasMotion
  /\ TakesPlane /\ GoTo("lines")
  /\ UNCHANGED <<text, limits, pos, owed, shown, cancelAt>>

(* A center word that does not fit the plane: all of them are shown, the   *)
(* limits are not looked at, and the line is rejected.                     *)
FindWrongCenters ==
  /\ at = "line" /\ ~Skipped(Line) /\ ~Rejectable /\ HasMotion /\ Wrong # <<>>
  /\ owed' = Wrong /\ GoTo("arc diagnostics")
  /\ UNCHANGED <<text, limits, pos, plane, shown, cancelAt>>

ShowArcDiagnostic ==
  /\ at = "arc diagnostics" /\ owed # <<>> /\ GoTo(at)
  /\ shown' = Append(shown, Call("diagnostic", Head(owed))) /\ owed' = Tail(owed)
  /\ UNCHANGED <<text, limits, pos, plane, cancelAt>>

RejectArc ==
  /\ at = "arc diagnostics" /\ owed = <<>> /\ Reject
  /\ UNCHANGED <<text, limits, pos, plane, owed, cancelAt>>

(* The message is shown before the limits are looked at, its warnings      *)
(* after.                                                                  *)
ShowMessage ==
  /\ at = "line" /\ ~Skipped(Line) /\ ~Rejectable /\ HasMotion /\ Wrong = <<>>
  /\ shown' = Append(shown, Call("message", MessageOf(Line, pos)))
  /\ owed' = LoweringDiagnostics(Line, pos) /\ TakesPlane
  /\ IF ShouldStop(pos, shown') THEN Return("FALSE") ELSE GoTo("line diagnostics")
  /\ UNCHANGED <<text, limits, pos, cancelAt>>

(* The callback or another thread makes the hook answer true.              *)
RaiseCancel ==
  /\ cancelAt = NotYet /\ at # "returned" /\ cancelAt' = Len(shown)
  /\ UNCHANGED <<text, limits, at, pos, plane, owed, shown, returned>>

Lowering ==
  \/ ShowDiagnostic \/ DiagnosticsShown \/ BeginLine \/ EndOfText \/ SkipLine \/ RejectLine
  \/ PlaneOnly \/ FindWrongCenters \/ ShowArcDiagnostic \/ RejectArc \/ ShowMessage

StreamInit ==
  /\ text \in Texts /\ limits \in Limits /\ at = "parse diagnostics" /\ pos = 0 /\ plane = 17
  /\ owed = ParseDiagnostics(text) /\ shown = <<>> /\ cancelAt = NotYet
  /\ returned = "not yet"

StreamNext == Lowering \/ RaiseCancel
StreamSpec == StreamInit /\ [][StreamNext]_streamVars

----------------------------------------------------------------------------
(* Properties.                                                             *)

(* The types of the variables; a returned function is at its end.          *)
StreamTypeOK ==
  /\ text \in Texts /\ limits \in Limits /\ pos \in 0 .. Len(text) /\ plane \in 17 .. 19
  /\ at \in {"parse diagnostics", "lines", "line", "line diagnostics", "arc diagnostics",
             "returned"}
  /\ \A i \in DOMAIN shown : shown[i].kind \in {"message", "diagnostic", "rejected"}
  /\ cancelAt \in {NotYet} \cup 0 .. Len(shown)
  /\ returned \in {"not yet", "TRUE", "FALSE"} /\ (at = "returned" <=> returned # "not yet")

Batch == LowerToMessages(text)

(* The callbacks are shown what lowerToMessages collects, in its order: a  *)
(* beginning of it at any time, all of it when TRUE is returned or a line  *)
(* has been rejected; and that is the line lowerToMessages rejects.        *)
SameAsBatch ==
  /\ IsPrefix(Shown("message"), Batch.messages)
  /\ IsPrefix(Shown("diagnostic"), Batch.diagnostics)
  /\ returned = "TRUE" \/ Shown("rejected") # <<>> =>
       /\ Shown("message") = Batch.messages
       /\ Shown("diagnostic") = Batch.diagnostics
       /\ Shown("rejected") = IF Batch.rejected = NoValue THEN <<>> ELSE <<Batch.rejected>>

HasRejected == \E i \in DOMAIN shown : shown[i].kind = "rejected"

(* FALSE has a cause the caller can see: a rejected line, a limit that was *)
(* exceeded, or its own cancellation.  TRUE has none of them but a         *)
(* cancellation that came too late.                                        *)
ReturnsForAReason ==
  /\ returned = "FALSE" => HasRejected \/ Exceeds(pos, shown) \/ cancelAt # NotYet
  /\ returned = "TRUE" => ~HasRejected /\ ~Exceeds(pos, shown)

(* A limit is exceeded by one at most, except that an arc may have several *)
(* wrong center words; nothing of a line behind the limit is lowered.      *)
LimitsHeld ==
  /\ Count("message", shown) <= limits.messages + 1
  /\ Count("diagnostic", shown) > limits.diagnostics + 1 =>
       at = "arc diagnostics" \/ HasRejected
  /\ \A i \in DOMAIN shown : shown[i].kind = "message" => shown[i].what.line <= limits.lines

(* Once the hook answers true at most one more message is shown.           *)
CancelHeeded == cancelAt # NotYet => CountFrom(cancelAt + 1, "message", shown) <= 1
=============================================================================
