------------------------ MODULE StreamLoweringProofs ------------------------
(* What the streaming lowering keeps to for every text and all limits.     *)
EXTENDS StreamLowering, MessageLoweringProofs

----------------------------------------------------------------------------
(* Counting in a sequence.                                                 *)

LEMMA CountIsNat ==
  ASSUME NEW s, IsSeq(s), NEW first, NEW kind
  PROVE  CountFrom(first, kind, s) \in Nat
<1> DEFINE counted == {i \in DOMAIN s : i >= first /\ s[i].kind = kind}
<1>1. PICK S : s \in Seq(S)
  BY DEF IsSeq
<1>2. DOMAIN s = 1 .. Len(s) /\ Len(s) \in Nat
  BY <1>1, LenProperties
<1>3. IsFiniteSet(DOMAIN s)
  BY <1>2, FS_Interval
<1>4. IsFiniteSet(counted)
  BY <1>3, FS_Subset
<1>5. QED
  BY <1>4, FS_CardinalityType DEF CountFrom

(* An appended element counts if it is of the kind.                        *)
LEMMA CountAppended ==
  ASSUME NEW s, IsSeq(s), NEW e, NEW first \in Nat, first <= Len(s) + 1, NEW kind
  PROVE  CountFrom(first, kind, Append(s, e)) =
           CountFrom(first, kind, s) + IF e.kind = kind THEN 1 ELSE 0
<1> DEFINE counted(q) == {i \in DOMAIN q : i >= first /\ q[i].kind = kind}
<1>1. /\ Len(s) \in Nat /\ DOMAIN s = 1 .. Len(s) /\ DOMAIN Append(s, e) = 1 .. Len(s) + 1
      /\ \A i \in DOMAIN s : Append(s, e)[i] = s[i]
      /\ Append(s, e)[Len(s) + 1] = e
  BY Appended
<1>2. counted(Append(s, e)) = counted(s) \cup (IF e.kind = kind THEN {Len(s) + 1} ELSE {})
  BY <1>1
<1>3. Len(s) + 1 \notin counted(s)
  BY <1>1
<1>4. IsFiniteSet(counted(s))
  <2>1. IsFiniteSet(DOMAIN s)
    BY <1>1, FS_Interval
  <2>2. counted(s) \subseteq DOMAIN s
    OBVIOUS
  <2>3. QED
    BY <2>1, <2>2, FS_Subset
<1>5. Cardinality(counted(s)) \in Nat
  BY <1>4, FS_CardinalityType
<1>6. CountFrom(first, kind, s) = Cardinality(counted(s))
  BY DEF CountFrom
<1>7. CountFrom(first, kind, Append(s, e)) = Cardinality(counted(Append(s, e)))
  BY DEF CountFrom
<1>8. CASE e.kind = kind
  <2>1. Cardinality(counted(s) \cup {Len(s) + 1}) = Cardinality(counted(s)) + 1
    BY <1>3, <1>4, FS_AddElement
  <2>2. QED
    BY <1>2, <1>6, <1>7, <1>8, <2>1
<1>9. CASE e.kind # kind
  <2>1. counted(Append(s, e)) = counted(s)
    BY <1>2, <1>9
  <2>2. QED
    <3> HIDE DEF counted
    <3>1. CountFrom(first, kind, Append(s, e)) = CountFrom(first, kind, s)
      BY <1>6, <1>7, <2>1
    <3>2. CountFrom(first, kind, s) \in Nat
      BY <1>5, <1>6
    <3>3. QED
      BY <1>9, <3>1, <3>2
<1>10. QED
  BY <1>8, <1>9

(* Nothing counts behind the end.                                          *)
LEMMA CountBehindEnd ==
  ASSUME NEW s, IsSeq(s), NEW kind
  PROVE  CountFrom(Len(s) + 1, kind, s) = 0
<1>1. Len(s) \in Nat /\ DOMAIN s = 1 .. Len(s)
  BY Appended
<1>2. {i \in DOMAIN s : i >= Len(s) + 1 /\ s[i].kind = kind} = {}
  BY <1>1
<1>3. QED
  BY <1>2, FS_EmptySet DEF CountFrom

LEMMA MessageLine ==
  ASSUME NEW l, NEW k
  PROVE  MessageOf(l, k).line = k
BY DEF MessageOf
----------------------------------------------------------------------------
(* The inductive invariant.  While the function runs nothing was rejected  *)
(* and no limit is exceeded, except by the diagnostics of an arc that is   *)
(* about to be rejected; and no message was shown since the hook answers   *)
(* true, because every message is followed by a look at the hook.          *)

Running == at # "returned"

ShapeInv ==
  /\ IsSeq(shown) /\ pos \in Nat /\ limits \in Limits
  /\ cancelAt \in Nat \cup {NotYet} /\ cancelAt <= Len(shown)
  /\ at = "returned" <=> returned # "not yet"

RunningInv ==
  Running =>
    /\ ~HasRejected /\ pos <= limits.lines /\ Count("message", shown) <= limits.messages
    /\ at # "arc diagnostics" => Count("diagnostic", shown) <= limits.diagnostics
    /\ cancelAt # NotYet => CountFrom(cancelAt + 1, "message", shown) = 0

LinesInv == \A i \in DOMAIN shown : shown[i].kind = "message" => shown[i].what.line <= limits.lines

StreamInv == ShapeInv /\ RunningInv /\ ReturnsForAReason /\ LimitsHeld /\ CancelHeeded

LEMMA AtMost ==
  \A m, n \in Nat : m <= n => m <= n + 1 /\ ~(m > n + 1)
OBVIOUS

LEMMA NoneIsAtMostOne == \A n : n = 0 => n <= 1
OBVIOUS

LEMMA OneMore == \A m, n \in Nat : m <= n + 1 => ~(m > n + 1)
OBVIOUS

LEMMA FirstAfter ==
  \A c \in Nat \cup {NotYet}, n \in Nat : c <= n => c + 1 \in Nat /\ c + 1 <= n + 1
BY DEF NotYet

LEMMA OneLonger == \A n \in Nat : 1 .. n + 1 = (1 .. n) \cup {n + 1}
OBVIOUS

LEMMA NotMore == \A m, n \in Nat : m <= n <=> ~(m > n)
OBVIOUS

LEMMA Successor == \A n \in Nat : n + 1 \in Nat
OBVIOUS

LEMMA PlusNothing == \A n \in Nat : n + 0 = n
OBVIOUS

LEMMA StillWithin ==
  \A c \in Nat \cup {NotYet}, n \in Nat : c <= n => c <= n + 1
BY DEF NotYet

LEMMA PlusOne == \A m, n \in Nat : m <= n => m + 1 <= n + 1
OBVIOUS

LEMMA OneAfterNone == \A n : n = 0 => n + 1 <= 1
OBVIOUS

LEMMA AtMostItself == \A n \in Nat : n <= n
OBVIOUS

LEMMA NotBefore == \A n : n = 0 => NotYet <= n
BY DEF NotYet

LEMMA LimitFields ==
  ASSUME NEW l \in Limits
  PROVE  l.lines \in Nat /\ l.messages \in Nat /\ l.diagnostics \in Nat
BY LimitsAssumption

LEMMA StreamInitial == StreamInit => StreamInv
<1> SUFFICES ASSUME StreamInit
             PROVE  StreamInv
  OBVIOUS
<1>0. IsSeq(shown)
  <2>1. shown = <<>>
    BY DEF StreamInit
  <2>2. shown \in Seq({})
    BY <2>1, EmptySeq
  <2>3. QED
    BY <2>2 DEF IsSeq
<1>1. Len(shown) = 0 /\ DOMAIN shown = {}
  <2>1. shown = <<>>
    BY DEF StreamInit
  <2>2. shown \in Seq({})
    BY <2>1, EmptySeq
  <2>3. Len(shown) = 0
    BY <2>1, <2>2, EmptySeq
  <2>4. DOMAIN shown = {}
    BY <2>2, <2>3, LenProperties
  <2>5. QED
    BY <2>3, <2>4
<1>2. ASSUME NEW first, NEW kind
      PROVE  CountFrom(first, kind, shown) = 0
  BY <1>1, FS_EmptySet DEF CountFrom
<1>3. Count("message", shown) = 0 /\ Count("diagnostic", shown) = 0
  BY <1>2 DEF Count
<1>4. limits \in Limits /\ limits.lines \in Nat /\ limits.messages \in Nat /\ limits.diagnostics \in Nat
  BY LimitFields DEF StreamInit
<1>5. ShapeInv
  <2>1. /\ pos \in Nat /\ limits \in Limits /\ cancelAt = NotYet
        /\ at = "returned" <=> returned # "not yet"
    BY DEF StreamInit
  <2>2. cancelAt \in Nat \cup {NotYet}
    BY <2>1
  <2>3. cancelAt <= Len(shown)
    BY <1>1, <2>1, NotBefore, Zenon
  <2>4. QED
    BY <1>0, <2>1, <2>2, <2>3, Zenon DEF ShapeInv
<1>6. RunningInv
  <2>1. pos = 0 /\ cancelAt = NotYet
    BY DEF StreamInit
  <2>2. ~HasRejected
    BY <1>1 DEF HasRejected
  <2>3. pos <= limits.lines
    BY <1>4, <2>1
  <2>4. Count("message", shown) <= limits.messages /\ Count("diagnostic", shown) <= limits.diagnostics
    BY <1>3, <1>4
  <2>5. QED
    BY <2>1, <2>2, <2>3, <2>4, Zenon DEF RunningInv
<1>7. ReturnsForAReason /\ CancelHeeded
  BY DEF StreamInit, ReturnsForAReason, CancelHeeded
<1>8. LimitsHeld
  <2>1. Count("message", shown) <= limits.messages + 1
    BY <1>3, <1>4
  <2>2. ~(Count("diagnostic", shown) > limits.diagnostics + 1)
    BY <1>3, <1>4
  <2>3. \A i \in DOMAIN shown : shown[i].kind = "message" => shown[i].what.line <= limits.lines
    BY <1>1
  <2>4. QED
    BY <2>1, <2>2, <2>3, Zenon DEF LimitsHeld
<1>9. QED
  BY <1>5, <1>6, <1>7, <1>8 DEF StreamInv

----------------------------------------------------------------------------
(* The step.                                                               *)

(* What the invariant says of the numbers, free of everything else.        *)
LEMMA Numbers ==
  ASSUME StreamInv
  PROVE  /\ IsSeq(shown) /\ limits \in Limits
         /\ Len(shown) \in Nat /\ pos \in Nat /\ cancelAt \in Nat \cup {NotYet}
         /\ limits.lines \in Nat /\ limits.messages \in Nat /\ limits.diagnostics \in Nat
         /\ Count("message", shown) \in Nat /\ Count("diagnostic", shown) \in Nat
         /\ CountFrom(cancelAt + 1, "message", shown) \in Nat
<1>1. IsSeq(shown) /\ limits \in Limits /\ pos \in Nat /\ cancelAt \in Nat \cup {NotYet}
  BY DEF StreamInv, ShapeInv
<1>2. Len(shown) \in Nat
  BY <1>1, Appended
<1>3. Count("message", shown) \in Nat /\ Count("diagnostic", shown) \in Nat
  BY <1>1, CountIsNat DEF Count
<1>4. CountFrom(cancelAt + 1, "message", shown) \in Nat
  BY <1>1, CountIsNat
<1>5. QED
  BY <1>1, <1>2, <1>3, <1>4, LimitFields, Zenon

(* A state in which the function runs on satisfies the invariant if ...    *)
LEMMA RunsOn ==
  ASSUME StreamInv, ShapeInv', at' # "returned", returned' = "not yet", limits' = limits,
         ~HasRejected', pos' <= limits.lines,
         Count("message", shown') \in Nat, Count("diagnostic", shown') \in Nat,
         Count("message", shown') <= limits.messages,
         at' # "arc diagnostics" => Count("diagnostic", shown') <= limits.diagnostics,
         cancelAt' # NotYet => CountFrom(cancelAt' + 1, "message", shown') = 0,
         LinesInv'
  PROVE  StreamInv'
<1>1. RunningInv'
  BY Zenon DEF RunningInv
<1>2. ReturnsForAReason'
  BY DEF ReturnsForAReason
<1>3. LimitsHeld'
  <2>1. limits.messages \in Nat /\ limits.diagnostics \in Nat
    BY Numbers
  <2>2. Count("message", shown') <= limits.messages + 1
    BY <2>1, AtMost, Zenon
  <2>3. at' # "arc diagnostics" => ~(Count("diagnostic", shown') > limits.diagnostics + 1)
    BY <2>1, AtMost, Zenon
  <2>4. QED
    BY <2>2, <2>3, Zenon DEF LimitsHeld, LinesInv
<1>4. CancelHeeded'
  BY NoneIsAtMostOne, Zenon DEF CancelHeeded
<1>5. QED
  BY <1>1, <1>2, <1>3, <1>4 DEF StreamInv

(* ... and one in which it has returned if ...                             *)
LEMMA HasReturned ==
  ASSUME StreamInv, ShapeInv', at' = "returned", limits' = limits,
         Count("message", shown') <= limits.messages + 1,
         Count("diagnostic", shown') <= limits.diagnostics + 1 \/ HasRejected',
         Count("diagnostic", shown') \in Nat,
         LinesInv',
         CancelHeeded', ReturnsForAReason'
  PROVE  StreamInv'
<1>1. RunningInv'
  BY DEF RunningInv, Running
<1>2. limits.diagnostics \in Nat
  BY Numbers
<1>3. ~(Count("diagnostic", shown') > limits.diagnostics + 1) \/ HasRejected'
  BY <1>2, OneMore, Zenon
<1>4. LimitsHeld'
  BY <1>3, Zenon DEF LimitsHeld, LinesInv
<1>5. QED
  BY <1>1, <1>4 DEF StreamInv

(* One more call of a callback.                                            *)
LEMMA OneCall ==
  ASSUME NEW kind, NEW what, StreamInv, shown' = Append(shown, Call(kind, what))
  PROVE  /\ IsSeq(shown') /\ Len(shown') = Len(shown) + 1
         /\ \A k : Count(k, shown') = Count(k, shown) + IF kind = k THEN 1 ELSE 0
         /\ CountFrom(cancelAt + 1, "message", shown') =
              CountFrom(cancelAt + 1, "message", shown) + IF kind = "message" THEN 1 ELSE 0
         /\ HasRejected' <=> HasRejected \/ kind = "rejected"
         /\ LinesInv /\ (kind = "message" => what.line <= limits.lines) /\ limits' = limits
              => LinesInv'
<1>1. IsSeq(shown) /\ cancelAt \in Nat \cup {NotYet} /\ cancelAt <= Len(shown)
  BY DEF StreamInv, ShapeInv
<1>2. /\ IsSeq(shown') /\ Len(shown) \in Nat /\ DOMAIN shown = 1 .. Len(shown)
      /\ Len(shown') = Len(shown) + 1 /\ DOMAIN shown' = 1 .. Len(shown) + 1
      /\ \A i \in DOMAIN shown : shown'[i] = shown[i]
      /\ shown'[Len(shown) + 1] = Call(kind, what)
  BY <1>1, Appended
<1>3. Call(kind, what).kind = kind /\ Call(kind, what).what = what
  BY DEF Call
<1>4. ASSUME NEW k
      PROVE  Count(k, shown') = Count(k, shown) + IF kind = k THEN 1 ELSE 0
  <2>1. 1 \in Nat /\ 1 <= Len(shown) + 1
    BY <1>2
  <2>2. CountFrom(1, k, Append(shown, Call(kind, what))) =
          CountFrom(1, k, shown) + IF Call(kind, what).kind = k THEN 1 ELSE 0
    BY <1>1, <2>1, CountAppended
  <2>3. QED
    BY <1>3, <2>2 DEF Count
<1>5. CountFrom(cancelAt + 1, "message", shown') =
        CountFrom(cancelAt + 1, "message", shown) + IF kind = "message" THEN 1 ELSE 0
  <2>1. cancelAt + 1 \in Nat /\ cancelAt + 1 <= Len(shown) + 1
    BY <1>1, <1>2, FirstAfter, Zenon
  <2>2. CountFrom(cancelAt + 1, "message", Append(shown, Call(kind, what))) =
          CountFrom(cancelAt + 1, "message", shown)
            + IF Call(kind, what).kind = "message" THEN 1 ELSE 0
    BY <1>1, <2>1, CountAppended
  <2>3. QED
    BY <1>3, <2>2
<1>6. DOMAIN shown' = DOMAIN shown \cup {Len(shown) + 1}
  BY <1>2, OneLonger, Zenon
<1>7. HasRejected' <=> HasRejected \/ kind = "rejected"
  BY <1>2, <1>3, <1>6, Zenon DEF HasRejected
<1>8. LinesInv /\ (kind = "message" => what.line <= limits.lines) /\ limits' = limits => LinesInv'
  BY <1>2, <1>3, <1>6, Zenon DEF LinesInv
<1>9. QED
  BY <1>2, <1>4, <1>5, <1>7, <1>8, Zenon

(* What holds while the function runs.                                     *)
LEMMA WhileRunning ==
  ASSUME StreamInv, at # "returned"
  PROVE  /\ ~HasRejected /\ pos <= limits.lines /\ Count("message", shown) <= limits.messages
         /\ at # "arc diagnostics" => Count("diagnostic", shown) <= limits.diagnostics
         /\ cancelAt # NotYet => CountFrom(cancelAt + 1, "message", shown) = 0
         /\ LinesInv /\ returned = "not yet"
<1>1. LinesInv
  BY Zenon DEF StreamInv, LimitsHeld, LinesInv
<1>2. returned = "not yet"
  BY Zenon DEF StreamInv, ShapeInv
<1>3. QED
  BY <1>1, <1>2, Zenon DEF StreamInv, RunningInv, Running

(* Steps that show nothing.                                                *)
LEMMA QuietStep ==
  ASSUME StreamInv, at # "returned", at # "arc diagnostics", at' # "returned",
         limits' = limits, pos' = pos, shown' = shown, cancelAt' = cancelAt, returned' = returned
  PROVE  StreamInv'
<1>1. ShapeInv'
  <2>1. returned = "not yet"
    BY WhileRunning
  <2>2. QED
    BY <2>1, Zenon DEF StreamInv, ShapeInv
<1>2. /\ Count("message", shown') \in Nat /\ Count("diagnostic", shown') \in Nat
      /\ Count("message", shown') <= limits.messages
      /\ Count("diagnostic", shown') <= limits.diagnostics
  BY Numbers, WhileRunning, Zenon
<1>3. ~HasRejected' /\ LinesInv'
  BY WhileRunning, Zenon DEF HasRejected, LinesInv
<1>4. cancelAt' # NotYet => CountFrom(cancelAt' + 1, "message", shown') = 0
  BY WhileRunning, Zenon
<1>5. returned' = "not yet" /\ pos' <= limits.lines
  BY WhileRunning, Zenon
<1>6. QED
  BY <1>1, <1>2, <1>3, <1>4, <1>5, RunsOn, Zenon

(* A line is begun, and the limits are looked at.                          *)
LEMMA BeginLineStep ==
  ASSUME StreamInv, BeginLine
  PROVE  StreamInv'
<1>1. /\ at = "lines" /\ pos' = pos + 1 /\ limits' = limits /\ shown' = shown
      /\ cancelAt' = cancelAt
  BY DEF BeginLine
<1>2. pos' \in Nat
  BY <1>1, Numbers, Successor, Zenon
<1>3. /\ Count("message", shown') \in Nat /\ Count("diagnostic", shown') \in Nat
      /\ Count("message", shown') <= limits.messages
      /\ Count("diagnostic", shown') <= limits.diagnostics
  <2>1. at # "returned" /\ at # "arc diagnostics"
    BY <1>1
  <2>2. QED
    BY <1>1, <2>1, Numbers, WhileRunning, Zenon
<1>4. ~HasRejected' /\ LinesInv'
  <2>1. at # "returned"
    BY <1>1
  <2>2. QED
    BY <1>1, <2>1, WhileRunning, Zenon DEF HasRejected, LinesInv
<1>5. cancelAt' # NotYet => CountFrom(cancelAt' + 1, "message", shown') = 0
  <2>1. at # "returned"
    BY <1>1
  <2>2. QED
    BY <1>1, <2>1, WhileRunning, Zenon
<1>6. CASE ShouldStop(pos', shown)
  <2>1. at' = "returned" /\ returned' = "FALSE"
    BY <1>6, Zenon DEF BeginLine, Return
  <2>2. ShapeInv'
    <3>1. "FALSE" # "not yet"
      OBVIOUS
    <3>2. QED
      BY <1>1, <1>2, <2>1, <3>1, Zenon DEF StreamInv, ShapeInv
  <2>3. ReturnsForAReason'
    <3>1. "FALSE" # "TRUE"
      OBVIOUS
    <3>2. QED
      BY <1>1, <1>6, <2>1, <3>1, Zenon DEF ReturnsForAReason, ShouldStop, Exceeds
  <2>4. CancelHeeded'
    BY <1>5, NoneIsAtMostOne, Zenon DEF CancelHeeded
  <2>5. QED
    BY <1>1, <1>3, <1>4, <2>1, <2>2, <2>3, <2>4, Numbers, AtMost, HasReturned, Zenon
<1>7. CASE ~ShouldStop(pos', shown)
  <2>1. at' = "line" /\ returned' = returned
    BY <1>7, Zenon DEF BeginLine, GoTo
  <2>2. at' # "returned" /\ at # "returned"
    BY <1>1, <2>1
  <2>3. ShapeInv'
    BY <1>1, <1>2, <2>1, <2>2, WhileRunning, Zenon DEF StreamInv, ShapeInv
  <2>4. pos' <= limits.lines
    <3>1. ~(pos' > limits.lines)
      BY <1>7, Zenon DEF ShouldStop, Exceeds
    <3>2. QED
      BY <1>2, <3>1, Numbers, NotMore, Zenon
  <2>5. returned' = "not yet"
    BY <2>1, <2>2, WhileRunning
  <2>6. QED
    BY <1>1, <1>3, <1>4, <1>5, <2>2, <2>3, <2>4, <2>5, RunsOn, Zenon
<1>8. QED
  BY <1>6, <1>7, Zenon

(* The text is at its end: nothing has gone wrong on the way.              *)
LEMMA EndOfTextStep ==
  ASSUME StreamInv, EndOfText
  PROVE  StreamInv'
<1>1. /\ at = "lines" /\ pos' = pos /\ limits' = limits /\ shown' = shown
      /\ cancelAt' = cancelAt /\ at' = "returned" /\ returned' = "TRUE"
  BY DEF EndOfText, Return
<1>2. at # "returned" /\ at # "arc diagnostics" /\ "TRUE" # "FALSE" /\ "TRUE" # "not yet"
  BY <1>1
<1>3. ShapeInv'
  BY <1>1, <1>2, Zenon DEF StreamInv, ShapeInv
<1>4. ~HasRejected' /\ LinesInv'
  BY <1>1, <1>2, WhileRunning, Zenon DEF HasRejected, LinesInv
<1>5. /\ Count("message", shown') <= limits.messages
      /\ Count("diagnostic", shown') <= limits.diagnostics /\ pos' <= limits.lines
      /\ Count("message", shown') \in Nat /\ Count("diagnostic", shown') \in Nat /\ pos' \in Nat
  BY <1>1, <1>2, WhileRunning, Numbers, Zenon
<1>6. ReturnsForAReason'
  BY <1>1, <1>2, <1>4, <1>5, Numbers, NotMore, Zenon DEF ReturnsForAReason, Exceeds
<1>7. CancelHeeded'
  BY <1>1, Zenon DEF StreamInv, CancelHeeded
<1>8. QED
  BY <1>1, <1>3, <1>4, <1>5, <1>6, <1>7, Numbers, AtMost, HasReturned, Zenon

(* A line is rejected, for an error or for its center words.               *)
LEMMA RejectStep ==
  ASSUME StreamInv, RejectLine \/ RejectArc
  PROVE  StreamInv'
<1>1. /\ at # "returned" /\ pos' = pos /\ limits' = limits /\ cancelAt' = cancelAt
      /\ shown' = Append(shown, Call("rejected", pos)) /\ at' = "returned" /\ returned' = "FALSE"
  BY DEF RejectLine, RejectArc, Reject, Return
<1>2. "rejected" # "message" /\ "rejected" # "diagnostic" /\ "FALSE" # "TRUE" /\ "FALSE" # "not yet"
  OBVIOUS
<1>3. /\ IsSeq(shown') /\ Len(shown') = Len(shown) + 1
      /\ \A k : Count(k, shown') = Count(k, shown) + IF "rejected" = k THEN 1 ELSE 0
      /\ CountFrom(cancelAt + 1, "message", shown') =
           CountFrom(cancelAt + 1, "message", shown) + IF "rejected" = "message" THEN 1 ELSE 0
      /\ HasRejected'
  BY <1>1, OneCall, Zenon
<1>4. LinesInv'
  BY <1>1, <1>2, WhileRunning, OneCall, Zenon
<1>5. ShapeInv'
  BY <1>1, <1>2, <1>3, Numbers, StillWithin, Zenon DEF StreamInv, ShapeInv
<1>6. /\ Count("message", shown') = Count("message", shown)
      /\ Count("diagnostic", shown') = Count("diagnostic", shown)
      /\ CountFrom(cancelAt' + 1, "message", shown') = CountFrom(cancelAt + 1, "message", shown)
  BY <1>1, <1>2, <1>3, Numbers, PlusNothing, Zenon
<1>7. /\ Count("message", shown') <= limits.messages + 1 /\ Count("diagnostic", shown') \in Nat
  BY <1>1, <1>6, WhileRunning, Numbers, AtMost, Zenon
<1>8. CancelHeeded'
  BY <1>1, <1>6, Zenon DEF StreamInv, CancelHeeded
<1>9. ReturnsForAReason'
  BY <1>1, <1>2, <1>3, Zenon DEF ReturnsForAReason
<1>10. QED
  BY <1>1, <1>3, <1>4, <1>5, <1>7, <1>8, <1>9, HasReturned, Zenon

(* A diagnostic is shown, and the limits are looked at.                    *)
LEMMA ShowDiagnosticStep ==
  ASSUME StreamInv, ShowDiagnostic
  PROVE  StreamInv'
<1> DEFINE what == Head(owed)
<1>1. /\ at # "returned" /\ at # "arc diagnostics" /\ pos' = pos /\ limits' = limits
      /\ cancelAt' = cancelAt /\ shown' = Append(shown, Call("diagnostic", what))
  BY DEF ShowDiagnostic
<1>2. "diagnostic" # "message" /\ "diagnostic" # "rejected"
  OBVIOUS
<1> HIDE DEF what
<1>3. /\ IsSeq(shown') /\ Len(shown') = Len(shown) + 1
      /\ \A k : Count(k, shown') = Count(k, shown) + IF "diagnostic" = k THEN 1 ELSE 0
      /\ CountFrom(cancelAt + 1, "message", shown') =
           CountFrom(cancelAt + 1, "message", shown) + IF "diagnostic" = "message" THEN 1 ELSE 0
      /\ HasRejected' <=> HasRejected
  BY <1>1, <1>2, OneCall, Zenon
<1>4. LinesInv' /\ ~HasRejected'
  BY <1>1, <1>2, <1>3, WhileRunning, OneCall, Zenon
<1>5. IsSeq(shown') /\ cancelAt' \in Nat \cup {NotYet} /\ cancelAt' <= Len(shown')
      /\ pos' \in Nat /\ limits' \in Limits
  BY <1>1, <1>3, Numbers, StillWithin, Zenon DEF StreamInv, ShapeInv
<1>6. /\ Count("message", shown') = Count("message", shown)
      /\ Count("diagnostic", shown') = Count("diagnostic", shown) + 1
      /\ CountFrom(cancelAt' + 1, "message", shown') = CountFrom(cancelAt + 1, "message", shown)
  BY <1>1, <1>2, <1>3, Numbers, PlusNothing, Zenon
<1>7. /\ Count("message", shown') \in Nat /\ Count("diagnostic", shown') \in Nat
      /\ Count("message", shown') <= limits.messages /\ pos' <= limits.lines
      /\ Count("diagnostic", shown') <= limits.diagnostics + 1
  BY <1>1, <1>6, WhileRunning, Numbers, Successor, PlusOne, Zenon
<1>8. cancelAt' # NotYet => CountFrom(cancelAt' + 1, "message", shown') = 0
  BY <1>1, <1>6, WhileRunning, Zenon
<1>9. CASE ShouldStop(pos, shown')
  <2>1. at' = "returned" /\ returned' = "FALSE" /\ "FALSE" # "TRUE" /\ "FALSE" # "not yet"
    BY <1>9, Zenon DEF ShowDiagnostic, Return
  <2>2. ShapeInv'
    BY <1>5, <2>1, Zenon DEF ShapeInv
  <2>3. ReturnsForAReason'
    BY <1>1, <1>9, <2>1, Zenon DEF ReturnsForAReason, ShouldStop, Exceeds
  <2>4. CancelHeeded'
    BY <1>8, NoneIsAtMostOne, Zenon DEF CancelHeeded
  <2>5. QED
    BY <1>1, <1>4, <1>7, <2>1, <2>2, <2>3, <2>4, Numbers, AtMost, HasReturned, Zenon
<1>10. CASE ~ShouldStop(pos, shown')
  <2>1. at' = at /\ returned' = returned
    BY <1>10, Zenon DEF ShowDiagnostic, GoTo
  <2>2. returned' = "not yet"
    BY <1>1, <2>1, WhileRunning, Zenon
  <2>3. ShapeInv'
    BY <1>1, <1>5, <2>1, <2>2, Zenon DEF ShapeInv
  <2>4. Count("diagnostic", shown') <= limits.diagnostics
    BY <1>7, <1>10, Numbers, NotMore, Zenon DEF ShouldStop, Exceeds
  <2>5. QED
    BY <1>1, <1>4, <1>7, <1>8, <2>1, <2>2, <2>3, <2>4, RunsOn, Zenon
<1>11. QED
  BY <1>9, <1>10, Zenon

(* A wrong center word is shown; the rejection follows.                    *)
LEMMA ShowArcDiagnosticStep ==
  ASSUME StreamInv, ShowArcDiagnostic
  PROVE  StreamInv'
<1> DEFINE what == Head(owed)
<1>1. /\ at = "arc diagnostics" /\ at' = at /\ pos' = pos /\ limits' = limits
      /\ cancelAt' = cancelAt /\ returned' = returned
      /\ shown' = Append(shown, Call("diagnostic", what))
  BY DEF ShowArcDiagnostic, GoTo
<1>2. "diagnostic" # "message" /\ "diagnostic" # "rejected" /\ at # "returned"
  BY <1>1
<1> HIDE DEF what
<1>3. /\ IsSeq(shown') /\ Len(shown') = Len(shown) + 1
      /\ \A k : Count(k, shown') = Count(k, shown) + IF "diagnostic" = k THEN 1 ELSE 0
      /\ CountFrom(cancelAt + 1, "message", shown') =
           CountFrom(cancelAt + 1, "message", shown) + IF "diagnostic" = "message" THEN 1 ELSE 0
      /\ HasRejected' <=> HasRejected
  BY <1>1, <1>2, OneCall, Zenon
<1>4. LinesInv' /\ ~HasRejected'
  BY <1>1, <1>2, <1>3, WhileRunning, OneCall, Zenon
<1>5. returned' = "not yet"
  BY <1>1, <1>2, WhileRunning, Zenon
<1>6. ShapeInv'
  BY <1>1, <1>2, <1>3, <1>5, Numbers, StillWithin, Zenon DEF StreamInv, ShapeInv
<1>7. /\ Count("message", shown') = Count("message", shown)
      /\ Count("diagnostic", shown') = Count("diagnostic", shown) + 1
      /\ CountFrom(cancelAt' + 1, "message", shown') = CountFrom(cancelAt + 1, "message", shown)
  BY <1>1, <1>2, <1>3, Numbers, PlusNothing, Zenon
<1>8. /\ Count("message", shown') \in Nat /\ Count("diagnostic", shown') \in Nat
      /\ Count("message", shown') <= limits.messages /\ pos' <= limits.lines
  BY <1>1, <1>2, <1>7, WhileRunning, Numbers, Successor, Zenon
<1>9. cancelAt' # NotYet => CountFrom(cancelAt' + 1, "message", shown') = 0
  BY <1>1, <1>2, <1>7, WhileRunning, Zenon
<1>10. QED
  BY <1>1, <1>2, <1>4, <1>5, <1>6, <1>8, <1>9, RunsOn, Zenon

(* A message is shown, and the limits are looked at: if the hook answers   *)
(* true by then, it is the one message after it, and the last.             *)
LEMMA ShowMessageStep ==
  ASSUME StreamInv, ShowMessage
  PROVE  StreamInv'
<1> DEFINE what == MessageOf(Line, pos)
<1>1. /\ at # "returned" /\ at # "arc diagnostics" /\ pos' = pos /\ limits' = limits
      /\ cancelAt' = cancelAt /\ shown' = Append(shown, Call("message", what))
  BY DEF ShowMessage
<1>2. "message" # "diagnostic" /\ "message" # "rejected"
  OBVIOUS
<1>3. what.line = pos
  BY MessageLine
<1> HIDE DEF what
<1>4. /\ IsSeq(shown') /\ Len(shown') = Len(shown) + 1
      /\ \A k : Count(k, shown') = Count(k, shown) + IF "message" = k THEN 1 ELSE 0
      /\ CountFrom(cancelAt + 1, "message", shown') =
           CountFrom(cancelAt + 1, "message", shown) + IF "message" = "message" THEN 1 ELSE 0
      /\ HasRejected' <=> HasRejected
  BY <1>1, <1>2, OneCall, Zenon
<1>5. LinesInv' /\ ~HasRejected'
  BY <1>1, <1>2, <1>3, <1>4, WhileRunning, OneCall, Zenon
<1>6. /\ IsSeq(shown') /\ cancelAt' \in Nat \cup {NotYet} /\ cancelAt' <= Len(shown')
      /\ pos' \in Nat /\ limits' \in Limits
  BY <1>1, <1>4, Numbers, StillWithin, Zenon DEF StreamInv, ShapeInv
<1>7. /\ Count("message", shown') = Count("message", shown) + 1
      /\ Count("diagnostic", shown') = Count("diagnostic", shown)
      /\ CountFrom(cancelAt' + 1, "message", shown') =
           CountFrom(cancelAt + 1, "message", shown) + 1
  BY <1>1, <1>2, <1>4, Numbers, PlusNothing, Zenon
<1>8. /\ Count("message", shown') \in Nat /\ Count("diagnostic", shown') \in Nat
      /\ Count("message", shown') <= limits.messages + 1 /\ pos' <= limits.lines
      /\ Count("diagnostic", shown') <= limits.diagnostics
  BY <1>1, <1>7, WhileRunning, Numbers, Successor, PlusOne, Zenon
<1>9. CASE ShouldStop(pos, shown')
  <2>1. at' = "returned" /\ returned' = "FALSE" /\ "FALSE" # "TRUE" /\ "FALSE" # "not yet"
    BY <1>9, Zenon DEF ShowMessage, Return
  <2>2. ShapeInv'
    BY <1>6, <2>1, Zenon DEF ShapeInv
  <2>3. ReturnsForAReason'
    BY <1>1, <1>9, <2>1, Zenon DEF ReturnsForAReason, ShouldStop, Exceeds
  <2>4. CancelHeeded'
    <3>1. \A c : c = 0 => c + 1 <= 1
      BY OneAfterNone
    <3>2. QED
      BY <1>1, <1>7, <3>1, WhileRunning, Zenon DEF CancelHeeded
  <2>5. QED
    BY <1>1, <1>5, <1>8, <2>1, <2>2, <2>3, <2>4, Numbers, AtMost, HasReturned, Zenon
<1>10. CASE ~ShouldStop(pos, shown')
  <2>1. at' = "line diagnostics" /\ returned' = returned
    BY <1>10, Zenon DEF ShowMessage, GoTo
  <2>2. returned' = "not yet" /\ at' # "returned"
    BY <1>1, <2>1, WhileRunning
  <2>3. ShapeInv'
    BY <1>1, <1>6, <2>1, <2>2, Zenon DEF ShapeInv
  <2>4. Count("message", shown') <= limits.messages
    BY <1>8, <1>10, Numbers, NotMore, Zenon DEF ShouldStop, Exceeds
  <2>5. cancelAt' = NotYet
    BY <1>1, <1>10, Zenon DEF ShouldStop
  <2>6. QED
    BY <1>1, <1>5, <1>8, <2>2, <2>3, <2>4, <2>5, RunsOn, Zenon
<1>11. QED
  BY <1>9, <1>10, Zenon

(* The hook turns true: no message counts yet.                             *)
LEMMA RaiseCancelStep ==
  ASSUME StreamInv, RaiseCancel
  PROVE  StreamInv'
<1>1. /\ at # "returned" /\ at' = at /\ pos' = pos /\ limits' = limits
      /\ cancelAt' = Len(shown) /\ shown' = shown /\ returned' = returned
  BY DEF RaiseCancel
<1>2. /\ Count("message", shown') \in Nat /\ Count("diagnostic", shown') \in Nat
      /\ Count("message", shown') <= limits.messages /\ pos' <= limits.lines
      /\ at' # "arc diagnostics" => Count("diagnostic", shown') <= limits.diagnostics
      /\ returned' = "not yet"
  BY <1>1, Numbers, WhileRunning, Zenon
<1>3. CountFrom(cancelAt' + 1, "message", shown') = 0
  BY <1>1, Numbers, CountBehindEnd, Zenon
<1>4. ~HasRejected' /\ LinesInv'
  BY <1>1, WhileRunning, Zenon DEF HasRejected, LinesInv
<1>5. ShapeInv'
  <2>1. \A n \in Nat : n <= n
    BY AtMostItself
  <2>2. Len(shown) \in Nat \cup {NotYet}
    BY Numbers
  <2>3. QED
    BY <1>1, <1>2, <2>1, <2>2, Numbers, Zenon DEF StreamInv, ShapeInv
<1>6. QED
  BY <1>1, <1>2, <1>3, <1>4, <1>5, RunsOn, Zenon

LEMMA StreamStep ==
  StreamInv /\ [StreamNext]_streamVars => StreamInv'
<1> SUFFICES ASSUME StreamInv, [StreamNext]_streamVars
             PROVE  StreamInv'
  OBVIOUS
<1>1. CASE DiagnosticsShown \/ SkipLine \/ PlaneOnly \/ FindWrongCenters
  <2>1. /\ at # "returned" /\ at # "arc diagnostics" /\ at' # "returned" /\ limits' = limits
        /\ pos' = pos /\ shown' = shown /\ cancelAt' = cancelAt /\ returned' = returned
    BY <1>1 DEF DiagnosticsShown, SkipLine, PlaneOnly, FindWrongCenters, GoTo
  <2>2. QED
    BY <2>1, QuietStep
<1>2. CASE ShowDiagnostic
  BY <1>2, ShowDiagnosticStep
<1>3. CASE BeginLine
  BY <1>3, BeginLineStep
<1>4. CASE EndOfText
  BY <1>4, EndOfTextStep
<1>5. CASE RejectLine \/ RejectArc
  BY <1>5, RejectStep
<1>6. CASE ShowArcDiagnostic
  BY <1>6, ShowArcDiagnosticStep
<1>7. CASE ShowMessage
  BY <1>7, ShowMessageStep
<1>8. CASE RaiseCancel
  BY <1>8, RaiseCancelStep
<1>9. CASE UNCHANGED streamVars
  BY <1>9, Zenon DEF streamVars, StreamInv, ShapeInv, RunningInv, Running, HasRejected,
     ReturnsForAReason, Exceeds, LimitsHeld, CancelHeeded
<1>10. QED
  BY <1>1, <1>2, <1>3, <1>4, <1>5, <1>6, <1>7, <1>8, <1>9, Zenon DEF StreamNext, Lowering

----------------------------------------------------------------------------
(* The theorems.                                                           *)

(* The invariant, for every text and all limits.                           *)
THEOREM StreamAlways == StreamSpec => []StreamInv
<1>1. StreamInit => StreamInv
  BY StreamInitial
<1>2. StreamInv /\ [StreamNext]_streamVars => StreamInv'
  BY StreamStep
<1>3. QED
  BY <1>1, <1>2, PTL DEF StreamSpec

(* FALSE is returned for a rejected line, an exceeded limit or the         *)
(* caller's cancellation and TRUE without the first two, whatever the text *)
(* and the limits (the three return paths of lowerToMessagesStream).       *)
THEOREM AlwaysForAReason == StreamSpec => []ReturnsForAReason
<1>1. StreamInv => ReturnsForAReason
  BY DEF StreamInv
<1>2. QED
  BY <1>1, StreamAlways, PTL

(* A limit is exceeded by one call at most, but for the center words of a  *)
(* rejected arc, and no line behind max_lines makes a message.             *)
THEOREM LimitsAlwaysHeld == StreamSpec => []LimitsHeld
<1>1. StreamInv => LimitsHeld
  BY DEF StreamInv
<1>2. QED
  BY <1>1, StreamAlways, PTL

(* After should_cancel turns true at most one more message is shown,       *)
(* whenever that happens.                                                  *)
THEOREM CancelAlwaysHeeded == StreamSpec => []CancelHeeded
<1>1. StreamInv => CancelHeeded
  BY DEF StreamInv
<1>2. QED
  BY <1>1, StreamAlways, PTL

----------------------------------------------------------------------------
(* What the callbacks were shown, call by call.                            *)

CallLoop == INSTANCE LoopTheorems WITH
  Round <- LAMBDA of, whats, i : OfKind(of[1], of[2], whats, i), First <- LAMBDA of : <<>>

ShownBy(kind, calls, n) == CallLoop!After(<<kind, calls>>, n)

(* What was shown of a kind, call by call.                                 *)
LEMMA ShownWhole == \A kind : Shown(kind) = ShownBy(kind, shown, Len(shown))
BY DEF Shown, ShownBy, CallLoop!After, CallLoop!Loop, Loop

LEMMA ShownByCall ==
  \A kind, calls :
    /\ ShownBy(kind, calls, 0) = <<>>
    /\ \A n \in Nat : ShownBy(kind, calls, n + 1) = OfKind(kind, calls, ShownBy(kind, calls, n), n + 1)
BY CallLoop!LoopStarts, CallLoop!LoopSteps DEF ShownBy

(* Later calls do not change what the earlier ones have shown.             *)
LEMMA ShownBefore ==
  ASSUME NEW kind, NEW calls, IsSeq(calls), NEW c
  PROVE  \A n \in 0 .. Len(calls) :
           /\ ShownBy(kind, Append(calls, c), n) = ShownBy(kind, calls, n)
           /\ IsSeq(ShownBy(kind, calls, n))
<1> DEFINE more == Append(calls, c)
           S == {n \in Nat : n <= Len(calls) =>
                   ShownBy(kind, more, n) = ShownBy(kind, calls, n) /\ IsSeq(ShownBy(kind, calls, n))}
<1>1. 0 \in S
  <2>1. IsSeq(<<>>)
    BY DEF IsSeq
  <2> HIDE DEF more
  <2>2. QED
    BY <2>1, ShownByCall
<1>2. ASSUME NEW n \in Nat, n \in S
      PROVE  n + 1 \in S
  <2> SUFFICES ASSUME n + 1 <= Len(calls)
               PROVE  /\ ShownBy(kind, more, n + 1) = ShownBy(kind, calls, n + 1)
                      /\ IsSeq(ShownBy(kind, calls, n + 1))
    OBVIOUS
  <2>1. more[n + 1] = calls[n + 1] /\ Len(calls) \in Nat
    BY Appended
  <2> HIDE DEF more
  <2>2. ShownBy(kind, more, n) = ShownBy(kind, calls, n) /\ IsSeq(ShownBy(kind, calls, n))
    BY <1>2, <2>1
  <2>3. ShownBy(kind, more, n + 1) = ShownBy(kind, calls, n + 1)
    BY <2>1, <2>2, ShownByCall DEF OfKind
  <2>4. IsSeq(Append(ShownBy(kind, calls, n), calls[n + 1].what))
    BY <2>2, Appended
  <2>5. QED
    BY <2>2, <2>3, <2>4, ShownByCall DEF OfKind
<1>3. Nat \subseteq S
  <2> HIDE DEF S
  <2>1. QED
    BY <1>1, <1>2, SetInduction
<1>4. Len(calls) \in Nat
  BY Appended
<1>5. QED
  BY <1>3, <1>4

ShownIn(kind, calls) == ShownBy(kind, calls, Len(calls))

(* One call more shows what it shows.                                      *)
LEMMA ShownByOneMore ==
  ASSUME NEW kind, NEW calls, IsSeq(calls), NEW c
  PROVE  /\ IsSeq(ShownIn(kind, calls))
         /\ ShownIn(kind, Append(calls, c)) =
              IF c.kind = kind THEN Append(ShownIn(kind, calls), c.what) ELSE ShownIn(kind, calls)
<1>1. Len(calls) \in Nat /\ Len(Append(calls, c)) = Len(calls) + 1 /\ Append(calls, c)[Len(calls) + 1] = c
  BY Appended
<1>2. /\ ShownBy(kind, Append(calls, c), Len(calls)) = ShownIn(kind, calls)
      /\ IsSeq(ShownIn(kind, calls))
  BY <1>1, ShownBefore DEF ShownIn
<1>3. ShownIn(kind, Append(calls, c)) =
        OfKind(kind, Append(calls, c), ShownIn(kind, calls), Len(calls) + 1)
  BY <1>1, <1>2, ShownByCall DEF ShownIn
<1>4. QED
  BY <1>1, <1>2, <1>3 DEF OfKind

----------------------------------------------------------------------------
(* The inductive invariant behind SameAsBatch.  Up to the line it has      *)
(* reached the stream has shown, or still owes, exactly what               *)
(* lowerToMessages has collected there, and works with the same plane; a   *)
(* line that has been begun counts only when it is done.                   *)

Reached == IF at = "line" THEN pos - 1 ELSE pos

AgreesWith(r, calls, owing) ==
  /\ ShownIn("rejected", calls) = <<>> /\ ShownIn("message", calls) = r.messages
  /\ ShownIn("diagnostic", calls) \o owing = r.diagnostics

PlaceInv ==
  /\ text \in Texts /\ pos \in 0 .. Len(text) /\ plane \in 17 .. 19
  /\ IsSeq(shown) /\ owed \in Seq(Diagnostic)
  /\ \A i \in DOMAIN shown : shown[i].kind \in {"message", "diagnostic", "rejected"}
  /\ at \in {"parse diagnostics", "lines", "line", "line diagnostics", "arc diagnostics", "returned"}
  /\ at = "line" => pos # 0
  /\ at = "parse diagnostics" => pos = 0
  /\ at \in {"lines", "line"} => owed = <<>>
  /\ returned \in {"not yet", "TRUE", "FALSE"} /\ (at = "returned" <=> returned # "not yet")

AgreesInv ==
  at # "returned" =>
    /\ AgreesWith(Lowered(text, Reached), shown, owed)
    /\ at = "arc diagnostics" => Lowered(text, Reached).rejected = pos
    /\ at # "arc diagnostics" =>
         Lowered(text, Reached).rejected = NoValue /\ plane = Lowered(text, Reached).plane

BatchInv == PlaceInv /\ AgreesInv /\ SameAsBatch

Same(t, calls, answer) ==
  /\ IsPrefix(ShownIn("message", calls), LowerToMessages(t).messages)
  /\ IsPrefix(ShownIn("diagnostic", calls), LowerToMessages(t).diagnostics)
  /\ answer = "TRUE" \/ ShownIn("rejected", calls) # <<>> =>
       /\ ShownIn("message", calls) = LowerToMessages(t).messages
       /\ ShownIn("diagnostic", calls) = LowerToMessages(t).diagnostics
       /\ ShownIn("rejected", calls) =
            IF LowerToMessages(t).rejected = NoValue THEN <<>> ELSE <<LowerToMessages(t).rejected>>

(* SameAsBatch as a statement about values, not about the state.           *)
LEMMA SameMeaning == SameAsBatch <=> Same(text, shown, returned)
BY ShownWhole DEF SameAsBatch, Same, Batch, ShownIn

LEMMA SameMeaningNext == SameAsBatch' <=> Same(text', shown', returned')
<1>1. SameAsBatch' <=> Same(text, shown, returned)'
  BY SameMeaning, PTL
<1>2. QED
  BY <1>1

(* The result of lowering has sequences of messages and diagnostics.       *)
LEMMA SeqOfResult ==
  ASSUME NEW t, IsText(t), NEW n \in 0 .. Len(t)
  PROVE  /\ IsSeq(Lowered(t, n).messages) /\ IsSeq(Lowered(t, n).diagnostics)
         /\ Lowered(t, n).diagnostics \in Seq(Diagnostic)
         /\ Lowered(t, n).rejected \in {NoValue} \cup 1 .. n
BY LoweredIsResult DEF IsResult, Result, IsSeq

(* While it agrees with some lines, the stream has shown a beginning of    *)
(* what lowerToMessages collects.                                          *)
LEMMA AgreesIsSame ==
  ASSUME NEW t, IsText(t), NEW n \in 0 .. Len(t), NEW calls, IsSeq(calls),
         NEW owing \in Seq(Diagnostic), AgreesWith(Lowered(t, n), calls, owing),
         NEW answer, answer # "TRUE"
  PROVE  Same(t, calls, answer)
<1> DEFINE all == LowerToMessages(t)
           here == Lowered(t, n)
           told == ShownIn("diagnostic", calls)
<1>0. Len(t) \in Nat
  BY DEF IsText
<1>1. /\ all = Lowered(t, Len(t))
      /\ Grows(here, Lowered(t, Len(t)))
  BY <1>0, LoweredWhole, LoweredGrows
<1>2. IsSeq(here.messages) /\ IsSeq(here.diagnostics) /\ IsSeq(all.messages) /\ IsSeq(all.diagnostics)
  BY <1>0, <1>1, SeqOfResult
<1>3. IsPrefix(ShownIn("message", calls), all.messages)
  BY <1>1 DEF Grows, AgreesWith
<1>4. IsSeq(told)
  BY ShownByOneMore
<1>5. IsPrefix(told, told \o owing)
  <2>1. PICK S : told \in Seq(S)
    BY <1>4 DEF IsSeq
  <2>2. told \in Seq(S \cup Diagnostic) /\ owing \in Seq(S \cup Diagnostic)
    BY <2>1, SeqMonotonic
  <2> HIDE DEF told
  <2>3. QED
    BY <2>2, PrefixOfBoth
<1>6. told \o owing = here.diagnostics /\ IsPrefix(here.diagnostics, all.diagnostics)
  BY <1>1 DEF Grows, AgreesWith
<1>7. IsPrefix(told, all.diagnostics)
  <2> HIDE DEF told, here, all
  <2>1. QED
    BY <1>2, <1>4, <1>5, <1>6, PrefixOfPrefix
<1>8. QED
  BY <1>3, <1>7 DEF Same, AgreesWith

(* It has shown all of it at the end of the text, and when it rejects the  *)
(* line that lowerToMessages rejects.                                      *)
LEMMA AgreesAtEnd ==
  ASSUME NEW t, IsText(t), NEW calls, IsSeq(calls), AgreesWith(Lowered(t, Len(t)), calls, <<>>),
         Lowered(t, Len(t)).rejected = NoValue, NEW answer
  PROVE  Same(t, calls, answer)
<1>1. Len(t) \in Nat /\ Len(t) \in 0 .. Len(t)
  BY DEF IsText
<1>2. LowerToMessages(t) = Lowered(t, Len(t))
  BY LoweredWhole
<1>3. ShownIn("diagnostic", calls) = Lowered(t, Len(t)).diagnostics
  BY ShownByOneMore, NothingBehind DEF AgreesWith
<1>4. IsSeq(Lowered(t, Len(t)).messages) /\ IsSeq(Lowered(t, Len(t)).diagnostics)
  BY <1>1, SeqOfResult
<1>5. QED
  BY <1>2, <1>3, <1>4, PrefixOfItself DEF Same, AgreesWith

(* The same when the line is one that lowerToMessages rejects.             *)
LEMMA AgreesAtReject ==
  ASSUME NEW t, IsText(t), NEW n \in 0 .. Len(t), NEW calls, IsSeq(calls),
         AgreesWith(Lowered(t, n), calls, <<>>), Lowered(t, n).rejected # NoValue, NEW answer
  PROVE  Same(t, Append(calls, Call("rejected", Lowered(t, n).rejected)), answer)
<1> DEFINE call == Call("rejected", Lowered(t, n).rejected)
<1>0. Len(t) \in Nat
  BY DEF IsText
<1>1. LowerToMessages(t) = Lowered(t, n)
  BY <1>0, LoweredWhole, LoweredGrows DEF Grows
<1>2. call.kind = "rejected" /\ call.what = Lowered(t, n).rejected
  BY DEF Call
<1> HIDE DEF call
<1>3. /\ ShownIn("message", Append(calls, call)) = ShownIn("message", calls)
      /\ ShownIn("diagnostic", Append(calls, call)) = ShownIn("diagnostic", calls)
      /\ ShownIn("rejected", Append(calls, call)) = Append(ShownIn("rejected", calls), call.what)
  BY <1>2, ShownByOneMore
<1>a. \A x : Append(<<>>, x) = <<x>>
  OBVIOUS
<1>4. ShownIn("rejected", Append(calls, call)) = <<Lowered(t, n).rejected>>
  BY <1>2, <1>3, <1>a DEF AgreesWith
<1>5. ShownIn("diagnostic", calls) = Lowered(t, n).diagnostics
  BY ShownByOneMore, NothingBehind DEF AgreesWith
<1>6. IsSeq(Lowered(t, n).messages) /\ IsSeq(Lowered(t, n).diagnostics)
  BY SeqOfResult
<1>7. Same(t, Append(calls, call), answer)
  BY <1>1, <1>3, <1>4, <1>5, <1>6, PrefixOfItself DEF Same, AgreesWith
<1>8. QED
  BY <1>7 DEF call

----------------------------------------------------------------------------
(* The step, first the places and types.                                   *)

(* What is owed is its head and its tail.                                  *)
LEMMA HeadAndTail ==
  ASSUME NEW S, NEW s \in Seq(S), s # <<>>
  PROVE  Head(s) \in S /\ Tail(s) \in Seq(S) /\ s = <<Head(s)>> \o Tail(s)
OBVIOUS

(* The line the stream has begun is one of the text.                       *)
LEMMA LineOfText ==
  ASSUME PlaceInv
  PROVE  /\ IsText(text) /\ Len(text) \in Nat
         /\ at = "line" => /\ pos \in 1 .. Len(text) /\ Len(Line.words) \in Nat
                           /\ DOMAIN Line.words = 1 .. Len(Line.words)
<1>1. text \in Seq(TextLines)
  BY StreamTextsAssumption DEF PlaceInv
<1>2. IsText(text)
  BY <1>1, LinesMakeText
<1>3. Len(text) \in Nat
  BY <1>2 DEF IsText
<1>a. pos \in 0 .. Len(text) /\ (at = "line" => pos # 0)
  BY DEF PlaceInv
<1>4. at = "line" => pos \in 1 .. Len(text)
  BY <1>3, <1>a
<1>5. pos \in 1 .. Len(text) => Len(Line.words) \in Nat /\ DOMAIN Line.words = 1 .. Len(Line.words)
  BY <1>2 DEF IsText, Line
<1>6. QED
  BY <1>2, <1>3, <1>4, <1>5

Kinds == {"message", "diagnostic", "rejected"}

(* One call more is of one of the three kinds.                             *)
LEMMA KindsShown ==
  ASSUME NEW calls, IsSeq(calls), \A i \in DOMAIN calls : calls[i].kind \in Kinds,
         NEW kind \in Kinds, NEW what
  PROVE  LET more == Append(calls, Call(kind, what)) IN
           IsSeq(more) /\ \A i \in DOMAIN more : more[i].kind \in Kinds
<1> DEFINE call == Call(kind, what)
<1>1. call.kind \in Kinds
  BY DEF Call
<1> HIDE DEF call
<1>2. /\ IsSeq(Append(calls, call)) /\ Len(calls) \in Nat /\ DOMAIN calls = 1 .. Len(calls)
      /\ DOMAIN Append(calls, call) = 1 .. Len(calls) + 1
      /\ \A i \in DOMAIN calls : Append(calls, call)[i] = calls[i]
      /\ Append(calls, call)[Len(calls) + 1] = call
  BY Appended
<1>3. \A i \in DOMAIN Append(calls, call) : Append(calls, call)[i].kind \in Kinds
  <2> TAKE i \in DOMAIN Append(calls, call)
  <2>1. i \in DOMAIN calls \/ i = Len(calls) + 1
    BY <1>2
  <2>2. QED
    BY <1>1, <1>2, <2>1
<1>4. QED
  BY <1>2, <1>3 DEF call

(* The same of the calls made so far.                                      *)
LEMMA CallShown ==
  ASSUME PlaceInv, NEW kind \in {"message", "diagnostic", "rejected"}, NEW what,
         shown' = Append(shown, Call(kind, what))
  PROVE  /\ IsSeq(shown')
         /\ \A i \in DOMAIN shown' : shown'[i].kind \in {"message", "diagnostic", "rejected"}
<1>1. \A calls : IsSeq(calls) /\ (\A i \in DOMAIN calls : calls[i].kind \in Kinds) =>
        /\ IsSeq(Append(calls, Call(kind, what)))
        /\ \A i \in DOMAIN Append(calls, Call(kind, what)) :
             Append(calls, Call(kind, what))[i].kind \in Kinds
  BY KindsShown DEF Kinds
<1>2. QED
  BY <1>1 DEF PlaceInv, Kinds

(* Every step keeps the places and types.                                  *)
LEMMA PlaceStep ==
  ASSUME PlaceInv, StreamNext
  PROVE  PlaceInv'
<1>0. /\ text \in Texts /\ pos \in 0 .. Len(text) /\ plane \in 17 .. 19 /\ owed \in Seq(Diagnostic)
      /\ IsSeq(shown) /\ \A i \in DOMAIN shown : shown[i].kind \in {"message", "diagnostic", "rejected"}
  BY DEF PlaceInv
<1>1. CASE ShowDiagnostic \/ ShowArcDiagnostic
  <2>1. shown' = Append(shown, Call("diagnostic", Head(owed))) /\ owed' = Tail(owed) /\ owed # <<>>
    BY <1>1 DEF ShowDiagnostic, ShowArcDiagnostic
  <2>2. owed' \in Seq(Diagnostic)
    BY <1>0, <2>1, HeadAndTail
  <2>3. /\ IsSeq(shown')
        /\ \A i \in DOMAIN shown' : shown'[i].kind \in {"message", "diagnostic", "rejected"}
    BY <2>1, CallShown
  <2>4. QED
    BY <1>1, <2>2, <2>3 DEF PlaceInv, ShowDiagnostic, ShowArcDiagnostic, Return, GoTo
<1>2. CASE DiagnosticsShown \/ EndOfText \/ SkipLine \/ RaiseCancel
  BY <1>2 DEF PlaceInv, DiagnosticsShown, EndOfText, SkipLine, RaiseCancel, Return, GoTo
<1>3. CASE BeginLine
  <2>1. pos' \in 0 .. Len(text) /\ pos' # 0
    BY <1>0, <1>3, LineOfText DEF BeginLine, MoreLines
  <2>2. QED
    BY <1>3, <2>1 DEF PlaceInv, BeginLine, Return, GoTo
<1>4. CASE RejectLine \/ RejectArc
  <2>1. shown' = Append(shown, Call("rejected", pos))
    BY <1>4 DEF RejectLine, RejectArc, Reject
  <2>2. /\ IsSeq(shown')
        /\ \A i \in DOMAIN shown' : shown'[i].kind \in {"message", "diagnostic", "rejected"}
    BY <2>1, CallShown
  <2>3. QED
    BY <1>4, <2>2 DEF PlaceInv, RejectLine, RejectArc, Reject, Return
<1>5. CASE PlaneOnly \/ FindWrongCenters \/ ShowMessage
  <2>1. at = "line"
    BY <1>5 DEF PlaneOnly, FindWrongCenters, ShowMessage
  <2>2. Plane \in 17 .. 19 /\ pos \in Nat \ {0}
    BY <1>0, <2>1, LineOfText, PlaneStaysPlane DEF Plane
  <2>3. Wrong \in Seq(Diagnostic) /\ LoweringDiagnostics(Line, pos) \in Seq(Diagnostic)
    BY <2>1, <2>2, LineOfText, PlaneErrors, ArcWarnings DEF Wrong
  <2>4. CASE PlaneOnly
    BY <2>2, <2>4 DEF PlaceInv, PlaneOnly, TakesPlane, GoTo
  <2>5. CASE FindWrongCenters
    BY <2>3, <2>5 DEF PlaceInv, FindWrongCenters, GoTo
  <2>6. CASE ShowMessage
    <3>1. /\ IsSeq(shown')
          /\ \A i \in DOMAIN shown' : shown'[i].kind \in {"message", "diagnostic", "rejected"}
      BY <2>6, CallShown DEF ShowMessage
    <3>2. QED
      BY <2>2, <2>3, <2>6, <3>1 DEF PlaceInv, ShowMessage, TakesPlane, Return, GoTo
  <2>7. QED
    BY <1>5, <2>4, <2>5, <2>6
<1>6. QED
  BY <1>1, <1>2, <1>3, <1>4, <1>5 DEF StreamNext, Lowering

----------------------------------------------------------------------------
(* The step, now what was shown.                                           *)

(* A diagnostic shown is one diagnostic less that is owed.                 *)
LEMMA DiagnosticCall ==
  ASSUME NEW r, NEW calls, IsSeq(calls), NEW owing \in Seq(Diagnostic), owing # <<>>,
         AgreesWith(r, calls, owing)
  PROVE  AgreesWith(r, Append(calls, Call("diagnostic", Head(owing))), Tail(owing))
<1> DEFINE call == Call("diagnostic", Head(owing))
           told == ShownIn("diagnostic", calls)
<1>1. call.kind = "diagnostic" /\ call.what = Head(owing)
  BY DEF Call
<1> HIDE DEF call
<1>2. /\ ShownIn("message", Append(calls, call)) = ShownIn("message", calls)
      /\ ShownIn("rejected", Append(calls, call)) = ShownIn("rejected", calls)
      /\ ShownIn("diagnostic", Append(calls, call)) = Append(told, Head(owing))
      /\ IsSeq(told)
  BY <1>1, ShownByOneMore
<1>3. Append(told, Head(owing)) \o Tail(owing) = told \o owing
  <2>1. PICK S : told \in Seq(S)
    BY <1>2 DEF IsSeq
  <2>2. told \in Seq(S \cup Diagnostic) /\ owing \in Seq(S \cup Diagnostic)
    BY <2>1, SeqMonotonic
  <2> HIDE DEF told
  <2>3. Head(owing) \in S \cup Diagnostic /\ Tail(owing) \in Seq(S \cup Diagnostic)
    BY <2>2, HeadAndTail
  <2>4. QED
    BY <2>2, <2>3
<1>4. QED
  BY <1>2, <1>3 DEF AgreesWith, call

(* A message shown is the message of the line.                             *)
LEMMA MessageCall ==
  ASSUME NEW r, NEW calls, IsSeq(calls), AgreesWith(r, calls, <<>>), NEW m, NEW warned,
         NEW next, next.messages = Append(r.messages, m), next.diagnostics = r.diagnostics \o warned
  PROVE  AgreesWith(next, Append(calls, Call("message", m)), warned)
<1> DEFINE call == Call("message", m)
<1>1. call.kind = "message" /\ call.what = m
  BY DEF Call
<1> HIDE DEF call
<1>2. /\ ShownIn("message", Append(calls, call)) = Append(ShownIn("message", calls), m)
      /\ ShownIn("rejected", Append(calls, call)) = ShownIn("rejected", calls)
      /\ ShownIn("diagnostic", Append(calls, call)) = ShownIn("diagnostic", calls)
  BY <1>1, ShownByOneMore
<1>3. ShownIn("diagnostic", calls) = r.diagnostics
  BY ShownByOneMore, NothingBehind DEF AgreesWith
<1>4. QED
  BY <1>2, <1>3 DEF AgreesWith, call

(* The line the stream has begun, done as lowerToMessages does it.         *)
LEMMA LineDone ==
  ASSUME PlaceInv, AgreesInv, at = "line"
  PROVE  LET r == Lowered(text, pos - 1) IN
           /\ IsResult(text, r, pos - 1) /\ Lowered(text, pos) = LowerLine(text, r, pos)
           /\ r = [plane |-> r.plane, messages |-> r.messages, diagnostics |-> r.diagnostics,
                   rejected |-> r.rejected]
           /\ r.rejected = NoValue /\ plane = r.plane /\ AgreesWith(r, shown, <<>>)
           /\ Rejectable <=> ~Skipped(Line) /\ pos \in FaultyLines(text)
           /\ Plane = PlaneAt(text, r, pos) /\ Wrong = WrongAt(text, r, pos)
<1>1. IsText(text) /\ Len(text) \in Nat /\ pos \in 1 .. Len(text)
  BY LineOfText
<1>2. pos - 1 \in Nat /\ pos - 1 \in 0 .. Len(text) /\ (pos - 1) + 1 = pos
  BY <1>1
<1>3. IsResult(text, Lowered(text, pos - 1), pos - 1)
  BY <1>1, <1>2, LoweredIsResult
<1>4. Lowered(text, pos) = LowerLine(text, Lowered(text, pos - 1), pos)
  <2>1. Lowered(text, (pos - 1) + 1) = LowerLine(text, Lowered(text, pos - 1), (pos - 1) + 1)
    BY <1>2, LoweredByLine
  <2>2. QED
    BY <1>2, <2>1
<1>5. Reached = pos - 1 /\ owed = <<>>
  BY DEF Reached, PlaceInv
<1>6. /\ Lowered(text, pos - 1).rejected = NoValue /\ plane = Lowered(text, pos - 1).plane
      /\ AgreesWith(Lowered(text, pos - 1), shown, <<>>)
  BY <1>5 DEF AgreesInv
<1>7. Rejectable <=> ~Skipped(Line) /\ pos \in FaultyLines(text)
  BY ErrorIsLine, Zenon DEF Rejectable, FaultyLines
<1>8. Plane = PlaneAt(text, Lowered(text, pos - 1), pos)
  BY <1>6 DEF Plane, PlaneAt, Line
<1>9. Wrong = WrongAt(text, Lowered(text, pos - 1), pos)
  BY <1>8 DEF Wrong, WrongAt, Line
<1>10. Lowered(text, pos - 1) \in Result(text, pos - 1)
  BY <1>3 DEF IsResult
<1>11. \A r \in Result(text, pos - 1) :
         r = [plane |-> r.plane, messages |-> r.messages, diagnostics |-> r.diagnostics,
              rejected |-> r.rejected]
  BY DEF Result
<1>12. QED
  BY <1>3, <1>4, <1>6, <1>7, <1>8, <1>9, <1>10, <1>11, Zenon

(* A state that agrees with some line satisfies the invariant, if it has   *)
(* not returned TRUE.                                                      *)
LEMMA GoesOn ==
  ASSUME PlaceInv', text' = text, NEW n \in 0 .. Len(text),
         AgreesWith(Lowered(text, n), shown', owed'), returned' # "TRUE",
         at' # "returned" =>
           /\ n = Reached'
           /\ at' = "arc diagnostics" => Lowered(text, n).rejected = pos'
           /\ at' # "arc diagnostics" =>
                Lowered(text, n).rejected = NoValue /\ plane' = Lowered(text, n).plane
  PROVE  BatchInv'
<1>1. IsText(text) /\ IsSeq(shown') /\ owed' \in Seq(Diagnostic)
  <2>1. text \in Seq(TextLines)
    BY StreamTextsAssumption DEF PlaceInv
  <2>2. QED
    BY <2>1, LinesMakeText DEF PlaceInv
<1>2. Same(text', shown', returned')
  BY <1>1, AgreesIsSame
<1>3. AgreesInv'
  BY DEF AgreesInv
<1>4. QED
  BY <1>2, <1>3, SameMeaningNext DEF BatchInv

(* Every step keeps the agreement with the batch lowering.                 *)
LEMMA BatchStep == BatchInv /\ StreamNext => BatchInv'
<1> SUFFICES ASSUME BatchInv, StreamNext
             PROVE  BatchInv'
  OBVIOUS
<1>1. PlaceInv /\ AgreesInv /\ SameAsBatch
  BY DEF BatchInv
<1>2. PlaceInv'
  BY <1>1, PlaceStep
<1>3. IsText(text) /\ Len(text) \in Nat /\ IsSeq(shown) /\ owed \in Seq(Diagnostic) /\ pos \in 0 .. Len(text)
  BY <1>1, LineOfText DEF PlaceInv
<1>4. CASE ShowDiagnostic \/ ShowArcDiagnostic
  <2>1. /\ shown' = Append(shown, Call("diagnostic", Head(owed))) /\ owed' = Tail(owed) /\ owed # <<>>
        /\ text' = text /\ pos' = pos /\ plane' = plane /\ at # "line" /\ at # "returned"
        /\ (at' = at /\ returned' = returned) \/ (at' = "returned" /\ returned' = "FALSE")
    BY <1>4 DEF ShowDiagnostic, ShowArcDiagnostic, Return, GoTo
  <2>2. returned = "not yet"
    BY <1>1, <2>1 DEF PlaceInv
  <2>3. Reached = pos /\ AgreesWith(Lowered(text, pos), shown, owed)
    BY <1>1, <2>1 DEF Reached, AgreesInv
  <2>4. AgreesWith(Lowered(text, pos), shown', owed')
    BY <1>3, <2>1, <2>3, DiagnosticCall
  <2>5. at' # "returned" =>
          /\ pos = Reached'
          /\ at' = "arc diagnostics" => Lowered(text, pos).rejected = pos'
          /\ at' # "arc diagnostics" =>
               Lowered(text, pos).rejected = NoValue /\ plane' = Lowered(text, pos).plane
    BY <1>1, <2>1, <2>3 DEF AgreesInv, Reached
  <2>6. QED
    BY <1>2, <1>3, <2>1, <2>2, <2>4, <2>5, GoesOn
<1>5. CASE DiagnosticsShown \/ RaiseCancel
  <2>1. /\ shown' = shown /\ owed' = owed /\ text' = text /\ pos' = pos /\ plane' = plane
        /\ returned' = returned /\ at # "returned"
        /\ at' = at \/ (at \in {"parse diagnostics", "line diagnostics"} /\ at' = "lines")
    BY <1>5 DEF DiagnosticsShown, RaiseCancel, GoTo
  <2>2. returned = "not yet"
    BY <1>1, <2>1 DEF PlaceInv
  <2>3. Reached' = Reached
    BY <2>1 DEF Reached
  <2>4. AgreesInv'
    BY <1>1, <2>1, <2>3 DEF AgreesInv
  <2>5. SameAsBatch'
    BY <1>1, <2>1, SameMeaning, SameMeaningNext
  <2>6. QED
    BY <1>2, <2>4, <2>5 DEF BatchInv
<1>6. CASE BeginLine
  <2>1. /\ at = "lines" /\ pos' = pos + 1 /\ shown' = shown /\ owed' = owed /\ text' = text /\ plane' = plane
        /\ (at' = "line" /\ returned' = returned) \/ (at' = "returned" /\ returned' = "FALSE")
    BY <1>6 DEF BeginLine, Return, GoTo
  <2>2. returned = "not yet"
    BY <1>1, <2>1 DEF PlaceInv
  <2>3. /\ AgreesWith(Lowered(text, pos), shown', owed')
        /\ Lowered(text, pos).rejected = NoValue /\ plane' = Lowered(text, pos).plane
    BY <1>1, <2>1 DEF Reached, AgreesInv
  <2>a. pos' - 1 = pos
    BY <1>3, <2>1
  <2>4. at' # "returned" => pos = Reached' /\ at' # "arc diagnostics"
    BY <2>1, <2>a DEF Reached
  <2>5. QED
    BY <1>2, <1>3, <2>1, <2>2, <2>3, <2>4, GoesOn
<1>7. CASE EndOfText
  <2>1. at = "lines" /\ pos = Len(text) /\ at' = "returned" /\ shown' = shown /\ text' = text
    BY <1>3, <1>7 DEF EndOfText, MoreLines, Return
  <2>2. owed = <<>>
    BY <1>1, <2>1 DEF PlaceInv
  <2>3. AgreesWith(Lowered(text, Len(text)), shown, <<>>) /\ Lowered(text, Len(text)).rejected = NoValue
    BY <1>1, <2>1, <2>2 DEF Reached, AgreesInv
  <2>4. Same(text', shown', returned')
    BY <1>3, <2>1, <2>3, AgreesAtEnd
  <2>5. QED
    BY <1>2, <2>1, <2>4, SameMeaningNext DEF BatchInv, AgreesInv
<1>8. CASE RejectArc
  <2>1. /\ at = "arc diagnostics" /\ owed = <<>> /\ shown' = Append(shown, Call("rejected", pos))
        /\ at' = "returned" /\ text' = text
    BY <1>8 DEF RejectArc, Reject, Return
  <2>2. AgreesWith(Lowered(text, pos), shown, <<>>) /\ Lowered(text, pos).rejected = pos
    BY <1>1, <2>1 DEF Reached, AgreesInv
  <2>3. pos # NoValue
    BY <1>3 DEF NoValue
  <2>4. Same(text', shown', returned')
    BY <1>3, <2>1, <2>2, <2>3, AgreesAtReject
  <2>5. QED
    BY <1>2, <2>1, <2>4, SameMeaningNext DEF BatchInv, AgreesInv
<1>9. CASE SkipLine \/ RejectLine \/ PlaneOnly \/ FindWrongCenters \/ ShowMessage
  <2> DEFINE r == Lowered(text, pos - 1)
             next == Lowered(text, pos)
  <2>1. at = "line" /\ text' = text /\ pos' = pos
    BY <1>9 DEF SkipLine, RejectLine, PlaneOnly, FindWrongCenters, ShowMessage
  <2>2. /\ IsResult(text, r, pos - 1) /\ next = LowerLine(text, r, pos)
        /\ r = [plane |-> r.plane, messages |-> r.messages, diagnostics |-> r.diagnostics,
                rejected |-> r.rejected]
        /\ r.rejected = NoValue /\ plane = r.plane /\ AgreesWith(r, shown, <<>>)
        /\ Rejectable <=> ~Skipped(Line) /\ pos \in FaultyLines(text)
        /\ Plane = PlaneAt(text, r, pos) /\ Wrong = WrongAt(text, r, pos)
    BY <1>1, <2>1, LineDone, Zenon
  <2>3. pos \in Nat /\ pos # NoValue /\ Line = text[pos]
    BY <1>3 DEF NoValue, Line
  <2>a. owed = <<>> /\ returned = "not yet"
    BY <1>1, <2>1 DEF PlaceInv
  <2> HIDE DEF r, next
  <2>4. CASE SkipLine
    <3>1. /\ Skipped(Line) /\ at' = "lines" /\ shown' = shown /\ owed' = owed /\ plane' = plane
          /\ returned' = returned
      BY <2>4 DEF SkipLine, GoTo
    <3>2. next = r
      BY <2>2, <2>3, <3>1, PassedOver
    <3>3. Reached' = pos
      BY <2>1, <3>1 DEF Reached
    <3>4. AgreesWith(next, shown', owed') /\ next.rejected = NoValue /\ plane' = next.plane
      BY <2>2, <2>a, <3>1, <3>2
    <3>5. QED
      BY <1>2, <1>3, <2>1, <2>a, <3>1, <3>3, <3>4, GoesOn DEF next
  <2>5. CASE RejectLine
    <3>1. /\ Rejectable /\ at' = "returned" /\ shown' = Append(shown, Call("rejected", pos))
      BY <2>5 DEF RejectLine, Reject, Return
    <3>2. next = [r EXCEPT !.rejected = pos]
      BY <2>2, <2>3, <3>1, Rejected
    <3>3. next.rejected = pos /\ next.messages = r.messages /\ next.diagnostics = r.diagnostics
      BY <2>2, <3>2
    <3>4. AgreesWith(next, shown, <<>>)
      BY <2>2, <3>3 DEF AgreesWith
    <3>5. Same(text', shown', returned')
      BY <1>3, <2>1, <2>3, <3>1, <3>3, <3>4, AgreesAtReject DEF next
    <3>6. QED
      BY <1>2, <3>1, <3>5, SameMeaningNext DEF BatchInv, AgreesInv
  <2>6. CASE PlaneOnly
    <3>1. /\ ~Skipped(Line) /\ ~Rejectable /\ MotionOf(Line.words) = NoValue /\ at' = "lines"
          /\ plane' = Plane /\ shown' = shown /\ owed' = owed /\ returned' = returned
      BY <2>6 DEF PlaneOnly, HasMotion, TakesPlane, GoTo
    <3>2. next = [r EXCEPT !.plane = PlaneAt(text, r, pos)]
      BY <2>2, <2>3, <3>1, SetsPlane
    <3>3. /\ next.rejected = NoValue /\ next.messages = r.messages /\ next.diagnostics = r.diagnostics
          /\ next.plane = Plane
      BY <2>2, <3>2
    <3>4. AgreesWith(next, shown', owed')
      BY <2>2, <2>a, <3>1, <3>3 DEF AgreesWith
    <3>5. Reached' = pos
      BY <2>1, <3>1 DEF Reached
    <3>6. QED
      BY <1>2, <1>3, <2>1, <2>a, <3>1, <3>3, <3>4, <3>5, GoesOn DEF next
  <2>7. CASE FindWrongCenters
    <3>1. /\ ~Skipped(Line) /\ ~Rejectable /\ MotionOf(Line.words) # NoValue /\ Wrong # <<>>
          /\ at' = "arc diagnostics" /\ owed' = Wrong /\ shown' = shown /\ returned' = returned
      BY <2>7 DEF FindWrongCenters, HasMotion, GoTo
    <3>2. next = [r EXCEPT !.rejected = pos, !.diagnostics = @ \o WrongAt(text, r, pos)]
      BY <2>2, <2>3, <3>1, RejectsArc
    <3>3. /\ next.rejected = pos /\ next.messages = r.messages
          /\ next.diagnostics = r.diagnostics \o Wrong
      BY <2>2, <3>2
    <3>4. ShownIn("diagnostic", shown) = r.diagnostics
      BY <1>3, <2>2, ShownByOneMore, NothingBehind DEF AgreesWith
    <3>5. AgreesWith(next, shown', owed')
      BY <2>2, <3>1, <3>3, <3>4 DEF AgreesWith
    <3>6. Reached' = pos
      BY <2>1, <3>1 DEF Reached
    <3>7. QED
      BY <1>2, <1>3, <2>1, <2>a, <3>1, <3>3, <3>5, <3>6, GoesOn DEF next
  <2>8. CASE ShowMessage
    <3>1. /\ ~Skipped(Line) /\ ~Rejectable /\ MotionOf(Line.words) # NoValue /\ Wrong = <<>>
          /\ shown' = Append(shown, Call("message", MessageOf(Line, pos)))
          /\ owed' = LoweringDiagnostics(Line, pos) /\ plane' = Plane
          /\ \/ at' = "line diagnostics" /\ returned' = returned
             \/ at' = "returned" /\ returned' = "FALSE"
      BY <2>8 DEF ShowMessage, HasMotion, TakesPlane, Return, GoTo
    <3>a. ~Skipped(text[pos]) /\ pos \notin FaultyLines(text)
      BY <2>2, <2>3, <3>1
    <3>b. MotionOf(text[pos].words) # NoValue /\ WrongAt(text, r, pos) = <<>>
      BY <2>2, <2>3, <3>1
    <3>2. next = [r EXCEPT !.plane = PlaneAt(text, r, pos), !.messages = Append(@, MessageOf(text[pos], pos)),
                           !.diagnostics = @ \o LoweringDiagnostics(text[pos], pos)]
      BY <2>2, <3>a, <3>b, GivesMessage
    <3>3. /\ next.rejected = NoValue /\ next.plane = Plane
          /\ next.messages = Append(r.messages, MessageOf(Line, pos))
          /\ next.diagnostics = r.diagnostics \o LoweringDiagnostics(Line, pos)
      BY <2>2, <2>3, <3>2
    <3>4. AgreesWith(next, shown', owed')
      BY <1>3, <2>2, <3>1, <3>3, MessageCall
    <3>5. at' # "returned" => Reached' = pos
      BY <2>1, <3>1 DEF Reached
    <3>6. QED
      BY <1>2, <1>3, <2>1, <2>a, <3>1, <3>3, <3>4, <3>5, GoesOn DEF next
  <2>9. QED
    BY <1>9, <2>4, <2>5, <2>6, <2>7, <2>8
<1>10. QED
  BY <1>4, <1>5, <1>6, <1>7, <1>8, <1>9 DEF StreamNext, Lowering

(* It holds in the beginning: nothing is shown, all is owed.               *)
LEMMA BatchInitial == StreamInit => BatchInv
<1> SUFFICES ASSUME StreamInit
             PROVE  BatchInv
  OBVIOUS
<1>1. at = "parse diagnostics" /\ pos = 0 /\ plane = 17 /\ returned = "not yet"
  BY DEF StreamInit
<1>t. text \in Texts
  BY DEF StreamInit
<1>o. owed = ParseDiagnostics(text)
  BY DEF StreamInit
<1>e. shown = <<>>
  BY DEF StreamInit
<1>2. IsText(text) /\ Len(text) \in Nat
  BY <1>t, LinesMakeText, StreamTextsAssumption DEF IsText
<1>3. owed \in Seq(Diagnostic)
  BY <1>o, <1>2, ParseErrors
<1>4. IsSeq(shown) /\ Len(shown) = 0 /\ DOMAIN shown = {}
  <2>1. <<>> \in Seq({}) /\ Len(<<>>) = 0 /\ DOMAIN <<>> = {}
    OBVIOUS
  <2>2. QED
    BY <1>e, <2>1 DEF IsSeq
<1>b. pos \in 0 .. Len(text) /\ plane \in 17 .. 19
  <2>1. pos = 0 /\ plane = 17 /\ Len(text) \in Nat
    BY <1>1, <1>2
  <2>2. QED
    BY <2>1
<1>c. /\ at \in {"parse diagnostics", "lines", "line", "line diagnostics", "arc diagnostics", "returned"}
      /\ at # "line" /\ at # "lines" /\ at # "returned" /\ returned = "not yet"
  BY <1>1
<1>d. \A i \in DOMAIN shown : shown[i].kind \in {"message", "diagnostic", "rejected"}
  BY <1>4
<1>5. PlaceInv
  <2>1. at = "line" => pos # 0
    BY <1>c
  <2>2. at = "parse diagnostics" => pos = 0
    BY <1>1
  <2>3. at \in {"lines", "line"} => owed = <<>>
    BY <1>c
  <2>4. returned \in {"not yet", "TRUE", "FALSE"} /\ (at = "returned" <=> returned # "not yet")
    BY <1>c
  <2>5. QED
    BY <1>t, <1>b, <1>c, <1>d, <1>3, <1>4, <2>1, <2>2, <2>3, <2>4, Zenon DEF PlaceInv
<1>6. \A kind : ShownIn(kind, shown) = <<>>
  BY <1>4, ShownByCall DEF ShownIn
<1>7. Reached = 0 /\ Lowered(text, 0) = Unlowered(text)
  BY <1>1, LoweredByLine DEF Reached
<1>8. <<>> \o owed = owed
  BY <1>3
<1>a. Unlowered(text).messages = <<>> /\ Unlowered(text).diagnostics = owed
  BY <1>o DEF Unlowered
<1>9. AgreesWith(Lowered(text, 0), shown, owed)
  BY <1>6, <1>7, <1>8, <1>a DEF AgreesWith
<1>10. AgreesInv
  <2>1. Unlowered(text).rejected = NoValue /\ plane = Unlowered(text).plane
    BY <1>1 DEF Unlowered
  <2>2. at # "arc diagnostics"
    BY <1>1
  <2>3. QED
    BY <1>7, <1>9, <2>1, <2>2, Zenon DEF AgreesInv
<1>11. Same(text, shown, returned)
  <2>1. 0 \in 0 .. Len(text)
    BY <1>2
  <2>3. returned # "TRUE"
    BY <1>1
  <2>2. QED
    BY <1>2, <1>3, <1>4, <1>9, <2>1, <2>3, AgreesIsSame
<1>12. QED
  BY <1>5, <1>10, <1>11, SameMeaning DEF BatchInv

(* The invariant that ties lowerToMessagesStream to lowerToMessages: what  *)
(* was shown, with what is still owed, is what the lines so far give.      *)
THEOREM BatchAlways == StreamSpec => []BatchInv
<1>1. StreamInit => BatchInv
  BY BatchInitial
<1>2. BatchInv /\ [StreamNext]_streamVars => BatchInv'
  <2> SUFFICES ASSUME BatchInv, [StreamNext]_streamVars
               PROVE  BatchInv'
    OBVIOUS
  <2>1. CASE StreamNext
    BY <2>1, BatchStep
  <2>2. CASE UNCHANGED streamVars
    <3>1. PlaceInv' /\ AgreesInv'
      BY <2>2 DEF BatchInv, PlaceInv, AgreesInv, Reached, streamVars
    <3>2. SameAsBatch'
      BY <2>2, SameMeaning, SameMeaningNext DEF BatchInv, streamVars
    <3>3. QED
      BY <3>1, <3>2 DEF BatchInv
  <2>3. QED
    BY <2>1, <2>2
<1>3. QED
  BY <1>1, <1>2, PTL DEF StreamSpec

(* For every text, of any length, all limits and a cancellation at any     *)
(* time: the two copies of the lowering loop in src/src/messages.cpp do    *)
(* the same.  What lowerToMessagesStream has shown is a beginning of what  *)
(* lowerToMessages collects, and all of it when it returns TRUE or rejects *)
(* a line, which is the line lowerToMessages rejects.                      *)
THEOREM StreamIsBatch == StreamSpec => []SameAsBatch
<1>1. BatchInv => SameAsBatch
  BY DEF BatchInv
<1>2. QED
  BY <1>1, BatchAlways, PTL

(* The types of the variables of lowerToMessagesStream, the plane and the  *)
(* line it is at among them, for every text.                               *)
THEOREM StreamTypesKept == StreamSpec => []StreamTypeOK
<1>1. StreamInv /\ BatchInv => StreamTypeOK
  <2> SUFFICES ASSUME StreamInv, BatchInv
               PROVE  StreamTypeOK
    OBVIOUS
  <2>1. PlaceInv /\ limits \in Limits /\ Len(shown) \in Nat
    BY Numbers DEF BatchInv
  <2>a. cancelAt \in Nat \cup {NotYet} /\ cancelAt <= Len(shown)
    BY DEF StreamInv, ShapeInv
  <2>2. cancelAt \in {NotYet} \cup 0 .. Len(shown)
    BY <2>1, <2>a DEF NotYet
  <2>3. QED
    BY <2>1, <2>2 DEF PlaceInv, StreamTypeOK
<1>2. QED
  BY <1>1, StreamAlways, BatchAlways, PTL
=============================================================================
