----------------------- MODULE ExecutionSessionProofs -----------------------
(***************************************************************************)
(* The session for every client: the boundary between locked and editable  *)
(* lines, and the types of its variables.                                  *)
(*                                                                         *)
(* That the boundary holds when the engine rejects a line rests on what    *)
(* the engine may reject: a line of its buffer (LoweringOfLines), which is *)
(* the suffix, numbered on from the prefix (EngineSound).  The first part  *)
(* shows that a step of the engine works on the suffix or answers in one   *)
(* of four ways; the second what the session makes of each answer, and     *)
(* that the calls of its client keep buffer and suffix together.           *)
(*                                                                         *)
(* The boundary is lost with the engine's buffer, once a wait was answered *)
(* out of turn; the types are not.  The third part takes the engine's own  *)
(* invariant along (SessionInv) and shows that the session's state says of *)
(* the engine's what it must.                                              *)
(***************************************************************************)
EXTENDS ExecutionSession, StreamingEngineProofs

----------------------------------------------------------------------------
(* The invariant, as long as nothing was waited for.                       *)

(* Line n of the client's program is in the suffix and may be rejected.    *)
RejectedAt(n) ==
  n \in Len(locked) + 1 .. Len(locked) + Len(editable) /\ MayReject(source[n])

(* What a new engine is given to run.                                      *)
Numbered == [k \in DOMAIN editable |-> [line |-> Len(locked) + k, src |-> editable[k]]]

LinesSound ==
  /\ locked \in Seq(SourceLines) /\ editable \in Seq(SourceLines)
  /\ text \in Texts /\ fed \in 0 .. Len(text) /\ inFlight \in Nat
  /\ locked \o editable = source
  /\ sstate = "Rejected" => RejectedAt(srejected) /\ Len(locked) = srejected - 1

(* While a call runs the engine has the suffix before it, or nothing more; *)
(* when it says that it is ready there is nothing more.                    *)
EngineSound ==
  /\ ~dirty => pending \in {<<>>, Numbered}
  /\ estate \in {"ReadyToExecute", "Completed"} => pending = <<>> /\ ~hasExecutor
  /\ hasExecutor => deferred = NoLine \/ RejectedAt(deferred)

CallSound ==
  /\ calling \in {"idle", "pumping", "advancing"}
  /\ calling # "idle" => ~dirty /\ sstate \notin {"Rejected", "Faulted", "Cancelled"}
  /\ calling = "advancing" => hasExecutor
  /\ estate # "Blocked" /\ sstate # "Blocked"
  /\ estate = "Rejected" => sstate = "Rejected"

Sound == LinesSound /\ EngineSound /\ CallSound

(* The runtime works only on what it has issued.                           *)
WaitsIssued == issued \in Nat /\ (issued = 0 => outstanding = {})

BoundaryInv == WaitsIssued /\ (Undisturbed => Sound)

----------------------------------------------------------------------------
(* What a step of the engine does, seen from the session.                  *)

(* It goes on, with the executor ...                                       *)
EngineWorks ==
  /\ calling' = "advancing" /\ hasExecutor' /\ pending' = pending
  /\ estate' = estate /\ estate' \notin {"ReadyToExecute", "Completed"}
  /\ deferred' = NoLine \/ RejectedAt(deferred')

(* ... or returns: a line of the suffix is rejected, it has stopped, it    *)
(* has nothing left to run, or the executor waits without a token.         *)
ReturnsRejected ==
  /\ result' = "Rejected" /\ estate' = "Rejected" /\ RejectedAt(rejected')
  /\ ~hasExecutor' /\ pending' \in {pending, <<>>}

ReturnsStopped ==
  /\ result' \in {"Faulted", "Cancelled"} /\ estate' = result' /\ pending' = pending
  /\ hasExecutor' => hasExecutor /\ deferred' = deferred

ReturnsAtRest ==
  /\ result' \in {"Progress", "Completed"} /\ estate' \in {"ReadyToExecute", "Completed"}
  /\ ~hasExecutor' /\ pending' = <<>>

ReturnsPolling ==
  /\ result' = "Progress" /\ estate' = estate /\ pending' = pending /\ deferred' = deferred
  /\ hasExecutor /\ hasExecutor'

EngineReturns ==
  /\ calling' = "idle"
  /\ ReturnsRejected \/ ReturnsStopped \/ ReturnsAtRest \/ ReturnsPolling

EngineAnswers == UNCHANGED <<text, fed>> /\ (EngineWorks \/ EngineReturns)

(* What is rejected of the buffered lines is a line of the suffix.         *)
LEMMA SuffixTyped ==
  ASSUME locked \in Seq(SourceLines), NEW suffix \in Seq(SourceLines)
  PROVE  [k \in DOMAIN suffix |-> [line |-> Len(locked) + k, src |-> suffix[k]]]
           \in Seq(PendingLine)
<1> DEFINE numbered(k) == [line |-> Len(locked) + k, src |-> suffix[k]]
<1>1. DOMAIN suffix = 1 .. Len(suffix) /\ Len(suffix) \in Nat /\ Len(locked) \in Nat
  OBVIOUS
<1>2. \A k \in DOMAIN suffix : numbered(k) \in PendingLine
  BY <1>1 DEF PendingLine
<1>3. [k \in DOMAIN suffix |-> numbered(k)] \in Seq(PendingLine)
  <2> HIDE DEF numbered
  <2> QED
    BY <1>1, <1>2
<1> QED
  BY <1>3

LEMMA RejectsSuffixLine ==
  ASSUME Sound, ~dirty, pending # <<>>
  PROVE  Lowered(pending).rejected = NoLine \/ RejectedAt(Lowered(pending).rejected)
<1>1. pending = Numbered /\ editable \in Seq(SourceLines) /\ locked \in Seq(SourceLines)
  BY DEF Sound, EngineSound, LinesSound
<1>2. pending \in Seq(PendingLine)
  BY <1>1, SuffixTyped DEF Numbered
<1>3. ASSUME NEW k \in DOMAIN pending, MayReject(pending[k].src)
      PROVE  RejectedAt(pending[k].line)
  <2>1. /\ pending[k].src = editable[k] /\ pending[k].line = Len(locked) + k
        /\ k \in 1 .. Len(editable) /\ source = locked \o editable
    BY <1>1 DEF Numbered, Sound, LinesSound
  <2>2. source[Len(locked) + k] = editable[k]
    BY <1>1, <2>1
  <2> QED
    BY <1>1, <1>3, <2>1, <2>2 DEF RejectedAt
<1>4. Lowered(pending).rejected = NoLine
        \/ \E k \in DOMAIN pending : Lowered(pending).rejected = pending[k].line
                                     /\ MayReject(pending[k].src)
  BY <1>2, RejectsFirstBadLine, Zenon
<1> QED
  BY <1>3, <1>4, Zenon

LEMMA PumpAnswers ==
  ASSUME Sound, Pump
  PROVE  EngineAnswers /\ issued' = issued
<1> USE DEF EngineAnswers, EngineReturns
<1>1. calling = "pumping" /\ UNCHANGED <<text, fed>>
  BY DEF Pump, client
<1>2. ~dirty /\ sstate \notin {"Rejected", "Faulted", "Cancelled"} /\ estate \notin {"Rejected", "Blocked"}
  BY <1>1 DEF Sound, CallSound
<1>3. CASE Report
  <2>1. estate \in {"Faulted", "Cancelled", "Completed"} /\ result' = estate /\ calling' = "idle"
        /\ UNCHANGED <<estate, pending, hasExecutor, issued>>
    BY <1>2, <1>3 DEF Report, Stays, Return, verdict, input, environment
  <2>2. CASE estate = "Completed"
    BY <1>1, <2>1, <2>2 DEF Sound, EngineSound, ReturnsAtRest
  <2>3. CASE estate # "Completed"
    BY <1>1, <1>3, <2>1, <2>3 DEF ReturnsStopped, Report, verdict
  <2> QED
    BY <2>2, <2>3
<1>4. CASE ContinueExecutor
  BY <1>1, <1>4
     DEF ContinueExecutor, EngineWorks, verdict, input, environment, Sound, EngineSound
<1>5. CASE CancelOnRequest
  <2>1. /\ result' = "Cancelled" /\ estate' = "Cancelled" /\ calling' = "idle" /\ hasExecutor' = FALSE
        /\ UNCHANGED <<pending, issued>>
    BY <1>5 DEF CancelOnRequest, Cancel, Return, input
  <2> QED
    BY <1>1, <2>1 DEF ReturnsStopped
<1>6. CASE NothingToRun
  <2> DEFINE low == Lowered(pending)
  <2>1. /\ Idle /\ pending # <<>> /\ UNCHANGED <<issued, hasExecutor>>
        /\ \/ ClearPending /\ ReturnAtRest
           \/ low.rejected # NoLine /\ Reject(low.rejected) /\ UNCHANGED pending
    BY <1>6 DEF NothingToRun, environment
  <2>2. low.rejected = NoLine \/ RejectedAt(low.rejected)
    BY <1>2, <2>1, RejectsSuffixLine
  <2>3. CASE ClearPending /\ ReturnAtRest
    BY <1>1, <2>1, <2>3 DEF ClearPending, ReturnAtRest, AtRest, Return, Idle, ReturnsAtRest
  <2>4. CASE low.rejected # NoLine /\ Reject(low.rejected) /\ UNCHANGED pending
    <3> HIDE DEF low
    <3> QED
      BY <1>1, <2>1, <2>2, <2>4 DEF Reject, Return, Idle, ReturnsRejected
  <2> QED
    BY <2>1, <2>3, <2>4
<1>7. CASE StartExecutor
  <2> DEFINE low == Lowered(pending)
  <2>1. /\ pending # <<>> /\ deferred' = low.rejected /\ hasExecutor' = TRUE /\ calling' = "advancing"
        /\ UNCHANGED <<issued, pending, estate>>
    BY <1>7 DEF StartExecutor, environment, input
  <2>2. low.rejected = NoLine \/ RejectedAt(low.rejected)
    BY <1>2, <2>1, RejectsSuffixLine
  <2> QED
    <3> HIDE DEF low
    <3> QED
      BY <1>1, <2>1, <2>2 DEF EngineWorks, Sound, EngineSound
<1>8. CASE NothingPending
  <2>1. /\ pending = <<>> /\ ~hasExecutor /\ ReturnAtRest
        /\ UNCHANGED <<issued, pending, hasExecutor>>
    BY <1>8 DEF NothingPending, Idle, environment, input
  <2> QED
    BY <1>1, <2>1 DEF ReturnAtRest, AtRest, Return, ReturnsAtRest
<1> QED
  BY <1>3, <1>4, <1>5, <1>6, <1>7, <1>8 DEF Pump

LEMMA AdvanceAnswers ==
  ASSUME Sound, WaitsIssued, AdvanceExecutor, issued = 0,
         issued' = 0, calling' = "idle" => ~(estate' = "ReadyToExecute" /\ status' = "Fault")
  PROVE  EngineAnswers
<1> USE DEF EngineAnswers, EngineReturns
<1>1. /\ calling = "advancing" /\ UNCHANGED <<text, fed>> /\ hasExecutor
      /\ deferred = NoLine \/ RejectedAt(deferred)
  BY DEF AdvanceExecutor, client, Sound, CallSound, EngineSound
<1>2. estate \notin {"Rejected", "Blocked"}
  BY <1>1 DEF Sound, CallSound
<1>3. CASE GoesOn \/ Polls
  BY <1>1, <1>3 DEF GoesOn, Polls, EngineWorks, call, input, Sound, EngineSound
<1>4. ~BecomesBlocked
  <2>1. TokenIsIssued
    BY AdvanceTakesIssued DEF AdvanceExecutor, Step
  <2> QED
    BY <2>1 DEF TokenIsIssued, BecomesBlocked, WaitsIssued
<1>5. ~DropsExecutor
  BY DEF DropsExecutor, Return
<1>6. CASE ExecutorFaults
  BY <1>1, <1>6 DEF ExecutorFaults, Return, ReturnsStopped, input
<1>7. CASE ExecutorCompletes
  <2>1. \/ deferred # NoLine /\ Reject(deferred) /\ UNCHANGED pending
        \/ ClearPending /\ ReturnAtRest
    BY <1>7 DEF ExecutorCompletes
  <2>2. hasExecutor' = FALSE
    BY <1>7 DEF ExecutorCompletes
  <2> QED
    BY <1>1, <2>1, <2>2
       DEF Reject, ClearPending, ReturnAtRest, AtRest, Return, ReturnsRejected, ReturnsAtRest
<1> QED
  BY <1>3, <1>4, <1>5, <1>6, <1>7 DEF AdvanceExecutor

LEMMA StallsAnswers ==
  ASSUME Sound, ExecutorStalls
  PROVE  EngineAnswers /\ issued' = issued
BY DEF ExecutorStalls, Return, EngineAnswers, EngineReturns, ReturnsPolling, verdict, input, client,
       environment, Sound, CallSound

(* The runtime only ever issues more tokens.                               *)
LEMMA IssuesMore ==
  ASSUME WaitsIssued, Step(0)
  PROVE  issued' \in {issued, issued + 1} /\ WaitsIssued'
<1>1. CASE NoIssue
  BY <1>1 DEF NoIssue, WaitsIssued
<1>2. ASSUME NEW tool, NEW timed, IssueFor(tool, timed)
      PROVE  issued' \in {issued, issued + 1} /\ WaitsIssued'
  BY <1>2 DEF IssueFor, WaitsIssued
<1>3. CASE AwaitsAgain
  BY <1>3 DEF AwaitsAgain, AwaitAgain, WaitsIssued
<1> QED
  BY <1>1, <1>2, <1>3, AdvanceIssues DEF Step, IssuesAtMostOne, Issues, Issue, Defers, DeferUntil

----------------------------------------------------------------------------
(* What the session makes of it.                                           *)

(* Accepting lines moves the boundary and nothing else.                    *)
LEMMA CommitKeeps ==
  ASSUME locked \in Seq(SourceLines), editable \in Seq(SourceLines), NEW count \in Nat,
         Commit(count)
  PROVE  /\ locked' \in Seq(SourceLines) /\ editable' \in Seq(SourceLines)
         /\ locked' \o editable' = locked \o editable
         /\ Len(locked') = Len(locked) + Least(count, Len(editable))
         /\ Len(editable') = Len(editable) - Least(count, Len(editable))
         /\ editable' # <<>> => dirty'
<1> DEFINE n == Least(count, Len(editable))
<1>1. locked \in Seq(SourceLines) /\ editable \in Seq(SourceLines)
  OBVIOUS
<1>2. n \in 0 .. Len(editable)
  BY <1>1 DEF Least
<1>3. /\ locked' = locked \o SubSeq(editable, 1, n) /\ editable' = SubSeq(editable, n + 1, Len(editable))
  BY DEF Commit, Remaining
<1> HIDE DEF n
<1>4. /\ SubSeq(editable, 1, n) \in Seq(SourceLines) /\ Len(SubSeq(editable, 1, n)) = n
      /\ SubSeq(editable, n + 1, Len(editable)) \in Seq(SourceLines)
      /\ Len(SubSeq(editable, n + 1, Len(editable))) = Len(editable) - n
  <2>1. \A i \in 1 .. Len(editable) : editable[i] \in SourceLines
    BY <1>1
  <2>2. SubSeq(editable, 1, n) \in Seq(SourceLines) /\ Len(SubSeq(editable, 1, n)) = n
    BY <1>1, <1>2, <2>1, SubSeqProperties
  <2>3. /\ SubSeq(editable, n + 1, Len(editable)) \in Seq(SourceLines)
        /\ Len(SubSeq(editable, n + 1, Len(editable))) = Len(editable) - n
    BY <1>1, <1>2, <2>1, SubSeqProperties
  <2> QED
    BY <2>2, <2>3
<1>5. SubSeq(editable, 1, n) \o SubSeq(editable, n + 1, Len(editable)) = editable
  <2>1. 1 \in 1 .. Len(editable) + 1 /\ n \in 1 - 1 .. Len(editable)
        /\ Len(editable) \in n .. Len(editable)
    BY <1>1, <1>2
  <2>2. SubSeq(editable, 1, n) \o SubSeq(editable, n + 1, Len(editable))
          = SubSeq(editable, 1, Len(editable))
    BY <1>1, <2>1, ConcatAdjacentSubSeq
  <2> QED
    BY <1>1, <2>2, SubSeqFull
<1>6. locked' \o editable' = locked \o editable
  <2>1. locked' \o editable' =
          locked \o (SubSeq(editable, 1, n) \o SubSeq(editable, n + 1, Len(editable)))
    <3> DEFINE first == SubSeq(editable, 1, n)
               others == SubSeq(editable, n + 1, Len(editable))
    <3>1. first \in Seq(SourceLines) /\ others \in Seq(SourceLines)
      BY <1>4
    <3>2. locked' = locked \o first /\ editable' = others
      BY <1>3
    <3> HIDE DEF first, others
    <3>3. (locked \o first) \o others = locked \o (first \o others)
      BY <1>1, <3>1, ConcatAssociative
    <3>4. locked' \o editable' = locked \o (first \o others)
      BY <3>2, <3>3
    <3> QED
      BY <3>4 DEF first, others
  <2> QED
    BY <1>5, <2>1
<1>7. Len(locked') = Len(locked) + n /\ Len(editable') = Len(editable) - n
  BY <1>1, <1>3, <1>4, ConcatProperties
<1>8. locked' \in Seq(SourceLines) /\ editable' \in Seq(SourceLines)
  BY <1>1, <1>3, <1>4, ConcatProperties
<1>9. editable' # <<>> => dirty'
  BY Zenon DEF Commit
<1> QED
  BY <1>6, <1>7, <1>8, <1>9 DEF n

LEMMA SameLinesSound ==
  ASSUME LinesSound, UNCHANGED <<locked, editable, inFlight, source, text, fed, srejected>>,
         sstate' = "Rejected" => sstate = "Rejected"
  PROVE  LinesSound'
BY DEF LinesSound, RejectedAt

LEMMA ReportKeepsSound ==
  ASSUME Sound, calling # "idle", EngineAnswers, ReportsToSession, issued' = 0
  PROVE  Sound'
<1>1. /\ locked \in Seq(SourceLines) /\ editable \in Seq(SourceLines)
      /\ ~dirty /\ sstate \notin {"Rejected", "Faulted", "Cancelled", "Blocked"}
      /\ estate \notin {"Rejected", "Blocked"} /\ inFlight \in Nat /\ UNCHANGED <<text, fed>>
  BY DEF Sound, CallSound, LinesSound, EngineAnswers
<1>2. CASE EngineWorks
  <2>1. UNCHANGED sessionVars /\ calling' = "advancing"
    BY <1>2 DEF ReportsToSession, EngineWorks
  <2>2. UNCHANGED <<locked, editable, inFlight, dirty, source, sstate, srejected>>
    BY <2>1 DEF sessionVars, lines, sverdict, history
  <2>3. LinesSound'
    BY <1>1, <2>2, SameLinesSound DEF Sound
  <2>4. EngineSound'
    <3>1. pending \in {<<>>, Numbered} /\ Numbered' = Numbered /\ pending' = pending
      BY <1>1, <1>2, <2>2 DEF EngineWorks, Sound, EngineSound, Numbered
    <3>2. deferred' = NoLine \/ RejectedAt(deferred)'
      BY <1>2, <2>2 DEF EngineWorks, RejectedAt
    <3>3. estate' \notin {"ReadyToExecute", "Completed"}
      BY <1>2 DEF EngineWorks
    <3> QED
      BY <3>1, <3>2, <3>3 DEF EngineSound
  <2>5. CallSound'
    BY <1>1, <1>2, <2>2 DEF EngineWorks, CallSound
  <2> QED
    BY <2>3, <2>4, <2>5 DEF Sound
<1>3. CASE EngineReturns
  <2>1. RunEngineStep /\ calling' = "idle"
    BY <1>3 DEF EngineReturns, ReportsToSession
  <2>2. UNCHANGED source
    BY <2>1 DEF RunEngineStep
  <2>3. CASE ReturnsRejected
    <3>1. /\ EngineRejects /\ RejectedAt(rejected') /\ sstate' = "Rejected" /\ srejected' = rejected'
          /\ inFlight' = 0 /\ estate' = "Rejected" /\ ~hasExecutor'
      BY <2>1, <2>3
         DEF ReturnsRejected, RunEngineStep, EngineRejects, EngineStops, EngineGoesOn, EndsFlight
    <3> DEFINE at == rejected' - Len(locked)
    <3>0. at \in 1 .. Len(editable) /\ Len(locked) \in Nat /\ Len(editable) \in Nat
          /\ rejected' = at + Len(locked) /\ AcceptedBefore = at - 1
      BY <1>1, <3>1 DEF RejectedAt, AcceptedBefore
    <3> HIDE DEF at
    <3>2. /\ locked' \in Seq(SourceLines) /\ editable' \in Seq(SourceLines)
          /\ locked' \o editable' = locked \o editable
          /\ Len(locked') = rejected' - 1
          /\ Len(editable') = Len(editable) + Len(locked) - (rejected' - 1)
      <4>1. CASE AcceptedBefore > 0
        <5>1. AcceptedBefore \in Nat /\ Least(AcceptedBefore, Len(editable)) = at - 1
          BY <3>0, <4>1 DEF Least
        <5>2. Commit(AcceptedBefore)
          BY <3>1, <4>1 DEF EngineRejects
        <5>3. /\ locked' \in Seq(SourceLines) /\ editable' \in Seq(SourceLines)
              /\ locked' \o editable' = locked \o editable
              /\ Len(locked') = Len(locked) + (at - 1)
              /\ Len(editable') = Len(editable) - (at - 1)
          BY <1>1, <5>1, <5>2, CommitKeeps
        <5> QED
          BY <3>0, <5>3
      <4>2. CASE ~(AcceptedBefore > 0)
        <5>1. UNCHANGED <<locked, editable>>
          BY <3>1, <4>2 DEF EngineRejects, CommitNothing
        <5> QED
          BY <1>1, <3>0, <4>2, <5>1
      <4> QED
        BY <4>1, <4>2
    <3>3. RejectedAt(srejected)' /\ editable' # <<>>
      BY <2>2, <3>0, <3>1, <3>2 DEF RejectedAt
    <3>4. LinesSound'
      BY <1>1, <2>2, <3>1, <3>2, <3>3 DEF Sound, LinesSound
    <3>5. ~dirty' => pending' \in {<<>>, Numbered'}
      <4>1. CASE AcceptedBefore > 0
        <5>1. Commit(AcceptedBefore) /\ AcceptedBefore \in Nat
          BY <3>0, <3>1, <4>1 DEF EngineRejects
        <5>2. dirty'
          BY <1>1, <3>3, <5>1, CommitKeeps
        <5> QED
          BY <5>2
      <4>2. CASE ~(AcceptedBefore > 0)
        <5>1. UNCHANGED <<locked, editable>>
          BY <3>1, <4>2 DEF EngineRejects, CommitNothing
        <5>2. pending' \in {<<>>, Numbered}
          BY <1>1, <2>3 DEF ReturnsRejected, Sound, EngineSound
        <5> QED
          BY <5>1, <5>2 DEF Numbered
      <4> QED
        BY <4>1, <4>2
    <3> QED
      BY <2>1, <3>1, <3>4, <3>5 DEF Sound, EngineSound, CallSound
  <2>4. CASE ReturnsStopped
    <3>1. /\ EngineStops /\ sstate' = result' /\ inFlight' = 0 /\ CommitNothing /\ UNCHANGED srejected
      BY <2>1, <2>4
         DEF ReturnsStopped, RunEngineStep, EngineRejects, EngineStops, EngineGoesOn
    <3>2. UNCHANGED <<locked, editable, dirty>>
      BY <3>1 DEF CommitNothing
    <3>3. LinesSound'
      BY <1>1, <2>2, <2>4, <3>1, <3>2 DEF ReturnsStopped, Sound, LinesSound
    <3>4. EngineSound'
      BY <1>1, <2>2, <2>4, <3>2 DEF ReturnsStopped, Sound, EngineSound, RejectedAt, Numbered
    <3>5. CallSound'
      BY <2>1, <2>4, <3>1 DEF ReturnsStopped, CallSound
    <3> QED
      BY <3>3, <3>4, <3>5 DEF Sound
  <2>5. CASE ReturnsAtRest
    <3>1. EngineGoesOn /\ sstate' \in {"ReadyToExecute", "Completed"} /\ UNCHANGED srejected
      BY <2>1, <2>5
         DEF ReturnsAtRest, RunEngineStep, EngineRejects, EngineStops, EngineGoesOn
    <3>2. /\ locked' \in Seq(SourceLines) /\ editable' \in Seq(SourceLines)
          /\ locked' \o editable' = locked \o editable /\ inFlight' \in Nat
      <4>1. CASE Commit(inFlight) /\ inFlight' = inFlight - Least(inFlight, Len(editable))
        <5>1. /\ locked' \in Seq(SourceLines) /\ editable' \in Seq(SourceLines)
              /\ locked' \o editable' = locked \o editable
          BY <1>1, <4>1, CommitKeeps
        <5>2. inFlight' \in Nat
          BY <1>1, <4>1 DEF Least
        <5> QED
          BY <5>1, <5>2
      <4>2. CASE CommitNothing /\ UNCHANGED inFlight
        BY <1>1, <4>2 DEF CommitNothing
      <4> QED
        BY <3>1, <4>1, <4>2 DEF EngineGoesOn
    <3>3. LinesSound'
      BY <1>1, <2>2, <3>1, <3>2 DEF Sound, LinesSound
    <3>4. EngineSound'
      BY <2>5 DEF ReturnsAtRest, EngineSound
    <3>5. CallSound'
      BY <2>1, <2>5, <3>1 DEF ReturnsAtRest, CallSound
    <3> QED
      BY <3>3, <3>4, <3>5 DEF Sound
  <2>6. CASE ReturnsPolling
    <3>1. estate' \notin {"ReadyToExecute", "Completed", "Rejected", "Blocked"}
      BY <1>1, <2>6 DEF ReturnsPolling, Sound, EngineSound
    <3>2. sstate' = estate' /\ CommitNothing /\ UNCHANGED <<inFlight, srejected>>
      BY <2>1, <2>6, <3>1
         DEF ReturnsPolling, RunEngineStep, EngineRejects, EngineStops, EngineGoesOn
    <3>3. UNCHANGED <<locked, editable, dirty>>
      BY <3>2 DEF CommitNothing
    <3>4. LinesSound'
      BY <1>1, <2>2, <3>1, <3>2, <3>3, SameLinesSound DEF Sound
    <3>5. EngineSound'
      BY <2>2, <2>6, <3>1, <3>3 DEF ReturnsPolling, Sound, EngineSound, RejectedAt, Numbered
    <3>6. CallSound'
      BY <2>1, <3>1, <3>2 DEF CallSound
    <3> QED
      BY <3>4, <3>5, <3>6 DEF Sound
  <2> QED
    BY <1>3, <2>3, <2>4, <2>5, <2>6 DEF EngineReturns
<1> QED
  BY <1>2, <1>3 DEF EngineAnswers

----------------------------------------------------------------------------
(* The calls of the client.                                                *)

(* More lines in the suffix.                                               *)
SourceGrows == \A k \in 1 .. Len(locked) + Len(editable) : source'[k] = source[k]

LEMMA RejectedStill ==
  ASSUME locked' = locked, Len(locked) \in Nat, Len(editable) \in Nat, Len(editable') \in Nat,
         Len(editable) <= Len(editable'), SourceGrows, NEW n, RejectedAt(n)
  PROVE  n \in Len(locked') + 1 .. Len(locked') + Len(editable') /\ MayReject(source'[n])
<1>1. n \in 1 .. Len(locked) + Len(editable)
  BY DEF RejectedAt
<1>2. source'[n] = source[n]
  BY <1>1 DEF SourceGrows
<1> QED
  BY <1>2 DEF RejectedAt

LEMMA LongerSource ==
  ASSUME LinesSound, NEW chunk \in Seq(SourceLines), source' = source \o chunk
  PROVE  SourceGrows
BY DEF LinesSound, SourceGrows

LEMMA PumpWithKeeps ==
  ASSUME Sound, calling = "idle", NEW changed, NEW end, PumpWith(editable', changed, end),
         locked' = locked, editable' \in Seq(SourceLines), Len(editable) <= Len(editable'),
         SourceGrows, changed \/ (~dirty /\ editable' = editable)
  PROVE  /\ EngineSound' /\ CallSound' /\ inFlight' \in Nat
         /\ sstate' = "Rejected" => sstate = "Rejected"
<1>1. /\ locked \in Seq(SourceLines) /\ editable \in Seq(SourceLines) /\ inFlight \in Nat
      /\ sstate # "Blocked" /\ estate # "Blocked" /\ (estate = "Rejected" => sstate = "Rejected")
  BY DEF Sound, LinesSound, CallSound
<1>2. ASSUME hasExecutor' = hasExecutor, deferred' = deferred
      PROVE  hasExecutor' => deferred' = NoLine \/ RejectedAt(deferred)'
  <2> SUFFICES ASSUME hasExecutor, deferred # NoLine PROVE RejectedAt(deferred)'
    BY <1>2
  <2>1. RejectedAt(deferred)
    BY DEF Sound, EngineSound
  <2> QED
    BY <1>1, <1>2, <2>1, RejectedStill DEF RejectedAt
<1>3. ASSUME ~changed
      PROVE  pending \in {<<>>, Numbered'}
  BY <1>3 DEF Sound, EngineSound, Numbered
<1>4. CASE sstate \in {"Rejected", "Faulted", "Cancelled"}
  <2>1. dirty' = changed /\ UNCHANGED <<calling, input, verdict, sstate, inFlight>>
    BY <1>4 DEF PumpWith
  <2>2. UNCHANGED <<pending, estate, hasExecutor, deferred>>
    BY <2>1 DEF input, verdict
  <2>3. EngineSound'
    BY <1>2, <1>3, <2>1, <2>2 DEF Sound, EngineSound
  <2> QED
    BY <1>1, <2>1, <2>2, <2>3 DEF CallSound
<1>5. CASE sstate \notin {"Rejected", "Faulted", "Cancelled"}
  <2>1. /\ dirty' = FALSE /\ calling' \in {"idle", "pumping"} /\ sstate' \in {sstate, "ReadyToExecute"}
        /\ IF changed THEN NewEngine(editable') /\ inFlight' = Len(editable')
           ELSE UNCHANGED <<pending, verdict, inFlight>>
    BY <1>1, <1>5 DEF PumpWith, Return
  <2>2. CASE changed
    <3>1. /\ pending' = Numbered' /\ estate' = "AcceptingInput" /\ hasExecutor' = FALSE
          /\ inFlight' \in Nat
      BY <2>1, <2>2 DEF NewEngine, Numbered
    <3> QED
      BY <1>1, <1>5, <2>1, <3>1 DEF EngineSound, CallSound
  <2>3. CASE ~changed
    <3>1. UNCHANGED <<pending, estate, hasExecutor, deferred, inFlight>>
      BY <2>1, <2>3 DEF verdict
    <3>2. EngineSound'
      BY <1>2, <1>3, <2>3, <3>1 DEF Sound, EngineSound
    <3> QED
      BY <1>1, <1>5, <2>1, <3>1, <3>2 DEF CallSound
  <2> QED
    BY <2>2, <2>3
<1> QED
  BY <1>4, <1>5

LEMMA LinesAssociate ==
  \A a, b, c \in Seq(SourceLines) : (a \o b) \o c = a \o (b \o c)
BY ConcatAssociative

(* They go behind the suffix.                                              *)
LEMMA AppendKeeps ==
  ASSUME LinesSound, NEW chunk \in Seq(SourceLines), editable' = editable \o chunk,
         source' = source \o chunk, locked' = locked, text' = text, fed' \in 0 .. Len(text),
         inFlight' \in Nat, srejected' = srejected, sstate' = "Rejected" => sstate = "Rejected"
  PROVE  LinesSound' /\ Len(editable) <= Len(editable')
<1>1. locked \in Seq(SourceLines) /\ editable \in Seq(SourceLines) /\ locked \o editable = source
  BY DEF LinesSound
<1>2. /\ editable' \in Seq(SourceLines) /\ Len(editable') = Len(editable) + Len(chunk)
      /\ Len(editable) <= Len(editable')
  BY <1>1, ConcatProperties
<1>3. (locked \o editable) \o chunk = locked \o (editable \o chunk)
  BY <1>1, LinesAssociate
<1>4. locked' \o editable' = source'
  BY <1>1, <1>3
<1>5. sstate' = "Rejected" => RejectedAt(srejected)' /\ Len(locked') = srejected' - 1
  <2> SUFFICES ASSUME sstate = "Rejected"
               PROVE  RejectedAt(srejected)' /\ Len(locked') = srejected' - 1
    OBVIOUS
  <2>1. RejectedAt(srejected) /\ Len(locked) = srejected - 1
    BY DEF LinesSound
  <2> QED
    BY <1>1, <1>2, <2>1, RejectedStill DEF RejectedAt
<1> QED
  BY <1>1, <1>2, <1>4, <1>5 DEF LinesSound

LEMMA UserPushesKeeps ==
  ASSUME Sound, UserPushes
  PROVE  Sound' /\ issued' = issued
<1>1. PICK m \in 0 .. Len(text) - fed, rest \in BOOLEAN :
        SessionPush(SubSeq(text, fed + 1, fed + m), rest) /\ fed' = fed + m /\ UNCHANGED text
  BY DEF UserPushes
<1> DEFINE chunk == SubSeq(text, fed + 1, fed + m)
<1>2. fed \in 0 .. Len(text) /\ Len(text) \in Nat
  BY TextsAssumption DEF Sound, LinesSound
<1>3. chunk \in Seq(SourceLines)
  BY <1>2, NextLines DEF Sound, LinesSound
<1> HIDE DEF chunk
<1>4. /\ calling = "idle" /\ editable' = editable \o chunk /\ source' = source \o chunk
      /\ dirty' = (dirty \/ chunk # <<>>)
      /\ UNCHANGED <<vars, engineVars, locked, inFlight, sverdict>>
  BY <1>1 DEF SessionPush, chunk
<1>5. UNCHANGED <<issued, pending, estate, hasExecutor, deferred, calling, sstate, srejected>>
  BY <1>4 DEF vars, environment, engineVars, input, verdict, call, sverdict
<1>6. LinesSound' /\ Len(editable) <= Len(editable')
  <2>1. fed' \in 0 .. Len(text) /\ text' = text
    BY <1>1, <1>2
  <2>2. LinesSound /\ inFlight' \in Nat /\ srejected' = srejected /\ sstate' = sstate
    BY <1>4, <1>5 DEF Sound, LinesSound
  <2> QED
    BY <1>3, <1>4, <2>1, <2>2, AppendKeeps
<1>7. ~dirty' => pending' \in {<<>>, Numbered'}
  <2> SUFFICES ASSUME ~dirty, chunk = <<>> PROVE pending' \in {<<>>, Numbered'}
    BY <1>4
  <2>1. editable' = editable
    BY <1>4 DEF Sound, LinesSound
  <2> QED
    BY <1>4, <1>5, <2>1 DEF Sound, EngineSound, Numbered
<1>8. hasExecutor' => deferred' = NoLine \/ RejectedAt(deferred)'
  <2> SUFFICES ASSUME hasExecutor, deferred # NoLine PROVE RejectedAt(deferred)'
    BY <1>5
  <2>1. SourceGrows
    BY <1>3, <1>4, LongerSource DEF Sound
  <2>2. RejectedAt(deferred) /\ deferred' = deferred
    BY <1>5 DEF Sound, EngineSound
  <2>3. /\ Len(locked) \in Nat /\ Len(editable) \in Nat /\ Len(editable') \in Nat
        /\ locked' = locked /\ Len(editable) <= Len(editable')
    BY <1>4, <1>6 DEF Sound, LinesSound
  <2> QED
    BY <2>1, <2>2, <2>3, RejectedStill DEF RejectedAt
<1>9. EngineSound'
  BY <1>5, <1>7, <1>8 DEF Sound, EngineSound
<1>10. CallSound'
  BY <1>4, <1>5 DEF Sound, CallSound
<1> QED
  BY <1>5, <1>6, <1>9, <1>10 DEF Sound

LEMMA UserPumpsKeeps ==
  ASSUME Sound, UserPumps
  PROVE  Sound' /\ issued' = issued
<1>1. /\ calling = "idle" /\ PumpWith(editable, dirty, sfinished)
      /\ UNCHANGED <<vars, locked, editable, srejected, source, client>>
  BY DEF UserPumps, SessionPump
<1>2. PumpWith(editable', dirty, sfinished) /\ editable \in Seq(SourceLines)
  BY <1>1 DEF Sound, LinesSound
<1>3. EngineSound' /\ CallSound' /\ inFlight' \in Nat /\ (sstate' = "Rejected" => sstate = "Rejected")
  BY <1>1, <1>2, PumpWithKeeps DEF SourceGrows
<1>4. LinesSound'
  BY <1>1, <1>3 DEF client, Sound, LinesSound, RejectedAt
<1> QED
  BY <1>1, <1>3, <1>4 DEF Sound, vars, environment

LEMMA UserFinishesKeeps ==
  ASSUME Sound, UserFinishes
  PROVE  Sound' /\ issued' = issued
<1> DEFINE chunk == SubSeq(text, fed + 1, Len(text))
<1>1. /\ calling = "idle" /\ editable' = editable \o chunk /\ source' = source \o chunk
      /\ PumpWith(editable', dirty \/ chunk # <<>>, TRUE)
      /\ fed' = Len(text) /\ UNCHANGED <<vars, locked, srejected, text>>
  BY DEF UserFinishes, SessionFinish
<1>2. fed \in 0 .. Len(text) /\ Len(text) \in Nat
  BY TextsAssumption DEF Sound, LinesSound
<1>3. chunk \in Seq(SourceLines)
  BY <1>2, NextLines DEF Sound, LinesSound
<1> HIDE DEF chunk
<1>4. editable' \in Seq(SourceLines) /\ Len(editable) <= Len(editable')
  BY <1>1, <1>3, ConcatProperties DEF Sound, LinesSound
<1>5. (dirty \/ chunk # <<>>) \/ (~dirty /\ editable' = editable)
  BY <1>1 DEF Sound, LinesSound
<1>6. EngineSound' /\ CallSound' /\ inFlight' \in Nat /\ (sstate' = "Rejected" => sstate = "Rejected")
  <2>1. SourceGrows
    BY <1>1, <1>3, LongerSource DEF Sound
  <2> QED
    BY <1>1, <1>4, <1>5, <2>1, PumpWithKeeps
<1>7. LinesSound'
  <2>1. fed' \in 0 .. Len(text) /\ text' = text /\ LinesSound
    BY <1>1, <1>2 DEF Sound
  <2> QED
    BY <1>1, <1>3, <1>6, <2>1, AppendKeeps
<1> QED
  BY <1>1, <1>6, <1>7 DEF Sound, vars, environment

LEMMA UserCancelsKeeps ==
  ASSUME Sound, UserCancels
  PROVE  Sound' /\ issued' = issued
<1>1. /\ calling = "idle" /\ calling' = calling /\ estate' = "Cancelled" /\ hasExecutor' = FALSE
      /\ sstate' = "Cancelled" /\ inFlight' = 0
      /\ UNCHANGED <<pending, issued, locked, editable, dirty, source, text, fed>>
  BY DEF UserCancels, SessionCancel, CallCancel, Cancel, input, history, call, client
<1>2. LinesSound'
  BY <1>1 DEF Sound, LinesSound
<1>3. EngineSound' /\ CallSound'
  BY <1>1 DEF Sound, EngineSound, CallSound, Numbered
<1> QED
  BY <1>1, <1>2, <1>3 DEF Sound

LEMMA UserReplacesKeeps ==
  ASSUME Sound, UserReplaces
  PROVE  Sound' /\ issued' = issued
<1>1. PICK chunk \in Replacements : ReplaceEditableSuffix(chunk)
  BY DEF UserReplaces
<1>2. /\ calling = "idle" /\ sstate = "Rejected" /\ editable' = chunk /\ NewEngine(<<>>)
      /\ inFlight' = 0 /\ dirty' = TRUE /\ sstate' = "AcceptingInput"
      /\ source' = SubSeq(source, 1, Least(Len(source), srejected - 1)) \o chunk
      /\ UNCHANGED <<vars, call, locked>>
  BY <1>1 DEF ReplaceEditableSuffix
<1>3. UNCHANGED <<text, fed>>
  BY DEF UserReplaces, client
<1>4. /\ locked \in Seq(SourceLines) /\ editable \in Seq(SourceLines)
      /\ locked \o editable = source /\ Len(locked) = srejected - 1
  BY <1>2 DEF Sound, LinesSound
<1>5. SubSeq(source, 1, Least(Len(source), srejected - 1)) = locked
  <2>1. Least(Len(source), srejected - 1) = Len(locked)
    BY <1>4, ConcatProperties DEF Least
  <2>2. SubSeq(locked \o editable, 1, Len(locked)) = locked
    BY <1>4
  <2> QED
    BY <1>4, <2>1, <2>2
<1>6. LinesSound'
  BY <1>2, <1>3, <1>4, <1>5, ReplacementsAssumption DEF Sound, LinesSound
<1>7. estate' = "AcceptingInput" /\ hasExecutor' = FALSE
  BY <1>2 DEF NewEngine
<1>8. EngineSound' /\ CallSound'
  BY <1>2, <1>7 DEF EngineSound, CallSound, call
<1> QED
  BY <1>2, <1>6, <1>8 DEF Sound, vars, environment

----------------------------------------------------------------------------
(* Every step.                                                             *)

LEMMA SessionPumpsKeeps ==
  ASSUME Sound, SessionPumps, issued = 0
  PROVE  Sound' /\ issued' = issued
BY PumpAnswers, ReportKeepsSound DEF SessionPumps, Pump

(* A dropped executor is remembered.                                       *)
LEMMA SessionAdvancesKeeps ==
  ASSUME Sound, WaitsIssued, SessionAdvances, issued = 0, issued' = 0, ~awaited'
  PROVE  Sound'
<1>1. calling = "advancing" /\ ReportsToSession
  BY DEF SessionAdvances, AdvanceExecutor, ExecutorStalls
<1>2. calling' = "idle" => ~(estate' = "ReadyToExecute" /\ status' = "Fault")
  BY <1>1 DEF ReportsToSession, RunEngineStep
<1>3. EngineAnswers
  BY <1>2, AdvanceAnswers, StallsAnswers DEF SessionAdvances
<1> QED
  BY <1>1, <1>3, ReportKeepsSound

(* A client that may resume has waited.                                    *)
LEMMA NoResume == ASSUME Sound, UserResumes PROVE FALSE
BY DEF UserResumes, Sound, CallSound

LEMMA OthersKeep ==
  ASSUME Sound, UNCHANGED <<issued, engineVars, sessionVars, text, fed>>
  PROVE  Sound'
<1>1. UNCHANGED <<pending, estate, hasExecutor, deferred, calling, locked, editable, inFlight, dirty,
                  source, sstate, srejected>>
  BY DEF engineVars, input, verdict, call, sessionVars, lines, sverdict, history
<1>2. LinesSound'
  BY <1>1, SameLinesSound DEF Sound
<1>3. EngineSound'
  BY <1>1 DEF Sound, EngineSound, RejectedAt, Numbered
<1>4. CallSound'
  BY <1>1 DEF Sound, CallSound
<1> QED
  BY <1>2, <1>3, <1>4 DEF Sound

(* What has disturbed the session is not undone.                           *)
LEMMA StaysDisturbed ==
  ASSUME WaitsIssued, SessionNext
  PROVE  WaitsIssued' /\ (Undisturbed' => Undisturbed)
<1>1. issued' \in {issued, issued + 1} /\ WaitsIssued'
  <2> SUFFICES ASSUME ~(SessionAdvances /\ AdvanceExecutor)
               PROVE  issued' = issued /\ outstanding' \subseteq outstanding
    BY IssuesMore DEF AdvanceExecutor, WaitsIssued
  <2>1. CASE SessionPumps
    BY <2>1 DEF SessionPumps, Pump, Report, ContinueExecutor, CancelOnRequest, Cancel, NothingToRun,
                StartExecutor, NothingPending, CancelsWait, environment
  <2>2. CASE SessionAdvances
    BY <2>2 DEF SessionAdvances, ExecutorStalls, environment
  <2>3. CASE UserPushes \/ UserPumps \/ UserFinishes
    BY <2>3 DEF UserPushes, SessionPush, UserPumps, SessionPump, UserFinishes, SessionFinish, vars,
                environment
  <2>4. CASE UserResumes
    BY <2>4 DEF UserResumes, SessionResume, Resume, environment
  <2>5. CASE UserCancels \/ UserReplaces
    BY <2>5 DEF UserCancels, SessionCancel, CallCancel, Cancel, CancelsWait, UserReplaces,
                ReplaceEditableSuffix, vars, environment
  <2>6. CASE RequestCancel \/ RuntimeCompletes
    BY <2>6 DEF RequestCancel, RuntimeCompletes, vars, environment
  <2> QED
    BY <2>1, <2>2, <2>3, <2>4, <2>5, <2>6 DEF SessionNext
<1>2. ~awaited' => ~awaited
  <2>1. RunEngineStep => (~awaited' => ~awaited)
    BY DEF RunEngineStep
  <2>2. UNCHANGED sessionVars => awaited' = awaited
    BY DEF sessionVars, history
  <2>3. CASE SessionPumps \/ SessionAdvances \/ UserResumes
    BY <2>1, <2>2, <2>3 DEF SessionPumps, SessionAdvances, ReportsToSession, UserResumes, SessionResume
  <2>4. CASE UserPushes \/ UserPumps \/ UserFinishes
    BY <2>4 DEF UserPushes, SessionPush, UserPumps, SessionPump, UserFinishes, SessionFinish
  <2>5. CASE UserCancels \/ UserReplaces
    BY <2>5 DEF UserCancels, SessionCancel, UserReplaces, ReplaceEditableSuffix, history
  <2> QED
    BY <2>2, <2>3, <2>4, <2>5 DEF SessionNext
<1> QED
  BY <1>1, <1>2 DEF Undisturbed, NothingWaited, WaitsIssued

LEMMA BoundaryStep ==
  ASSUME BoundaryInv, [SessionNext]_everyVar
  PROVE  BoundaryInv'
<1>1. CASE UNCHANGED everyVar
  <2>1. UNCHANGED <<issued, outstanding, engineVars, sessionVars, text, fed, awaited>>
    BY <1>1 DEF everyVar, allVars, vars, environment, client, sessionVars, history
  <2> QED
    BY <2>1, OthersKeep DEF BoundaryInv, WaitsIssued, Undisturbed, NothingWaited
<1>2. CASE SessionNext
  <2> SUFFICES ASSUME Undisturbed' PROVE Sound'
    BY <1>2, StaysDisturbed DEF BoundaryInv
  <2>1. Sound /\ WaitsIssued /\ issued = 0 /\ issued' = 0 /\ ~awaited'
    BY <1>2, StaysDisturbed DEF BoundaryInv, Undisturbed, NothingWaited
  <2>2. CASE SessionPumps
    BY <2>1, <2>2, SessionPumpsKeeps
  <2>3. CASE SessionAdvances
    BY <2>1, <2>3, SessionAdvancesKeeps
  <2>4. CASE UserPushes \/ UserPumps \/ UserFinishes \/ UserCancels \/ UserReplaces
    BY <2>1, <2>4, UserPushesKeeps, UserPumpsKeeps, UserFinishesKeeps, UserCancelsKeeps,
       UserReplacesKeeps
  <2>5. CASE UserResumes
    BY <2>1, <2>5, NoResume
  <2>6. CASE (RequestCancel \/ RuntimeCompletes) /\ UNCHANGED sessionVars
    <3>1. UNCHANGED <<issued, engineVars, text, fed>>
      BY <2>6 DEF RequestCancel, RuntimeCompletes, vars, environment
    <3> QED
      BY <2>1, <2>6, <3>1, OthersKeep
  <2> QED
    BY <1>2, <2>2, <2>3, <2>4, <2>5, <2>6 DEF SessionNext
<1> QED
  BY <1>1, <1>2

LEMMA BoundaryStarts == SessionInit => BoundaryInv
<1> SUFFICES ASSUME SessionInit PROVE BoundaryInv
  OBVIOUS
<1>1. /\ locked = <<>> /\ editable = <<>> /\ source = <<>> /\ text \in Texts /\ fed = 0
      /\ inFlight = 0 /\ issued = 0 /\ outstanding = {} /\ pending = <<>> /\ hasExecutor = FALSE
      /\ calling = "idle" /\ estate = "AcceptingInput" /\ sstate = "AcceptingInput"
  BY DEF SessionInit, EngineInit
<1>2. LinesSound
  BY <1>1, TextsAssumption DEF LinesSound
<1>3. EngineSound /\ CallSound
  BY <1>1 DEF EngineSound, CallSound
<1> QED
  BY <1>1, <1>2, <1>3 DEF BoundaryInv, WaitsIssued, Sound

(* Every session of every client and every program, for every runtime: as  *)
(* long as no command and no target of a jump was waited for, a rejection  *)
(* leaves the lines before the rejected one locked, and that one and those *)
(* behind it editable; locked and editable lines are together what the     *)
(* client has pushed and put in the place of a rejected suffix             *)
(* (runEngineStep, commitAcceptedEditablePrefix, replaceEditableSuffix).   *)
THEOREM BoundaryHolds == SessionSpec => []BoundaryKept
<1>1. BoundaryInv => BoundaryKept
  <2> SUFFICES ASSUME LinesSound PROVE RejectedBoundary /\ locked \o editable = source
    BY DEF BoundaryInv, Sound, BoundaryKept
  <2> QED
    BY DEF LinesSound, RejectedAt, RejectedBoundary
<1> QED
  BY <1>1, BoundaryStarts, BoundaryStep, PTL DEF SessionSpec

(* A line that is bad in itself is rejected when it stands alone.          *)
LEMMA BadAlone ==
  ASSUME NEW l \in SourceLines, MayReject(l)
  PROVE  HasArc(<<l>>) \/ WholeText(<<l>>).rejected = 1
<1>1. CASE Msg!IsArc(l)
  BY <1>1, SameMotion DEF Msg!IsArc, HasArc
<1>2. CASE Msg!BadInItself(l)
  <2> DEFINE p == Piece(<<l>>, 0, Len(<<l>>))
  <2>1. DOMAIN p = {1} /\ p[1].line = 1 /\ p[1].src = l /\ p \in Seq(PendingLine)
    BY DEF Piece, PendingLine
  <2> HIDE DEF p
  <2>2. Lowered(p).rejected # NoLine
    BY <1>2, <2>1, RejectsFirstBadLine
  <2>3. \E k \in DOMAIN p : Lowered(p).rejected = p[k].line
    BY <2>1, <2>2, RejectsFirstBadLine
  <2> QED
    BY <2>1, <2>3 DEF WholeText, p
<1> QED
  BY <1>1, <1>2 DEF MayReject

(* For every session: what stands at the boundary is a line that would be  *)
(* rejected wherever it stands, or an arc.                                 *)
THEOREM BoundaryIsBad == SessionSpec => []SuffixBeginsBad
<1>1. BoundaryInv => SuffixBeginsBad
  <2> SUFFICES ASSUME LinesSound, sstate = "Rejected"
               PROVE  HasArc(<<editable[1]>>) \/ WholeText(<<editable[1]>>).rejected = 1
    BY DEF BoundaryInv, Sound, SuffixBeginsBad
  <2>1. MayReject(source[Len(locked) + 1]) /\ editable # <<>>
    BY DEF LinesSound, RejectedAt
  <2>2. source[Len(locked) + 1] = editable[1] /\ editable[1] \in SourceLines
    BY <2>1 DEF LinesSound
  <2> QED
    BY <2>1, <2>2, BadAlone
<1> QED
  BY <1>1, BoundaryStarts, BoundaryStep, PTL DEF SessionSpec

----------------------------------------------------------------------------
(* The types of the session, and what its state says of the engine's, also *)
(* while it is disturbed.                                                  *)

(* The answer of a call and the state the engine is in after it agree.     *)
Agrees ==
  calling' = "idle" =>
    /\ result' = "Blocked" <=> estate' = "Blocked"
    /\ result' = "Rejected" <=> estate' = "Rejected"

OwnLines ==
  /\ locked \in Seq(SourceLines) /\ editable \in Seq(SourceLines)
  /\ sbuffered \in BOOLEAN /\ sfinished \in BOOLEAN /\ dirty \in BOOLEAN
  /\ inFlight \in Nat /\ inFlight <= Len(editable) /\ prefixState \in CarriedState

StateSound ==
  /\ sstate \in EngineStates /\ srejected \in Nat \cup {NoLine}
  /\ sstate = "Rejected" <=> srejected # NoLine
  /\ calling = "idle" => (sstate = "Blocked" <=> estate = "Blocked")
  /\ calling # "idle" => sstate \notin {"Rejected", "Faulted", "Cancelled"}

SessionInv == EngineInv /\ OwnLines /\ StateSound

LEMMA AtRestAgrees == ReturnAtRest => Agrees
BY DEF ReturnAtRest, AtRest, Return, Agrees

LEMMA PumpAgrees == ASSUME Pump PROVE Agrees
<1>1. CASE Report
  BY <1>1 DEF Report, Stays, Return, verdict, Agrees
<1>2. CASE ContinueExecutor \/ StartExecutor
  BY <1>2 DEF ContinueExecutor, StartExecutor, Agrees
<1>3. CASE CancelOnRequest
  BY <1>3 DEF CancelOnRequest, Cancel, Return, Agrees
<1>4. CASE NothingToRun
  BY <1>4, AtRestAgrees DEF NothingToRun, Reject, Return, Agrees
<1>5. CASE NothingPending
  BY <1>5, AtRestAgrees DEF NothingPending
<1> QED
  BY <1>1, <1>2, <1>3, <1>4, <1>5 DEF Pump

LEMMA AdvanceAgrees == ASSUME EngineInv, AdvanceExecutor \/ ExecutorStalls PROVE Agrees
<1>1. calling = "advancing" /\ ~Stays
  BY DEF EngineInv, CallOK, AdvanceExecutor, ExecutorStalls
<1>2. CASE ExecutorStalls
  BY <1>1, <1>2 DEF ExecutorStalls, Return, verdict, Stays, Agrees
<1>3. CASE AdvanceExecutor
  <2>1. CASE GoesOn \/ Polls
    BY <1>1, <2>1 DEF GoesOn, Polls, call, Agrees
  <2>2. CASE BecomesBlocked \/ DropsExecutor \/ ExecutorFaults
    BY <2>2 DEF BecomesBlocked, DropsExecutor, ExecutorFaults, Return, Agrees
  <2>3. CASE ExecutorCompletes
    BY <2>3, AtRestAgrees DEF ExecutorCompletes, Reject, Return, Agrees
  <2> QED
    BY <1>3, <2>1, <2>2, <2>3 DEF AdvanceExecutor
<1> QED
  BY <1>2, <1>3

LEMMA ResumeAgrees == ASSUME NEW token, Resume(token) PROVE Agrees
BY AtRestAgrees DEF Resume, ReturnAtRest, AtRest, Return, Agrees

(* Accepting a number of lines.                                            *)
LEMMA CommitTyped ==
  ASSUME OwnLines, NEW count \in Nat, Commit(count), current' \in CarriedState
  PROVE  /\ locked' \in Seq(SourceLines) /\ editable' \in Seq(SourceLines)
         /\ dirty' \in BOOLEAN /\ prefixState' \in CarriedState
<1>1. /\ locked' \in Seq(SourceLines) /\ editable' \in Seq(SourceLines)
  BY CommitKeeps DEF OwnLines
<1>2. dirty' \in BOOLEAN
  BY Zenon DEF Commit
<1> QED
  BY <1>1, <1>2 DEF Commit

(* Every answer of the engine leaves the session typed.                    *)
LEMMA AnswerTyped ==
  ASSUME OwnLines, StateSound, EngineInv', Agrees, calling' = "idle", RunEngineStep,
         sstate \notin {"Rejected", "Faulted", "Cancelled"}
  PROVE  OwnLines' /\ StateSound'
<1>1. /\ current' \in CarriedState /\ estate' \in EngineStates /\ rejected' \in Nat \cup {NoLine}
      /\ estate' = "Rejected" => rejected' # NoLine
      /\ result' \in Results
  BY DEF EngineInv, VerdictOK, CallOK
<1>2. srejected = NoLine /\ locked \in Seq(SourceLines) /\ editable \in Seq(SourceLines)
      /\ UNCHANGED <<sbuffered, sfinished>>
  BY DEF StateSound, OwnLines, RunEngineStep, sinput
<1>3. inFlight \in Nat /\ inFlight <= Len(editable)
  BY DEF OwnLines
<1>4. CASE EngineRejects
  <2>1. /\ result' = "Rejected" /\ sstate' = "Rejected" /\ srejected' = rejected' /\ inFlight' = 0
        /\ IF AcceptedBefore > 0 THEN Commit(AcceptedBefore) ELSE CommitNothing
    BY <1>4 DEF EngineRejects, EndsFlight
  <2>2. estate' = "Rejected" /\ rejected' \in Nat /\ rejected' # NoLine
    BY <1>1, <2>1 DEF Agrees
  <2>3. StateSound'
    BY <1>1, <2>1, <2>2 DEF StateSound, EngineStates
  <2>4. /\ locked' \in Seq(SourceLines) /\ editable' \in Seq(SourceLines)
        /\ dirty' \in BOOLEAN /\ prefixState' \in CarriedState
    <3>1. CASE AcceptedBefore > 0
      <4>1. AcceptedBefore \in Nat
        BY <1>2, <2>2, <3>1 DEF AcceptedBefore
      <4> QED
        BY <1>1, <2>1, <3>1, <4>1, CommitTyped
    <3>2. CASE ~(AcceptedBefore > 0)
      BY <2>1, <3>2 DEF CommitNothing, OwnLines
    <3> QED
      BY <3>1, <3>2
  <2>5. OwnLines'
    BY <1>2, <2>1, <2>4 DEF OwnLines
  <2> QED
    BY <2>3, <2>5
<1>5. CASE EngineStops
  <2>1. /\ result' \in {"Blocked", "Faulted", "Cancelled"} /\ sstate' = result'
        /\ inFlight' = IF result' = "Blocked" THEN inFlight ELSE 0
        /\ UNCHANGED <<locked, editable, prefixState, dirty, srejected>>
    BY <1>5 DEF EngineStops, CommitNothing
  <2>2. StateSound'
    BY <1>1, <1>2, <2>1 DEF StateSound, EngineStates, Agrees
  <2>3. OwnLines'
    BY <1>2, <1>3, <2>1 DEF OwnLines
  <2> QED
    BY <2>2, <2>3
<1>6. CASE EngineGoesOn
  <2>1. /\ result' \in {"Progress", "Completed"} /\ UNCHANGED srejected
        /\ sstate' = IF result' = "Completed" THEN "Completed" ELSE estate'
    BY <1>6 DEF EngineGoesOn
  <2>2. StateSound'
    BY <1>1, <1>2, <2>1 DEF StateSound, EngineStates, Agrees
  <2>3. CASE Commit(inFlight) /\ inFlight' = inFlight - Least(inFlight, Len(editable))
    <3>1. inFlight' = 0
      BY <1>2, <1>3, <2>3 DEF Least
    <3>2. /\ locked' \in Seq(SourceLines) /\ editable' \in Seq(SourceLines)
          /\ dirty' \in BOOLEAN /\ prefixState' \in CarriedState
      BY <1>1, <1>3, <2>3, CommitTyped
    <3> QED
      BY <1>2, <2>2, <3>1, <3>2 DEF OwnLines
  <2>4. CASE CommitNothing /\ UNCHANGED inFlight
    BY <1>2, <2>2, <2>4 DEF CommitNothing, OwnLines
  <2> QED
    BY <1>6, <2>3, <2>4 DEF EngineGoesOn
<1> QED
  BY <1>4, <1>5, <1>6 DEF RunEngineStep

LEMMA SameSession ==
  ASSUME OwnLines, StateSound, UNCHANGED sessionVars, calling' = calling \/ calling' # "idle",
         calling # "idle" \/ (calling' = "idle" /\ estate' = estate)
  PROVE  OwnLines' /\ StateSound'
BY DEF OwnLines, StateSound, sessionVars, lines, sinput, sverdict

LEMMA ReportKeepsTypes ==
  ASSUME SessionInv, EngineInv', Agrees, ReportsToSession, calling # "idle"
  PROVE  SessionInv'
<1>1. CASE calling' = "idle"
  BY <1>1, AnswerTyped DEF SessionInv, StateSound, ReportsToSession
<1>2. CASE calling' # "idle"
  BY <1>2, SameSession DEF SessionInv, ReportsToSession
<1> QED
  BY <1>1, <1>2

(* A new engine is typed, whatever lines it is given.                      *)
LEMMA NewEngineTyped ==
  ASSUME SessionInv, NEW suffix \in Seq(SourceLines), NewEngine(suffix), calling = "idle",
         UNCHANGED <<vars, notices, text>>, calling' \in {"idle", "pumping"}, result' \in Results,
         UNCHANGED <<cancelRequested, completed>>, fed' \in 0 .. Len(text), finished' \in BOOLEAN
  PROVE  EngineInv' /\ estate' = "AcceptingInput"
<1>1. EngineInv /\ OwnLines
  BY DEF SessionInv
<1>2. TypeOK' /\ UNCHANGED <<status, blocked>>
  BY <1>1, StutterTyped DEF EngineInv, vars, control
<1>3. InputOK'
  <2>1. pending' \in Seq(PendingLine)
    BY <1>1, SuffixTyped DEF NewEngine, OwnLines
  <2>2. nextLine' \in Nat \ {0}
    BY <1>1 DEF NewEngine, OwnLines
  <2>3. buffered' \in BOOLEAN
    BY Zenon DEF NewEngine
  <2>4. text' \in Texts /\ fed' \in 0 .. Len(text')
    BY <1>1 DEF EngineInv, InputOK
  <2> QED
    BY <2>1, <2>2, <2>3, <2>4, Zenon DEF InputOK
<1>4. VerdictOK'
  BY <1>1 DEF NewEngine, RestoresPrefix, OwnLines, VerdictOK, EngineStates
<1>5. CallOK'
  BY DEF CallOK
<1>6. ClientOK'
  BY <1>1 DEF EngineInv, ClientOK
<1> QED
  BY <1>2, <1>3, <1>4, <1>5, <1>6 DEF EngineInv, NewEngine

LEMMA SameEngineTyped ==
  ASSUME EngineInv, UNCHANGED <<vars, notices, text, pending, nextLine, buffered, verdict>>,
         calling = "idle", calling' \in {"idle", "pumping"}, result' \in Results,
         UNCHANGED <<cancelRequested, completed>>, fed' \in 0 .. Len(text), finished' \in BOOLEAN
  PROVE  EngineInv'
<1>1. TypeOK' /\ UNCHANGED <<status, blocked>>
  BY StutterTyped DEF EngineInv, vars, control
<1>2. InputOK'
  BY Zenon DEF EngineInv, InputOK
<1>3. VerdictOK'
  BY <1>1, SameVerdict DEF EngineInv
<1>4. CallOK'
  BY DEF CallOK
<1>5. ClientOK'
  BY DEF EngineInv, ClientOK
<1> QED
  BY <1>1, <1>2, <1>3, <1>4, <1>5 DEF EngineInv

(* pump() with the suffix of after the call.                               *)
LEMMA PumpWithTyped ==
  ASSUME SessionInv, NEW changed \in BOOLEAN, NEW end \in BOOLEAN,
         PumpWith(editable', changed, end), calling = "idle", editable' \in Seq(SourceLines),
         Len(editable) <= Len(editable'), fed' \in 0 .. Len(text),
         UNCHANGED <<vars, notices, text, cancelRequested, completed, locked, prefixState,
                     srejected>>,
         sbuffered' \in BOOLEAN, sfinished' \in BOOLEAN
  PROVE  SessionInv'
<1>1. EngineInv /\ OwnLines /\ StateSound /\ finished \in BOOLEAN /\ result \in Results
  BY DEF SessionInv, EngineInv, InputOK, CallOK
<1>2. CASE sstate \in {"Rejected", "Faulted", "Cancelled"} \/ sstate = "Blocked"
  <2>1. /\ dirty' = changed /\ UNCHANGED <<input, verdict, sstate, inFlight>>
        /\ calling' \in {"idle", "pumping"} /\ result' \in {result, sstate}
        /\ calling' = "pumping" => sstate = "Blocked"
    BY <1>2 DEF PumpWith
  <2>2. result' \in Results
    BY <1>1, <1>2, <2>1 DEF Results
  <2>3. UNCHANGED <<pending, nextLine, buffered, finished, estate>>
    BY <2>1 DEF input, verdict
  <2>4. EngineInv'
    BY <1>1, <2>1, <2>2, <2>3, SameEngineTyped
  <2>5. OwnLines'
    BY <1>1, <2>1 DEF OwnLines
  <2>6. StateSound'
    BY <1>1, <1>2, <2>1, <2>3 DEF StateSound
  <2> QED
    BY <2>4, <2>5, <2>6 DEF SessionInv
<1>3. CASE sstate \notin {"Rejected", "Faulted", "Cancelled", "Blocked"}
  <2>1. /\ dirty' = FALSE /\ calling' \in {"idle", "pumping"}
        /\ IF changed
           THEN NewEngine(editable') /\ inFlight' = Len(editable') /\ finished' = end
           ELSE /\ UNCHANGED <<pending, nextLine, buffered, verdict, inFlight>>
                /\ finished' = (finished \/ end)
        /\ \/ sstate' = "ReadyToExecute" /\ calling' = "idle" /\ result' = "Progress"
           \/ calling' = "pumping" /\ UNCHANGED <<result, sstate>>
    BY <1>3 DEF PumpWith, Return
  <2>2. result' \in Results /\ sstate' \in EngineStates
    BY <1>1, <2>1 DEF Results, EngineStates, StateSound
  <2>3. EngineInv' /\ (calling' = "idle" => estate' # "Blocked") /\ inFlight' \in Nat
          /\ inFlight' <= Len(editable')
    <3>1. CASE changed
      <4>1. NewEngine(editable') /\ inFlight' = Len(editable') /\ finished' = end
        BY <2>1, <3>1
      <4>2. EngineInv' /\ estate' = "AcceptingInput"
        BY <2>1, <2>2, <4>1, NewEngineTyped
      <4> QED
        BY <4>1, <4>2
    <3>2. CASE ~changed
      <4>1. UNCHANGED <<pending, nextLine, buffered, verdict, inFlight>> /\ finished' \in BOOLEAN
        BY <1>1, <2>1, <3>2
      <4>2. EngineInv'
        BY <1>1, <2>1, <2>2, <4>1, SameEngineTyped
      <4>3. estate # "Blocked" /\ estate' = estate
        BY <1>1, <1>3, <4>1 DEF StateSound, verdict
      <4> QED
        BY <1>1, <4>1, <4>2, <4>3 DEF OwnLines
    <3> QED
      BY <3>1, <3>2
  <2>4. OwnLines'
    BY <1>1, <2>1, <2>3 DEF OwnLines
  <2>5. StateSound'
    BY <1>1, <1>3, <2>1, <2>2, <2>3 DEF StateSound
  <2> QED
    BY <2>3, <2>4, <2>5 DEF SessionInv
<1> QED
  BY <1>2, <1>3

LEMMA SessionPumpsTyped == ASSUME SessionInv, SessionPumps PROVE SessionInv'
<1>1. EngineInv' /\ Agrees /\ calling # "idle"
  BY PumpKeeps, PumpAgrees DEF SessionInv, SessionPumps, Pump
<1> QED
  BY <1>1, ReportKeepsTypes DEF SessionPumps

LEMMA SessionAdvancesTyped == ASSUME SessionInv, SessionAdvances PROVE SessionInv'
<1>1. EngineInv' /\ Agrees
  BY AdvanceKeeps, StallsKeeps, AdvanceAgrees DEF SessionInv, SessionAdvances
<1>2. calling # "idle"
  BY DEF SessionAdvances, AdvanceExecutor, ExecutorStalls
<1> QED
  BY <1>1, <1>2, ReportKeepsTypes DEF SessionAdvances

LEMMA UserPushesTyped == ASSUME SessionInv, UserPushes PROVE SessionInv'
<1>1. PICK m \in 0 .. Len(text) - fed, rest \in BOOLEAN :
        SessionPush(SubSeq(text, fed + 1, fed + m), rest) /\ fed' = fed + m
  BY DEF UserPushes
<1> DEFINE chunk == SubSeq(text, fed + 1, fed + m)
<1>2. text \in Texts /\ fed \in 0 .. Len(text) /\ Len(text) \in Nat
  BY TextsAssumption DEF SessionInv, EngineInv, InputOK
<1>3. chunk \in Seq(SourceLines) /\ fed' \in 0 .. Len(text)
  <2>1. fed + m \in fed .. Len(text) /\ fed + m \in 0 .. Len(text)
    BY <1>2
  <2> QED
    BY <1>1, <1>2, <2>1, NextLines
<1>4. UNCHANGED <<cancelRequested, completed, text>>
  BY DEF UserPushes
<1> HIDE DEF chunk
<1>5. /\ editable' = editable \o chunk /\ dirty' = (dirty \/ chunk # <<>>) /\ sbuffered' = rest
      /\ calling = "idle"
      /\ UNCHANGED <<vars, engineVars, locked, inFlight, prefixState, sfinished, sverdict>>
  BY <1>1 DEF SessionPush, chunk
<1>6. EngineInv'
  <2>1. UNCHANGED <<notices, pending, nextLine, buffered, finished, verdict, calling, result>>
    BY <1>5 DEF engineVars, input, call
  <2>2. EngineInv /\ finished \in BOOLEAN /\ result \in Results
    BY DEF SessionInv, EngineInv, InputOK, CallOK
  <2> QED
    BY <1>3, <1>4, <1>5, <2>1, <2>2, SameEngineTyped
<1>7. OwnLines'
  <2>1. editable' \in Seq(SourceLines) /\ Len(editable') = Len(editable) + Len(chunk)
        /\ Len(chunk) \in Nat
    BY <1>3, <1>5, ConcatProperties DEF SessionInv, OwnLines
  <2>2. dirty' \in BOOLEAN
    BY <1>5
  <2> QED
    BY <1>5, <2>1, <2>2 DEF SessionInv, OwnLines
<1>8. StateSound'
  BY <1>5 DEF SessionInv, StateSound, engineVars, verdict, call, sverdict
<1> QED
  BY <1>6, <1>7, <1>8 DEF SessionInv

LEMMA UserPumpsTyped == ASSUME SessionInv, UserPumps PROVE SessionInv'
<1>1. /\ calling = "idle" /\ PumpWith(editable, dirty, sfinished)
      /\ UNCHANGED <<vars, notices, locked, editable, prefixState, sbuffered, sfinished, srejected>>
      /\ UNCHANGED <<cancelRequested, completed, text, fed>>
  BY DEF UserPumps, SessionPump, client, sinput
<1>2. /\ PumpWith(editable', dirty, sfinished) /\ dirty \in BOOLEAN /\ sfinished \in BOOLEAN
      /\ editable' \in Seq(SourceLines) /\ Len(editable) <= Len(editable')
      /\ sbuffered' \in BOOLEAN /\ sfinished' \in BOOLEAN
  BY <1>1 DEF SessionInv, OwnLines
<1>3. fed' \in 0 .. Len(text)
  BY <1>1 DEF SessionInv, EngineInv, InputOK
<1> QED
  BY <1>1, <1>2, <1>3, PumpWithTyped

LEMMA UserFinishesTyped == ASSUME SessionInv, UserFinishes PROVE SessionInv'
<1> DEFINE chunk == SubSeq(text, fed + 1, Len(text))
           changed == dirty \/ chunk # <<>>
<1>1. /\ calling = "idle" /\ editable' = editable \o chunk /\ PumpWith(editable', changed, TRUE)
      /\ sfinished' = TRUE /\ sbuffered' = FALSE /\ fed' = Len(text)
      /\ UNCHANGED <<vars, notices, locked, prefixState, srejected>>
      /\ UNCHANGED <<cancelRequested, completed, text>>
  BY DEF UserFinishes, SessionFinish
<1>2. text \in Texts /\ fed \in 0 .. Len(text) /\ Len(text) \in Nat
  BY TextsAssumption DEF SessionInv, EngineInv, InputOK
<1>3. chunk \in Seq(SourceLines)
  BY <1>2, NextLines
<1>4. changed \in BOOLEAN
  OBVIOUS
<1> HIDE DEF chunk, changed
<1>5. editable' \in Seq(SourceLines) /\ Len(editable) <= Len(editable')
  BY <1>1, <1>3, ConcatProperties DEF SessionInv, OwnLines
<1>6. fed' \in 0 .. Len(text)
  BY <1>1, <1>2
<1>7. sbuffered' \in BOOLEAN /\ sfinished' \in BOOLEAN
  BY <1>1
<1> QED
  BY <1>1, <1>4, <1>5, <1>6, <1>7, PumpWithTyped

LEMMA UserResumesTyped == ASSUME SessionInv, UserResumes PROVE SessionInv'
<1>1. PICK t \in completed :
        sstate = "Blocked" /\ SessionResume(t) /\ completed' = completed \ {t}
  BY DEF UserResumes
<1>2. UNCHANGED <<cancelRequested, text, fed>> /\ t \in Nat \ {0}
  BY DEF UserResumes, SessionInv, EngineInv, ClientOK
<1>3. EngineInv' /\ Agrees
  BY <1>1, <1>2, ResumeKeeps, ResumeAgrees DEF SessionInv, SessionResume
<1>4. calling' = "idle"
  BY <1>1 DEF SessionResume, Resume, ReturnAtRest, Return
<1> QED
  BY <1>1, <1>3, <1>4, AnswerTyped DEF SessionInv, SessionResume

LEMMA UserCancelsTyped == ASSUME SessionInv, UserCancels PROVE SessionInv'
<1>1. CallCancel /\ UNCHANGED client
  BY DEF UserCancels, SessionCancel
<1>2. EngineInv' /\ estate' = "Cancelled"
  <2>1. TypeOK' /\ InputOK' /\ VerdictOK' /\ ClientOK' /\ estate' = "Cancelled"
    BY <1>1, CancelKeeps DEF SessionInv, CallCancel
  <2>2. CallOK'
    BY <1>1 DEF SessionInv, EngineInv, CallOK, CallCancel, call
  <2> QED
    BY <2>1, <2>2 DEF EngineInv
<1>3. /\ calling = "idle" /\ srejected' = NoLine /\ inFlight' = 0 /\ sstate' = "Cancelled"
      /\ UNCHANGED <<locked, editable, dirty, prefixState, sbuffered, sfinished, calling>>
  BY DEF UserCancels, SessionCancel, CallCancel, call, sinput
<1>4. OwnLines'
  BY <1>3 DEF SessionInv, OwnLines
<1>5. StateSound'
  BY <1>2, <1>3 DEF StateSound, EngineStates
<1> QED
  BY <1>2, <1>4, <1>5 DEF SessionInv

LEMMA UserReplacesTyped == ASSUME SessionInv, UserReplaces PROVE SessionInv'
<1>1. PICK chunk \in Replacements : ReplaceEditableSuffix(chunk)
  BY DEF UserReplaces
<1>2. /\ calling = "idle" /\ editable' = chunk /\ sbuffered' = FALSE /\ srejected' = NoLine
      /\ NewEngine(<<>>) /\ finished' = FALSE /\ inFlight' = 0
      /\ dirty' = TRUE /\ sstate' = "AcceptingInput"
      /\ UNCHANGED <<vars, calling, result, notices, locked, prefixState, sfinished>>
  BY <1>1 DEF ReplaceEditableSuffix, call
<1>3. UNCHANGED <<cancelRequested, completed, text, fed>>
  BY DEF UserReplaces, client
<1>4. EngineInv' /\ estate' = "AcceptingInput"
  <2>1. <<>> \in Seq(SourceLines) /\ fed' \in 0 .. Len(text) /\ result' \in Results
    BY <1>2, <1>3 DEF SessionInv, EngineInv, InputOK, CallOK
  <2>2. finished' \in BOOLEAN
    BY <1>2, Zenon
  <2> QED
    BY <1>2, <1>3, <2>1, <2>2, NewEngineTyped
<1>5. OwnLines'
  <2>1. /\ locked' \in Seq(SourceLines) /\ editable' \in Seq(SourceLines)
        /\ inFlight' \in Nat /\ inFlight' <= Len(editable')
    BY <1>2, ReplacementsAssumption DEF SessionInv, OwnLines
  <2>2. sbuffered' \in BOOLEAN /\ sfinished' \in BOOLEAN /\ dirty' \in BOOLEAN
    BY <1>2, Zenon DEF SessionInv, OwnLines
  <2>3. prefixState' \in CarriedState
    BY <1>2 DEF SessionInv, OwnLines
  <2> QED
    BY <2>1, <2>2, <2>3, Zenon DEF OwnLines
<1>6. StateSound'
  BY <1>2, <1>4 DEF StateSound, EngineStates
<1> QED
  BY <1>4, <1>5, <1>6 DEF SessionInv

LEMMA OthersTyped ==
  ASSUME SessionInv, EngineInv', UNCHANGED <<sessionVars, calling, estate>>
  PROVE  SessionInv'
<1>1. OwnLines'
  BY DEF SessionInv, OwnLines, sessionVars, lines, sinput
<1>2. StateSound'
  BY DEF SessionInv, StateSound, sessionVars, sverdict
<1> QED
  BY <1>1, <1>2 DEF SessionInv

LEMMA SessionStepTyped == ASSUME SessionInv, [SessionNext]_everyVar PROVE SessionInv'
<1>1. CASE RequestCancel /\ UNCHANGED sessionVars
  BY <1>1, RequestKeeps, OthersTyped DEF SessionInv, RequestCancel, engineVars, verdict, call
<1>2. CASE RuntimeCompletes /\ UNCHANGED sessionVars
  BY <1>2, RuntimeKeeps, OthersTyped DEF SessionInv, RuntimeCompletes, engineVars, verdict, call
<1>3. CASE UNCHANGED everyVar
  BY <1>3, EngineStutters, OthersTyped DEF SessionInv, everyVar, allVars, engineVars, verdict, call
<1> QED
  BY <1>1, <1>2, <1>3, SessionPumpsTyped, SessionAdvancesTyped, UserPushesTyped, UserPumpsTyped,
     UserFinishesTyped, UserResumesTyped, UserCancelsTyped, UserReplacesTyped DEF SessionNext

LEMMA SessionStartsTyped == SessionInit => SessionInv
<1> SUFFICES ASSUME SessionInit PROVE SessionInv
  OBVIOUS
<1>1. EngineInv
  BY EngineStarts DEF SessionInit
<1>2. /\ locked = <<>> /\ editable = <<>> /\ sbuffered = FALSE /\ sfinished = FALSE
      /\ dirty = FALSE /\ inFlight = 0 /\ prefixState = current
      /\ sstate = "AcceptingInput" /\ srejected = NoLine
      /\ estate = "AcceptingInput" /\ calling = "idle"
  BY DEF SessionInit, EngineInit
<1>3. OwnLines
  <2>1. /\ locked \in Seq(SourceLines) /\ editable \in Seq(SourceLines)
        /\ inFlight \in Nat /\ inFlight <= Len(editable)
    BY <1>2
  <2>2. sbuffered \in BOOLEAN /\ sfinished \in BOOLEAN /\ dirty \in BOOLEAN
    BY <1>2, Zenon
  <2>3. prefixState \in CarriedState
    BY <1>1, <1>2 DEF EngineInv, VerdictOK
  <2> QED
    BY <2>1, <2>2, <2>3, Zenon DEF OwnLines
<1>4. StateSound
  BY <1>2 DEF StateSound, EngineStates
<1> QED
  BY <1>1, <1>3, <1>4 DEF SessionInv

(* The session's variables keep their types, it is rejected exactly while  *)
(* it names a line, between two calls it is blocked exactly when its engine*)
(* is, and no more lines are in flight than there are in the suffix: for   *)
(* every client, also after waits, dropped executors, cancels and edits.   *)
THEOREM SessionTypesKept == SessionSpec => []SessionTypeOK
<1>1. SessionInv => SessionTypeOK
  BY DEF SessionInv, OwnLines, StateSound, SessionTypeOK, CarriedState
<1> QED
  BY <1>1, SessionStartsTyped, SessionStepTyped, PTL DEF SessionSpec
=============================================================================
