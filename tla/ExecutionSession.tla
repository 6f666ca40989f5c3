-------------------------- MODULE ExecutionSession --------------------------
(***************************************************************************)
(* ExecutionSession of src/src/execution_session.cpp: the public object.   *)
(* It keeps the source lines in two parts, a locked prefix that has been   *)
(* accepted and an editable suffix, and runs the suffix on a streaming     *)
(* engine that it builds anew whenever the suffix has changed.  After a    *)
(* rejection the client replaces the suffix and goes on.                   *)
(*                                                                         *)
(* The variables of StreamingEngine are those of engine_; its client is    *)
(* replaced by the session and the session's own client.                   *)
(***************************************************************************)
EXTENDS StreamingEngine

CONSTANTS
  Replacements,  \* what a client replaces an editable suffix with
  MaxEdits       \* bound: how often it does so

ASSUME ReplacementsAssumption == Replacements \subseteq Seq(SourceLines) /\ MaxEdits \in Nat

VARIABLES
  locked, editable,  \* locked_prefix_lines_, editable_lines_
  sbuffered,         \* input_buffer_ holds an unterminated line
  sfinished,         \* input_finished_
  sstate, srejected, \* state_, the line of rejected_
  inFlight,          \* in_flight_line_count_
  dirty,             \* engine_dirty_
  prefixState,       \* prefix_state_
  source,            \* what the client means the program to be so far
  edits,             \* how often it has replaced the suffix
  pumpedOpen,        \* it has pumped before the input was finished
  awaited            \* an executor was dropped to wait for a jump's target

lines == <<locked, editable, inFlight, dirty, prefixState>>
sinput == <<sbuffered, sfinished>>
sverdict == <<sstate, srejected>>
history == <<source, edits, pumpedOpen, awaited>>
sessionVars == <<lines, sinput, sverdict, history>>
everyVar == <<allVars, sessionVars>>

----------------------------------------------------------------------------
(* runEngineStep: what the session makes of the engine's answer.  Primed   *)
(* variables of the engine are its state after the call.                   *)

Least(a, b) == IF a <= b THEN a ELSE b

KeepsAll(count) == editable  \* a mutant: accepted lines stay editable
Remaining(count) == SubSeq(editable, count + 1, Len(editable))

(* commitAcceptedEditablePrefix                                            *)
Commit(count) ==
  LET accepted == Least(count, Len(editable)) IN
    /\ locked' = locked \o SubSeq(editable, 1, accepted)
    /\ editable' = Remaining(accepted)
    /\ prefixState' = current'
    /\ dirty' = (editable' # <<>>)

CommitNothing == UNCHANGED <<locked, editable, prefixState, dirty>>

(* Lines of the suffix before the rejected one.                            *)
CountsRejected == rejected' - Len(locked)  \* a mutant: off by one
AcceptedBefore == rejected' - 1 - Len(locked)

KeepsFlight == UNCHANGED inFlight  \* a mutant: the count outlives the run
EndsFlight == inFlight' = 0

EngineRejects ==
  /\ result' = "Rejected" /\ sstate' = "Rejected" /\ srejected' = rejected' /\ EndsFlight
  /\ IF AcceptedBefore > 0 THEN Commit(AcceptedBefore) ELSE CommitNothing

EngineStops ==
  /\ result' \in {"Blocked", "Faulted", "Cancelled"} /\ sstate' = result'
  /\ inFlight' = IF result' = "Blocked" THEN inFlight ELSE 0
  /\ CommitNothing /\ UNCHANGED srejected

(* The engine has no work left, as far as its state tells.                 *)
EngineGoesOn ==
  /\ result' \in {"Progress", "Completed"} /\ UNCHANGED srejected
  /\ sstate' = IF result' = "Completed" THEN "Completed" ELSE estate'
  /\ IF inFlight # 0 /\ estate' \in {"ReadyToExecute", "Completed"}
     THEN Commit(inFlight) /\ inFlight' = inFlight - Least(inFlight, Len(editable))
     ELSE CommitNothing /\ UNCHANGED inFlight

RunEngineStep ==
  /\ EngineRejects \/ EngineStops \/ EngineGoesOn
  /\ awaited' = (awaited \/ (calling = "advancing" /\ estate' = "ReadyToExecute" /\ status' = "Fault"))
  /\ UNCHANGED <<sinput, source, edits, pumpedOpen>>

(* Steps inside a call of the engine, and the end of that call.            *)
ReportsToSession == IF calling' = "idle" THEN RunEngineStep ELSE UNCHANGED sessionVars

SessionPumps == Pump /\ ReportsToSession
SessionAdvances == (AdvanceExecutor \/ ExecutorStalls) /\ ReportsToSession

----------------------------------------------------------------------------
(* The calls of the client.                                                *)

Closed == {"Rejected", "Cancelled", "Faulted", "Completed"}

SessionPush(chunk, rest) ==
  /\ calling = "idle" /\ sstate \notin Closed
  /\ editable' = editable \o chunk /\ dirty' = (dirty \/ chunk # <<>>)
  /\ sbuffered' = rest /\ source' = source \o chunk
  /\ UNCHANGED <<vars, engineVars, locked, inFlight, prefixState, sfinished, sverdict>>
  /\ UNCHANGED <<edits, pumpedOpen, awaited>>

(* rebuildEngineFromLockedPrefix: a new engine that continues after the    *)
(* locked lines, with these lines already pushed to it.                    *)
StartsAfresh ==  \* a mutant: the new engine starts from the default state
  current' = [current EXCEPT !.modal = InitialModal, !.activeTool = NoTool]
RestoresPrefix == current' = prefixState

NewEngine(suffix) ==
  /\ pending' = [k \in DOMAIN suffix |-> [line |-> Len(locked) + k, src |-> suffix[k]]]
  /\ nextLine' = Len(locked) + 1 + Len(suffix)
  /\ buffered' = FALSE /\ estate' = "AcceptingInput" /\ waiting' = NoWait
  /\ rejected' = NoLine /\ deferred' = NoLine /\ hasExecutor' = FALSE /\ told' = 0
  /\ RestoresPrefix

(* pump() of the session with these lines in the suffix.                   *)
PumpWith(suffix, changed, end) ==
  \/ /\ sstate \in {"Rejected", "Faulted", "Cancelled"} /\ result' = sstate
     /\ dirty' = changed /\ UNCHANGED <<calling, input, verdict, sstate, inFlight>>
  \/ /\ sstate = "Blocked" /\ calling' = "pumping"
     /\ dirty' = changed /\ UNCHANGED <<result, input, verdict, sstate, inFlight>>
  \/ /\ sstate \notin {"Rejected", "Faulted", "Cancelled", "Blocked"}
     /\ dirty' = FALSE
     /\ IF changed
        THEN NewEngine(suffix) /\ inFlight' = Len(suffix) /\ finished' = end
        ELSE /\ UNCHANGED <<pending, nextLine, buffered, verdict, inFlight>>
             /\ finished' = (finished \/ end)
     /\ IF suffix = <<>> /\ ~end
        THEN sstate' = "ReadyToExecute" /\ Return("Progress")
        ELSE calling' = "pumping" /\ UNCHANGED <<result, sstate>>

SessionPump ==
  /\ calling = "idle" /\ PumpWith(editable, dirty, sfinished)
  /\ pumpedOpen' = (pumpedOpen \/ ~sfinished)
  /\ UNCHANGED <<vars, notices, locked, editable, prefixState, sinput, srejected>>
  /\ UNCHANGED <<source, edits, awaited>>

(* finish() flushes the unterminated line, then pumps.                     *)
SessionFinish(chunk) ==
  /\ calling = "idle" /\ sfinished' = TRUE /\ sbuffered' = FALSE
  /\ editable' = editable \o chunk /\ source' = source \o chunk
  /\ PumpWith(editable', dirty \/ chunk # <<>>, TRUE)
  /\ UNCHANGED <<vars, notices, locked, prefixState, srejected, edits, pumpedOpen, awaited>>

SessionResume(token) == Resume(token) /\ RunEngineStep

SessionCancel ==
  /\ CallCancel /\ srejected' = NoLine /\ inFlight' = 0 /\ sstate' = "Cancelled"
  /\ UNCHANGED <<locked, editable, dirty, prefixState, sinput, history>>

(* replaceEditableSuffix                                                   *)
ReplaceEditableSuffix(chunk) ==
  /\ calling = "idle" /\ sstate = "Rejected"
  /\ editable' = chunk /\ sbuffered' = FALSE /\ srejected' = NoLine
  /\ NewEngine(<<>>) /\ finished' = FALSE /\ inFlight' = 0
  /\ dirty' = TRUE /\ sstate' = "AcceptingInput"
  /\ source' = SubSeq(source, 1, Least(Len(source), srejected - 1)) \o chunk
  /\ edits' = edits + 1
  /\ UNCHANGED <<vars, call, notices, locked, prefixState, sfinished, pumpedOpen, awaited>>

----------------------------------------------------------------------------
(* The client of the session.                                              *)

UserPushes ==
  /\ ~sfinished
  /\ \E m \in 0 .. Len(text) - fed, rest \in BOOLEAN :
       /\ rest => fed + m < Len(text)
       /\ m > 0 \/ (rest /\ ~sbuffered)
       /\ SessionPush(SubSeq(text, fed + 1, fed + m), rest)
       /\ fed' = fed + m
  /\ UNCHANGED <<cancelRequested, completed, text>>

UserPumps == SessionPump /\ UNCHANGED client

UserFinishes ==
  /\ ~sfinished
  /\ fed = Len(text) \/ (fed = Len(text) - 1 /\ sbuffered)
  /\ SessionFinish(SubSeq(text, fed + 1, Len(text)))
  /\ fed' = Len(text) /\ UNCHANGED <<cancelRequested, completed, text>>

UserResumes ==
  \E t \in completed :
    sstate = "Blocked" /\ SessionResume(t) /\ completed' = completed \ {t}
    /\ UNCHANGED <<cancelRequested, text, fed>>

UserCancels == SessionCancel /\ UNCHANGED client

UserReplaces ==
  /\ edits < MaxEdits
  /\ \E chunk \in Replacements : ReplaceEditableSuffix(chunk)
  /\ UNCHANGED client

SessionInit ==
  /\ EngineInit
  /\ locked = <<>> /\ editable = <<>> /\ sbuffered = FALSE /\ sfinished = FALSE
  /\ sstate = "AcceptingInput" /\ srejected = NoLine /\ inFlight = 0 /\ dirty = FALSE
  /\ prefixState = current /\ source = <<>> /\ edits = 0 /\ pumpedOpen = FALSE
  /\ awaited = FALSE

SessionNext ==
  \/ SessionPumps \/ SessionAdvances
  \/ UserPushes \/ UserPumps \/ UserFinishes \/ UserResumes \/ UserCancels \/ UserReplaces
  \/ RequestCancel /\ UNCHANGED sessionVars
  \/ RuntimeCompletes /\ UNCHANGED sessionVars

SessionSpec == SessionInit /\ [][SessionNext]_everyVar

(* As for the engine: the client pumps on, resumes when the runtime is     *)
(* done, and once it has sent everything says so.                          *)
SessionFairness ==
  /\ WF_calling(PumpGoesOn) /\ WF_everyVar(SessionAdvances)
  /\ WF_everyVar(UserPumps) /\ SF_everyVar(UserResumes)
  /\ WF_everyVar(RuntimeCompletes /\ UNCHANGED sessionVars)

SessionFairSpec == SessionSpec /\ SessionFairness

----------------------------------------------------------------------------
(* Properties.                                                             *)

(* The types of the session's own variables; outside a call its state      *)
(* agrees with the engine's, and no more lines are in flight than there    *)
(* are in the suffix.                                                      *)
SessionTypeOK ==
  /\ locked \in Seq(SourceLines) /\ editable \in Seq(SourceLines)
  /\ sbuffered \in BOOLEAN /\ sfinished \in BOOLEAN /\ sstate \in EngineStates
  /\ srejected \in Nat \cup {NoLine} /\ inFlight \in Nat /\ dirty \in BOOLEAN
  /\ prefixState \in [modal : [ModalGroup -> ModalValue], userVars : [Var -> Value],
       activeTool : (Tool \ {Deselect}) \cup {NoTool}, pendingTool : Tool \cup {NoTool}]
  /\ inFlight <= Len(editable)
  /\ sstate = "Rejected" <=> srejected # NoLine
  /\ calling = "idle" => (sstate = "Blocked" <=> estate = "Blocked")

NothingWaited == issued = 0

(* After a rejection the locked prefix is what stands before the rejected  *)
(* line, and the suffix begins with that line.                             *)
RejectedBoundary == sstate = "Rejected" => Len(locked) = srejected - 1 /\ editable # <<>>

(* As long as no command was waited for, and no target of a jump, the      *)
(* boundary holds, and prefix and suffix are together the program the      *)
(* client means, also after it has replaced the suffix.                    *)
Undisturbed == NothingWaited /\ ~awaited
BoundaryKept == Undisturbed => RejectedBoundary /\ locked \o editable = source

(* The line at the boundary is a bad one by itself, unless it is an arc:   *)
(* whether that is bad depends on the lines before it.                     *)
SuffixBeginsBad ==
  Undisturbed /\ sstate = "Rejected" =>
    HasArc(<<editable[1]>>) \/ WholeText(<<editable[1]>>).rejected = 1

(* Commands are submitted in the order of the client's program, each once, *)
(* all of them when the session has completed: a resumed session continues *)
(* what it was doing.                                                      *)
SubmitsInOrder ==
  IsStraight(source) =>
    /\ IsPrefixOf(SubmittedLines, CommandLines(Whole(source)))
    /\ sstate = "Completed" => SubmittedLines = CommandLines(Whole(source))

(* The same for a session that never waited, or whose client has finished  *)
(* the input before the first pump and made no edit.                       *)
CarefulClientInOrder ==
  NothingWaited \/ (~pumpedOpen /\ edits = 0) => SubmitsInOrder

(* Of an IF block such a client sees one part run, never both.             *)
CarefulClientOneBranch == ~pumpedOpen /\ edits = 0 => OneBranchOf(source)

(* Every command carries the modal codes of the client's program, edits    *)
(* included: the rebuilt engine takes over what the prefix has left.       *)
ModalSurvivesRecovery ==
  NothingWaited /\ IsStraight(source) => CarriesCodesOf(Whole(source))

(* Outside a call the state kept for the prefix is the state the locked    *)
(* lines lead to, and its tool is the one on the spindle.                  *)
PrefixStateSound ==
  /\ NothingWaited /\ IsStraight(source) /\ calling = "idle"
  /\ sstate \notin {"Faulted", "Cancelled"}
  => /\ prefixState.activeTool = spindle
     /\ \A g \in ModalGroup :
          IsCodeAt(prefixState.modal[g], Whole(locked), Len(Whole(locked)), g)

(* A session whose input is finished comes to an end or to a rejection,    *)
(* again after each edit.                                                  *)
SessionEnds == sfinished ~> sstate \in Closed
=============================================================================
