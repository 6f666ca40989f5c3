-------------------------- MODULE StreamingEngine --------------------------
(***************************************************************************)
(* StreamingExecutionEngine of src/src/streaming_execution_engine.cpp: it  *)
(* buffers source lines, lowers what is buffered into one program, runs it *)
(* on an executor of its own, and turns what the executor does into engine *)
(* states.  The variables of AilExecutor are those of active_executor_;    *)
(* while hasExecutor is FALSE they are left over from the last one.        *)
(*                                                                         *)
(* A call of pump() takes several steps here (calling), one for each step  *)
(* of the executor, because the cancellation flag belongs to another       *)
(* thread and may be raised between them.                                  *)
(***************************************************************************)
EXTENDS AilExecutor

LOCAL INSTANCE SequencesExt

CONSTANTS
  SourceLines,  \* the lines a program may consist of
  Name,         \* the names in them
  ActiveSkipLevels, Iso, DirectT,  \* options_, the LowerOptions
  Texts,        \* the programs a client may send, sequences of SourceLines
  Misuse,       \* whether a client may resume out of turn, see ClientMisuses
  MaxLog,       \* bound: with more to see a client stops polling open input
  NoLine        \* the empty optional of the rejected-line states

Ail == INSTANCE AilLowering WITH TextLines <- SourceLines, Managed <- FALSE, Slashes <- FALSE

ASSUME LinesAssumption ==
  /\ SourceLines \subseteq Ail!TextLine /\ NoLine \notin Nat
  /\ \A l \in SourceLines : l.statement.kind # "none" => l.words = <<>>
ASSUME LowerOptionsAssumption == ActiveSkipLevels \subseteq Nat /\ {Iso, DirectT} \subseteq BOOLEAN
ASSUME TextsAssumption == Texts \subseteq Seq(SourceLines)
ASSUME MisuseAssumption == Misuse \in BOOLEAN
ASSUME NoWaitAssumption == NoWait \notin Nat

VARIABLES
  pending,          \* pending_lines_: records of a line number and a source line
  nextLine,         \* next_line_number_
  buffered,         \* input_buffer_ holds an unterminated line
  finished,         \* input_finished_
  estate,           \* state_
  waiting,          \* the token of blocked_
  rejected,         \* the line of rejected_
  deferred,         \* the line of deferred_rejected_
  hasExecutor,      \* active_executor_ is set
  told,             \* active_executor_emitted_diagnostics_
  current,          \* current_motion_code_ ... current_user_variables_
  calling, result,  \* how far the present call is; what the last one returned
  notices,          \* diagnostics and rejected lines shown to the sink
  cancelRequested,  \* ICancellation::isCancelled()
  completed,        \* tokens whose wait the runtime has completed
  text, fed         \* the client's program, how many lines of it were pushed

input == <<pending, nextLine, buffered, finished>>
verdict == <<estate, waiting, rejected, deferred, hasExecutor, told, current>>
call == <<calling, result>>
client == <<cancelRequested, completed, text, fed>>
executor == <<program, control, frames, data, tools, pendingEvents>>
engineVars == <<input, verdict, call, notices>>
allVars == <<vars, engineVars, client>>

EngineStates ==
  {"AcceptingInput", "ReadyToExecute", "Blocked", "Rejected", "Completed", "Cancelled", "Faulted"}
Ended == {"Completed", "Cancelled", "Faulted"}
Results == {"Progress", "Blocked", "Rejected", "Completed", "Cancelled", "Faulted"}

----------------------------------------------------------------------------
(* The constants of the executor have room for what lowering makes of a    *)
(* source line: its block number, tool, operands, jumps, labels and calls. *)
(* A word or an assignment that selects no number breaks a rule.           *)

SelectsTool(head, value) ==
  head \in {"T", "T1"} /\ value \in Nat => Ail!ToolSelect(0, head, value).tool \in Tool

HasRoom(l) ==
  LET s == l.statement IN
    /\ l.number \in BlockNumber \cup {0, Ail!NoValue}
    /\ \A i \in DOMAIN l.words : SelectsTool(l.words[i].head, l.words[i].value)
    /\ s.kind = "assign" =>
         /\ s.rhs \in Operand /\ s.to \in Var \cup {"T", "T1", "PROC", "$"}
         /\ s.rhs.kind = "literal" => SelectsTool(s.to, s.rhs.value)
    /\ s.kind \in {"if", "if goto"} => {s.test.lhs, s.test.rhs} \subseteq Operand
    /\ s.kind = "goto" => s.to \in GotoTarget
    /\ s.kind = "if goto" => s.then \in GotoTarget /\ s.else \in GotoTarget \cup {NoGoto}
    /\ s.kind = "label" => s.name \in Label
    /\ Ail!IsProc(l) => l.words[2].head \in Label
    /\ \A c \in Ail!CallsIn(l.words) : c.target \in Label

ASSUME RoomAssumption == \A l \in SourceLines : HasRoom(l)

(* The modal state has room for the codes lowering names.                  *)
ASSUME ModesAssumption ==
  /\ {"plane", "radius", "rapid"} \subseteq ModalGroup
  /\ {"G0", "G1", "G2", "G3", "G17", "G18", "G19", "G40", "G41", "G42", "RTLION", "RTLIOF"}
       \subseteq ModalValue

----------------------------------------------------------------------------
(* Lowering what is buffered: parseAndLowerAil of the joined lines, with   *)
(* their line numbers put back in.                                         *)

Notice(kind, line) == [kind |-> kind, line |-> line]

LinesOf(p) == [k \in DOMAIN p |-> p[k].src]
WithLines(r, p) ==
  [code |-> [i \in DOMAIN r.instructions |->
               [r.instructions[i] EXCEPT !.source.line = p[@].line]],
   notices |-> [i \in DOMAIN r.diagnostics |->
                  Notice("diagnostic", p[r.diagnostics[i].line].line)],
   rejected |-> IF r.rejected = Ail!NoValue THEN NoLine ELSE p[r.rejected].line]

Lowered(p) == CHOOSE low \in {WithLines(r, p) : r \in {Ail!LowerToAil(LinesOf(p))}} : TRUE

(* The lines of t behind line from, up to line to, as they are buffered.   *)
Piece(t, from, to) == [k \in 1 .. to - from |-> [line |-> from + k, src |-> t[from + k]]]

(* A deferred line shows its reasons, counted as one, and then itself.     *)
Rejection(line) == <<Notice("diagnostic", line), Notice("rejected", line)>>

----------------------------------------------------------------------------
(* pump, executePendingProgram, advanceActiveExecutor.                     *)

Return(status_) == calling' = "idle" /\ result' = status_

(* A state that pump() only reports.                                       *)
StaysUnlessCancelled == estate \in {"Faulted", "Rejected", "Completed", "Blocked"}  \* a mutant
Stays == estate \in {"Faulted", "Rejected", "Cancelled", "Completed", "Blocked"}

Report ==
  /\ Stays /\ Return(estate)
  /\ UNCHANGED <<executor, environment, input, verdict, notices>>

(* cancel(): a wait that blocks the engine is cancelled at the runtime.    *)
LeavesWait == outstanding' = outstanding  \* a mutant
CancelsWait == outstanding' = {w \in outstanding : estate # "Blocked" \/ w.token # waiting}

Cancel ==
  /\ CancelsWait
  /\ waiting' = IF estate = "Blocked" THEN NoWait ELSE waiting
  /\ hasExecutor' = FALSE /\ estate' = "Cancelled"
  /\ UNCHANGED <<rejected, deferred, told, current, input, executor, log, issued, spindle>>
  /\ UNCHANGED notices

CancelOnRequest == ~Stays /\ ~hasExecutor /\ cancelRequested /\ Cancel /\ Return("Cancelled")

Idle == ~Stays /\ ~hasExecutor /\ ~cancelRequested

(* No work: the end of the input decides.                                  *)
AtRest == IF finished THEN "Completed" ELSE "ReadyToExecute"
ReturnAtRest == estate' = AtRest /\ Return(IF finished THEN "Completed" ELSE "Progress")

NothingPending ==
  /\ Idle /\ pending = <<>> /\ ReturnAtRest
  /\ UNCHANGED <<executor, environment, input, notices>>
  /\ UNCHANGED <<waiting, rejected, deferred, hasExecutor, told, current>>

KeepFirst == pending' = SubSeq(pending, 1, 1)  \* a mutant: a line is left to run again
ClearPending == pending' = <<>>

Reject(line) ==
  /\ waiting' = NoWait /\ rejected' = line /\ estate' = "Rejected" /\ Return("Rejected")

(* Lowered to no instruction at all: comments, blank lines, a bad line.    *)
RejectsAtOnce(low) == low.code = <<>> \/ low.rejected # NoLine  \* a mutant: not deferred
HasNothingToRun(low) == low.code = <<>>

(* The early return before it (shouldWaitForMoreInputOnRejected) is never  *)
(* taken: lowering reports a missing ENDIF as a diagnostic and rejects no  *)
(* line for it.                                                            *)
NothingToRun ==
  /\ Idle /\ pending # <<>>
  /\ \E low \in {Lowered(pending)} :
       /\ HasNothingToRun(low)
       /\ \/ /\ low.rejected = NoLine
             /\ notices' = notices \o low.notices
             /\ ClearPending /\ ReturnAtRest /\ UNCHANGED <<waiting, rejected>>
          \/ /\ low.rejected # NoLine
             /\ notices' = Append(notices \o low.notices, Notice("rejected", low.rejected))
             /\ Reject(low.rejected) /\ UNCHANGED pending
  /\ UNCHANGED <<executor, environment, nextLine, buffered, finished>>
  /\ UNCHANGED <<deferred, hasExecutor, told, current>>

(* The state a new executor starts from: modal codes and tools, but not    *)
(* the user variables.                                                     *)
HandsNothing ==  \* a mutant: every chunk starts from the default state
  [modal |-> InitialModal, activeTool |-> NoTool, pendingTool |-> NoTool,
   userVars |-> [v \in Var |-> 0]]
Hands == [modal |-> current.modal, activeTool |-> current.activeTool,
          pendingTool |-> current.pendingTool, userVars |-> [v \in Var |-> 0]]

NewExecutor(code, from) ==
  /\ instructions' = code /\ UNCHANGED options
  /\ status' = "Ready" /\ pc' = 1 /\ blocked' = NoWait /\ diagnostics' = <<>>
  /\ frames' = <<>> /\ modal' = from.modal /\ userVars' = from.userVars
  /\ activeTool' = from.activeTool /\ pendingTool' = from.pendingTool
  /\ selectedTool' = NoTool /\ pendingEvents' = {}

(* A bad line behind runnable ones is deferred until those have run; what  *)
(* else lowering has found is then not shown.                              *)
StartExecutor ==
  /\ Idle /\ pending # <<>>
  /\ \E low \in {Lowered(pending)} :
       /\ ~HasNothingToRun(low) /\ deferred' = low.rejected
       /\ notices' = IF low.rejected = NoLine THEN notices \o low.notices ELSE notices
       /\ NewExecutor(low.code, Hands)
  /\ hasExecutor' = TRUE /\ told' = 0 /\ calling' = "advancing"
  /\ UNCHANGED <<result, environment, input, estate, waiting, rejected, current>>

ContinueExecutor ==
  /\ ~Stays /\ hasExecutor /\ calling' = "advancing"
  /\ UNCHANGED <<result, executor, environment, input, verdict, notices>>

Pump ==
  /\ calling = "pumping"
  /\ \/ Report \/ ContinueExecutor \/ CancelOnRequest \/ NothingToRun \/ StartExecutor
     \/ NothingPending
  /\ UNCHANGED client

(* After a step of the executor; primed variables are the executor's       *)
(* state after it.                                                         *)
TellNew ==
  /\ told' = Len(diagnostics')
  /\ notices' = notices \o [k \in 1 .. Len(diagnostics') - told |-> Notice("diagnostic", 0)]

GoesOn ==
  /\ status' = "Ready" /\ TellNew
  /\ UNCHANGED <<call, input, estate, waiting, rejected, deferred, hasExecutor, current>>

BecomesBlocked ==
  /\ status' = "Blocked" /\ blocked'.token # NoToken /\ TellNew
  /\ waiting' = blocked'.token /\ rejected' = NoLine /\ estate' = "Blocked" /\ Return("Blocked")
  /\ UNCHANGED <<input, deferred, hasExecutor, current>>

(* Blocked without a token: the engine polls, step() will not progress.    *)
Polls ==
  /\ status' = "Blocked" /\ blocked'.token = NoToken /\ TellNew
  /\ UNCHANGED <<call, input, estate, waiting, rejected, deferred, hasExecutor, current>>

(* shouldWaitForMoreInputOnFault                                           *)
UnresolvedJumps == {"unresolved goto target", "unresolved branch target"}
MayWait == diagnostics'[Len(diagnostics')].why \in UnresolvedJumps
WaitsForEver == MayWait  \* a mutant: the end of the input makes no difference
WaitsForInput == ~finished /\ MayWait

(* A jump whose target may still come: the executor is dropped and the     *)
(* lines stay pending, to be run again from the first one.                 *)
DropsExecutor ==
  /\ status' = "Fault" /\ WaitsForInput
  /\ hasExecutor' = FALSE /\ told' = 0 /\ deferred' = NoLine
  /\ estate' = "ReadyToExecute" /\ Return("Progress")
  /\ UNCHANGED <<input, waiting, rejected, current, notices>>

ExecutorFaults ==
  /\ status' = "Fault" /\ ~WaitsForInput /\ TellNew
  /\ hasExecutor' = FALSE /\ waiting' = NoWait /\ rejected' = NoLine
  /\ estate' = "Faulted" /\ Return("Faulted")
  /\ UNCHANGED <<input, deferred, current>>

TakesOverModal ==  \* a mutant: the tools are not carried over
  current' = [current EXCEPT !.modal = modal', !.userVars = userVars']
TakesOver ==
  current' = [modal |-> modal', userVars |-> userVars', activeTool |-> activeTool',
              pendingTool |-> pendingTool']

ExecutorCompletes ==
  /\ status' = "Completed" /\ TakesOver
  /\ hasExecutor' = FALSE /\ told' = 0
  /\ LET last == [k \in 1 .. Len(diagnostics') - told |-> Notice("diagnostic", 0)] IN
       \/ /\ deferred # NoLine /\ notices' = notices \o last \o Rejection(deferred)
          /\ deferred' = NoLine /\ Reject(deferred) /\ UNCHANGED pending
       \/ /\ deferred = NoLine /\ notices' = notices \o last
          /\ ClearPending /\ ReturnAtRest /\ UNCHANGED <<waiting, rejected, deferred>>
  /\ UNCHANGED <<nextLine, buffered, finished>>

(* advanceActiveExecutor always steps with the clock at 0.                 *)
Stalled == ~CanRun(0)

ExecutorStalls ==
  /\ calling = "advancing" /\ Stalled /\ Return("Progress")
  /\ UNCHANGED <<executor, environment, input, verdict, notices, client>>

AdvanceExecutor ==
  /\ calling = "advancing" /\ Step(0)
  /\ GoesOn \/ BecomesBlocked \/ Polls \/ DropsExecutor \/ ExecutorFaults \/ ExecutorCompletes
  /\ UNCHANGED client

----------------------------------------------------------------------------
(* The calls of the client: pushChunk, pump, finish, resume, cancel.       *)

(* pushChunk with some lines, and perhaps the beginning of a further one.  *)
Enqueue(lines) ==
  /\ pending' = pending \o [k \in DOMAIN lines |-> [line |-> nextLine + k - 1, src |-> lines[k]]]
  /\ nextLine' = nextLine + Len(lines)

PushChunk(lines, rest) ==
  /\ calling = "idle" /\ estate \notin Ended \cup {"Rejected"}
  /\ Enqueue(lines) /\ buffered' = rest
  /\ UNCHANGED <<finished, verdict, call, notices, executor, environment>>

KeepsBlocked == UNCHANGED waiting  \* a mutant: blocked_ outlives the wait
ClearsBlocked == waiting' = NoWait

Resume(token) ==
  /\ calling = "idle" /\ ClearsBlocked /\ rejected' = NoLine
  /\ \/ /\ estate = "Blocked" /\ waiting = token
        /\ pendingEvents' = IF hasExecutor THEN pendingEvents \cup {token} ELSE pendingEvents
        /\ IF ~hasExecutor /\ pending = <<>> THEN ReturnAtRest
           ELSE estate' = "ReadyToExecute" /\ Return("Progress")
        /\ UNCHANGED notices
     \/ /\ ~(estate = "Blocked" /\ waiting = token)
        /\ estate' = "Faulted" /\ Return("Faulted")
        /\ notices' = Append(notices, Notice("resume out of turn", 0))
        /\ UNCHANGED pendingEvents
  /\ UNCHANGED <<input, deferred, hasExecutor, told, current>>
  /\ UNCHANGED <<program, control, frames, data, tools, environment>>

CallPump ==
  /\ calling = "idle" /\ calling' = "pumping"
  /\ UNCHANGED <<result, input, verdict, notices, executor, environment>>

(* finish() flushes the unterminated line, then pumps.                     *)
CallFinish(lines) ==
  /\ calling = "idle" /\ calling' = "pumping"
  /\ finished' = TRUE /\ buffered' = FALSE /\ Enqueue(lines)
  /\ UNCHANGED <<result, verdict, notices, executor, environment>>

CallCancel == calling = "idle" /\ Cancel /\ UNCHANGED call

----------------------------------------------------------------------------
(* The environment: a client that sends one text, the runtime, and the     *)
(* thread that may raise the cancellation flag.                            *)

(* The session pushes to an engine only before it runs anything.  A resume *)
(* out of turn has the wrong token, or comes when nothing is blocked; one  *)
(* of them is enough, it faults the engine.                                *)
MayPush == ~hasExecutor
Misused == \E k \in DOMAIN notices : notices[k].kind = "resume out of turn"

(* A chunk may end anywhere: after m lines, with or without a beginning of *)
(* the next one.                                                           *)
ClientPushes ==
  /\ MayPush /\ ~finished
  /\ \E m \in 0 .. Len(text) - fed, rest \in BOOLEAN :
       /\ rest => fed + m < Len(text)
       /\ m > 0 \/ (rest /\ ~buffered)
       /\ PushChunk(SubSeq(text, fed + 1, fed + m), rest)
       /\ fed' = fed + m
  /\ UNCHANGED <<cancelRequested, completed, text>>

ClientPumps ==
  (finished \/ hasExecutor \/ Len(log) + Len(notices) <= MaxLog)
  /\ CallPump /\ UNCHANGED client

(* The text is finished when at most its last line is still unterminated.  *)
ClientFinishes ==
  /\ ~finished /\ MayPush
  /\ fed = Len(text) \/ (fed = Len(text) - 1 /\ buffered)
  /\ CallFinish(SubSeq(text, fed + 1, Len(text)))
  /\ fed' = Len(text) /\ UNCHANGED <<cancelRequested, completed, text>>

ClientResumes ==
  \E t \in completed :
    estate = "Blocked" /\ Resume(t) /\ completed' = completed \ {t}
    /\ UNCHANGED <<cancelRequested, text, fed>>

ClientMisuses ==
  /\ Misuse /\ ~Misused
  /\ \E t \in 1 .. MaxWaits : ~(estate = "Blocked" /\ waiting = t) /\ Resume(t)
  /\ UNCHANGED client

ClientCancels == CallCancel /\ UNCHANGED client

RequestCancel ==
  /\ ~cancelRequested /\ cancelRequested' = TRUE
  /\ UNCHANGED <<vars, engineVars, completed, text, fed>>

RuntimeCompletes ==
  \E w \in outstanding :
    /\ outstanding' = outstanding \ {w} /\ completed' = completed \cup {w.token}
    /\ spindle' = IF w.tool = NoTool THEN spindle ELSE Mount(w.tool)
    /\ UNCHANGED <<executor, log, issued, engineVars, cancelRequested, text, fed>>

EngineInit ==
  /\ instructions = <<>> /\ options \in OptionSets /\ status = "Completed" /\ pc = 1
  /\ blocked = NoWait /\ diagnostics = <<>> /\ frames = <<>> /\ modal = InitialModal
  /\ userVars = [v \in Var |-> 0] /\ activeTool = NoTool /\ pendingTool = NoTool
  /\ selectedTool = NoTool /\ pendingEvents = {} /\ log = <<>> /\ outstanding = {}
  /\ issued = 0 /\ spindle = NoTool
  /\ pending = <<>> /\ nextLine = 1 /\ buffered = FALSE /\ finished = FALSE
  /\ estate = "AcceptingInput" /\ waiting = NoWait /\ rejected = NoLine /\ deferred = NoLine
  /\ hasExecutor = FALSE /\ told = 0
  /\ current = [modal |-> InitialModal, userVars |-> userVars, activeTool |-> NoTool,
                pendingTool |-> NoTool]
  /\ calling = "idle" /\ result = "Progress" /\ notices = <<>>
  /\ cancelRequested = FALSE /\ completed = {} /\ text \in Texts /\ fed = 0

HasEnded == estate \in Ended \cup {"Rejected"}
EngineEnded == HasEnded /\ calling = "idle" /\ UNCHANGED allVars

EngineNext ==
  \/ Pump \/ AdvanceExecutor \/ ExecutorStalls
  \/ ClientPushes \/ ClientPumps \/ ClientFinishes \/ ClientResumes \/ ClientMisuses
  \/ ClientCancels \/ RequestCancel \/ RuntimeCompletes \/ EngineEnded

EngineSpec == EngineInit /\ [][EngineNext]_allVars

(* The library drives nothing itself.  A client keeps pumping and answers  *)
(* Blocked by resuming once the runtime is done, however often it polls in *)
(* between; the runtime completes its waits.  Some step of Pump can be      *)
(* taken whenever a call of pump() begins, and each changes calling: what  *)
(* fairness of Pump asks for is therefore that calling changes.            *)
PumpGoesOn == calling = "pumping" /\ calling' \in {"idle", "advancing"}

EngineFairness ==
  /\ WF_calling(PumpGoesOn) /\ WF_allVars(AdvanceExecutor) /\ WF_allVars(ExecutorStalls)
  /\ WF_allVars(ClientPumps) /\ SF_allVars(ClientResumes) /\ WF_allVars(RuntimeCompletes)

EngineFairSpec == EngineSpec /\ EngineFairness

----------------------------------------------------------------------------
(* Properties.                                                             *)

(* The types of the engine's own variables; estate agrees with blocked_    *)
(* and rejected_, and Blocked with the executor behind it.                 *)
EngineTypeOK ==
  /\ pending \in Seq([line : Nat \ {0}, src : SourceLines]) /\ nextLine \in Nat \ {0}
  /\ buffered \in BOOLEAN /\ finished \in BOOLEAN /\ estate \in EngineStates
  /\ waiting \in (Nat \ {0}) \cup {NoWait} /\ rejected \in Nat \cup {NoLine}
  /\ deferred \in Nat \cup {NoLine} /\ hasExecutor \in BOOLEAN /\ told \in Nat
  /\ current \in [modal : [ModalGroup -> ModalValue], userVars : [Var -> Value],
                  activeTool : (Tool \ {Deselect}) \cup {NoTool}, pendingTool : Tool \cup {NoTool}]
  /\ calling \in {"idle", "pumping", "advancing"} /\ result \in Results
  /\ notices \in Seq([kind : {"diagnostic", "rejected", "resume out of turn"}, line : Nat])
  /\ cancelRequested \in BOOLEAN /\ completed \subseteq Nat \ {0} /\ fed \in Nat
  /\ (estate = "Blocked" <=> waiting # NoWait)
  /\ estate = "Blocked" => hasExecutor /\ status = "Blocked" /\ blocked.token = waiting
  /\ estate = "Rejected" => rejected # NoLine

(* A wait the runtime still works on is the one the engine is blocked on,  *)
(* and a wait it has completed is one the engine is blocked on or has      *)
(* ended before: cancel() leaves nothing running at the runtime, unless a  *)
(* resume with a wrong token has made the engine forget the wait.          *)
NoWaitLost ==
  ~Misused =>
  /\ \A w \in outstanding : estate = "Blocked" /\ waiting = w.token
  /\ \A t \in completed : (estate = "Blocked" /\ waiting = t) \/ estate = "Cancelled"

(* A whole text as one program; its commands; those that were submitted.   *)
WholeText(p) == Lowered(Piece(p, 0, Len(p)))
Whole(p) == WholeText(p).code
IsCommand(ins) == ins.op \in {"move", "tool change"}
CommandLines(prog) ==
  LET commands == SelectSeq(prog, IsCommand) IN [k \in DOMAIN commands |-> commands[k].source.line]
Submitted == SelectSeq(log, LAMBDA c : c.ev = "submit")
SubmittedLines == [k \in DOMAIN Submitted |-> Submitted[k].line]

(* Texts of moves, modes and tools.  Arcs are left out: whether one is     *)
(* rejected depends on the chunk it comes in, see PlaneCrossesChunks.      *)
HasArc(p) == \E k \in DOMAIN p : Ail!MotionOf(p[k].words) \in {2, 3}
HasJump(p) ==
  LET code == Whole(p) IN
    \E i \in DOMAIN code : code[i].op \notin {"modal", "move", "tool select", "tool change"}
IsStraight(p) == ~HasArc(p) /\ ~HasJump(p)

(* All this of the texts a client may send, computed once.                 *)
Known ==
  [p \in Texts |-> [whole |-> WholeText(p), commands |-> CommandLines(Whole(p)),
                    straight |-> IsStraight(p)]]
TheWhole == Known[text].whole
StraightText == Known[text].straight


IsPrefixOf(s, t) == Len(s) <= Len(t) /\ s = SubSeq(t, 1, Len(s))

(* However a text is cut into chunks and pumped, the engine runs it as     *)
(* ProgramRun says: its commands are submitted in order, each once, one at *)
(* a time, and all of them before the engine has completed or rejects the  *)
(* bad line; what has ended submits nothing more, whatever is called.      *)
(* Texts with arcs are treated like those with jumps.                      *)
Run == INSTANCE ProgramRun WITH
  NoBadLine <- NoLine,
  commands <- Known[text].commands,
  badLine <- TheWhole.rejected,
  hasJumps <- ~StraightText,
  submitted <- SubmittedLines,
  working <- {w.token : w \in outstanding},
  verdict <- CASE estate = "Rejected" -> <<"Rejected", rejected>>
               [] estate \in Ended -> <<estate>>
               [] OTHER -> <<"running">>

ChunksDoNotMatter == Run!RunSpec

(* A line that commands a motion or a dwell, and is not skipped.           *)
IsMotionLine(l) == ~Ail!Skipped(l) /\ Ail!MotionOf(l.words) # Ail!NoValue

(* A text that runs from line to line: no jump, IF block, PROC or call.    *)
RunsStraightOn(p) ==
  \A k \in DOMAIN p : Ail!KindOf(p[k]) \notin {"if", "goto", "if goto", "proc", "call"}

WasSubmitted(n) == \E k \in DOMAIN log : log[k].ev = "submit" /\ log[k].line = n

(* The engine rejects the line the whole text is rejected at, and nothing  *)
(* of that line or behind it was shown or submitted.                       *)
RejectedInPlace ==
  estate = "Rejected" /\ ~HasArc(text) =>
    rejected = TheWhole.rejected /\ \A k \in DOMAIN log : log[k].line < rejected

(* When the text runs from line to line, every line before the rejected    *)
(* one that moves was submitted first.  Tool changes are left out: a       *)
(* policy of the executor may pass over one and go on, ChunksDoNotMatter   *)
(* says it of those that are not passed over.                              *)
PrefixWasRun ==
  estate = "Rejected" /\ ~HasArc(text) /\ RunsStraightOn(text) /\ options.attached =>
    \A n \in 1 .. rejected - 1 : IsMotionLine(text[n]) => WasSubmitted(n)

(* A line is rejected in its place, when what stands before it has run:    *)
(* the good lines of a chunk first, the bad one behind them, none behind.  *)
RejectedAfterPrefix == RejectedInPlace /\ PrefixWasRun

SetsGroup(ins, g) ==
  (ins.op = "modal" /\ ins.group = g) \/ (ins.op = "move" /\ g = "motion" /\ ins.motion # "none")

(* The code of group g after the instructions 1 .. p of a program.         *)
IsCodeAt(v, prog, p, g) ==
  LET setters == {q \in 1 .. p : SetsGroup(prog[q], g)} IN
    \/ setters = {} /\ v = InitialModal[g]
    \/ \E q \in setters :
         /\ \A o \in setters : o <= q
         /\ v = IF prog[q].op = "modal" THEN prog[q].value ELSE prog[q].motion

(* Position p of the program holds its k-th command.                       *)
IsNth(prog, p, k) ==
  IsCommand(prog[p]) /\ Cardinality({q \in 1 .. p : IsCommand(prog[q])}) = k

CarriesCodesOf(prog) ==
  \A k \in DOMAIN Submitted, p \in DOMAIN prog :
    IsNth(prog, p, k) => \A g \in ModalGroup : IsCodeAt(Submitted[k].modal[g], prog, p, g)

(* Every command carries the modal codes last programmed in the text, also *)
(* when an earlier chunk, an executor long gone, has set them.             *)
ModalCrossesChunks == StraightText => CarriesCodesOf(TheWhole.code)

(* Between two executors the engine believes the tool to be on the spindle *)
(* that is there; a jump that waits for its target is left out, because    *)
(* dropping its executor also drops the tools it has changed.              *)
ToolCrossesChunks ==
  StraightText /\ ~hasExecutor /\ estate \notin {"Faulted", "Cancelled"} =>
    current.activeTool = spindle

(* The condition resolver has put the running branch off to a later time,  *)
(* and named no event the client could be told of.                         *)
PutOff ==
  hasExecutor /\ status = "Blocked" /\ blocked.retry # Never /\ blocked.token = NoToken

(* Once the input is finished the engine comes to an end: a jump whose     *)
(* target has not come faults instead of waiting on.  Only a condition     *)
(* that is put off keeps it polling.                                       *)
EngineEnds == finished ~> HasEnded \/ PutOff

----------------------------------------------------------------------------
(* What the documentation promises and the code does not keep.             *)

(* requirements/execution/variables_control_flow_and_calls.md: a call of a *)
(* subprogram that is not there yet waits for input until finish().        *)
CallsWaitForInput ==
  [][estate' = "Faulted" /\ estate # "Faulted" =>
       finished \/ diagnostics'[Len(diagnostics')].why # "unresolved subprogram target"]_allVars

(* execution_workflow.md: a forward jump waits for its target, and a       *)
(* command the runtime has accepted is not submitted again.  For texts     *)
(* with at most one command in a line and no way back.                     *)
NothingResubmitted ==
  \A i, j \in DOMAIN Submitted : Submitted[i].line = Submitted[j].line => i = j

(* Two lines of the two parts of one IF block.                             *)
Opposite(p, i, j) ==
  LET between == {p[k].statement.kind : k \in i + 1 .. j - 1} IN
    "else" \in between /\ between \cap {"if", "endif"} = {}

OneBranchOf(p) ==
  \A i, j \in DOMAIN Submitted : ~Opposite(p, Submitted[i].line, Submitted[j].line)

(* program_reference/control_flow_and_runtime.md: of an IF block one part  *)
(* reaches the runtime.                                                    *)
OneBranchOnly == OneBranchOf(text)

(* design/working_plane_architecture.md: arc validation uses the active    *)
(* plane, which goes from parse to runtime.  So an arc is rejected when it *)
(* does not fit the plane that the lines before it have set.               *)
PlaneCrossesChunks == estate = "Rejected" => rejected = TheWhole.rejected
=============================================================================
