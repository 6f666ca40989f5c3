# A verification project for the G-code execution library

This directory holds a formal model, in TLA+, of the parts of the repository
that decide what becomes of a G-code text: the semantic rules, the lowering to
messages, its streaming form and the editor's parse session; the lowering to
instructions; the instruction executor, the streaming engine around it and the
public execution session. Two abstract specifications say what executor and
engine promise, and both are shown to be implemented. TLC checks the models on
small instances; TLAPS proves the most important facts about the executor, the
engine, both sessions and the lowerings for all programs and texts.

Contents: [the system](#1-the-system) · [modules](#2-modules-and-how-they-map-to-the-code) ·
[runs](#3-what-the-runs-check) · [disagreements found](#4-where-documents-and-code-disagree) ·
[fairness](#5-fairness) · [bounds](#6-bounds) · [proofs](#7-proofs) ·
[not modelled](#8-what-is-only-model-checked-and-what-is-not-modelled) · [plan](#9-plan)

To check a run: `tlc -config MCAilExecutor.cfg MCAilExecutor`.
To check the proofs: `tlapm` on each of `AilExecutorProofs.tla`,
`StreamingEngineProofs.tla`, `ExecutionSessionProofs.tla`, `LoopTheorems.tla`,
`MessageLoweringProofs.tla`, `StreamLoweringProofs.tla`, `ParseSessionProofs.tla`
and `StructuredLoweringProofs.tla` (those of the engine, the session, and the last
take some minutes each).

## 1. The system

Text goes through the parser (an AST per line), message lowering (motion
messages, rejected lines), lowering to AIL (a vector of instructions) and is
then executed.

| Component | State | Operations | Behaviour that is hard |
|---|---|---|---|
| Instruction executor (`ail.cpp` from 1391, `execution_instruction_dispatcher.cpp`, `execution_modal_state.cpp`) | program counter, status, blocked state, call stack, modal codes, user variables, three tool selections, notified tokens, diagnostics | `step`, `notifyEvent` | waits that are issued, completed and consumed by three parties; a tool change that takes effect when it is woken; jumps over several candidates; nested repeats |
| Streaming engine (`streaming_execution_engine.cpp`) | buffered text, pending lines, one active executor, deferred rejection, blocked state, modal codes and tools carried between chunks, end of input, state | `pushChunk`, `pump`, `finish`, `resume`, `cancel` | chunk boundaries anywhere; a bad line behind good ones; a jump whose target has not come; a cancellation flag of another thread |
| Execution session (`execution_session.cpp`) | locked prefix, editable suffix, lines in flight, dirty flag, state of the prefix, an engine | the engine's, and `replaceEditableSuffix` | the engine is thrown away and rebuilt; what counts as accepted when a call returns early |
| Lowering to AIL (`ail.cpp` 188–1385) | none between calls; in a call the instructions so far, a stack of open IF blocks, a count of labels made up, the working plane and the rapid mode | `lowerToAil` | branches patched through an index into a growing list; two loops that must agree on planes and on skipped lines; IF blocks cut by a chunk boundary |
| Semantic rules, message lowering (`semantic_rules.cpp`, `messages.cpp`, `lowering_family_*`) | none between calls; in a call the working plane and what was reported | `lowerToMessages`, `lowerToMessagesStream` | which line stops the lowering; two copies of one loop; limits and a cancellation hook between callbacks |
| Parse session, message diff (`session.cpp`, `message_diff.cpp`) | lines of the text, the last result; a client's queue | `applyLineEdit`, `reparseFromLine`, `diffMessagesByLine`, `applyMessageDiff` | what an edit may change above it; a queue several edits behind |
| Modal registry | none | lookups | none: a table |
| Contract fixture and runner | a scripted session and its trace | `run` | order of inputs and events |
| Parser, packets, command builder, printers, JSON, CLIs | none | – | none beyond data conversion |

**How they interact.** The client of a session calls it from one thread. The
session calls the engine, the engine lowers what is buffered and steps an
executor, the executor calls the *sink* (every event is shown) and then the
*runtime* (every command is submitted). The runtime answers Ready, Error, or
Pending with a wait token. A Pending answer blocks executor, engine and
session; the runtime finishes the wait on its own, the client hears of it and
calls `resume(token)`. The cancellation flag may be raised by another thread at
any moment; `cancel()` is called by the client.

**What makes each part correct.**

* Executor: no wait is lost or consumed twice; one command at a time; what is
  submitted is what the program says, in its order, with the modal codes and
  the tool in force; calls and repeats are balanced; execution ends.
* Engine: the cut of the text into chunks does not show; the good lines before
  a bad one run and nothing behind it does; state is carried over; the end is
  final and is reached once the input is finished.
* Lowering to AIL: the instructions run what the nesting of IF, ELSE and ENDIF
  says; what does not match is reported; nothing the rules let pass is dropped.
* Message lowering: the lines before the first bad one give one message each,
  and no other line does; the streaming form shows what the batch form
  collects, stops for a reason, and in time.
* Parse session: an edit leaves what is above it; a queue kept up by
  differences equals one that is taken over whole.
* Execution session: the boundary between accepted and editable lines is that of the
  rejection; the modal state and the tool survive the recovery; no line is run
  twice or left out.

The hazards this code is exposed to are listed, each at its line, under
`hazards` in `PROJECT.json`.

## 2. Modules and how they map to the code

```
MessageLowering <-- AilLowering <-- StructuredLowering        the lowerings
      ^                  |               (EXTENDS)
      |                  |  INSTANCE: Ail!LowerToAil
      |                  v
      |   AilExecutor <-- StreamingEngine <-- ExecutionSession   the execution
      |        |               |                  (EXTENDS)
      |        |  INSTANCE     |  INSTANCE, refinement
      |        v               v
      |   CommandStream    ProgramRun                         what is promised
      |
      +-- StreamLowering     StreamLowering is lowerToMessagesStream
      +-- ParseSession       ParseSession the editor's session and a client
```

`MCAilExecutor`, `MCStreamingEngine`, `MCExecutionSession`,
`MCStructuredLowering`, `MCStreamLowering` and `MCParseSession` are the
instances for TLC; `MCLines` is how they write source lines.
`Loops` is a loop over 1 .. *n* as a recursive function; the lowerings are
written with it where a theorem has to follow them. The theorems:

```
AilExecutorProofs <-- StreamingEngineProofs <-- ExecutionSessionProofs   (EXTENDS)
                              |
LoopTheorems                  |                (INSTANCE, one for each loop)
        |                     v
MessageLoweringProofs <-------+                (INSTANCE)
        ^---------- StreamLoweringProofs
        ^---------- ParseSessionProofs
        ^---------- StructuredLoweringProofs
```

**AilExecutor.** One action per handler of `advanceOneInstruction`; `Step(now)`
is one successful call of `step(now)`: wake up if the wait is over
(`CanRun`, `WokenActive`, ... are `wakeBlockedExecutorIfReady`), then run the
instruction at `At`. `At`, the woken tool and so on are what the code stores
before it dispatches; the model uses them directly and so needs no
intermediate state. `Notify` is the runtime completing a wait and the owner
calling `notifyEvent`. Arc, linear and dwell instructions are one instruction
`move` with the motion code it makes current. A command is known by the
position and the line it comes from and the modal state it carries; poses and
feeds are left out. An expression is what evaluating it does (a value, a
runtime read, an unsupported form, an error). Positions start at 1.

The environment is part of the module: `log` are the calls on sink and
runtime, `outstanding` the waits the runtime works on, `spindle` the tool that
is really mounted: it changes when a tool change *completes*, while the
executor's `activeTool` changes when it wakes up. That is the pair
`SpindleView` relates.

A condition that the resolver puts off (`AskResolver`) names an event by a token, a
retry time, both, or neither, and all four block the executor. With both it wakes by
whichever comes first. Woken by the time, it asks again while the event is still out;
the resolver may then name the same event (`AwaitAgain`), now perhaps without a time,
or go on without it, and the event comes late: its token then lies in `pendingEvents`
for good. Each occurrence of an event has a token of its own, and one that has
happened is not named again. `timed` marks the waits that may be left behind so;
`Underway` are the others: commands, values, and conditions put off by an event alone.

**StreamingEngine** extends the executor: its variables are those of
`active_executor_`. A call of `pump` is several steps, one per executor step,
because the cancellation flag can be raised in between (`calling` is how far
the call is). `Pump` has one disjunct per early return of `pump` and
`executePendingProgram`; `AdvanceExecutor` is an executor step followed by what
the loop of `advanceActiveExecutor` makes of it: `GoesOn`, `BecomesBlocked`,
`Polls`, `DropsExecutor` (wait for a target), `ExecutorFaults`,
`ExecutorCompletes`. What is pending is lowered by `Ail!LowerToAil`, with line
numbers put back in (`WithLines`), so what a chunk boundary does to an IF block
or to the working plane is what the code makes of it. The early return for a
rejected line that could be completed by more input (lines 273–279) is left
out: the message it looks for is only ever a diagnostic, never the reason of a
rejected line, so it is never taken.

**CommandStream** is what one program promises sink and runtime: they are called
only while the runtime works on nothing, a command is shown to the sink right
before the runtime is given it, what takes time has a token of its own, and
after the end there are no more calls. A condition that is put off until an event or a
time has a token, too, but holds nothing up (`PutOff`), unless the event is then
waited for without a time (`WaitsAfterAll`). `AilExecutor!ImplementsStream` maps the
executor to it: `log`, the tokens `Underway`, `issued`, and whether the
executor has ended.

**ProgramRun** is what a client that streams a text is promised, with no word
about chunks, buffered lines, executors or pumps: the commands of the *whole*
text one at a time and in order, all of them before the end or the rejected
line, none after it. `StreamingEngine!ChunksDoNotMatter` maps the engine to it;
the program is that of the whole text lowered at once. Programs with jumps (and
texts with arcs, see `engine_plane`) may go from any command to any other.

**ExecutionSession** extends the engine and replaces its client. A call of the
session is a call of the engine followed by `RunEngineStep`, which is
`runEngineStep` on the engine's answer: `EngineRejects`, `EngineStops`,
`EngineGoesOn`. `NewEngine` is `rebuildEngineFromLockedPrefix` with the push of
the suffix. The variable `source` is the program the client means: what it
pushed, with the suffix from the rejected line on replaced by each edit. `awaited`
remembers that an executor was dropped to wait for the target of a jump: the
session cannot tell that from the end of its lines, and a property that is
about lines in flight has to.

**AilLowering** is `lowerToAil`: `LowerToMessages` first, then one operator for
each kind of line (`AssignLine`, `IfLine`, `ElseLine`, `EndIfLine`, `LabelLine`,
`GotoLine`, `IfGotoLine`, `ProcLine`, `CallLine`, `WordsLine`), applied by
`AilLine` to the lines before the rejected one. `KindOf` is the order in which
the code asks what a line is. Instructions are those the executor runs.

**StructuredLowering** is the same as a state machine, a step for each line and
for each word of a line, for the properties of a lowering that is under way and
for the proof: `LoweringSpec` goes over a text with the operators of
`AilLowering` and ends in what `LowerToAil` returns.

**MessageLowering** has no state: `SemanticDiagnostics` is
`addSemanticDiagnostics` (of each line the first rule it breaks),
`LowerToMessages` runs `LowerLine`, the body of the loop of `lowerToMessages`,
over the lines. All ten rules are there, each an operator named for it. A line
is the sequence of its words, its statement (assignment, IF, GOTO, label, ...),
block number, skip mark and comment; a word a head, a small number (or none, or
something that is no number) and whether it was written with an equals sign. Axis letters are two: `X` for those
the coordinate rule knows, `B` for the others; `AP` and `AR` stand for the polar
words and for the arc words that are not supported.

**StreamLowering** is `lowerToMessagesStream`, one step per callback and one
per look at the limits, because the hook `should_cancel` may turn true at any
of them: `RaiseCancel` is the caller (or another thread) doing so, and
`cancelAt` remembers after how many callbacks. `shown` is what the callbacks
were called with. A limit of *n* stops the function only when more than *n* were
seen: `Exceeds` compares as the code does.

**ParseSession** is the editor session and its client. An entry of `lines_` is
a sequence of lines: `sanitizeLine` removes line breaks at the end of an edit
only, so that a text with one in its middle shifts the lines behind it.
The lines of an entry are raw lines, as they are typed. What the parser makes of them
depends on their neighbours, because a comment of the grammar runs over line breaks
(`src/grammar/GCode.g4:315-316`): `TextOf` joins the entries (`RawText`) and reads the
text as a whole (`Parsed`). A comment that a line opens, `(` or `(*`, is one token of
that line; the lines within it are empty (`InComment`) and keep their numbers. One with
a star ends at the next `*)`, and if there is none at the next `)` (`EndOf`). A sign
that opens no comment because none closes it, or closes none, is an error of its line. So an edit can
change what lines *before* it are parsed to. `Sync` is the client taking over the differences since it did so last;
`Throws` is a comparison that ends in an exception.

The table `map` in `PROJECT.json` names the lines behind every definition.
Definitions with the comment `a mutant` are not part of the model: each is the
form of the definition below it that a plausible bug would give, and shows that
a property would notice.

## 3. What the runs check

| Run | States | Question |
|---|---|---|
| `executor` | 28 583 | Does the executor do what a program says, whatever runtime and resolver answer? |
| `engine` | 47 400 | Is a text executed the same however it is cut, pumped, polled, resumed, cancelled? |
| `session` | 24 737 | Does recovery from a rejected line keep prefix, modal state and tool? |
| `lowering` | 34 430 | Do the instructions run what the text says, and is the rest reported? |
| `stream` | 559 | Does the streaming lowering show what the batch lowering collects, and stop when told to? |
| `parse_session` | 20 411 | Is what lies before an edit kept, and does a queue kept by differences keep up? |

*executor.* `NoOrphanWait` (what the runtime works on is what the executor is blocked
on, and no notice of something else can wake it, a late event of a condition that was
asked again at its retry time included), `ImplementsStream` (the refinement of
`CommandStream`; it contains that no call is made on sink or runtime while a command or
a value is awaited),
`SpindleView` (the tool carried is the tool mounted),
`FramesSound` and `RepeatsExact` (calls, returns, repeats), `InProgramOrder`
(programs without a way back: each command once and in order, across waits),
`CarriesProgrammedModal` (each command has the codes programmed last),
`WaitEnds` and `Halts` (liveness).

*engine.* `ChunksDoNotMatter` (the refinement of `ProgramRun`), `NoWaitLost`,
`RejectedAfterPrefix` (the line rejected is the one the whole text is rejected at;
nothing of it or behind it was shown or submitted; and when the text runs from line to
line, with no jump, IF, PROC or call, every line before it that moves or dwells was
submitted first. Of tool changes it does not say that, because a policy may pass over
one; `ChunksDoNotMatter` says it of every command of the texts it is about),
`ModalCrossesChunks`,
`ToolCrossesChunks`, `EngineEnds`. Texts: plain moves with modal codes and a
run-time read; a bad line between good ones, with a tool change behind it and an
ENDIF too many in front; tool selections in one chunk and M6 in the next; a
forward jump whose label comes in a later chunk; one whose label never comes; a
branch on a run-time read; a branch on the resolver, which may put it off; an IF
block with a bad line in it. The client may once resume out of turn (wrong
token, or nothing blocked), which faults the engine; `NoWaitLost` excepts what
follows, because the engine then forgets the wait.

*session.* `BoundaryKept`, `SuffixBeginsBad`, `CarefulClientInOrder`,
`ModalSurvivesRecovery`, `PrefixStateSound`, `CarefulClientOneBranch`,
`SessionEnds`. Most of them have a precondition, and the precondition is the
result: the session keeps its promises as long as nothing had to be waited for (`NothingWaited`; for the
boundary `Undisturbed`: no target of a jump either), and keeps the order also
with waits for a client that finishes its input before the first pump and makes
no edit; such a client also sees one part of an IF block run, never both. Without
these two preconditions the runs `session_resumed_lines` and `engine_cut_if`
refute order and branches. `BoundaryKept` says where the boundary is by the
number the engine reported; `SuffixBeginsBad` that the line there is a bad one
when it is looked at alone, which an arc need not be. Texts: a bad line between
good ones, a tool change, a text that starts with a bad line, a jump without a
target, an IF block, a branch in front of a bad line whose label never comes, an
arc that does not fit the plane set before it.

*lowering.* `RunsAsWritten` does not follow the lowering: it reads the nesting
of the blocks by counting IFs and ENDIFs, takes every way the conditions can
turn out, follows the instructions' jumps, and compares the moves that are run
with those the nesting selects. `UnbalancedReported` (a diagnostic about blocks
exactly when they do not match, with skipped and rejected lines among them),
`LabelsSound` (no made-up label defined twice; a jump to one finds it further
on unless its block is still open), `WordsKept` (what the rules let pass is not
dropped: each M, T and motion gives one instruction), `ArcsFitTheirPlane` (the
plane put into an arc allows its center words: the two are computed by two
loops). Texts: all of up to five lines over IF, ELSE, ENDIF and a move, two with
deep nesting, all of four lines with skipped ELSEs and ENDIFs and a bad line
among them, all of three lines of planes and arcs, and all of one or two lines
out of 40 of every other kind, many of them *nearly* a PROC, a call, a tool
selection or an M code.

*stream.* `SameAsBatch` (what was shown is a beginning of what
`lowerToMessages` returns, all of it at the end), `ReturnsForAReason`,
`LimitsHeld` (a limit is exceeded by one, but for the center words of an arc),
`CancelHeeded` (at most one more message). The function returns, so the run does
not check for deadlock. It has few states because a text and limits fix all but
the moment of the cancellation, and that is tried before every callback.

*parse_session.* `LoweredUpToFirstBad` states the result of a lowering without
the loop: the first bad line that is not skipped, and a message for each moving
line before it, with the working plane in force there. `PrefixKept` compares
the results before and after a call up to the line it resumes from: messages,
errors, rejection. It asks that every comment opened before that line has met a closing sign of its
own kind before it (`CommentsEndBefore`): lines behind such a comment, of which the run
has several, are edited without harm. Where one is still open, an edit can close it,
and lines before the edit change; see section 4. It does not speak of warnings, and
could not:
`docs/src/development/design/incremental_session.md` promises to keep
the diagnostics of the prefix, but a jump to a block number added anywhere
brings warnings about numbers used twice to lines above it, as it must.
`QueueKeepsUp`: the queue equals the messages of the result it was last brought
up to. Texts and edits: a line in error and its correction, a plane set before arcs,
block numbers with and without a jump, skipped lines, an edit behind the end, one that
holds a line break, and comments over several lines of either kind that edits open,
close and cut.

Every property is broken by the mutant of the code listed with it in
`PROJECT.json`.

## 4. Where documents and code disagree

Six runs are expected to fail; each checks one sentence of the documentation.

| Run | Sentence | What the code does |
|---|---|---|
| `engine_call_before_eof` | unresolved forward subprogram targets wait for input before EOF | `shouldWaitForMoreInputOnFault` knows gotos and branches only: fault |
| `engine_forward_jump` | unresolved forward targets can wait; nothing is resubmitted | the waiting executor is dropped and the chunk run again from its first line: the moves before the jump are submitted twice |
| `engine_cut_if` | of IF and ELSE only one part reaches the runtime | a chunk that ends in the block makes both run: the missing ENDIF is a diagnostic, not the rejection the engine would wait on |
| `engine_plane` | plane state propagates from parse to runtime; arcs are checked against the active plane | every lowering starts in G17: an arc in the plane of an earlier chunk is rejected |
| `session_resumed_lines` | pushChunk only buffers; resume continues the blocked execution | lines pushed during a wait make the next pump rebuild the engine: the rest of the running chunk is lost |
| `parse_session_rapid` | the diff of two results is a list of added, updated and removed lines | `messageEqual` takes two G0 messages for G4 messages: it throws |

Seen in the model too, without a run of their own:

* The engine steps with the clock at 0, so a condition that names a retry time
  after 0 is never asked again; `EngineEnds` excepts it (`PutOff`).
* A cancellation is not looked at before a resume is accepted, nor while an
  executor is active.
* After a resume everything in flight is locked, a line rejected later too;
  that is why `BoundaryKept` asks for `NothingWaited`.
* An engine that drops its executor to wait for the target of a jump answers
  Progress in the state ReadyToExecute (`streaming_execution_engine.cpp:371`). The
  session takes that for the end of the lines in flight
  (`execution_session.cpp:214`) and locks all of them; if `finish()` then has the
  engine reject one, it is in the locked prefix and cannot be replaced, although
  the design (`2026-03-13-wu6-execution-session-recovery-design.md:114`) has the
  editable region start at the rejected line. With `NothingWaited` in the place
  of `Undisturbed`, the run `session` finds it in the text `Awaited`.
* An IF block that is still open is reported as missing its ENDIF on every pump
  that lowers it again.

* `incremental_session.md:37,83` promises that what lies before the line an edit
  resumes from is kept. An edit that adds or removes the closing sign of a comment
  opened further up changes which lines before it are part of the comment, and with
  them their messages, their errors and the rejection. `PrefixKept` without
  `CommentsEndBefore` is violated in the run `parse_session`.

Met while reading: `parseAndLower` does not hand
`LowerOptions::enable_iso_m98_calls` to the parser; the coordinate rule is
documented for G0 and G1 and looks at G1 only, and not at one that stands behind
the coordinates; a subprogram call with anything but a repeat count beside its
name (`NAME P-1`, a name among other words) passes the rules and is dropped by
lowering without a diagnostic, which is why `WordsKept` speaks of M, T, motion
and PROC only; an axis letter alone on its line is taken for a subprogram call.

## 5. Fairness

The library has no thread of its own. Each liveness property assumes weak
fairness of the steps inside a call (a call returns), that the client goes on
pumping, and that the runtime completes its waits. The client answers a
completed wait by `resume`; since it may also poll by pumping in between, which
disables `resume` for the length of the call, that needs strong fairness. No
fairness is assumed of `pushChunk`, `finish`, `cancel`, of edits or of the
cancellation flag: `EngineEnds` and `SessionEnds` start from `finished`.
That a call of `pump` takes its first step is `WF_calling(PumpGoesOn)`: every
way of taking it changes `calling`, and stating it so spares TLC the lowering of
the pending lines when it asks whether the step can be taken.
`Halts` and `EngineEnds` except a resolver that puts a condition off.

## 6. Bounds

* Programs and texts are small on purpose and chosen so that every handler and
  every alternative of it is reached: two labels, two or three tools (one that
  is substituted, one that cannot be resolved, T0), one user variable with
  values 0 and 1, block numbers up to three, nested calls with two repeats.
* `MaxTime` = 1 in the executor and engine runs: a retry time that has and one
  that has not come. The engine itself steps with the clock at 0, as the code
  does.
* `MaxWaits` (3, in the engine and session runs 2): how often the runtime may
  answer Pending with a token. Two waits are enough for one command to wait
  after another has been resumed, dropped or cancelled.
* `MaxLog`: a client with open input stops polling when log and notices are
  together longer; without it a text whose jump waits, or whose IF block is
  open, could be lowered again without end. It does not bind once the input is
  finished or while an executor runs.
* `MaxEdits` = 2 (both sessions): an edit after an edit; in the parse session
  the client may lag behind by both.
* Texts of the lowering have up to five lines: a plane, an arc that fits it, one
  that sets its own, one that does not fit; lines skipped by level, by a plain
  slash and by an unreadable level, some of them in error; block numbers used
  twice with and without a jump. Limits of 0, 1 and 2 are below what the texts
  hold, `Unlimited` is above.
* Texts of engine and session have up to five lines: enough for a chunk boundary
  before, within and behind each thing that carries state (a mode, a tool, a
  jump, a block, a bad line).
* Lowering to AIL: five lines are the shortest text with a whole IF/ELSE/ENDIF
  and a move in each part; what deeper nesting adds are the two long texts. Two
  block-making lines in a row give every pair of label numbers the counter
  can confuse.
* Edits are made at line 0 (raised to 1), inside, and behind the end.
* A typed line holds at most one sign that opens a comment over lines and one that closes one.
  Five texts and ten entries give comments of both kinds that are never closed, closed
  by the edit, cut by it, or end at the sign of the other kind.
* A chunk may end after any line, with or without the beginning of the next.

## 7. Proofs

Eight modules, no fact left to trust; the assumptions are those of the modules on
their constants, which TLC evaluates in every run. None says what a function of the code
returns. Those of the engine are about one line at a time: the executor's constants
provide for the block number, tool, operands, targets, labels and calls that a
source line names (`RoomAssumption`, which asks nothing of a line where lowering
looks at nothing) and for the modal codes that lowering knows (`ModesAssumption`).
What lowering makes of lines of that kind, however many, is a theorem.

`AilExecutorProofs` proves, for every set of programs and options, any
runtime and resolver, and all values of the bounds:

| Theorem | Statement |
|---|---|
| `TypeCorrect` | `Spec => []TypeOK` |
| `WaitsAreNotLost` | `Spec => []NoOrphanWait` |
| `CommandsDoNotOverlap` | `Spec => OneCommandAtATime` |
| `CallStackSound` | `Spec => []FramesSound` |
| `SpindleTracked` | `NamesTokens => (Spec => []SpindleView)` |

`NamesTokens` says
that a runtime that answers Pending to a submission names a token; without it
the executor takes the tool as mounted at once, and the property is false.

*The argument.* `NoOrphanWait` speaks of what is `Underway`, and of the tokens of
timed conditions only that their notice has not come. It is not inductive alone: that a freshly issued
token is new, and that no old notification of it is lying in `pendingEvents`,
needs `TokensIssued` (all tokens anywhere are at most `issued`).
`WaitInv == TypeOK /\ NoOrphanWait /\ TokensIssued` is inductive. A step of the
executor can happen only when nothing is underway (`StepNeedsNoWait`: if it
was blocked with a token and no time, the token was notified, so it is not outstanding),
and it issues nothing, or issues one token and blocks on it, or blocks on a timed one
it has asked about before (`AdvanceIssues`); from these two `OnlyWait` and all of `WaitInv` follow
handler by handler. `CommandsDoNotOverlap` is a corollary of
`StepNeedsNoWait`. `SpindleView` needs `WaitInv`, because what the runtime
mounts when it completes must be what the executor will mount when it wakes.
`FramesSound` is inductive together with the typing of the frames.

The second part of the module proves `ExecutorImplementsStream == Spec =>
ImplementsStream`: for every program, option set and runtime the executor is an
implementation of `CommandStream`. *The argument.* Each handler adds nothing,
one update, or one command shown and submitted to the log (`AddsOneCall`, one
lemma per handler, collected in `AdvanceAdds`); a handler runs only while nothing is
underway (`StepNeedsNoWait`, from `WaitInv`), and issues at most one
token (`AdvanceIssues`). So a step of the executor is `Proceed` or a stutter
(`StepMaps`) and a completed wait is `Complete` (`NotifyMaps`).

It also proves `ProgramOrderKept == Spec => []InProgramOrder` and
`ModalCodesCarried == Spec => []CarriesProgrammedModal`. *The argument.* Both are
about the log, and neither says where control is; the invariants that carry them
do: every call made so far comes from an instruction before `At` (`At` is the
position behind a move also while the move is waited for), and the modal state
is that of the instructions before `At`. One lemma per handler says where it
leaves control (`Moves`) and what it calls (`Calls`); a program without a way
back then only moves on, because a target found by a search is a candidate, and
those lie behind the jump.

`StreamingEngineProofs` proves of the engine, for every set of texts and however
they are cut, pumped, polled, resumed (out of turn, too), cancelled and answered:

| Theorem | Statement |
|---|---|
| `LoweringOfLines` | whatever lines are buffered: what they are lowered to is a program the executor can run, its diagnostics are typed, and the line rejected, if any, is one of them |
| `RejectsFirstBadLine` | of the buffered lines the first that is bad in itself is rejected, or an arc before it |
| `EngineTypesKept` | `EngineSpec => []EngineTypeOK` |
| `EngineLosesNoWait` | `EngineSpec => []NoWaitLost` |
| `RunsGoodLines` | whatever lines are buffered: each instruction of their lowering comes from a line at which, and before which, none is bad in itself |
| `RejectsInPlace` | `EngineSpec => []RejectedInPlace`, the half of `RejectedAfterPrefix` that says where a line is rejected and that nothing of it or behind it was submitted; that what stands before it was (`PrefixWasRun`) is checked by TLC |
| `ToolStaysKnown` | `NamesTokens /\ (\A o \in OptionSets : o.attached) => (EngineSpec => []ToolCrossesChunks)` |

*The argument.* The types of an executor depend on what was lowered, and that on
what is buffered. `LoweringOfLines` is where the loops of lowering meet the types of
the executor. It is an induction over the lines, and within a line over its words,
with the invariant `IsLowering`: what has been emitted are instructions of lines
of the text; each open IF points at a branch among them, which ELSE will change;
made-up labels have positive numbers; and the diagnostics of a line that is broken
or breaks a rule stay, so that a line that is lowered can be relied on to keep the
rules (`SoundLine`). There is a lemma for each kind of line; `ElseLowered` is the
hard one, because it changes an instruction in the middle of the list. That the
messages and the rejected line are lines of the text is `LoweredIsResult` of
`MessageLoweringProofs`, that the diagnostics are is `ReportsLinesOfText`; that
putting the buffered numbers back for those of the joined text finds a line is
then typing (`Renumbered`). A step of
the executor is typed by `AilExecutorProofs!StepTyped`; what the engine makes of it
has a lemma for each outcome. `EngineInv` also says that an engine whose
executor is being advanced is in none of the states that `pump` only reports.
With that, `NoWaitLost` follows from `WaitsKnown`: the runtime knows at most one
wait, as outstanding or as completed, and none while the engine works; the
executor issues at most one and blocks on it (`AdvanceIssues`), and then the
engine takes that very token. What a resume out of turn is excepted for stays
shown for good (`Grows`, `MisuseStays`).

`RejectsInPlace` compares a text lowered in pieces with the text as a whole, as the
batch path lowers it. A piece knows nothing of the lines before it, so its lowering is
no part of the whole one: the plane starts anew, and so do labels and IF blocks. What
carries over is which lines are bad in themselves. Without arcs, for which the property
makes an exception (their plane may have been set in an earlier piece), a text is
rejected at the first such line, whole or in pieces (`FirstBad`, from
`RejectsFirstBadLine`). `PlaceInv` adds to `EngineInv`, for such texts, that `OnlyGood`
holds: what is buffered is a piece of the text before which no line is bad
(`PiecesJoin`, when lines are pushed); the executor has instructions only of lines up to
which none is bad (`RunsGoodLines`); and so has the log, since each call names a line of
the program it came from (`AddsOwnLines` of `AilExecutorProofs`). So the line the engine
reports, with its number in the source, is the first bad line of the text.

`ToolStaysKnown` has two hypotheses: the runtime names the token of every wait, as for
`SpindleTracked`; and executors are stepped with a sink and a runtime, as the engine
always does (`src/src/streaming_execution_engine.cpp:347`). Within one executor
`AilExecutorProofs` shows what the executor believes of the spindle
(`StepToolSteps`); what could go wrong between two is that an executor is dropped with a
tool it has changed, which the engine then never learns. It drops one when it faults, is
cancelled, or waits for the target of a jump. The property excepts the first two,
which are never left (`GivenUpStays`); that only a jump comes to the third is
`FaultIsNoJump`, handler by handler. The property
is about texts without arcs and jumps, so what is left to show is that no piece of one
gives a jump. A lowering has a jump exactly if one of the lines lowered is IF, GOTO or a
conditional jump (`JumpsOfText`, by induction over the lines with a lemma for each kind,
such as `IfAdds` and `ElseAdds`), and a line that is lowered in a piece is lowered in
the whole text (`PieceJumps`, which again needs only which lines are bad). `ToolInv`
adds to `PlaceInv` that, unless the engine has given up, a running executor has no jumps,
the tool of its outstanding wait is the one it is blocked on, and it knows the spindle;
and that between executors the engine does.

`ExecutionSessionProofs` proves `BoundaryHolds == SessionSpec => []BoundaryKept` and
`BoundaryIsBad == SessionSpec => []SuffixBeginsBad`,
for all texts and replacements and a client that makes its calls in any order. *The argument.* `BoundaryInv` says of an
undisturbed session, before and within a call, that its prefix and suffix are the
client's program, that the engine's buffer is empty or the suffix, numbered on from the
prefix (unless the suffix has changed since, which makes it dirty), and that a
line whose rejection is deferred stands in the suffix and is a bad one or an arc
(`RejectedAt`). Then it has to be shown that the
engine can only reject a line of its buffer, and only a bad one: that is
`RejectsFirstBadLine`, which puts the buffered numbers back into `RejectsFirstBad` of
`MessageLoweringProofs`. The engine answers a call in four ways, and keeps to its work
otherwise (`PumpAnswers`, `AdvanceAnswers`); that it does not block without a token
being issued is `AdvanceTakesIssued` of the executor. What the session makes of
each answer is `ReportKeepsSound`, with the arithmetic of a commit in
`CommitKeeps`; each call of the client has a lemma of its own. Planning
this proof is what showed that the boundary is lost when a jump waits: the answer
Progress in the state ReadyToExecute is the one case in which the lemma fails.

It also proves `SessionTypesKept == SessionSpec => []SessionTypeOK`, of disturbed
sessions, too. *The argument.* The session has a state of its own, which it sets
from the answers of an engine that it throws away at times, so the two might come to
disagree: `StateSound` says when they may not. A call that returns answers Blocked
or Rejected exactly if that is the state the engine is left in (`Agrees`, with a
lemma for each way to return). Since a suffix may be replaced by any lines, the
lines of the engine are no lines of the client's text; its types (`EngineInv`) hold
for any buffered lines, thanks to `LoweringOfLines`, and so they carry over to every
engine that the session builds (`NewEngineTyped`).

`StructuredLoweringProofs` proves `LabelsAreSound == NamesApart =>
(LoweringSpec => []LabelsSound)` for every text, of any length. `NamesApart`
says that no label of the text is called like one that lowering makes up; the
grammar would allow `__CF_IF_END_2`. *The argument.* `LabelsInv` adds to the
property what makes it inductive: every made-up label is the prefix with a
number not above the counter, so the next one is new (`NewLabelUnused`); the
ends of the open blocks are not defined yet and differ from each other; each
open block points at a branch in the list, whose THEN label has been defined
behind it and whose other target is the block's end until its ELSE is met. Then
there is one lemma for each kind of line. Most emit instructions that neither
define nor use made-up labels (`PlainKeeps`); IF, ELSE and ENDIF have a lemma
each about the list (`IfKeeps`, `ElseKeeps`, `EndIfKeeps`), of which ELSE is the
hard one, because it changes an instruction in the middle of it.

The second half of the module is about every text, whatever its labels are
called:

| Theorem | Statement |
|---|---|
| `LoweringTypes` | `LoweringSpec => []LoweringTypeOK` |
| `ArcPlanesAgree` | `LoweringSpec => []ArcsFitTheirPlane` |
| `NoWordIsLost` | `LoweringSpec => []WordsKept` |
| `BlamesUnbalanced` | `LoweringSpec => []UnbalancedReported` |

*The argument.* The plane an arc is given comes from the loop over words, the plane
its center words were checked against from the loop of `lowerToMessages`, which
has run before. `LoopInv` says that before each line, and before each word of it,
the two planes are equal as far as the words read so far go (`PlaneBeforeOther`,
`NextWord`, `MotionFits`); that a line is passed over by the one exactly if the
other has skipped it (`PassedIsSkipped`), and that no line before the rejected one
has an error. What message lowering does at a line is `LineOutcome`, below.

`NoWordIsLost` counts, for each line, the instructions that come from it, by kind
(`AddsOf` says how many an operator of the loop adds). `KeepState` is the invariant:
the lines read have their counts, the line being read has those of its words so
far, and no instruction comes from a line further on. ELSE, which changes a branch far
back in the list, leaves its line and kind alone. That the rules let no word pass that
the loop would then drop is where an M or T word of a line that has not stopped message
lowering is shown to have a value.

`BlamesUnbalanced` relates two descriptions of nesting: the property says of each line
how many lines of each kind stand before it (`Level`), the loop keeps a stack. As long
as nothing was blamed, `BlockState` says, every line so far matches, the level is the
height of the stack, and the block at each height has an ELSE exactly if a line is the
ELSE of the IF that opened it (`OpenAt`; there is only one such IF, `InnermostOpens`).
What is hard is the ELSE: that of the innermost block must be told from those of the
blocks that were closed within it. Once something was blamed, some line does not match,
and no later line changes that.

`LoopTheorems` is about `Loop`, for any round: after no round it is where it
starts, round *n* + 1 works on what *n* rounds have left (`LoopStarts`,
`LoopSteps`). The recursive function behind it has to be shown to exist, by
induction on the number of rounds. The induction theorems of the library are about
operators, which the provers cannot instantiate; `SetInduction` is about a *set* of
numbers and follows from their well-foundedness. With these two, what a loop over
a text of any length computes can be proved.

`MessageLoweringProofs` proves what `lowerToMessages` makes of any text:

| Theorem | Statement |
|---|---|
| `LoweredIsResult` | after any number of lines: typed messages of these lines, a plane of G17 to G19, at most one rejected line, an error for it |
| `LoweredGrows` | a line takes nothing back of what the lines before it have given; behind a rejected line nothing changes |
| `ReportsLinesOfText` | every diagnostic is about a line of the text |
| `RejectsFirstBad` | the rejected line is bad in itself or an arc, and no bad line stands before it; without a rejected line there is no bad one |
| `LoweredFromLines` | the messages are those of the lines that move, are not skipped and stand before the rejected one, one for each, in their order |

*The argument.* The rules report errors of exactly the lines that are broken or
break one (`ParseErrors`, by induction over the two loops of the diagnostics). So
a line goes one of five ways (`LineOutcome`), none of which asks for diagnostics
any more, and the theorems are inductions on the number of lines. (A line is bad in
itself if it is broken or breaks a rule and is not skipped. An arc may also be
rejected for the plane it is in, which lines before it set.)

`ParseSessionProofs` proves of the editor's session and its client, for all texts,
entries (with line breaks in them, too), edits and any number of them:

| Theorem | Statement |
|---|---|
| `SessionTypes` | `SessionSpec => []SessionTypeOK` |
| `SessionLowers` | `SessionSpec => []LoweredUpToFirstBad` |
| `SessionKeepsPrefix` | `SessionSpec => PrefixKept` |
| `SessionQueue` | `SessionSpec => []QueueKeepsUp` |

*The argument.* The entries always make a text (`EntriesMakeText`), and `current`
is always what that text is lowered to (`EntriesInv`). The plane that the lowering
carries is the one `IsPlaneAt` describes by the last line that sets it
(`PlaneInForce`), so that the lines that stop the lowering are the bad ones
(`BadStops`), and the first of them is the one rejected (`FirstBad`).
`SessionKeepsPrefix` is about two texts, the one before and the one after a call.
An edit of line *n* leaves a common beginning of the two behind which, in either,
every line before line *n* is empty (`EditLeavesBefore`): an entry may hold several
lines, so line *n* may lie anywhere behind it, and an edit beyond the end adds empty
lines. That is about the lines as they are typed. If every comment opened before line
*n* has met a closing sign of its own kind before it, each ends where it did, since a
first sign that is common to both texts is the first in both (`EndsAlike`,
`EndOfAlike`); so the same lines are within a comment (`UntilAlike`), and the parser
makes the same of them (`ParsedAlike`, `ParsedBefore`). On the common beginning the lowering of both goes the same way, since the
parser and the rules report the same errors of the same lines (`SameErrors`) and a
line is lowered by what it says and the plane it finds (`AlikeStep`, `AlikeStart`);
warnings may differ, which is why it speaks of errors. What comes behind adds
nothing before line *n* (`QuietStep`, `QuietEnd`). Both together are
`LoweredBefore`. For the queue: the messages of a result stand in the order of their lines, no two of the
same (`LoweredFromLines`), so the index by line has them all (`IndexHasAll`), and
putting it in order gives them back (`OrderKeeps`); the difference of two results,
applied to the one, gives the index of the other (`DiffLeadsOver`). A difference
that throws leaves queue and base as they were.

`StreamLoweringProofs` proves of the streaming lowering, for every set of texts
and all limits:

| Theorem | Statement |
|---|---|
| `StreamTypesKept` | `StreamSpec => []StreamTypeOK` |
| `StreamIsBatch` | `StreamSpec => []SameAsBatch` |
| `AlwaysForAReason` | `StreamSpec => []ReturnsForAReason` |
| `LimitsAlwaysHeld` | `StreamSpec => []LimitsHeld` |
| `CancelAlwaysHeeded` | `StreamSpec => []CancelHeeded` |

*The argument.* `StreamIsBatch` relates two copies of a loop. `AgreesInv` says
that what was shown and what is still owed are together what the lines so far give
in `lowerToMessages`, line by line and diagnostic by diagnostic; since no line
takes anything back (`LoweredGrows`), that is a beginning of the whole
(`AgreesIsSame`), and all of it at the end of the text or when the line is
rejected (`AgreesAtEnd`, `AgreesAtReject`). `BatchStep` shows it for each callback.

None of the other three is inductive alone. What makes them so is
`RunningInv`: while the function runs, nothing has been rejected, no limit is
exceeded (except by the diagnostics of an arc that is about to be rejected), and
no message has been shown since the hook turned true, because every message is
followed by a look at the hook. The properties count calls by
cardinalities; `CountAppended` says what one more call does to a count, and
`OneCall` what it does to the state. From there each action is a short
case: the function goes on (`RunsOn`) or returns (`HasReturned`). The arithmetic
is in lemmas of one line, because the provers do not take it together with
state predicates.

## 8. What is only model-checked and what is not modelled

Only model-checked: all liveness (the prover has no fairness); `RepeatsExact` (a
fact about particular programs); that the lines before a rejected one were submitted
(`PrefixWasRun`, a half of `RejectedAfterPrefix`); of the engine all that compares what was
submitted with the whole text (`ChunksDoNotMatter`, `ModalCrossesChunks`: they need
that a text lowered in pieces gives the pieces of its lowering; `RejectsInPlace` and
`ToolStaysKnown` need only which lines are bad and whether there are jumps); of the
execution session
all but its boundary (`BoundaryKept`, `SuffixBeginsBad`) and its types, since order,
codes and tools need the lowering of pieces, too; and of the lowering `RunsAsWritten`
(its reference takes every way through the conditions).

Not modelled: the parser and its AST (texts start from parsed lines; of the parser the
parse session has the comments over several lines, but not several of them on a line,
nor words behind a closing sign), the modal
registry (a table, used by tests only), packets (a map from instructions to
numbered packets, without state or failure), the command builder's copying of
fields, the contract fixture, runner and report (the project's own test driver:
a client of the session with a script, whose calls the client of
`ExecutionSession` makes in any order), the event log and the trace of
run-time reads, JSON and printing, the command line programs. In the executor: a
custom subprogram resolver (the default one with its fallbacks is modelled),
several axis words read at run time by one move (one read stands for them), the
selected tool in an initial state. In the lowerings: numbers other than small
naturals, which the rules and the lowering treat alike but for their sign and
integrality (*no number* stands for those), and more than two axes.

## 9. Plan

Done: the executor, the engine, the session, both lowerings with all rules, the
streaming lowering, the parse session, the two refinements; the proofs of section
7. Left, for a proof that goes on from here:

1. that a text without jumps and blocks, lowered in pieces, gives the pieces of its
   lowering but for the plane and the labels; from it `ModalCrossesChunks`,
   and with the refinement `ChunksDoNotMatter`;
2. the same for the lines a session locks: `CarefulClientInOrder` and
   `ModalSurvivesRecovery`;
3. `RunsAsWritten`, which needs the paths through nested blocks as a function of the
   text.
