---------------------------- MODULE AilExecutor ----------------------------
(***************************************************************************)
(* The instruction executor, AilExecutor of src/src/ail.cpp: it runs one   *)
(* vector of lowered instructions, one instruction per step(), shows every *)
(* command to the sink, submits it to the runtime, and blocks while the    *)
(* runtime answers Pending.                                                *)
(*                                                                         *)
(* Positions are 1-based here (0-based in the code).  Poses, feeds and     *)
(* texts are left out: a command is known by the instruction it comes from *)
(* and by the modal state it carries.  The runtime, the sink and the owner *)
(* of the executor are the environment: log, outstanding, issued, spindle. *)
(***************************************************************************)
EXTENDS Integers, Sequences, FiniteSets

CONSTANTS
  Programs,         \* the instruction vectors an executor may be built from
  OptionSets,       \* the AilExecutorOptions an executor may be built with
  Label,            \* label and subprogram names
  BlockNumber,      \* the N numbers of source blocks (0: the block has none)
  Tool,             \* tool selections
  Deselect,         \* the selection T0
  NoTool,           \* no selection, nothing on the spindle
  Var, Value,       \* user variables and the values of expressions
  ModalGroup,       \* the modal groups a command carries, "motion" among them
  ModalValue,
  InitialModal,     \* the modal codes an executor starts from
  SubmitResults,    \* what a submission may return
  ReadResults,      \* what reading a system variable may return
  ConditionResults, \* what the condition resolver may return
  MaxTime,          \* bound: the clock values step() is called with
  MaxWaits,         \* bound: how often the runtime answers Pending with a token
  NoWait,           \* the empty optional of ExecutorState::blocked
  NoGoto            \* a branch without ELSE target

Policy == {"Error", "Warning", "Ignore"}
Never == -1         \* no retry_at_ms
NoToken == 0        \* no wait_token
Time == 0 .. MaxTime

(* Labels of the program and those lowering makes up for IF blocks, called *)
(* __CF_IF_THEN_1 and so on in the code.                                   *)
AnyLabel == Label \cup ({"IF_THEN", "IF_ELSE", "IF_END"} \X (Nat \ {0}))

(* AilGotoInstruction without its source: opcode, target kind, target.     *)
GotoTarget ==
  [opcode : {"GOTO", "GOTOF", "GOTOB", "GOTOC"}, kind : {"label"}, target : AnyLabel]
  \cup
  [opcode : {"GOTO", "GOTOF", "GOTOB", "GOTOC"}, kind : {"number"}, target : BlockNumber]

(* An expression by what evaluating it does: a constant, a user variable,  *)
(* a runtime read, a form the executor does not evaluate, an error.        *)
Operand ==
  [kind : {"literal"}, value : Value]
  \cup [kind : {"user"}, name : Var]
  \cup [kind : {"system", "unsupported", "error"}]

Source == [block : BlockNumber \cup {0}, line : Nat]

(* The variants of AilInstruction.  "move" stands for the linear, arc and  *)
(* dwell instructions: motion is the motion code it makes current ("none"  *)
(* for a dwell), system whether an axis word reads a system variable;      *)
(* effective, the plane or rapid mode lowering has found, is not read here.*)
Instruction ==
  [op : {"label"}, source : Source, name : AnyLabel]
  \cup [op : {"goto"}, source : Source, to : GotoTarget]
  \cup [op : {"branch"}, source : Source, direct : BOOLEAN, lhs : Operand, rhs : Operand,
        relation : {"EQ", "NE", "LT", "LE", "GT", "GE", "other"},
        then : GotoTarget, else : GotoTarget \cup {NoGoto}]
  \cup [op : {"assign"}, source : Source, name : Var \cup {"$"}, rhs : Operand]
  \cup [op : {"mcode"}, source : Source, known : BOOLEAN]
  \cup [op : {"modal"}, source : Source, group : ModalGroup, value : ModalValue]
  \cup [op : {"tool select"}, source : Source, tool : Tool, immediate : BOOLEAN]
  \cup [op : {"tool change"}, source : Source]
  \cup [op : {"move"}, source : Source, motion : ModalValue \cup {"none"}, system : BOOLEAN,
        effective : ModalValue \cup {"none"}]
  \cup [op : {"return"}, source : Source]
  \cup [op : {"call"}, source : Source, target : Label, repeat : Int]

Resolution ==
  [kind : {"Resolved", "Unresolved", "Ambiguous"}, tool : Tool, substituted : BOOLEAN]

(* AilExecutorOptions.  attached: step() is given a sink and a runtime;    *)
(* resolve: the tool selection resolver; fallbacks: the other names a      *)
(* subprogram target is looked up under (alias, bare name), in order.      *)
Options ==
  [unknownMCode : Policy, m6WithoutPending : Policy, unresolvedTool : Policy,
   ambiguousTool : Policy, unresolvedSubprogram : Policy, attached : BOOLEAN,
   resolve : [Tool -> Resolution], fallbacks : [Label -> Seq(Label)]]

ASSUME ProgramsAssumption == \A p \in Programs : p \in Seq(Instruction)
ASSUME OptionsAssumption == \A o \in OptionSets : o \in Options
ASSUME NoGotoAssumption == NoGoto \notin GotoTarget
ASSUME ToolAssumption == Deselect \in Tool /\ NoTool \notin Tool
ASSUME ModalAssumption ==
  "motion" \in ModalGroup /\ InitialModal \in [ModalGroup -> ModalValue]
ASSUME ValueAssumption == 0 \in Value /\ Value \subseteq Int
ASSUME BoundsAssumption == MaxTime \in Nat /\ MaxWaits \in Nat
ASSUME ResultsAssumption ==
  /\ SubmitResults \subseteq {"Ready", "Pending", "PendingNoToken", "Error"}
  /\ ReadResults \subseteq {"Ready", "Pending", "PendingNoToken", "Error"}
  /\ ConditionResults \subseteq
       {"True", "False", "Pending", "PendingRetry", "PendingBoth", "PendingNoToken", "Error"}

VARIABLES
  instructions, options,                \* fixed by the constructor
  status, pc, blocked, diagnostics,     \* control state
  frames,                               \* call_stack_frames_
  modal, userVars,                      \* modal codes and user variables
  activeTool, pendingTool, selectedTool,
  pendingEvents,                        \* notified tokens not yet consumed
  log,          \* calls made on the sink and the runtime, in order
  outstanding,  \* waits the runtime has issued and not yet completed
  issued,       \* how many wait tokens the runtime has issued
  spindle       \* the tool the machine has really mounted

program == <<instructions, options>>
control == <<status, pc, blocked, diagnostics>>
data == <<modal, userVars>>
tools == <<activeTool, pendingTool, selectedTool>>
environment == <<log, outstanding, issued, spindle>>
vars == <<program, control, frames, data, tools, pendingEvents, environment>>

----------------------------------------------------------------------------
(* Helpers.                                                                *)

(* What a completed change to tool t leaves active: T0 empties it.         *)
MountsAnything(t) == t  \* a mutant: T0 left on the spindle

Mount(t) == IF t = Deselect THEN NoTool ELSE t

(* The state the next instruction starts from: wakeBlockedExecutorIfReady  *)
(* moves pc and applies a tool change that was waited for.                 *)
Resuming == status = "Blocked"
Changed == Resuming /\ blocked.tool # NoTool
At == IF Resuming THEN blocked.index ELSE pc
KeepsActive == activeTool  \* a mutant: the change waited for is forgotten
WokenActive == IF Changed THEN Mount(blocked.tool) ELSE activeTool
WokenSelected == IF Changed THEN NoTool ELSE selectedTool
WokenEvents == IF Resuming THEN pendingEvents \ {blocked.token} ELSE pendingEvents

WakesUnasked(now) == Resuming => now >= blocked.retry  \* a mutant: no retry is time 0
ForgetsRetry(now) == Resuming => blocked.token \in pendingEvents  \* a mutant

(* The wait is over: its token was notified, or its retry time has come.   *)
CanRun(now) ==
  Resuming => \/ blocked.token \in pendingEvents
              \/ blocked.retry # Never /\ now >= blocked.retry

Fetch == instructions[At]

Diag(severity, why) == [severity |-> severity, why |-> why]
Event(ev, carried, tool, whole) ==
  [ev |-> ev, at |-> At, line |-> Fetch.source.line, modal |-> carried, tool |-> tool,
   whole |-> whole]

(* How a handler leaves the executor.                                      *)
ContinueWith(next, warnings) ==
  /\ status' = "Ready" /\ pc' = next /\ blocked' = NoWait
  /\ diagnostics' = diagnostics \o warnings

Continue(next) == ContinueWith(next, <<>>)

Fault(why, next) ==
  /\ status' = "Fault" /\ pc' = next /\ blocked' = NoWait
  /\ diagnostics' = Append(diagnostics, Diag("Error", why))

Wait(index, token, retry, tool) ==
  /\ status' = "Blocked" /\ pc' = At
  /\ blocked' = [index |-> index, token |-> token, retry |-> retry, tool |-> tool]
  /\ UNCHANGED diagnostics

(* The runtime issues a fresh token; tool is what it is mounting, if any;  *)
(* a wait that is timed has a retry time as well and may be left behind.   *)
IssueFor(tool, timed) ==
  /\ issued < MaxWaits
  /\ issued' = issued + 1
  /\ outstanding' =
       outstanding \cup {[token |-> issued + 1, tool |-> tool, timed |-> timed]}

Issue(tool) == IssueFor(tool, FALSE)

NoIssue == UNCHANGED <<issued, outstanding>>
Quiet == UNCHANGED environment
KeepTools ==
  activeTool' = WokenActive /\ selectedTool' = WokenSelected /\ UNCHANGED pendingTool
ControlOnly == KeepTools /\ UNCHANGED <<frames, data>>

(* Skip the instruction, or fault, as an ErrorPolicy says.                 *)
ByPolicy(policy, why) ==
  IF policy = "Error" THEN Fault(why, At)
  ELSE ContinueWith(At + 1, IF policy = "Warning" THEN <<Diag("Warning", why)>> ELSE <<>>)

----------------------------------------------------------------------------
(* Jumps: resolveGotoTarget.                                               *)

(* label_positions_ and line_number_positions_: every instruction lowered  *)
(* from a block carries the block's number, so one block may hold several  *)
(* candidates.                                                             *)
Candidates(g) ==
  {i \in DOMAIN instructions :
     IF g.kind = "label"
     THEN instructions[i].op = "label" /\ instructions[i].name = g.target
     ELSE instructions[i].source.block = g.target}

AheadOrHere(g) == {i \in Candidates(g) : i >= At}  \* a mutant: off by one
Ahead(g) == {i \in Candidates(g) : i > At}
Behind(g) == {i \in Candidates(g) : i < At}

(* The side of the jump the opcode looks at.                               *)
Searched(g) ==
  CASE g.opcode = "GOTOF" -> Ahead(g)
    [] g.opcode = "GOTOB" -> Behind(g)
    [] OTHER -> IF Ahead(g) # {} THEN Ahead(g) ELSE Behind(g)

(* The nearest candidate of that side.                                     *)
IsTarget(t, g) ==
  t \in Searched(g) /\ \A u \in Searched(g) : IF t > At THEN t <= u ELSE u <= t

JumpWarnings(g) ==
  IF g.kind = "number" /\ Cardinality(Searched(g)) > 1
  THEN <<Diag("Warning", "multiple blocks match")>> ELSE <<>>

JumpTo(g, why) ==
  \/ \E t \in Searched(g) : IsTarget(t, g) /\ ContinueWith(t, JumpWarnings(g))
  \/ Searched(g) = {} /\ g.opcode = "GOTOC" /\ Continue(At + 1)
  \/ Searched(g) = {} /\ g.opcode # "GOTOC" /\ Fault(why, At)

HandleGoto ==
  /\ Fetch.op = "goto"
  /\ JumpTo(Fetch.to, "unresolved goto target")
  /\ ControlOnly /\ Quiet

----------------------------------------------------------------------------
(* Expressions and branches: evaluateExpressionNode, evaluateBranchAtPc.   *)

(* How evaluating an operand may end, and with which values.               *)
Outcomes(o) ==
  CASE o.kind \in {"literal", "user"} -> {"Ready"}
    [] o.kind = "system" -> IF options.attached THEN ReadResults ELSE {"Unsupported"}
    [] o.kind = "unsupported" -> {"Unsupported"}
    [] OTHER -> {"Error"}

Values(o) ==
  CASE o.kind = "literal" -> {o.value}
    [] o.kind = "user" -> {userVars[o.name]}
    [] OTHER -> Value

IsPending(outcome) == outcome \in {"Pending", "PendingNoToken"}

(* Blocked at this instruction until the pending read is complete.         *)
WaitForRead(outcome) ==
  /\ IF outcome = "Pending"
     THEN Issue(NoTool) /\ Wait(At, issued + 1, Never, NoTool)
     ELSE NoIssue /\ Wait(At, NoToken, Never, NoTool)
  /\ UNCHANGED <<log, spindle>>

Holds(l, relation, r) ==
  CASE relation = "EQ" -> l = r [] relation = "NE" -> l # r
    [] relation = "LT" -> l < r [] relation = "LE" -> l <= r
    [] relation = "GT" -> l > r [] relation = "GE" -> l >= r

Take(branch, verdict) ==
  IF verdict THEN JumpTo(branch.then, "unresolved branch target")
  ELSE IF branch.else = NoGoto THEN Continue(At + 1)
  ELSE JumpTo(branch.else, "unresolved branch target")

(* Blocked until an event that the resolver names or until a time.         *)
DeferUntil(retry) ==
  /\ IssueFor(NoTool, TRUE) /\ Wait(At, issued + 1, retry, NoTool)
  /\ UNCHANGED <<log, spindle>>

(* The resolver names an event it has named before, one that has not       *)
(* happened since: the executor was woken by the retry time meanwhile.     *)
AwaitAgain(w, retry) ==
  /\ w.timed /\ Wait(At, w.token, retry, NoTool)
  /\ outstanding' = (outstanding \ {w}) \cup {[w EXCEPT !.timed = retry # Never]}
  /\ UNCHANGED <<log, issued, spindle>>

(* IConditionResolver::resolve; a ConditionResolution that is Pending has  *)
(* a wait_token, a retry_at_ms, both or neither.                           *)
AskResolver(branch) ==
  \E c \in ConditionResults :
    \/ c \in {"True", "False"} /\ Take(branch, c = "True") /\ Quiet
    \/ c = "Error" /\ Fault("condition", At) /\ Quiet
    \/ IsPending(c) /\ WaitForRead(c)
    \/ c = "Pending" /\ \E w \in outstanding : AwaitAgain(w, Never)
    \/ \E retry \in Time :
         \/ c = "PendingRetry" /\ Wait(At, NoToken, retry, NoTool) /\ Quiet
         \/ c = "PendingBoth" /\ DeferUntil(retry)
         \/ c = "PendingBoth" /\ \E w \in outstanding : AwaitAgain(w, retry)

(* The direct evaluation stops at the first operand that is pending or in  *)
(* error; a form it does not know sends the condition to the resolver.     *)
CompareDirectly(branch) ==
  \E l \in Outcomes(branch.lhs), r \in Outcomes(branch.rhs) :
    \/ IsPending(l) /\ WaitForRead(l)
    \/ l = "Error" /\ Fault("condition", At) /\ Quiet
    \/ /\ l \in {"Ready", "Unsupported"}
       /\ \/ IsPending(r) /\ WaitForRead(r)
          \/ r = "Error" /\ Fault("condition", At) /\ Quiet
          \/ r \in {"Ready", "Unsupported"} /\ "Unsupported" \in {l, r} /\ AskResolver(branch)
          \/ /\ l = "Ready" /\ r = "Ready" /\ Quiet
             /\ IF branch.relation = "other" THEN Fault("operator", At)
                ELSE \E lv \in Values(branch.lhs), rv \in Values(branch.rhs) :
                       Take(branch, Holds(lv, branch.relation, rv))

HandleBranch ==
  /\ Fetch.op = "branch"
  /\ IF Fetch.direct THEN CompareDirectly(Fetch) ELSE AskResolver(Fetch)
  /\ ControlOnly

(* handleAssignAtPc: the right-hand side first, then the write.            *)
HandleAssign ==
  /\ Fetch.op = "assign"
  /\ KeepTools /\ UNCHANGED <<frames, modal>>
  /\ \E o \in Outcomes(Fetch.rhs) :
       \/ IsPending(o) /\ WaitForRead(o) /\ UNCHANGED userVars
       \/ o \in {"Error", "Unsupported"} /\ Fault("assignment", At) /\ Quiet /\ UNCHANGED userVars
       \/ /\ o = "Ready" /\ Quiet
          /\ IF Fetch.name = "$" THEN Fault("system variable write", At) /\ UNCHANGED userVars
             ELSE /\ Continue(At + 1)
                  /\ \E v \in Values(Fetch.rhs) : userVars' = [userVars EXCEPT ![Fetch.name] = v]

----------------------------------------------------------------------------
(* M codes and modal codes.                                                *)

HandleMCode ==
  /\ Fetch.op = "mcode"
  /\ IF Fetch.known THEN Continue(At + 1)
     ELSE ByPolicy(options.unknownMCode, "unsupported M function")
  /\ ControlOnly /\ Quiet

(* G40-G42, G17-G19, RTLION/RTLIOF: the sink is told, the runtime is not.  *)
HandleModal ==
  /\ Fetch.op = "modal"
  /\ modal' = [modal EXCEPT ![Fetch.group] = Fetch.value]
  /\ log' = IF options.attached THEN Append(log, Event("update", modal', NoTool, TRUE)) ELSE log
  /\ Continue(At + 1)
  /\ KeepTools /\ NoIssue /\ UNCHANGED <<frames, userVars, spindle>>

----------------------------------------------------------------------------
(* Commands: emit to the sink, submit to the runtime, act on its answer.   *)

EmitAndSubmit(carried, tool, whole) ==
  log' = log \o <<Event("emit", carried, tool, whole), Event("submit", carried, tool, whole)>>

(* Where a command that is waited for resumes.                             *)
Again == At  \* a mutant: the command waited for is run once more
Afterwards == At + 1

(* The modal state a move carries and leaves: its own motion code counts.  *)
CarriesOld == modal  \* a mutant: the snapshot is taken before the move's own code
Carried == IF Fetch.motion = "none" THEN modal ELSE [modal EXCEPT !["motion"] = Fetch.motion]

(* dispatchExecutionInstruction and what advanceOneInstruction makes of    *)
(* the answer; a Pending answer without a token counts as done.            *)
DispatchMove(whole) ==
  /\ EmitAndSubmit(Carried, NoTool, whole)
  /\ \E answer \in SubmitResults :
       \/ answer \in {"Ready", "PendingNoToken"} /\ Continue(At + 1) /\ modal' = Carried /\ NoIssue
       \/ /\ answer = "Pending" /\ Issue(NoTool) /\ modal' = Carried
          /\ Wait(Afterwards, issued + 1, Never, NoTool)
       \/ answer = "Error" /\ Fault("runtime", At) /\ UNCHANGED modal /\ NoIssue
  /\ UNCHANGED spindle

(* Axis words that read system variables are resolved before the command   *)
(* is built; a Pending read without a token does not stop the dispatch.    *)
HandleMove ==
  /\ Fetch.op = "move"
  /\ KeepTools /\ UNCHANGED <<frames, userVars>>
  /\ \/ ~options.attached /\ Continue(At + 1) /\ Quiet /\ UNCHANGED modal
     \/ options.attached /\ ~Fetch.system /\ DispatchMove(TRUE)
     \/ /\ options.attached /\ Fetch.system
        /\ \E read \in ReadResults :
             \/ read = "Ready" /\ DispatchMove(TRUE)
             \/ read = "PendingNoToken" /\ DispatchMove(FALSE)
             \/ read = "Pending" /\ WaitForRead(read) /\ UNCHANGED modal
             \/ read = "Error" /\ Fault("system variable", At) /\ Quiet /\ UNCHANGED modal

----------------------------------------------------------------------------
(* Tools: handleToolSelectAtPc, handleToolChangeAtPc, and the dispatch     *)
(* they share, dispatchToolChangeAtPc.                                     *)

SubstitutionWarning(r) ==
  IF r.substituted THEN <<Diag("Warning", "tool substituted")>> ELSE <<>>

(* The change to tool t is done when the runtime answered Ready, is        *)
(* waited for when it answered Pending.  pendingAtError: what an Error     *)
(* leaves of the pending selection, which only M6 still holds then.        *)
MountedNow(t, warnings) ==
  /\ ContinueWith(At + 1, warnings)
  /\ activeTool' = Mount(t) /\ pendingTool' = NoTool /\ selectedTool' = NoTool

DispatchToolChange(t, pendingAtError, warnings) ==
  \/ ~options.attached /\ MountedNow(t, warnings) /\ Quiet
  \/ /\ options.attached
     /\ EmitAndSubmit(modal, t, TRUE)
     /\ \E answer \in SubmitResults :
          \/ answer = "Ready" /\ MountedNow(t, warnings) /\ spindle' = Mount(t) /\ NoIssue
          \/ answer = "PendingNoToken" /\ MountedNow(t, warnings) /\ UNCHANGED spindle /\ NoIssue
          \/ /\ answer = "Pending" /\ Issue(t) /\ UNCHANGED spindle
             /\ status' = "Blocked" /\ pc' = At /\ diagnostics' = diagnostics \o warnings
             /\ blocked' = [index |-> Afterwards, token |-> issued + 1, retry |-> Never, tool |-> t]
             /\ selectedTool' = t /\ pendingTool' = NoTool /\ activeTool' = WokenActive
          \/ /\ answer = "Error" /\ NoIssue /\ UNCHANGED spindle
             /\ status' = "Fault" /\ pc' = At /\ blocked' = NoWait
             /\ diagnostics' = (diagnostics \o warnings) \o <<Diag("Error", "runtime")>>
             /\ pendingTool' = pendingAtError
             /\ activeTool' = WokenActive /\ selectedTool' = WokenSelected

FailurePolicy(r) ==
  IF r.kind = "Unresolved" THEN options.unresolvedTool ELSE options.ambiguousTool

(* T in DirectT mode changes the tool at once.  A selection that cannot be *)
(* resolved moves past the instruction even when the policy is Error.      *)
SelectNow(r) ==
  \/ r.kind = "Resolved" /\ DispatchToolChange(r.tool, NoTool, SubstitutionWarning(r))
  \/ /\ r.kind # "Resolved" /\ Quiet
     /\ IF FailurePolicy(r) = "Error" THEN Fault("tool selection", At + 1)
        ELSE ByPolicy(FailurePolicy(r), "tool selection")
     /\ pendingTool' = NoTool /\ activeTool' = WokenActive /\ selectedTool' = WokenSelected

HandleToolSelect ==
  /\ Fetch.op = "tool select"
  /\ UNCHANGED <<frames, data>>
  /\ \/ Fetch.immediate /\ SelectNow(options.resolve[Fetch.tool])
     \/ /\ ~Fetch.immediate /\ Continue(At + 1) /\ Quiet
        /\ pendingTool' = Fetch.tool /\ activeTool' = WokenActive /\ selectedTool' = WokenSelected

(* M6 changes to the pending selection, or again to the active tool.       *)
HandleToolChange ==
  /\ Fetch.op = "tool change"
  /\ UNCHANGED <<frames, data>>
  /\ \/ /\ pendingTool # NoTool
        /\ LET r == options.resolve[pendingTool] IN
             \/ r.kind = "Resolved"
                /\ DispatchToolChange(r.tool, pendingTool, SubstitutionWarning(r))
             \/ /\ r.kind # "Resolved" /\ Quiet /\ ByPolicy(FailurePolicy(r), "tool selection")
                /\ pendingTool' = NoTool /\ activeTool' = WokenActive
                /\ selectedTool' = WokenSelected
     \/ /\ pendingTool = NoTool /\ WokenActive # NoTool
        /\ DispatchToolChange(WokenActive, NoTool, <<>>)
     \/ /\ pendingTool = NoTool /\ WokenActive = NoTool
        /\ ByPolicy(options.m6WithoutPending, "M6 without tool") /\ KeepTools /\ Quiet

----------------------------------------------------------------------------
(* Subprograms: calls, repeats and returns.                                *)

Definitions(name) ==
  {i \in DOMAIN instructions : instructions[i].op = "label" /\ instructions[i].name = name}

(* defaultResolveSubprogramTarget: the exact name, then its fallbacks.     *)
Names(call) == <<call.target>> \o options.fallbacks[call.target]

IsResolvedBy(k, call) ==
  /\ k \in DOMAIN Names(call) /\ Definitions(Names(call)[k]) # {}
  /\ \A j \in 1 .. k - 1 : Definitions(Names(call)[j]) = {}

CallWarnings(k, call) ==
  (IF k > 1 THEN <<Diag("Warning", "fallback name")>> ELSE <<>>)
  \o (IF Cardinality(Definitions(Names(call)[k])) > 1
      THEN <<Diag("Warning", "duplicate subprogram labels")>> ELSE <<>>)

Enter(t, warnings) ==
  /\ ContinueWith(t, warnings)
  /\ frames' = Append(frames, [ret |-> At + 1, target |-> t, remaining |-> Fetch.repeat])

HandleCall ==
  /\ Fetch.op = "call"
  /\ KeepTools /\ UNCHANGED data /\ Quiet
  /\ \/ /\ \A k \in DOMAIN Names(Fetch) : Definitions(Names(Fetch)[k]) = {}
        /\ ByPolicy(options.unresolvedSubprogram, "unresolved subprogram target")
        /\ UNCHANGED frames
     \/ \E k \in DOMAIN Names(Fetch) :
          /\ IsResolvedBy(k, Fetch)
          /\ \/ /\ Fetch.repeat <= 0 /\ UNCHANGED frames
                /\ ContinueWith(At + 1,
                     Append(CallWarnings(k, Fetch), Diag("Warning", "repeat count ignored")))
             \/ /\ Fetch.repeat > 0
                /\ \E t \in Definitions(Names(Fetch)[k]) :
                     /\ \A u \in Definitions(Names(Fetch)[k]) : t <= u
                     /\ Enter(t, CallWarnings(k, Fetch))

Top == frames[Len(frames)]
RunsOnceMore == Top.remaining >= 1  \* a mutant: off by one
RunsAgain == Top.remaining > 1

HandleReturn ==
  /\ Fetch.op = "return"
  /\ KeepTools /\ UNCHANGED data /\ Quiet
  /\ \/ frames = <<>> /\ Fault("empty call stack", At) /\ UNCHANGED frames
     \/ /\ frames # <<>> /\ RunsAgain
        /\ frames' = [frames EXCEPT ![Len(frames)].remaining = @ - 1]
        /\ Continue(Top.target)
     \/ /\ frames # <<>> /\ ~RunsAgain
        /\ frames' = SubSeq(frames, 1, Len(frames) - 1)
        /\ Continue(Top.ret)

(* A label does nothing when control reaches it.                           *)
HandleLabel == Fetch.op = "label" /\ Continue(At + 1) /\ ControlOnly /\ Quiet

----------------------------------------------------------------------------
(* step() and its environment.                                             *)

Live == status \notin {"Fault", "Completed"}
AtEnd == At > Len(instructions)

Completes ==
  /\ status' = "Completed" /\ pc' = At /\ blocked' = NoWait
  /\ UNCHANGED diagnostics /\ ControlOnly /\ Quiet

Advance ==
  \/ AtEnd /\ Completes
  \/ /\ ~AtEnd
     /\ \/ HandleLabel \/ HandleGoto \/ HandleBranch \/ HandleAssign \/ HandleMCode
        \/ HandleModal \/ HandleToolSelect \/ HandleToolChange \/ HandleMove
        \/ HandleCall \/ HandleReturn

(* One call of step() that does something: it wakes a blocked executor     *)
(* and then runs the instruction control is at.                            *)
Step(now) ==
  /\ Live /\ CanRun(now) /\ Advance
  /\ pendingEvents' = WokenEvents /\ UNCHANGED program

(* The runtime completes wait w, and the owner calls notifyEvent.          *)
Notify(w) ==
  /\ w \in outstanding
  /\ outstanding' = outstanding \ {w}
  /\ pendingEvents' = pendingEvents \cup {w.token}
  /\ spindle' = IF w.tool = NoTool THEN spindle ELSE Mount(w.tool)
  /\ UNCHANGED <<program, control, frames, data, tools, log, issued>>

(* A finished executor stays as it is.                                     *)
Done == ~Live /\ outstanding = {} /\ UNCHANGED vars

Init ==
  /\ instructions \in Programs /\ options \in OptionSets
  /\ status = "Ready" /\ pc = 1 /\ blocked = NoWait /\ diagnostics = <<>>
  /\ frames = <<>>
  /\ modal = InitialModal /\ userVars = [v \in Var |-> 0]
  /\ activeTool \in (Tool \ {Deselect}) \cup {NoTool}
  /\ pendingTool = NoTool /\ selectedTool = NoTool
  /\ pendingEvents = {} /\ log = <<>> /\ outstanding = {} /\ issued = 0
  /\ spindle = activeTool

Next == (\E now \in Time : Step(now)) \/ (\E w \in outstanding : Notify(w)) \/ Done

Spec == Init /\ [][Next]_vars

(* The owner calls step() until it makes no progress, and the runtime      *)
(* completes the waits it issued.                                          *)
Fairness ==
  /\ WF_vars(\E now \in Time : Step(now))
  /\ WF_vars(\E w \in outstanding : Notify(w))

FairSpec == Spec /\ Fairness

----------------------------------------------------------------------------
(* Properties.                                                             *)

BlockedState ==
  [index : Nat \ {0}, token : Nat, retry : Time \cup {Never}, tool : Tool \cup {NoTool}]

Frame == [ret : Nat \ {0}, target : Nat \ {0}, remaining : Nat \ {0}]

Call == [ev : {"emit", "submit", "update"}, at : Nat \ {0}, line : Nat,
         modal : [ModalGroup -> ModalValue], tool : Tool \cup {NoTool}, whole : BOOLEAN]

Reason ==
  {"unresolved goto target", "unresolved branch target", "multiple blocks match",
   "condition", "operator", "assignment", "system variable", "system variable write",
   "unsupported M function", "runtime", "tool substituted", "tool selection",
   "M6 without tool", "unresolved subprogram target", "fallback name",
   "duplicate subprogram labels", "repeat count ignored", "empty call stack"}

Diagnostic == [severity : {"Error", "Warning"}, why : Reason]

ProgramOK == instructions \in Seq(Instruction) /\ options \in Options

ControlOK ==
  /\ status \in {"Ready", "Blocked", "Fault", "Completed"} /\ pc \in Nat \ {0}
  /\ IF status = "Blocked" THEN blocked \in BlockedState ELSE blocked = NoWait
  /\ diagnostics \in Seq(Diagnostic)

DataOK == modal \in [ModalGroup -> ModalValue] /\ userVars \in [Var -> Value]

ToolsOK ==
  /\ activeTool \in (Tool \ {Deselect}) \cup {NoTool}
  /\ pendingTool \in Tool \cup {NoTool} /\ selectedTool \in Tool \cup {NoTool}

EnvironmentOK ==
  /\ log \in Seq(Call)
  /\ outstanding \subseteq [token : Nat \ {0}, tool : Tool \cup {NoTool}, timed : BOOLEAN]
  /\ issued \in Nat
  /\ spindle \in (Tool \ {Deselect}) \cup {NoTool}

(* Every variable has its type; in particular T0 is never an active tool   *)
(* and a live repeat count is positive (applyResolvedToolSelection,        *)
(* SubprogramCallFrame).                                                   *)
TypeOK ==
  /\ ProgramOK /\ ControlOK /\ frames \in Seq(Frame) /\ DataOK /\ ToolsOK
  /\ pendingEvents \subseteq Nat \ {0} /\ EnvironmentOK

(* What has to be waited for: all but the events of conditions that may    *)
(* be asked again at their retry time.                                     *)
Underway == {w \in outstanding : ~w.timed}

(* The executor waits for every command and every value the runtime works  *)
(* on, and nothing else can wake it, not even a late event of a condition  *)
(* that was asked again at its retry time: no wait is lost.                *)
NoOrphanWait ==
  /\ \A w \in Underway :
       /\ status = "Blocked" /\ blocked.token = w.token /\ blocked.tool = w.tool
       /\ blocked.retry = Never
  /\ \A w \in outstanding : w.token \notin pendingEvents

(* While the runtime works on one command the executor shows and submits   *)
(* nothing else: waiting for motion is what keeps commands in order.       *)
OneCommandAtATime == [][log' # log => Underway = {}]_vars

(* Sink and runtime see of the executor what CommandStream promises.       *)
Stream == INSTANCE CommandStream WITH
  calls <- log, working <- {w.token : w \in Underway}, over <- ~Live

ImplementsStream == Stream!StreamSpec

(* The active tool of ExecutorState, which every later command carries, is *)
(* the tool on the spindle, except between the end of a tool change and    *)
(* the step that wakes up on it.                                           *)
SpindleView ==
  options.attached =>
    spindle = IF Changed /\ Underway = {} THEN Mount(blocked.tool) ELSE activeTool

(* Each frame of the call stack belongs to the call before its return      *)
(* point, goes back to a label, and has a repeat of that call left.        *)
FramesSound ==
  \A k \in DOMAIN frames :
    LET f == frames[k] IN
      /\ f.ret - 1 \in DOMAIN instructions
      /\ instructions[f.ret - 1].op = "call"
      /\ f.remaining \in 1 .. instructions[f.ret - 1].repeat
      /\ f.target \in DOMAIN instructions /\ instructions[f.target].op = "label"

GotosOf(i) ==
  CASE instructions[i].op = "goto" -> {instructions[i].to}
    [] instructions[i].op = "branch" -> {instructions[i].then, instructions[i].else} \ {NoGoto}
    [] OTHER -> {}

(* No jump, call or return can take control back.                          *)
ForwardOnly ==
  \A i \in DOMAIN instructions :
    /\ instructions[i].op \notin {"call", "return"}
    /\ \A g \in GotosOf(i) : g.opcode = "GOTOF" \/ \A c \in Candidates(g) : c > i

StraightLine ==
  \A i \in DOMAIN instructions :
    instructions[i].op \notin {"goto", "branch", "call", "return"}

(* A forward-only program makes its calls in program order and each of     *)
(* them once, however often it blocked: what was submitted before a wait   *)
(* is not submitted again after it.                                        *)
InProgramOrder ==
  ForwardOnly =>
    \A i, j \in DOMAIN log :
      i < j => log[i].at < log[j].at \/ (log[i].ev = "emit" /\ j = i + 1)

Sets(i, g) ==
  LET ins == instructions[i] IN
    \/ ins.op = "modal" /\ ins.group = g
    \/ ins.op = "move" /\ g = "motion" /\ ins.motion # "none"

SetTo(i) == IF instructions[i].op = "modal" THEN instructions[i].value ELSE instructions[i].motion

(* Every call of a straight-line program carries, for each modal group,    *)
(* the code last programmed up to and including its own instruction.       *)
CarriesProgrammedModal ==
  StraightLine =>
    \A k \in DOMAIN log : \A g \in ModalGroup :
      LET setters == {i \in 1 .. log[k].at : Sets(i, g)} IN
        \/ setters = {} /\ log[k].modal[g] = InitialModal[g]
        \/ \E i \in setters : (\A j \in setters : j <= i) /\ log[k].modal[g] = SetTo(i)

(* A wait comes to its end: by its token or by its retry time.             *)
WaitEnds ==
  /\ \A t \in 1 .. MaxWaits :
       (status = "Blocked" /\ blocked.token = t) ~> ~(status = "Blocked" /\ blocked.token = t)
  /\ \A t \in Time :
       (status = "Blocked" /\ blocked.retry = t) ~> ~(status = "Blocked" /\ blocked.retry = t)

(* A forward-only program runs to its end or to a fault, unless the        *)
(* condition resolver puts it off for ever.                                *)
Halts == ForwardOnly => <>~Live \/ []<>(status = "Blocked" /\ blocked.retry # Never)
=============================================================================
