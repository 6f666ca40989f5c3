------------------------- MODULE AilExecutorProofs -------------------------
(***************************************************************************)
(* The executor's invariants for every program, every set of options and   *)
(* every runtime.                                                          *)
(*                                                                         *)
(* First its types, its waits, its call stack and the tool on the spindle. *)
(* Then what its log holds.  It implements CommandStream, so that sink and *)
(* runtime can rely on it: the states of the executor are those of         *)
(* WaitInv, in which a step finds nothing underway but events a condition  *)
(* was put off with; what is left to show is what one instruction adds to  *)
(* the log and to the waits.                                               *)
(*                                                                         *)
(* What is shown and submitted follows the program: a program that cannot  *)
(* go back makes its calls in program order and each of them once, and in  *)
(* a program without jumps every call carries the modal codes last         *)
(* programmed before it.  Both rest on where control is: what was called   *)
(* lies before At, also when the executor was blocked in between, and the  *)
(* modal state is that of the instructions before At.                      *)
(***************************************************************************)
EXTENDS AilExecutor, TLAPS

----------------------------------------------------------------------------
(* What the instruction at a position is made of.                          *)

LEMMA InstructionFields ==
  ASSUME NEW i \in Instruction
  PROVE  /\ i.source.line \in Nat
         /\ i.op = "move" => i.motion \in ModalValue \cup {"none"} /\ i.system \in BOOLEAN
         /\ i.op = "modal" => i.group \in ModalGroup /\ i.value \in ModalValue
         /\ i.op = "assign" => i.name \in Var \cup {"$"} /\ i.rhs \in Operand
         /\ i.op = "tool select" => i.tool \in Tool
         /\ i.op = "call" => i.target \in Label /\ i.repeat \in Int
         /\ i.op = "label" => i.name \in AnyLabel
BY DEF Instruction, Source

(* The woken state the next instruction starts from is well typed.         *)
LEMMA WokenTypes ==
  ASSUME TypeOK
  PROVE  /\ At \in Nat \ {0}
         /\ WokenActive \in (Tool \ {Deselect}) \cup {NoTool}
         /\ WokenSelected \in Tool \cup {NoTool}
         /\ WokenEvents \subseteq Nat \ {0}
BY ToolAssumption DEF TypeOK, ControlOK, ToolsOK, BlockedState, At, WokenActive, WokenSelected,
   WokenEvents, Resuming, Changed, Mount

LEMMA MountType ==
  ASSUME NEW t \in Tool
  PROVE  Mount(t) \in (Tool \ {Deselect}) \cup {NoTool}
BY DEF Mount

LEMMA FetchType ==
  ASSUME TypeOK, ~AtEnd
  PROVE  Fetch \in Instruction /\ At \in DOMAIN instructions
BY WokenTypes DEF TypeOK, ProgramOK, AtEnd, Fetch

----------------------------------------------------------------------------
(* The ways a handler leaves the control state, each well typed.           *)

LEMMA DiagType ==
  ASSUME NEW severity \in {"Error", "Warning"}, NEW why \in Reason
  PROVE  Diag(severity, why) \in Diagnostic
BY DEF Diag, Diagnostic, Reason

LEMMA OneWarning ==
  ASSUME NEW why \in Reason
  PROVE  <<>> \in Seq(Diagnostic) /\ <<Diag("Warning", why)>> \in Seq(Diagnostic)
BY DiagType

LEMMA ContinueTyped ==
  ASSUME TypeOK, NEW next \in Nat \ {0}, NEW warnings \in Seq(Diagnostic),
         ContinueWith(next, warnings)
  PROVE  ControlOK'
BY DEF TypeOK, ControlOK, ContinueWith

LEMMA FaultTyped ==
  ASSUME TypeOK, NEW next \in Nat \ {0}, NEW why \in Reason, Fault(why, next)
  PROVE  ControlOK'
BY DiagType DEF TypeOK, ControlOK, Fault

LEMMA WaitTyped ==
  ASSUME TypeOK, NEW index \in Nat \ {0}, NEW token \in Nat,
         NEW retry \in Time \cup {Never}, NEW tool \in Tool \cup {NoTool},
         Wait(index, token, retry, tool)
  PROVE  ControlOK'
BY WokenTypes DEF TypeOK, ControlOK, Wait, BlockedState

LEMMA ByPolicyTyped ==
  ASSUME TypeOK, NEW policy, NEW why \in Reason, ByPolicy(policy, why)
  PROVE  ControlOK'
<1>1. At \in Nat \ {0} /\ At + 1 \in Nat \ {0}
  BY WokenTypes
<1>2. <<>> \in Seq(Diagnostic) /\ <<Diag("Warning", why)>> \in Seq(Diagnostic)
  BY OneWarning
<1> QED
  BY <1>1, <1>2, ContinueTyped, FaultTyped DEF ByPolicy

LEMMA JumpTyped ==
  ASSUME TypeOK, NEW g, NEW why \in Reason, JumpTo(g, why)
  PROVE  ControlOK'
<1>1. At \in Nat \ {0} /\ At + 1 \in Nat \ {0}
  BY WokenTypes
<1>2. JumpWarnings(g) \in Seq(Diagnostic) /\ <<>> \in Seq(Diagnostic)
  <2>1. JumpWarnings(g) \in {<<>>, <<Diag("Warning", "multiple blocks match")>>}
    BY ZenonT(30) DEF JumpWarnings
  <2>2. "multiple blocks match" \in Reason
    BY DEF Reason
  <2>3. /\ <<>> \in Seq(Diagnostic)
        /\ <<Diag("Warning", "multiple blocks match")>> \in Seq(Diagnostic)
    BY <2>2, OneWarning
  <2> QED
    BY <2>1, <2>3
<1>3. Searched(g) \subseteq Nat \ {0}
  BY DEF Searched, Ahead, Behind, Candidates, TypeOK, ProgramOK
<1> QED
  BY <1>1, <1>2, <1>3, ContinueTyped, FaultTyped DEF JumpTo, Continue

----------------------------------------------------------------------------
(* The other parts of the state a handler shares with the rest.            *)

LEMMA KeepToolsTyped ==
  ASSUME TypeOK, KeepTools
  PROVE  ToolsOK'
BY WokenTypes DEF TypeOK, ToolsOK, KeepTools

LEMMA QuietTyped ==
  ASSUME TypeOK, Quiet
  PROVE  EnvironmentOK'
BY DEF TypeOK, EnvironmentOK, Quiet, environment

Waits == [token : Nat \ {0}, tool : Tool \cup {NoTool}, timed : BOOLEAN]

LEMMA IssueForTyped ==
  ASSUME TypeOK, NEW tool \in Tool \cup {NoTool}, NEW timed \in BOOLEAN, IssueFor(tool, timed)
  PROVE  /\ issued' \in Nat
         /\ outstanding' \subseteq Waits
BY DEF TypeOK, EnvironmentOK, IssueFor, Waits

LEMMA IssueTyped ==
  ASSUME TypeOK, NEW tool \in Tool \cup {NoTool}, Issue(tool)
  PROVE  /\ issued' \in Nat
         /\ outstanding' \subseteq Waits
BY IssueForTyped DEF Issue

LEMMA WaitForReadTyped ==
  ASSUME TypeOK, NEW outcome, WaitForRead(outcome)
  PROVE  ControlOK' /\ EnvironmentOK'
<1>1. At \in Nat \ {0} /\ issued + 1 \in Nat
  BY WokenTypes DEF TypeOK, EnvironmentOK
<1>2. NoTool \in Tool \cup {NoTool} /\ Never \in Time \cup {Never} /\ NoToken \in Nat
  BY DEF NoToken
<1>3. ControlOK'
  BY <1>1, <1>2, WaitTyped DEF WaitForRead
<1>4. issued' \in Nat /\ outstanding' \subseteq Waits
  BY <1>2, IssueTyped DEF WaitForRead, NoIssue, TypeOK, EnvironmentOK, Waits
<1> QED
  BY <1>3, <1>4 DEF WaitForRead, TypeOK, EnvironmentOK, Waits

LEMMA EventTyped ==
  ASSUME TypeOK, ~AtEnd, NEW ev \in {"emit", "submit", "update"},
         NEW carried \in [ModalGroup -> ModalValue], NEW tool \in Tool \cup {NoTool},
         NEW whole \in BOOLEAN
  PROVE  Event(ev, carried, tool, whole) \in Call
BY WokenTypes, FetchType, InstructionFields DEF Event, Call

LEMMA EmitTyped ==
  ASSUME TypeOK, ~AtEnd, NEW carried \in [ModalGroup -> ModalValue],
         NEW tool \in Tool \cup {NoTool}, NEW whole \in BOOLEAN,
         EmitAndSubmit(carried, tool, whole)
  PROVE  log' \in Seq(Call)
<1>1. /\ Event("emit", carried, tool, whole) \in Call
      /\ Event("submit", carried, tool, whole) \in Call
  BY EventTyped
<1> QED
  BY <1>1 DEF EmitAndSubmit, TypeOK, EnvironmentOK

LEMMA ValuesTyped ==
  ASSUME TypeOK, NEW o \in Operand
  PROVE  Values(o) \subseteq Value
BY DEF Operand, Values, TypeOK, DataOK

----------------------------------------------------------------------------
(* Every handler leaves a well typed state.                                *)

Typed == ControlOK /\ frames \in Seq(Frame) /\ DataOK /\ ToolsOK /\ EnvironmentOK

LEMMA ControlOnlyTyped ==
  ASSUME TypeOK, ControlOnly
  PROVE  (frames \in Seq(Frame))' /\ DataOK' /\ ToolsOK'
BY KeepToolsTyped DEF ControlOnly, TypeOK, DataOK, data

LEMMA HandleLabelTyped ==
  ASSUME TypeOK, HandleLabel
  PROVE  Typed'
<1>1. At + 1 \in Nat \ {0} /\ <<>> \in Seq(Diagnostic)
  BY WokenTypes
<1> QED
  BY <1>1, ContinueTyped, ControlOnlyTyped, QuietTyped DEF HandleLabel, Continue, Typed

LEMMA HandleGotoTyped ==
  ASSUME TypeOK, HandleGoto
  PROVE  Typed'
<1>1. "unresolved goto target" \in Reason
  BY DEF Reason
<1> QED
  BY <1>1, JumpTyped, ControlOnlyTyped, QuietTyped DEF HandleGoto, Typed

LEMMA TakeTyped ==
  ASSUME TypeOK, NEW branch, NEW verdict, Take(branch, verdict)
  PROVE  ControlOK'
<1>1. At + 1 \in Nat \ {0} /\ <<>> \in Seq(Diagnostic)
  BY WokenTypes
<1>2. "unresolved branch target" \in Reason
  BY DEF Reason
<1> QED
  BY <1>1, <1>2, JumpTyped, ContinueTyped DEF Take, Continue

(* The ways asking the condition resolver may end.                         *)
LEMMA AskResolverCases ==
  ASSUME NEW branch, AskResolver(branch)
  PROVE  \/ \E verdict : Take(branch, verdict) /\ Quiet
         \/ Fault("condition", At) /\ Quiet
         \/ \E outcome : WaitForRead(outcome)
         \/ \E retry \in Time : Wait(At, NoToken, retry, NoTool) /\ Quiet
         \/ \E retry \in Time : DeferUntil(retry)
         \/ \E w \in outstanding, retry \in Time \cup {Never} : AwaitAgain(w, retry)
BY DEF AskResolver

LEMMA AwaitAgainTyped ==
  ASSUME TypeOK, NEW w \in outstanding, NEW retry \in Time \cup {Never}, AwaitAgain(w, retry)
  PROVE  ControlOK' /\ EnvironmentOK'
<1>1. At \in Nat \ {0} /\ NoTool \in Tool \cup {NoTool}
  BY WokenTypes
<1>2. w \in Waits /\ w.token \in Nat
  BY DEF TypeOK, EnvironmentOK, Waits
<1>3. [w EXCEPT !.timed = retry # Never] \in Waits
  BY <1>2 DEF Waits
<1>4. ControlOK'
  BY <1>1, <1>2, WaitTyped DEF AwaitAgain
<1> QED
  BY <1>3, <1>4 DEF AwaitAgain, TypeOK, EnvironmentOK, Waits

LEMMA DeferUntilTyped ==
  ASSUME TypeOK, NEW retry \in Time, DeferUntil(retry)
  PROVE  ControlOK' /\ EnvironmentOK'
<1>1. /\ At \in Nat \ {0} /\ issued + 1 \in Nat /\ NoTool \in Tool \cup {NoTool}
      /\ TRUE \in BOOLEAN /\ retry \in Time \cup {Never}
  BY WokenTypes DEF TypeOK, EnvironmentOK
<1>2. ControlOK'
  BY <1>1, WaitTyped DEF DeferUntil
<1>3. issued' \in Nat /\ outstanding' \subseteq Waits
  BY <1>1, IssueForTyped DEF DeferUntil
<1> QED
  BY <1>2, <1>3 DEF DeferUntil, TypeOK, EnvironmentOK, Waits

LEMMA AskResolverTyped ==
  ASSUME TypeOK, NEW branch, AskResolver(branch)
  PROVE  ControlOK' /\ EnvironmentOK'
<1>1. At \in Nat \ {0} /\ "condition" \in Reason
  BY WokenTypes DEF Reason
<1>2. NoTool \in Tool \cup {NoTool} /\ NoToken \in Nat
  BY DEF NoToken
<1>3. ASSUME NEW retry \in Time, Wait(At, NoToken, retry, NoTool) PROVE ControlOK'
  BY <1>1, <1>2, <1>3, WaitTyped
<1> QED
  BY <1>1, <1>3, AskResolverCases, TakeTyped, FaultTyped, QuietTyped, WaitForReadTyped,
     DeferUntilTyped, AwaitAgainTyped

LEMMA CompareDirectlyTyped ==
  ASSUME TypeOK, NEW branch, CompareDirectly(branch)
  PROVE  ControlOK' /\ EnvironmentOK'
<1>1. At \in Nat \ {0} /\ {"condition", "operator"} \subseteq Reason
  BY WokenTypes DEF Reason
<1>2. \/ \E outcome : WaitForRead(outcome)
      \/ \E why \in {"condition", "operator"} : Fault(why, At) /\ Quiet
      \/ AskResolver(branch)
      \/ \E verdict : Take(branch, verdict) /\ Quiet
  BY DEF CompareDirectly
<1> QED
  BY <1>1, <1>2, WaitForReadTyped, FaultTyped, AskResolverTyped, TakeTyped, QuietTyped

LEMMA HandleBranchTyped ==
  ASSUME TypeOK, HandleBranch
  PROVE  Typed'
BY AskResolverTyped, CompareDirectlyTyped, ControlOnlyTyped DEF HandleBranch, Typed

LEMMA HandleAssignTyped ==
  ASSUME TypeOK, ~AtEnd, HandleAssign
  PROVE  Typed'
<1>1. /\ At \in Nat \ {0} /\ At + 1 \in Nat \ {0} /\ <<>> \in Seq(Diagnostic)
      /\ {"assignment", "system variable write"} \subseteq Reason
  BY WokenTypes DEF Reason
<1>2. (frames \in Seq(Frame))' /\ ToolsOK' /\ modal' = modal
  BY KeepToolsTyped DEF HandleAssign, TypeOK
<1>3. \/ \E o : WaitForRead(o) /\ UNCHANGED userVars
      \/ /\ \E why \in {"assignment", "system variable write"} : Fault(why, At)
         /\ Quiet /\ UNCHANGED userVars
      \/ /\ Fetch.name # "$" /\ Continue(At + 1) /\ Quiet
         /\ \E v \in Values(Fetch.rhs) : userVars' = [userVars EXCEPT ![Fetch.name] = v]
  BY DEF HandleAssign
<1>4. CASE \E o : WaitForRead(o) /\ UNCHANGED userVars
  BY <1>2, <1>4, WaitForReadTyped DEF Typed, TypeOK, DataOK
<1>5. CASE /\ \E why \in {"assignment", "system variable write"} : Fault(why, At)
           /\ Quiet /\ UNCHANGED userVars
  BY <1>1, <1>2, <1>5, FaultTyped, QuietTyped DEF Typed, TypeOK, DataOK
<1>6. CASE /\ Fetch.name # "$" /\ Continue(At + 1) /\ Quiet
           /\ \E v \in Values(Fetch.rhs) : userVars' = [userVars EXCEPT ![Fetch.name] = v]
  <2>1. Fetch.rhs \in Operand
    BY FetchType, InstructionFields DEF HandleAssign
  <2>2. userVars' \in [Var -> Value]
    BY <1>6, <2>1, ValuesTyped DEF TypeOK, DataOK
  <2> QED
    BY <1>1, <1>2, <1>6, <2>2, ContinueTyped, QuietTyped DEF Continue, Typed, TypeOK, DataOK
<1> QED
  BY <1>3, <1>4, <1>5, <1>6

LEMMA HandleMCodeTyped ==
  ASSUME TypeOK, HandleMCode
  PROVE  Typed'
<1>1. /\ At + 1 \in Nat \ {0} /\ <<>> \in Seq(Diagnostic)
      /\ "unsupported M function" \in Reason
  BY WokenTypes DEF Reason
<1> QED
  BY <1>1, ContinueTyped, ByPolicyTyped, ControlOnlyTyped, QuietTyped
     DEF HandleMCode, Continue, Typed

LEMMA HandleModalTyped ==
  ASSUME TypeOK, ~AtEnd, HandleModal
  PROVE  Typed'
<1>1. At + 1 \in Nat \ {0} /\ <<>> \in Seq(Diagnostic)
  BY WokenTypes
<1>2. modal' \in [ModalGroup -> ModalValue]
  BY FetchType, InstructionFields DEF HandleModal, TypeOK, DataOK
<1>3. log' \in Seq(Call)
  <2>1. modal' = [modal EXCEPT ![Fetch.group] = Fetch.value]
    BY DEF HandleModal
  <2>2. \/ log' = Append(log, Event("update", [modal EXCEPT ![Fetch.group] = Fetch.value],
                                   NoTool, TRUE))
        \/ log' = log
    BY <2>1 DEF HandleModal, Event
  <2>3. Event("update", [modal EXCEPT ![Fetch.group] = Fetch.value], NoTool, TRUE) \in Call
    BY <1>2, <2>1, EventTyped
  <2>4. \/ \E e \in Call : log' = Append(log, e)
        \/ log' = log
    BY <2>2, <2>3, Zenon
  <2>5. log \in Seq(Call)
    BY DEF TypeOK, EnvironmentOK
  <2> QED
    BY <2>4, <2>5
<1> QED
  BY <1>1, <1>2, <1>3, ContinueTyped, KeepToolsTyped
     DEF HandleModal, Continue, NoIssue, Typed, TypeOK, DataOK, EnvironmentOK

LEMMA DispatchMoveTyped ==
  ASSUME TypeOK, ~AtEnd, Fetch.op = "move", NEW whole \in BOOLEAN, DispatchMove(whole)
  PROVE  ControlOK' /\ EnvironmentOK' /\ modal' \in [ModalGroup -> ModalValue]
<1>1. /\ At \in Nat \ {0} /\ At + 1 \in Nat \ {0} /\ <<>> \in Seq(Diagnostic)
      /\ issued + 1 \in Nat /\ NoTool \in Tool \cup {NoTool} /\ "runtime" \in Reason
  BY WokenTypes DEF TypeOK, EnvironmentOK, Reason
<1>2. modal \in [ModalGroup -> ModalValue] /\ Carried \in [ModalGroup -> ModalValue]
  BY FetchType, InstructionFields, ModalAssumption DEF Carried, TypeOK, DataOK
<1>3. log' \in Seq(Call)
  BY <1>1, <1>2, EmitTyped DEF DispatchMove
<1>4. spindle' = spindle
  BY DEF DispatchMove
<1>5. \/ Continue(At + 1) /\ modal' = Carried /\ NoIssue
      \/ Issue(NoTool) /\ modal' = Carried /\ Wait(Afterwards, issued + 1, Never, NoTool)
      \/ Fault("runtime", At) /\ UNCHANGED modal /\ NoIssue
  BY DEF DispatchMove
<1>6. ControlOK'
  BY <1>1, <1>5, ContinueTyped, WaitTyped, FaultTyped DEF Continue, Afterwards
<1>7. issued' \in Nat /\ outstanding' \subseteq Waits
  BY <1>1, <1>5, IssueTyped DEF NoIssue, TypeOK, EnvironmentOK, Waits
<1> QED
  BY <1>2, <1>3, <1>4, <1>5, <1>6, <1>7 DEF TypeOK, EnvironmentOK, Waits

LEMMA HandleMoveTyped ==
  ASSUME TypeOK, ~AtEnd, HandleMove
  PROVE  Typed'
<1>1. /\ At \in Nat \ {0} /\ At + 1 \in Nat \ {0} /\ <<>> \in Seq(Diagnostic)
      /\ "system variable" \in Reason
  BY WokenTypes DEF Reason
<1>2. Fetch.op = "move" /\ (frames \in Seq(Frame))' /\ ToolsOK' /\ userVars' = userVars
  BY KeepToolsTyped DEF HandleMove, TypeOK
<1>3. \/ Continue(At + 1) /\ Quiet /\ UNCHANGED modal
      \/ \E whole \in BOOLEAN : DispatchMove(whole)
      \/ \E read : WaitForRead(read) /\ UNCHANGED modal
      \/ Fault("system variable", At) /\ Quiet /\ UNCHANGED modal
  BY DEF HandleMove
<1>4. ControlOK' /\ EnvironmentOK' /\ modal' \in [ModalGroup -> ModalValue]
  BY <1>1, <1>2, <1>3, ContinueTyped, DispatchMoveTyped, WaitForReadTyped, FaultTyped, QuietTyped
     DEF Continue, TypeOK, DataOK
<1> QED
  BY <1>2, <1>4 DEF Typed, TypeOK, DataOK

LEMMA DispatchToolChangeTyped ==
  ASSUME TypeOK, ~AtEnd, NEW t \in Tool, NEW pendingAtError \in Tool \cup {NoTool},
         NEW warnings \in Seq(Diagnostic), DispatchToolChange(t, pendingAtError, warnings)
  PROVE  ControlOK' /\ ToolsOK' /\ EnvironmentOK'
<1>1. /\ At \in Nat \ {0} /\ At + 1 \in Nat \ {0} /\ "runtime" \in Reason
      /\ issued + 1 \in Nat /\ modal \in [ModalGroup -> ModalValue]
  BY WokenTypes DEF TypeOK, EnvironmentOK, DataOK, Reason
<1>2. /\ Diag("Error", "runtime") \in Diagnostic
      /\ Mount(t) \in (Tool \ {Deselect}) \cup {NoTool}
      /\ WokenActive \in (Tool \ {Deselect}) \cup {NoTool}
      /\ WokenSelected \in Tool \cup {NoTool}
  BY <1>1, DiagType, MountType, WokenTypes
<1>3. CASE MountedNow(t, warnings)
  <2>1. ControlOK' /\ ToolsOK'
    BY <1>1, <1>2, <1>3, ContinueTyped DEF MountedNow, ToolsOK
  <2>2. EnvironmentOK'
    <3>1. CASE Quiet
      BY <3>1, QuietTyped
    <3>2. CASE EmitAndSubmit(modal, t, TRUE) /\ spindle' \in {Mount(t), spindle} /\ NoIssue
      BY <1>1, <1>2, <3>2, EmitTyped DEF NoIssue, TypeOK, EnvironmentOK, Waits
    <3> QED
      BY <1>3, <3>1, <3>2 DEF DispatchToolChange, MountedNow, ContinueWith
  <2> QED
    BY <2>1, <2>2
<1>4. CASE /\ EmitAndSubmit(modal, t, TRUE) /\ Issue(t) /\ UNCHANGED spindle
           /\ status' = "Blocked" /\ pc' = At /\ diagnostics' = diagnostics \o warnings
           /\ blocked' = [index |-> Afterwards, token |-> issued + 1, retry |-> Never, tool |-> t]
           /\ selectedTool' = t /\ pendingTool' = NoTool /\ activeTool' = WokenActive
  <2>1. ControlOK'
    BY <1>1, <1>4 DEF TypeOK, ControlOK, BlockedState, Afterwards
  <2>2. ToolsOK'
    BY <1>2, <1>4 DEF ToolsOK
  <2>3. log' \in Seq(Call)
    BY <1>1, <1>4, EmitTyped
  <2>4. issued' \in Nat /\ outstanding' \subseteq Waits
    BY <1>4, IssueTyped
  <2> QED
    BY <1>4, <2>1, <2>2, <2>3, <2>4 DEF TypeOK, EnvironmentOK, Waits
<1>5. CASE /\ EmitAndSubmit(modal, t, TRUE) /\ NoIssue /\ UNCHANGED spindle
           /\ status' = "Fault" /\ pc' = At /\ blocked' = NoWait
           /\ diagnostics' = (diagnostics \o warnings) \o <<Diag("Error", "runtime")>>
           /\ pendingTool' = pendingAtError
           /\ activeTool' = WokenActive /\ selectedTool' = WokenSelected
  <2>1. ControlOK'
    BY <1>1, <1>2, <1>5 DEF TypeOK, ControlOK
  <2>2. ToolsOK'
    BY <1>2, <1>5 DEF ToolsOK
  <2>3. log' \in Seq(Call)
    BY <1>1, <1>5, EmitTyped
  <2> QED
    BY <1>5, <2>1, <2>2, <2>3 DEF NoIssue, TypeOK, EnvironmentOK, Waits
<1> QED
  BY <1>3, <1>4, <1>5 DEF DispatchToolChange

LEMMA ResolutionTyped ==
  ASSUME TypeOK, NEW t \in Tool
  PROVE  options.resolve[t].tool \in Tool
BY DEF TypeOK, ProgramOK, Options, Resolution

LEMMA SubstitutionTyped ==
  ASSUME NEW r
  PROVE  SubstitutionWarning(r) \in Seq(Diagnostic)
<1>1. SubstitutionWarning(r) \in {<<>>, <<Diag("Warning", "tool substituted")>>}
  BY ZenonT(30) DEF SubstitutionWarning
<1>2. "tool substituted" \in Reason
  BY DEF Reason
<1>3. <<>> \in Seq(Diagnostic) /\ <<Diag("Warning", "tool substituted")>> \in Seq(Diagnostic)
  BY <1>2, OneWarning
<1> QED
  BY <1>1, <1>3

LEMMA HandleToolSelectTyped ==
  ASSUME TypeOK, ~AtEnd, HandleToolSelect
  PROVE  Typed'
<1>1. /\ At + 1 \in Nat \ {0} /\ <<>> \in Seq(Diagnostic) /\ "tool selection" \in Reason
      /\ NoTool \in Tool \cup {NoTool}
  BY WokenTypes DEF Reason
<1>2. Fetch.op = "tool select" /\ Fetch.tool \in Tool
  BY FetchType, InstructionFields DEF HandleToolSelect
<1>3. (frames \in Seq(Frame))' /\ DataOK'
  BY DEF HandleToolSelect, data, TypeOK, DataOK
<1> DEFINE r == options.resolve[Fetch.tool]
<1>4. r.tool \in Tool /\ SubstitutionWarning(r) \in Seq(Diagnostic)
  BY <1>2, ResolutionTyped, SubstitutionTyped
<1>5. CASE DispatchToolChange(r.tool, NoTool, SubstitutionWarning(r))
  BY <1>1, <1>3, <1>4, <1>5, DispatchToolChangeTyped DEF Typed
<1>6. CASE /\ Quiet
           /\ Fault("tool selection", At + 1) \/ ByPolicy(FailurePolicy(r), "tool selection")
           /\ pendingTool' = NoTool /\ activeTool' = WokenActive /\ selectedTool' = WokenSelected
  <2>1. ControlOK' /\ EnvironmentOK'
    BY <1>1, <1>6, FaultTyped, ByPolicyTyped, QuietTyped
  <2>2. ToolsOK'
    BY <1>6, WokenTypes DEF ToolsOK
  <2> QED
    BY <1>3, <2>1, <2>2 DEF Typed
<1>7. CASE /\ Continue(At + 1) /\ Quiet
           /\ pendingTool' = Fetch.tool /\ activeTool' = WokenActive
           /\ selectedTool' = WokenSelected
  <2>1. ControlOK' /\ EnvironmentOK'
    BY <1>1, <1>7, ContinueTyped, QuietTyped DEF Continue
  <2>2. ToolsOK'
    BY <1>2, <1>7, WokenTypes DEF ToolsOK
  <2> QED
    BY <1>3, <2>1, <2>2 DEF Typed
<1> QED
  BY <1>5, <1>6, <1>7 DEF HandleToolSelect, SelectNow

LEMMA HandleToolChangeTyped ==
  ASSUME TypeOK, ~AtEnd, HandleToolChange
  PROVE  Typed'
<1>1. /\ <<>> \in Seq(Diagnostic) /\ {"tool selection", "M6 without tool"} \subseteq Reason
      /\ pendingTool \in Tool \cup {NoTool} /\ WokenActive \in Tool \cup {NoTool}
  BY WokenTypes DEF Reason, TypeOK, ToolsOK
<1>2. (frames \in Seq(Frame))' /\ DataOK'
  BY DEF HandleToolChange, data, TypeOK, DataOK
<1> DEFINE r == options.resolve[pendingTool]
<1>3. CASE pendingTool # NoTool /\ DispatchToolChange(r.tool, pendingTool, SubstitutionWarning(r))
  <2>1. r.tool \in Tool /\ SubstitutionWarning(r) \in Seq(Diagnostic)
    BY <1>1, <1>3, ResolutionTyped, SubstitutionTyped
  <2> QED
    BY <1>1, <1>2, <1>3, <2>1, DispatchToolChangeTyped DEF Typed
<1>4. CASE /\ Quiet /\ ByPolicy(FailurePolicy(r), "tool selection")
           /\ pendingTool' = NoTool /\ activeTool' = WokenActive /\ selectedTool' = WokenSelected
  <2>1. ControlOK' /\ EnvironmentOK'
    BY <1>1, <1>4, ByPolicyTyped, QuietTyped
  <2>2. ToolsOK'
    BY <1>4, WokenTypes DEF ToolsOK
  <2> QED
    BY <1>2, <2>1, <2>2 DEF Typed
<1>5. CASE WokenActive # NoTool /\ DispatchToolChange(WokenActive, NoTool, <<>>)
  <2>1. WokenActive \in Tool /\ NoTool \in Tool \cup {NoTool}
    BY <1>1, <1>5
  <2> QED
    BY <1>1, <1>2, <1>5, <2>1, DispatchToolChangeTyped DEF Typed
<1>6. CASE ByPolicy(options.m6WithoutPending, "M6 without tool") /\ KeepTools /\ Quiet
  BY <1>1, <1>2, <1>6, ByPolicyTyped, KeepToolsTyped, QuietTyped DEF Typed
<1> QED
  BY <1>3, <1>4, <1>5, <1>6 DEF HandleToolChange

LEMMA CallWarningsTyped ==
  ASSUME NEW k, NEW call
  PROVE  CallWarnings(k, call) \in Seq(Diagnostic)
<1> DEFINE fallback == IF k > 1 THEN <<Diag("Warning", "fallback name")>> ELSE <<>>
           duplicate == IF Cardinality(Definitions(Names(call)[k])) > 1
                        THEN <<Diag("Warning", "duplicate subprogram labels")>> ELSE <<>>
<1>1. "fallback name" \in Reason /\ "duplicate subprogram labels" \in Reason
  BY DEF Reason
<1>2. /\ <<>> \in Seq(Diagnostic)
      /\ <<Diag("Warning", "fallback name")>> \in Seq(Diagnostic)
      /\ <<Diag("Warning", "duplicate subprogram labels")>> \in Seq(Diagnostic)
  BY <1>1, OneWarning
<1>3. fallback \in {<<>>, <<Diag("Warning", "fallback name")>>}
  BY ZenonT(30)
<1>4. duplicate \in {<<>>, <<Diag("Warning", "duplicate subprogram labels")>>}
  BY ZenonT(30)
<1>5. CallWarnings(k, call) = fallback \o duplicate
  BY ZenonT(30) DEF CallWarnings
<1> HIDE DEF fallback, duplicate
<1>6. fallback \in Seq(Diagnostic) /\ duplicate \in Seq(Diagnostic)
  BY <1>2, <1>3, <1>4
<1> QED
  BY <1>5, <1>6

LEMMA HandleCallTyped ==
  ASSUME TypeOK, ~AtEnd, HandleCall
  PROVE  Typed'
<1>1. /\ At \in Nat \ {0} /\ At + 1 \in Nat \ {0}
      /\ "unresolved subprogram target" \in Reason /\ "repeat count ignored" \in Reason
  BY WokenTypes DEF Reason
<1>2. ToolsOK' /\ DataOK' /\ EnvironmentOK'
  BY KeepToolsTyped, QuietTyped DEF HandleCall, data, TypeOK, DataOK
<1>3. CASE /\ ByPolicy(options.unresolvedSubprogram, "unresolved subprogram target")
           /\ UNCHANGED frames
  BY <1>1, <1>2, <1>3, ByPolicyTyped DEF Typed, TypeOK
<1>4. ASSUME NEW k \in DOMAIN Names(Fetch), UNCHANGED frames,
             ContinueWith(At + 1,
               Append(CallWarnings(k, Fetch), Diag("Warning", "repeat count ignored")))
      PROVE  Typed'
  <2>1. Append(CallWarnings(k, Fetch), Diag("Warning", "repeat count ignored"))
          \in Seq(Diagnostic)
    <3>1. \A s \in Seq(Diagnostic), d \in Diagnostic : Append(s, d) \in Seq(Diagnostic)
      OBVIOUS
    <3>2. CallWarnings(k, Fetch) \in Seq(Diagnostic)
      BY CallWarningsTyped
    <3>3. Diag("Warning", "repeat count ignored") \in Diagnostic
      BY <1>1, DiagType
    <3> QED
      BY <3>1, <3>2, <3>3, Zenon
  <2> QED
    BY <1>1, <1>2, <1>4, <2>1, ContinueTyped DEF Typed, TypeOK
<1>5. ASSUME NEW k \in DOMAIN Names(Fetch), Fetch.op = "call", Fetch.repeat > 0,
             NEW t \in Definitions(Names(Fetch)[k]), Enter(t, CallWarnings(k, Fetch))
      PROVE  Typed'
  <2>1. t \in Nat \ {0}
    BY <1>5 DEF Definitions, TypeOK, ProgramOK
  <2>2. Fetch.repeat \in Nat \ {0}
    <3>1. Fetch \in Instruction
      BY FetchType
    <3>2. Fetch.repeat \in Int
      BY <1>5, <3>1, InstructionFields
    <3> QED
      BY <1>5, <3>2
  <2>3. ControlOK'
    BY <1>5, <2>1, ContinueTyped, CallWarningsTyped DEF Enter
  <2>4. frames' \in Seq(Frame)
    <3>1. [ret |-> At + 1, target |-> t, remaining |-> Fetch.repeat] \in Frame
      BY <1>1, <2>1, <2>2 DEF Frame
    <3>2. frames \in Seq(Frame)
      BY DEF TypeOK
    <3>3. frames' = Append(frames, [ret |-> At + 1, target |-> t, remaining |-> Fetch.repeat])
      BY <1>5 DEF Enter
    <3> QED
      BY <3>1, <3>2, <3>3
  <2> QED
    BY <1>2, <2>3, <2>4 DEF Typed
<1> QED
  BY <1>3, <1>4, <1>5 DEF HandleCall

LEMMA HandleReturnTyped ==
  ASSUME TypeOK, HandleReturn
  PROVE  Typed'
<1>1. At \in Nat \ {0} /\ "empty call stack" \in Reason /\ <<>> \in Seq(Diagnostic)
  BY WokenTypes DEF Reason
<1>2. ToolsOK' /\ DataOK' /\ EnvironmentOK'
  BY KeepToolsTyped, QuietTyped DEF HandleReturn, data, TypeOK, DataOK
<1>3. frames \in Seq(Frame)
  BY DEF TypeOK
<1>4. CASE Fault("empty call stack", At) /\ UNCHANGED frames
  BY <1>1, <1>2, <1>3, <1>4, FaultTyped DEF Typed
<1>5. CASE /\ frames # <<>> /\ RunsAgain
           /\ frames' = [frames EXCEPT ![Len(frames)].remaining = @ - 1]
           /\ Continue(Top.target)
  <2>1. Len(frames) \in DOMAIN frames /\ Top \in Frame
    BY <1>3, <1>5 DEF Top
  <2>2. Top.target \in Nat \ {0} /\ Top.remaining - 1 \in Nat \ {0} /\ Top.ret \in Nat \ {0}
    BY <1>5, <2>1 DEF Frame, RunsAgain
  <2>3. [Top EXCEPT !.remaining = @ - 1] \in Frame
    BY <2>1, <2>2 DEF Frame
  <2>4. frames' = [frames EXCEPT ![Len(frames)] = [Top EXCEPT !.remaining = @ - 1]]
    BY <1>5 DEF Top
  <2>5. frames' \in Seq(Frame)
    BY <1>3, <2>1, <2>3, <2>4
  <2> QED
    BY <1>1, <1>2, <1>5, <2>2, <2>5, ContinueTyped DEF Continue, Typed
<1>6. CASE /\ frames # <<>>
           /\ frames' = SubSeq(frames, 1, Len(frames) - 1)
           /\ Continue(Top.ret)
  <2>1. Top.ret \in Nat \ {0}
    <3>1. Len(frames) \in DOMAIN frames /\ Top \in Frame
      BY <1>3, <1>6 DEF Top
    <3> QED
      BY <3>1 DEF Frame
  <2>2. frames' \in Seq(Frame)
    BY <1>3, <1>6
  <2> QED
    BY <1>1, <1>2, <1>6, <2>1, <2>2, ContinueTyped DEF Continue, Typed
<1> QED
  BY <1>4, <1>5, <1>6 DEF HandleReturn

----------------------------------------------------------------------------
(* Type correctness.                                                       *)

LEMMA StepTyped ==
  ASSUME TypeOK, NEW now \in Time, Step(now)
  PROVE  TypeOK'
<1>1. ProgramOK' /\ pendingEvents' \subseteq Nat \ {0}
  BY WokenTypes DEF Step, program, TypeOK, ProgramOK
<1>2. CASE Completes
  <2>1. ControlOK'
    BY <1>2, WokenTypes DEF Completes, TypeOK, ControlOK
  <2> QED
    BY <1>1, <1>2, <2>1, ControlOnlyTyped, QuietTyped DEF Completes, TypeOK
<1>3. CASE ~AtEnd /\ Advance
  <2>1. Typed'
    BY <1>3, HandleLabelTyped, HandleGotoTyped, HandleBranchTyped, HandleAssignTyped,
       HandleMCodeTyped, HandleModalTyped, HandleToolSelectTyped, HandleToolChangeTyped,
       HandleMoveTyped, HandleCallTyped, HandleReturnTyped DEF Advance
  <2> QED
    BY <1>1, <2>1 DEF Typed, TypeOK
<1> QED
  BY <1>2, <1>3 DEF Step, Advance

LEMMA NotifyTyped ==
  ASSUME TypeOK, NEW w \in outstanding, Notify(w)
  PROVE  TypeOK'
<1>1. w.token \in Nat \ {0} /\ w.tool \in Tool \cup {NoTool}
  BY DEF TypeOK, EnvironmentOK
<1>2. pendingEvents' \subseteq Nat \ {0} /\ EnvironmentOK'
  BY <1>1, MountType DEF Notify, TypeOK, EnvironmentOK
<1> QED
  BY <1>2 DEF Notify, program, control, data, tools, TypeOK, ProgramOK, ControlOK, DataOK, ToolsOK

LEMMA InitTyped == Init => TypeOK
BY ProgramsAssumption, OptionsAssumption, ToolAssumption, ModalAssumption, ValueAssumption
   DEF Init, TypeOK, ProgramOK, ControlOK, DataOK, ToolsOK, EnvironmentOK

LEMMA StutterTyped == TypeOK /\ UNCHANGED vars => TypeOK'
BY DEF vars, program, control, data, tools, environment, TypeOK, ProgramOK, ControlOK, DataOK,
   ToolsOK, EnvironmentOK

(* Every variable of the executor keeps its type in every behaviour: the   *)
(* active tool is never T0, a live repeat count is positive and only a     *)
(* Blocked executor has a wait, whatever program it runs and whatever the  *)
(* runtime and the condition resolver answer.                              *)
THEOREM TypeCorrect == Spec => []TypeOK
<1>1. TypeOK /\ [Next]_vars => TypeOK'
  BY StutterTyped, StepTyped, NotifyTyped DEF Next, Done
<1> QED
  BY <1>1, InitTyped, PTL DEF Spec

----------------------------------------------------------------------------
(* Waits.  A wait the runtime issues is the one the executor blocks on,    *)
(* and tokens are never issued twice; only a wait with a retry time, for   *)
(* the event of a condition, may be left behind and come back to.          *)

Issues(tool) ==
  /\ Issue(tool) /\ status' = "Blocked" /\ blocked'.token = issued + 1
  /\ blocked'.tool = tool /\ blocked'.retry = Never

Defers == \E retry \in Time : DeferUntil(retry)
AwaitsAgain == \E w \in outstanding, retry \in Time \cup {Never} : AwaitAgain(w, retry)

IssuesAtMostOne == NoIssue \/ (\E tool : Issues(tool)) \/ Defers \/ AwaitsAgain

LEMMA QuietIssuesNothing == Quiet => IssuesAtMostOne
BY DEF Quiet, environment, IssuesAtMostOne, NoIssue

LEMMA WaitForReadIssues ==
  ASSUME NEW outcome, WaitForRead(outcome)
  PROVE  IssuesAtMostOne
<1>1. CASE Issue(NoTool) /\ Wait(At, issued + 1, Never, NoTool)
  <2>1. Issues(NoTool)
    BY <1>1 DEF Wait, Issues
  <2> QED
    BY <2>1 DEF IssuesAtMostOne
<1>2. CASE NoIssue
  BY <1>2 DEF IssuesAtMostOne
<1> QED
  BY <1>1, <1>2 DEF WaitForRead

LEMMA AskResolverIssues ==
  ASSUME NEW branch, AskResolver(branch)
  PROVE  IssuesAtMostOne
<1>1. Quiet \/ (\E outcome : WaitForRead(outcome)) \/ Defers \/ AwaitsAgain
  BY AskResolverCases DEF Defers, AwaitsAgain
<1>2. Defers \/ AwaitsAgain => IssuesAtMostOne
  BY DEF IssuesAtMostOne
<1> QED
  BY <1>1, <1>2, QuietIssuesNothing, WaitForReadIssues

LEMMA CompareDirectlyIssues ==
  ASSUME NEW branch, CompareDirectly(branch)
  PROVE  IssuesAtMostOne
<1>1. Quiet \/ AskResolver(branch) \/ \E outcome : WaitForRead(outcome)
  BY DEF CompareDirectly
<1> QED
  BY <1>1, QuietIssuesNothing, AskResolverIssues, WaitForReadIssues

LEMMA DispatchMoveIssues ==
  ASSUME NEW whole, DispatchMove(whole)
  PROVE  IssuesAtMostOne
<1>1. CASE NoIssue
  BY <1>1 DEF IssuesAtMostOne
<1>2. CASE Issue(NoTool) /\ Wait(Afterwards, issued + 1, Never, NoTool)
  <2>1. Issues(NoTool)
    BY <1>2 DEF Wait, Issues
  <2> QED
    BY <2>1 DEF IssuesAtMostOne
<1> QED
  BY <1>1, <1>2 DEF DispatchMove

LEMMA DispatchToolChangeIssues ==
  ASSUME NEW t, NEW pendingAtError, NEW warnings, DispatchToolChange(t, pendingAtError, warnings)
  PROVE  IssuesAtMostOne
<1>1. CASE NoIssue \/ Quiet
  BY <1>1, QuietIssuesNothing DEF IssuesAtMostOne
<1>2. CASE /\ Issue(t) /\ status' = "Blocked"
           /\ blocked' = [index |-> Afterwards, token |-> issued + 1, retry |-> Never, tool |-> t]
  <2>1. Issues(t)
    BY <1>2 DEF Issues
  <2> QED
    BY <2>1 DEF IssuesAtMostOne
<1> QED
  BY <1>1, <1>2 DEF DispatchToolChange

LEMMA AdvanceIssues ==
  ASSUME Advance
  PROVE  IssuesAtMostOne
<1>1. CASE Completes \/ HandleLabel \/ HandleGoto \/ HandleMCode \/ HandleCall \/ HandleReturn
  BY <1>1, QuietIssuesNothing
     DEF Completes, HandleLabel, HandleGoto, HandleMCode, HandleCall, HandleReturn
<1>2. CASE HandleBranch
  BY <1>2, AskResolverIssues, CompareDirectlyIssues DEF HandleBranch
<1>3. CASE HandleAssign
  BY <1>3, QuietIssuesNothing, WaitForReadIssues DEF HandleAssign
<1>4. CASE HandleModal
  BY <1>4 DEF HandleModal, IssuesAtMostOne
<1>5. CASE HandleToolSelect
  BY <1>5, QuietIssuesNothing, DispatchToolChangeIssues DEF HandleToolSelect, SelectNow
<1>6. CASE HandleToolChange
  BY <1>6, QuietIssuesNothing, DispatchToolChangeIssues DEF HandleToolChange
<1>7. CASE HandleMove
  BY <1>7, QuietIssuesNothing, DispatchMoveIssues, WaitForReadIssues DEF HandleMove
<1> QED
  BY <1>1, <1>2, <1>3, <1>4, <1>5, <1>6, <1>7 DEF Advance

(* When nothing is awaited what there is to wait for is new.               *)
LEMMA FirstWait ==
  ASSUME Advance, outstanding = {}
  PROVE  \/ NoIssue
         \/ \E tool, timed :
              /\ issued' = issued + 1
              /\ outstanding' = {[token |-> issued + 1, tool |-> tool, timed |-> timed]}
              /\ status' = "Blocked" /\ blocked'.token = issued + 1 /\ blocked'.tool = tool
<1>1. ASSUME NEW tool, NEW timed, IssueFor(tool, timed)
      PROVE  /\ issued' = issued + 1
             /\ outstanding' = {[token |-> issued + 1, tool |-> tool, timed |-> timed]}
  BY <1>1 DEF IssueFor
<1>2. CASE \E tool : Issues(tool)
  BY <1>1, <1>2 DEF Issues, Issue
<1>3. CASE Defers
  <2>1. PICK retry \in Time : DeferUntil(retry)
    BY <1>3 DEF Defers
  <2>2. status' = "Blocked" /\ blocked'.token = issued + 1 /\ blocked'.tool = NoTool
    BY <2>1 DEF DeferUntil, Wait
  <2>3. IssueFor(NoTool, TRUE)
    BY <2>1 DEF DeferUntil
  <2> QED
    BY <1>1, <2>2, <2>3
<1>4. ~AwaitsAgain
  BY DEF AwaitsAgain
<1> QED
  BY <1>2, <1>3, <1>4, AdvanceIssues DEF IssuesAtMostOne

(* And the other way round: an executor that blocks on a token has just    *)
(* been given it, when there was no other.                                 *)
TokenIsIssued ==
  status' = "Blocked" /\ blocked'.token # NoToken /\ outstanding = {} => issued' = issued + 1

LEMMA ContinueTakesNone ==
  ASSUME NEW next, NEW warnings, ContinueWith(next, warnings) PROVE TokenIsIssued
BY DEF ContinueWith, TokenIsIssued

LEMMA FaultTakesNone == ASSUME NEW why, NEW next, Fault(why, next) PROVE TokenIsIssued
BY DEF Fault, TokenIsIssued

LEMMA PolicyTakesNone == ASSUME NEW policy, NEW why, ByPolicy(policy, why) PROVE TokenIsIssued
BY ContinueTakesNone, FaultTakesNone DEF ByPolicy

LEMMA JumpTakesNone == ASSUME NEW g, NEW why, JumpTo(g, why) PROVE TokenIsIssued
BY ContinueTakesNone, FaultTakesNone DEF JumpTo, Continue

LEMMA TakeTakesNone == ASSUME NEW branch, NEW verdict, Take(branch, verdict) PROVE TokenIsIssued
BY ContinueTakesNone, JumpTakesNone DEF Take, Continue

LEMMA ReadTakesIssued == ASSUME NEW outcome, WaitForRead(outcome) PROVE TokenIsIssued
BY DEF WaitForRead, Issue, IssueFor, Wait, TokenIsIssued

LEMMA RetryTakesNone == ASSUME NEW retry, Wait(At, NoToken, retry, NoTool) PROVE TokenIsIssued
BY DEF Wait, TokenIsIssued

LEMMA DeferTakesIssued == ASSUME NEW retry, DeferUntil(retry) PROVE TokenIsIssued
BY DEF DeferUntil, IssueFor, TokenIsIssued

LEMMA AskResolverTakesIssued == ASSUME NEW branch, AskResolver(branch) PROVE TokenIsIssued
<1>1. outstanding # {} => TokenIsIssued
  BY DEF TokenIsIssued
<1> QED
  BY <1>1, AskResolverCases, TakeTakesNone, FaultTakesNone, ReadTakesIssued, RetryTakesNone,
     DeferTakesIssued

LEMMA CompareDirectlyTakesIssued == ASSUME NEW branch, CompareDirectly(branch) PROVE TokenIsIssued
<1>1. \/ \E outcome : WaitForRead(outcome)
      \/ \E why : Fault(why, At)
      \/ AskResolver(branch)
      \/ \E verdict : Take(branch, verdict)
  BY DEF CompareDirectly
<1> QED
  BY <1>1, ReadTakesIssued, FaultTakesNone, AskResolverTakesIssued, TakeTakesNone

LEMMA DispatchMoveTakesIssued == ASSUME NEW whole, DispatchMove(whole) PROVE TokenIsIssued
<1>1. CASE Issue(NoTool) /\ Wait(Afterwards, issued + 1, Never, NoTool)
  BY <1>1 DEF Issue, IssueFor, TokenIsIssued
<1> QED
  BY <1>1, ContinueTakesNone, FaultTakesNone DEF DispatchMove, Continue

LEMMA DispatchToolChangeTakesIssued ==
  ASSUME NEW t, NEW pendingAtError, NEW warnings, DispatchToolChange(t, pendingAtError, warnings)
  PROVE  TokenIsIssued
<1>1. CASE MountedNow(t, warnings)
  BY <1>1, ContinueTakesNone DEF MountedNow
<1>2. CASE Issue(t)
  BY <1>2 DEF Issue, IssueFor, TokenIsIssued
<1>3. CASE status' = "Fault"
  BY <1>3 DEF TokenIsIssued
<1> QED
  BY <1>1, <1>2, <1>3 DEF DispatchToolChange

LEMMA AdvanceTakesIssued == ASSUME Advance PROVE TokenIsIssued
<1>1. CASE Completes
  BY <1>1 DEF Completes, TokenIsIssued
<1>2. CASE HandleLabel \/ HandleGoto \/ HandleMCode \/ HandleModal
  BY <1>2, ContinueTakesNone, JumpTakesNone, PolicyTakesNone
     DEF HandleLabel, HandleGoto, HandleMCode, HandleModal, Continue
<1>3. CASE HandleBranch
  BY <1>3, AskResolverTakesIssued, CompareDirectlyTakesIssued DEF HandleBranch
<1>4. CASE HandleAssign
  BY <1>4, ReadTakesIssued, FaultTakesNone, ContinueTakesNone DEF HandleAssign, Continue
<1>5. CASE HandleToolSelect
  BY <1>5, DispatchToolChangeTakesIssued, FaultTakesNone, PolicyTakesNone, ContinueTakesNone
     DEF HandleToolSelect, SelectNow, Continue
<1>6. CASE HandleToolChange
  BY <1>6, DispatchToolChangeTakesIssued, PolicyTakesNone DEF HandleToolChange
<1>7. CASE HandleMove
  BY <1>7, DispatchMoveTakesIssued, ReadTakesIssued, FaultTakesNone, ContinueTakesNone
     DEF HandleMove, Continue
<1>8. CASE HandleCall \/ HandleReturn
  <2>1. \/ \E policy, why : ByPolicy(policy, why)
        \/ \E next, warnings : ContinueWith(next, warnings)
        \/ \E why, next : Fault(why, next)
    BY <1>8 DEF HandleCall, HandleReturn, Enter, Continue
  <2> QED
    BY <2>1, PolicyTakesNone, ContinueTakesNone, FaultTakesNone
<1> QED
  BY <1>1, <1>2, <1>3, <1>4, <1>5, <1>6, <1>7, <1>8 DEF Advance

(* No token was used that the runtime has not issued, none stands for two  *)
(* waits, and a wait that may be left behind is for no tool.               *)
TokensIssued ==
  /\ pendingEvents \subseteq 1 .. issued
  /\ \A w \in outstanding : w.token \in 1 .. issued /\ (w.timed => w.tool = NoTool)
  /\ \A u, w \in outstanding : u.token = w.token => u = w

WaitInv == TypeOK /\ NoOrphanWait /\ TokensIssued

(* A step finds nothing underway: the executor is blocked until its token  *)
(* is notified, unless there is a time to ask again at.                    *)
LEMMA StepNeedsNoWait ==
  ASSUME WaitInv, NEW now, Step(now)
  PROVE  Underway = {}
BY DEF WaitInv, NoOrphanWait, Step, CanRun, Resuming, Underway

(* A new wait, the one the executor blocks on.                             *)
LEMMA IssueKeepsWaitInv ==
  ASSUME WaitInv, Underway = {}, TypeOK', pendingEvents' \subseteq pendingEvents,
         NEW tool, NEW timed \in BOOLEAN, IssueFor(tool, timed),
         status' = "Blocked", blocked'.token = issued + 1, blocked'.tool = tool,
         timed \/ blocked'.retry = Never, timed => tool = NoTool
  PROVE  WaitInv'
<1> DEFINE new == [token |-> issued + 1, tool |-> tool, timed |-> timed]
<1>1. issued \in Nat /\ issued' = issued + 1 /\ outstanding' = outstanding \cup {new}
  BY DEF WaitInv, TypeOK, EnvironmentOK, IssueFor
<1>2. /\ \A w \in outstanding : w.token \in 1 .. issued /\ w.token # issued + 1
      /\ pendingEvents \subseteq 1 .. issued /\ issued + 1 \notin pendingEvents
  BY <1>1 DEF WaitInv, TokensIssued
<1>3. new.token = issued + 1 /\ new.tool = tool /\ new.timed = timed
  OBVIOUS
<1> HIDE DEF new
<1>4. Underway' \subseteq {new} /\ (Underway' # {} => ~timed)
  BY <1>1, <1>3 DEF Underway
<1>5. \A w \in outstanding' : w.token \notin pendingEvents'
  BY <1>1, <1>2, <1>3 DEF WaitInv, NoOrphanWait
<1>6. NoOrphanWait'
  BY <1>3, <1>4, <1>5 DEF NoOrphanWait
<1>7. \A w \in outstanding' : w.token \in 1 .. issued' /\ (w.timed => w.tool = NoTool)
  BY <1>1, <1>2, <1>3 DEF WaitInv, TokensIssued
<1>8. \A u, w \in outstanding' : u.token = w.token => u = w
  BY <1>1, <1>2, <1>3 DEF WaitInv, TokensIssued
<1>9. pendingEvents' \subseteq 1 .. issued'
  BY <1>1, <1>2
<1> QED
  BY <1>6, <1>7, <1>8, <1>9 DEF WaitInv, TokensIssued

(* An event that is named again.                                           *)
LEMMA AwaitAgainKeepsWaitInv ==
  ASSUME WaitInv, Underway = {}, TypeOK', pendingEvents' \subseteq pendingEvents,
         NEW w \in outstanding, NEW retry \in Time \cup {Never}, AwaitAgain(w, retry)
  PROVE  WaitInv'
<1> DEFINE named == [w EXCEPT !.timed = retry # Never]
<1>1. /\ w \in Waits /\ w.timed /\ outstanding' = (outstanding \ {w}) \cup {named}
      /\ issued' = issued
  BY DEF WaitInv, TypeOK, EnvironmentOK, AwaitAgain, Waits
<1>2. named.token = w.token /\ named.tool = w.tool /\ named.timed = (retry # Never)
  BY <1>1 DEF Waits
<1>3. w.tool = NoTool /\ w.token \in 1 .. issued /\ w.token \notin pendingEvents
  BY <1>1 DEF WaitInv, TokensIssued, NoOrphanWait
<1>4. /\ status' = "Blocked" /\ blocked'.token = w.token /\ blocked'.tool = NoTool
      /\ blocked'.retry = retry
  BY DEF AwaitAgain, Wait
<1>5. \A u \in outstanding \ {w} : u.token # w.token /\ u.timed
  BY DEF WaitInv, TokensIssued, Underway
<1> HIDE DEF named
<1>6. Underway' \subseteq {named} /\ (Underway' # {} => retry = Never)
  BY <1>1, <1>2, <1>5 DEF Underway
<1>7. NoOrphanWait'
  BY <1>1, <1>2, <1>3, <1>4, <1>6 DEF WaitInv, NoOrphanWait
<1>8. \A u \in outstanding' : u.token \in 1 .. issued' /\ (u.timed => u.tool = NoTool)
  BY <1>1, <1>2, <1>3 DEF WaitInv, TokensIssued
<1>9. \A u, v \in outstanding' : u.token = v.token => u = v
  BY <1>1, <1>2, <1>5 DEF WaitInv, TokensIssued
<1> QED
  BY <1>1, <1>7, <1>8, <1>9 DEF WaitInv, TokensIssued

LEMMA StepKeepsWaitInv ==
  ASSUME WaitInv, NEW now \in Time, Step(now)
  PROVE  WaitInv'
<1>1. Underway = {}
  BY StepNeedsNoWait
<1>2. TypeOK'
  BY StepTyped DEF WaitInv
<1>3. pendingEvents' \subseteq pendingEvents
  BY DEF Step, WokenEvents
<1>4. CASE NoIssue
  <2>1. Underway' = {} /\ outstanding' = outstanding /\ issued' = issued
    BY <1>1, <1>4 DEF NoIssue, Underway
  <2> QED
    BY <1>2, <1>3, <2>1 DEF WaitInv, NoOrphanWait, TokensIssued
<1>5. ASSUME NEW tool, Issues(tool) PROVE WaitInv'
  BY <1>1, <1>2, <1>3, <1>5, IssueKeepsWaitInv DEF Issues, Issue
<1>6. CASE Defers
  <2>1. PICK retry \in Time : DeferUntil(retry)
    BY <1>6 DEF Defers
  <2>2. status' = "Blocked" /\ blocked'.token = issued + 1 /\ blocked'.tool = NoTool
    BY <2>1 DEF DeferUntil, Wait
  <2>3. IssueFor(NoTool, TRUE) /\ TRUE \in BOOLEAN
    BY <2>1 DEF DeferUntil
  <2> QED
    BY <1>1, <1>2, <1>3, <2>2, <2>3, IssueKeepsWaitInv
<1>7. CASE AwaitsAgain
  BY <1>1, <1>2, <1>3, <1>7, AwaitAgainKeepsWaitInv DEF AwaitsAgain
<1> QED
  BY <1>4, <1>5, <1>6, <1>7, AdvanceIssues DEF Step, IssuesAtMostOne

(* The executor waits for one thing at a time.                             *)
LEMMA UnderwayIsOne ==
  ASSUME WaitInv, NEW w \in Underway
  PROVE  Underway = {w}
BY DEF WaitInv, NoOrphanWait, TokensIssued, Underway

LEMMA NotifyKeepsWaitInv ==
  ASSUME WaitInv, NEW w \in outstanding, Notify(w)
  PROVE  WaitInv'
<1>1. /\ TypeOK' /\ outstanding' = outstanding \ {w} /\ issued' = issued
      /\ pendingEvents' = pendingEvents \cup {w.token} /\ status' = status /\ blocked' = blocked
  BY NotifyTyped DEF WaitInv, Notify, control
<1>2. Underway' \subseteq Underway
  BY <1>1 DEF Underway
<1>3. \A u \in outstanding' : u.token # w.token
  BY <1>1 DEF WaitInv, TokensIssued
<1>4. NoOrphanWait'
  BY <1>1, <1>2, <1>3 DEF WaitInv, NoOrphanWait
<1> QED
  BY <1>1, <1>4 DEF WaitInv, TokensIssued

LEMMA WaitInvariant == Spec => []WaitInv
<1>1. Init => WaitInv
  BY InitTyped DEF Init, WaitInv, NoOrphanWait, TokensIssued, Underway
<1>2. WaitInv /\ [Next]_vars => WaitInv'
  <2> SUFFICES ASSUME WaitInv, [Next]_vars PROVE WaitInv'
    OBVIOUS
  <2>1. CASE UNCHANGED vars
    <3>1. TypeOK'
      BY <2>1, StutterTyped DEF WaitInv
    <3> QED
      BY <2>1, <3>1 DEF vars, control, environment, WaitInv, NoOrphanWait, TokensIssued,
         Underway
  <2> QED
    BY <2>1, StepKeepsWaitInv, NotifyKeepsWaitInv DEF Next, Done
<1> QED
  BY <1>1, <1>2, PTL DEF Spec

(* No wait is lost: whatever the runtime and the condition resolver answer *)
(* the executor is blocked on every wait it was given until that wait is   *)
(* notified; only an event with a retry time may come late, and then it    *)
(* wakes nothing else.                                                     *)
THEOREM WaitsAreNotLost == Spec => []NoOrphanWait
BY WaitInvariant, PTL DEF WaitInv

(* Nothing is shown or submitted while the runtime works on a command.     *)
THEOREM CommandsDoNotOverlap == Spec => OneCommandAtATime
<1>1. WaitInv /\ [Next]_vars => [log' # log => Underway = {}]_vars
  <2> SUFFICES ASSUME WaitInv, Next PROVE log' # log => Underway = {}
    BY DEF vars
  <2> QED
    BY StepNeedsNoWait DEF Next, Notify, Done, vars, environment
<1> QED
  BY <1>1, WaitInvariant, PTL DEF Spec, OneCommandAtATime

----------------------------------------------------------------------------
(* The call stack.                                                         *)

FrameSound(f) ==
  /\ f.ret - 1 \in DOMAIN instructions
  /\ instructions[f.ret - 1].op = "call"
  /\ f.remaining \in 1 .. instructions[f.ret - 1].repeat
  /\ f.target \in DOMAIN instructions /\ instructions[f.target].op = "label"

LEMMA CallKeepsFrames ==
  ASSUME TypeOK, ~AtEnd, FramesSound, HandleCall, UNCHANGED instructions
  PROVE  FramesSound'
<1>1. CASE UNCHANGED frames
  BY <1>1 DEF FramesSound
<1>2. ASSUME NEW name, NEW t \in Definitions(name), Fetch.repeat > 0,
             frames' = Append(frames, [ret |-> At + 1, target |-> t, remaining |-> Fetch.repeat])
      PROVE  FramesSound'
  <2>1. Fetch \in Instruction /\ At \in DOMAIN instructions /\ Fetch.op = "call"
    BY FetchType DEF HandleCall
  <2>2. Fetch.repeat \in Nat \ {0} /\ At \in Nat
    <3>1. Fetch.repeat \in Int
      BY <2>1, InstructionFields
    <3> QED
      BY <1>2, <3>1, WokenTypes
  <2>3. t \in DOMAIN instructions /\ instructions[t].op = "label"
    BY <1>2 DEF Definitions
  <2> DEFINE f == [ret |-> At + 1, target |-> t, remaining |-> Fetch.repeat]
  <2>4. FrameSound(f)
    BY <2>1, <2>2, <2>3 DEF FrameSound, Fetch
  <2>5. \A k \in DOMAIN frames : FrameSound(frames[k])
    BY DEF FramesSound, FrameSound
  <2>6. frames \in Seq(Frame) /\ frames' = Append(frames, f)
    BY <1>2 DEF TypeOK
  <2> HIDE DEF f
  <2>7. \A k \in DOMAIN frames' : FrameSound(frames'[k])
    BY <2>4, <2>5, <2>6
  <2> QED
    BY <2>7 DEF FramesSound, FrameSound
<1> QED
  BY <1>1, <1>2 DEF HandleCall, Enter

LEMMA ReturnKeepsFrames ==
  ASSUME TypeOK, FramesSound, HandleReturn, UNCHANGED instructions
  PROVE  FramesSound'
<1>1. frames \in Seq(Frame) /\ \A k \in DOMAIN frames : FrameSound(frames[k])
  BY DEF TypeOK, FramesSound, FrameSound
<1>2. CASE UNCHANGED frames
  BY <1>2 DEF FramesSound
<1>3. CASE frames # <<>> /\ frames' = SubSeq(frames, 1, Len(frames) - 1)
  <2>1. \A k \in DOMAIN frames' : FrameSound(frames'[k])
    BY <1>1, <1>3
  <2> QED
    BY <2>1 DEF FramesSound, FrameSound
<1>4. CASE /\ frames # <<>> /\ RunsAgain
           /\ frames' = [frames EXCEPT ![Len(frames)].remaining = @ - 1]
  <2>1. Len(frames) \in DOMAIN frames /\ Top \in Frame /\ FrameSound(Top)
    BY <1>1, <1>4 DEF Top
  <2> DEFINE f == [Top EXCEPT !.remaining = @ - 1]
  <2>2. f.ret = Top.ret /\ f.target = Top.target /\ f.remaining = Top.remaining - 1
    BY <2>1 DEF Frame
  <2>3. Top.remaining \in Nat /\ Top.remaining > 1
    BY <1>4, <2>1 DEF Frame, RunsAgain
  <2>4. f.remaining \in 1 .. instructions[Top.ret - 1].repeat
    <3>1. instructions[Top.ret - 1] \in Instruction /\ instructions[Top.ret - 1].op = "call"
      BY <2>1 DEF FrameSound, TypeOK, ProgramOK
    <3>2. instructions[Top.ret - 1].repeat \in Int
      BY <3>1, InstructionFields
    <3>3. Top.remaining \in 1 .. instructions[Top.ret - 1].repeat
      BY <2>1 DEF FrameSound
    <3> QED
      BY <2>2, <2>3, <3>2, <3>3
  <2>5. FrameSound(f)
    BY <2>1, <2>2, <2>4 DEF FrameSound
  <2>6. frames' = [frames EXCEPT ![Len(frames)] = f]
    BY <1>4 DEF Top
  <2> HIDE DEF f
  <2>7. \A k \in DOMAIN frames' : FrameSound(frames'[k])
    BY <1>1, <2>5, <2>6
  <2> QED
    BY <2>7 DEF FramesSound, FrameSound
<1> QED
  BY <1>2, <1>3, <1>4 DEF HandleReturn

LEMMA StepKeepsFrames ==
  ASSUME TypeOK, FramesSound, NEW now, Step(now)
  PROVE  FramesSound'
<1>1. UNCHANGED instructions
  BY DEF Step, program
<1>2. CASE UNCHANGED frames
  BY <1>1, <1>2 DEF FramesSound
<1>3. UNCHANGED frames \/ (~AtEnd /\ HandleCall) \/ HandleReturn
  BY DEF Step, Advance, Completes, HandleLabel, HandleGoto, HandleBranch, HandleAssign,
     HandleMCode, HandleModal, HandleToolSelect, HandleToolChange, HandleMove, ControlOnly
<1> QED
  BY <1>1, <1>2, <1>3, CallKeepsFrames, ReturnKeepsFrames

(* Every frame of the call stack comes from the call before its return     *)
(* point, goes back to a label, and has between one and all of that call's *)
(* repeats left, however calls nest and wherever the program jumps.        *)
THEOREM CallStackSound == Spec => []FramesSound
<1>1. Init => FramesSound
  BY DEF Init, FramesSound
<1>2. TypeOK /\ FramesSound /\ [Next]_vars => FramesSound'
  <2> SUFFICES ASSUME TypeOK, FramesSound, [Next]_vars PROVE FramesSound'
    OBVIOUS
  <2>1. CASE UNCHANGED <<instructions, frames>>
    BY <2>1 DEF FramesSound
  <2> QED
    BY <2>1, StepKeepsFrames DEF Next, Notify, Done, vars, program
<1> QED
  BY <1>1, <1>2, TypeCorrect, PTL DEF Spec

----------------------------------------------------------------------------
(* The spindle.                                                            *)

(* What a step makes of the tool, when the runtime names the token of      *)
(* every wait: nothing, a change that is complete, or one to wait for.     *)
ToolSteps ==
  \/ spindle' = spindle /\ activeTool' = WokenActive /\ ~Changed'
  \/ spindle' = activeTool' /\ ~Changed'
  \/ spindle' = spindle /\ activeTool' = WokenActive /\ Underway' # {}

NamesTokens == "PendingNoToken" \notin SubmitResults

(* The executor does not come to wait for a tool change.                   *)
WaitsForNoTool == status' # "Blocked" \/ blocked'.tool = NoTool

LEMMA JumpWaits == ASSUME NEW g, NEW why, JumpTo(g, why) PROVE WaitsForNoTool
BY DEF JumpTo, ContinueWith, Continue, Fault, WaitsForNoTool

LEMMA TakeWaits == ASSUME NEW branch, NEW verdict, Take(branch, verdict) PROVE WaitsForNoTool
BY JumpWaits DEF Take, Continue, ContinueWith, WaitsForNoTool

LEMMA ReadWaits == ASSUME NEW outcome, WaitForRead(outcome) PROVE WaitsForNoTool
BY DEF WaitForRead, Wait, WaitsForNoTool

LEMMA AskResolverWaits ==
  ASSUME NEW branch, AskResolver(branch)
  PROVE  WaitsForNoTool /\ UNCHANGED spindle
<1>1. WaitsForNoTool
  <2>1. ASSUME NEW token, NEW retry, Wait(At, token, retry, NoTool) PROVE WaitsForNoTool
    BY <2>1 DEF Wait, WaitsForNoTool
  <2>2. ASSUME NEW why, Fault(why, At) PROVE WaitsForNoTool
    BY <2>2 DEF Fault, WaitsForNoTool
  <2> QED
    BY <2>1, <2>2, AskResolverCases, TakeWaits, ReadWaits DEF DeferUntil, AwaitAgain
<1>2. UNCHANGED spindle
  BY AskResolverCases DEF WaitForRead, DeferUntil, AwaitAgain, Quiet, environment
<1> QED
  BY <1>1, <1>2

LEMMA CompareDirectlyWaits ==
  ASSUME NEW branch, CompareDirectly(branch)
  PROVE  WaitsForNoTool /\ UNCHANGED spindle
<1>1. \/ \E outcome : WaitForRead(outcome)
      \/ \E why : Fault(why, At) /\ Quiet
      \/ AskResolver(branch)
      \/ \E verdict : Take(branch, verdict) /\ Quiet
  BY DEF CompareDirectly
<1> QED
  BY <1>1, TakeWaits, ReadWaits, AskResolverWaits
     DEF Fault, WaitsForNoTool, WaitForRead, Quiet, environment

LEMMA DispatchMoveWaits ==
  ASSUME NEW whole, DispatchMove(whole)
  PROVE  WaitsForNoTool /\ UNCHANGED spindle
BY DEF DispatchMove, Continue, ContinueWith, Fault, Wait, WaitsForNoTool

LEMMA PolicyWaits == ASSUME NEW policy, NEW why, ByPolicy(policy, why) PROVE WaitsForNoTool
BY DEF ByPolicy, ContinueWith, Fault, WaitsForNoTool

(* All but the tool handlers leave the tool alone.                         *)
LEMMA OthersKeepTool ==
  ASSUME Advance, ~HandleToolSelect, ~HandleToolChange
  PROVE  spindle' = spindle /\ activeTool' = WokenActive /\ WaitsForNoTool
<1>1. CASE HandleLabel \/ HandleGoto \/ HandleMCode \/ Completes
  BY <1>1, JumpWaits, PolicyWaits
     DEF HandleLabel, HandleGoto, HandleMCode, Completes, ControlOnly, KeepTools, Quiet,
         environment, Continue, ContinueWith, WaitsForNoTool
<1>2. CASE HandleBranch
  BY <1>2, AskResolverWaits, CompareDirectlyWaits DEF HandleBranch, ControlOnly, KeepTools
<1>3. CASE HandleAssign
  BY <1>3, ReadWaits
     DEF HandleAssign, KeepTools, Quiet, environment, WaitForRead, Fault, Continue, ContinueWith,
         WaitsForNoTool
<1>4. CASE HandleModal
  BY <1>4 DEF HandleModal, KeepTools, Continue, ContinueWith, WaitsForNoTool
<1>5. CASE HandleMove
  BY <1>5, ReadWaits, DispatchMoveWaits
     DEF HandleMove, KeepTools, Quiet, environment, WaitForRead, Fault, Continue, ContinueWith,
         WaitsForNoTool
<1>6. CASE HandleCall
  BY <1>6, PolicyWaits
     DEF HandleCall, KeepTools, Quiet, environment, Enter, ContinueWith, WaitsForNoTool
<1>7. CASE HandleReturn
  BY <1>7 DEF HandleReturn, KeepTools, Quiet, environment, Fault, Continue, ContinueWith,
     WaitsForNoTool
<1> QED
  BY <1>1, <1>2, <1>3, <1>4, <1>5, <1>6, <1>7 DEF Advance

LEMMA DispatchToolSteps ==
  ASSUME NamesTokens, options.attached, NEW t, NEW pendingAtError, NEW warnings,
         DispatchToolChange(t, pendingAtError, warnings)
  PROVE  ToolSteps
<1>1. CASE MountedNow(t, warnings) /\ spindle' = Mount(t)
  BY <1>1 DEF MountedNow, ContinueWith, ToolSteps, Changed, Resuming
<1>2. CASE Issue(t) /\ UNCHANGED spindle /\ activeTool' = WokenActive
  <2>1. [token |-> issued + 1, tool |-> t, timed |-> FALSE] \in Underway'
    BY <1>2 DEF Issue, IssueFor, Underway
  <2> QED
    BY <1>2, <2>1 DEF ToolSteps
<1>3. CASE UNCHANGED spindle /\ status' = "Fault" /\ activeTool' = WokenActive
  BY <1>3 DEF ToolSteps, Changed, Resuming
<1> QED
  BY <1>1, <1>2, <1>3 DEF DispatchToolChange, NamesTokens

LEMMA StepToolSteps ==
  ASSUME NamesTokens, options.attached, Advance
  PROVE  ToolSteps
<1>1. CASE spindle' = spindle /\ activeTool' = WokenActive /\ WaitsForNoTool
  BY <1>1 DEF ToolSteps, WaitsForNoTool, Changed, Resuming
<1>2. CASE HandleToolSelect
  <2>1. \/ \E t, pendingAtError, warnings : DispatchToolChange(t, pendingAtError, warnings)
        \/ /\ Quiet /\ activeTool' = WokenActive
           /\ WaitsForNoTool
    BY <1>2, PolicyWaits DEF HandleToolSelect, SelectNow, Fault, Continue, ContinueWith,
       WaitsForNoTool
  <2> QED
    BY <1>1, <2>1, DispatchToolSteps DEF Quiet, environment
<1>3. CASE HandleToolChange
  <2>1. \/ \E t, pendingAtError, warnings : DispatchToolChange(t, pendingAtError, warnings)
        \/ Quiet /\ activeTool' = WokenActive /\ WaitsForNoTool
    BY <1>3, PolicyWaits DEF HandleToolChange, KeepTools
  <2> QED
    BY <1>1, <2>1, DispatchToolSteps DEF Quiet, environment
<1> QED
  BY <1>1, <1>2, <1>3, OthersKeepTool

LEMMA StepKeepsSpindle ==
  ASSUME NamesTokens, WaitInv, SpindleView, NEW now, Step(now)
  PROVE  SpindleView'
<1>1. Underway = {} /\ Advance /\ options' = options
  BY StepNeedsNoWait DEF Step, program
<1>2. SUFFICES ASSUME options.attached PROVE SpindleView'
  BY <1>1 DEF SpindleView
<1>3. spindle = WokenActive
  BY <1>1, <1>2 DEF SpindleView, WokenActive
<1>4. ToolSteps
  BY <1>1, <1>2, StepToolSteps
<1> QED
  BY <1>3, <1>4 DEF ToolSteps, SpindleView

LEMMA NotifyKeepsSpindle ==
  ASSUME WaitInv, SpindleView, NEW w \in outstanding, Notify(w)
  PROVE  SpindleView'
<1>1. UNCHANGED <<options, status, blocked, activeTool>>
  BY DEF Notify, program, control, tools
<1>2. CASE w \in Underway
  <2>1. status = "Blocked" /\ blocked.tool = w.tool
    BY <1>2 DEF WaitInv, NoOrphanWait
  <2>2. Underway' = {}
    BY <1>2, UnderwayIsOne DEF Notify, Underway
  <2> QED
    BY <1>1, <1>2, <2>1, <2>2 DEF Notify, SpindleView, Changed, Resuming
<1>3. CASE w \notin Underway
  <2>1. w.tool = NoTool /\ Underway' = Underway
    BY <1>3 DEF WaitInv, TokensIssued, Notify, Underway
  <2> QED
    BY <1>1, <2>1 DEF Notify, SpindleView, Changed, Resuming
<1> QED
  BY <1>2, <1>3

(* With a runtime that names the token of every wait, the tool every       *)
(* command carries is the one on the spindle, whatever program selects and *)
(* changes tools and however the runtime delays or refuses the changes.    *)
THEOREM SpindleTracked == NamesTokens => (Spec => []SpindleView)
<1> SUFFICES ASSUME NamesTokens PROVE Spec => []SpindleView
  OBVIOUS
<1>1. Init => SpindleView
  BY DEF Init, SpindleView, Changed, Resuming
<1>2. WaitInv /\ SpindleView /\ [Next]_vars => SpindleView'
  <2> SUFFICES ASSUME WaitInv, SpindleView, [Next]_vars PROVE SpindleView'
    OBVIOUS
  <2>1. CASE UNCHANGED vars
    BY <2>1 DEF vars, program, control, tools, environment, SpindleView, Changed, Resuming,
       Underway
  <2> QED
    BY <2>1, StepKeepsSpindle, NotifyKeepsSpindle DEF Next, Done
<1> QED
  BY <1>1, <1>2, WaitInvariant, PTL DEF Spec

----------------------------------------------------------------------------
(* What one instruction adds to the log.                                   *)

AddsNothing == log' = log
AddsUpdate ==
  \E c : c.ev = "update" /\ c.line = Fetch.source.line /\ log' = Append(log, c)
AddsCommand ==
  \E c : /\ c.ev = "submit" /\ {c.line, [c EXCEPT !.ev = "emit"].line} = {Fetch.source.line}
        /\ log' = log \o <<[c EXCEPT !.ev = "emit"], c>>

AddsOneCall == AddsNothing \/ AddsUpdate \/ AddsCommand

LEMMA QuietAdds == Quiet => AddsOneCall
BY DEF Quiet, environment, AddsOneCall, AddsNothing

LEMMA WaitForReadAdds ==
  ASSUME NEW outcome, WaitForRead(outcome)
  PROVE  AddsOneCall
BY DEF WaitForRead, AddsOneCall, AddsNothing

LEMMA EmitAndSubmitAdds ==
  ASSUME NEW carried, NEW tool, NEW whole, EmitAndSubmit(carried, tool, whole)
  PROVE  AddsOneCall
<1> DEFINE c == Event("submit", carried, tool, whole)
<1>1. /\ c.ev = "submit" /\ [c EXCEPT !.ev = "emit"] = Event("emit", carried, tool, whole)
      /\ {c.line, [c EXCEPT !.ev = "emit"].line} = {Fetch.source.line}
  BY DEF Event
<1>2. log' = log \o <<[c EXCEPT !.ev = "emit"], c>>
  BY <1>1 DEF EmitAndSubmit
<1> HIDE DEF c
<1> QED
  BY <1>1, <1>2 DEF AddsOneCall, AddsCommand

LEMMA AskResolverAdds ==
  ASSUME NEW branch, AskResolver(branch)
  PROVE  AddsOneCall
<1>1. \/ Quiet \/ (\E outcome : WaitForRead(outcome))
      \/ log' = log
  BY AskResolverCases DEF DeferUntil, AwaitAgain
<1> QED
  BY <1>1, QuietAdds, WaitForReadAdds DEF AddsOneCall, AddsNothing

LEMMA CompareDirectlyAdds ==
  ASSUME NEW branch, CompareDirectly(branch)
  PROVE  AddsOneCall
<1>1. Quiet \/ AskResolver(branch) \/ \E outcome : WaitForRead(outcome)
  BY DEF CompareDirectly
<1> QED
  BY <1>1, QuietAdds, AskResolverAdds, WaitForReadAdds

LEMMA DispatchToolChangeAdds ==
  ASSUME NEW t, NEW pendingAtError, NEW warnings, DispatchToolChange(t, pendingAtError, warnings)
  PROVE  AddsOneCall
<1>1. Quiet \/ EmitAndSubmit(modal, t, TRUE)
  BY DEF DispatchToolChange
<1> QED
  BY <1>1, QuietAdds, EmitAndSubmitAdds

LEMMA HandleModalAdds == ASSUME HandleModal PROVE AddsOneCall
<1> DEFINE c == Event("update", modal', NoTool, TRUE)
<1>1. c.ev = "update" /\ c.line = Fetch.source.line
  BY DEF Event
<1>2. log' = Append(log, c) \/ log' = log
  BY DEF HandleModal
<1> HIDE DEF c
<1> QED
  BY <1>1, <1>2 DEF AddsOneCall, AddsNothing, AddsUpdate

LEMMA HandleMoveAdds == ASSUME HandleMove PROVE AddsOneCall
<1>1. \/ Quiet \/ (\E outcome : WaitForRead(outcome)) \/ \E whole : EmitAndSubmit(Carried, NoTool, whole)
  BY DEF HandleMove, DispatchMove
<1> QED
  BY <1>1, QuietAdds, WaitForReadAdds, EmitAndSubmitAdds

LEMMA AdvanceAdds ==
  ASSUME Advance
  PROVE  AddsOneCall
<1>1. CASE Completes \/ HandleLabel \/ HandleGoto \/ HandleMCode \/ HandleCall \/ HandleReturn
  BY <1>1, QuietAdds
     DEF Completes, HandleLabel, HandleGoto, HandleMCode, HandleCall, HandleReturn
<1>2. CASE HandleBranch
  BY <1>2, AskResolverAdds, CompareDirectlyAdds DEF HandleBranch
<1>3. CASE HandleAssign
  BY <1>3, QuietAdds, WaitForReadAdds DEF HandleAssign
<1>4. CASE HandleToolSelect
  BY <1>4, QuietAdds, DispatchToolChangeAdds DEF HandleToolSelect, SelectNow
<1>5. CASE HandleToolChange
  BY <1>5, QuietAdds, DispatchToolChangeAdds DEF HandleToolChange
<1> QED
  BY <1>1, <1>2, <1>3, <1>4, <1>5, HandleModalAdds, HandleMoveAdds DEF Advance

(* A call that is added names the line of an instruction of the program.   *)
LEMMA AddsOwnLines ==
  ASSUME TypeOK, Advance, NEW k \in DOMAIN log'
  PROVE  \/ k \in DOMAIN log /\ log'[k] = log[k]
         \/ \E i \in DOMAIN instructions : log'[k].line = instructions[i].source.line
<1>1. log \in Seq(Call)
  BY DEF TypeOK, EnvironmentOK
<1>2. CASE log' = log
  BY <1>2
<1>3. CASE log' # log
  <2>1. At \in DOMAIN instructions
    <3>1. ~AtEnd
      BY <1>3 DEF Advance, Completes, Quiet, environment
    <3> QED
      BY <3>1, FetchType
  <2>2. CASE AddsUpdate
    <3>1. PICK c : c.line = Fetch.source.line /\ log' = Append(log, c)
      BY <2>2 DEF AddsUpdate
    <3>2. (k \in DOMAIN log /\ log'[k] = log[k]) \/ log'[k] = c
      BY <1>1, <3>1
    <3> QED
      BY <2>1, <3>1, <3>2 DEF Fetch
  <2>3. CASE AddsCommand
    <3>1. PICK c : /\ {c.line, [c EXCEPT !.ev = "emit"].line} = {Fetch.source.line}
                   /\ log' = log \o <<[c EXCEPT !.ev = "emit"], c>>
      BY <2>3 DEF AddsCommand
    <3> DEFINE e == [c EXCEPT !.ev = "emit"]
    <3>2. c.line = Fetch.source.line /\ e.line = Fetch.source.line
      BY <3>1
    <3> HIDE DEF e
    <3>3. log' = log \o <<e, c>>
      BY <3>1 DEF e
    <3>4. Len(log') = Len(log) + 2 /\ DOMAIN log' = 1 .. Len(log')
      BY <1>1, <3>3
    <3>5. CASE k <= Len(log)
      BY <1>1, <3>3, <3>4, <3>5
    <3>6. CASE k > Len(log)
      <4>1. k - Len(log) \in {1, 2} /\ log'[k] = <<e, c>>[k - Len(log)]
        BY <1>1, <3>3, <3>4, <3>6
      <4> QED
        BY <2>1, <3>2, <4>1 DEF Fetch
    <3>7. k <= Len(log) \/ k > Len(log)
      BY <1>1, <3>4
    <3> QED
      BY <3>5, <3>6, <3>7
  <2> QED
    BY <1>3, <2>2, <2>3, AdvanceAdds DEF AddsOneCall, AddsNothing
<1> QED
  BY <1>2, <1>3

----------------------------------------------------------------------------
(* Steps map to steps.                                                     *)

(* One more call of the log is one of CommandStream.                       *)
LEMMA CallsMap ==
  ASSUME log \in Seq(Call), AddsOneCall
  PROVE  Stream!NoCall \/ Stream!Update \/ Stream!Command
<1>1. CASE AddsNothing
  BY <1>1 DEF AddsNothing, Stream!NoCall
<1>2. CASE AddsUpdate
  <2>1. PICK c : c.ev = "update" /\ log' = Append(log, c)
    BY <1>2 DEF AddsUpdate
  <2>2. log'[Len(log')] = c
    BY <2>1
  <2> QED
    BY <2>1, <2>2 DEF Stream!Update, Stream!Latest
<1>3. CASE AddsCommand
  <2>1. PICK c : c.ev = "submit" /\ log' = log \o <<[c EXCEPT !.ev = "emit"], c>>
    BY <1>3 DEF AddsCommand
  <2>2. log'[Len(log')] = c
    BY <2>1
  <2> QED
    BY <2>1, <2>2 DEF Stream!Command, Stream!Latest
<1> QED
  BY <1>1, <1>2, <1>3 DEF AddsOneCall

(* The answer of the runtime, or what the condition resolver names.        *)
LEMMA AnswersMap ==
  ASSUME WaitInv, Underway = {}, Live, IssuesAtMostOne
  PROVE  \/ Stream!AnsweredAtOnce \/ Stream!AnsweredLater
         \/ Stream!PutOff \/ Stream!WaitsAfterAll
<1>1. Live' = (status' \notin {"Fault", "Completed"})
  BY DEF Live
<1>2. CASE NoIssue
  BY <1>2 DEF NoIssue, Underway, Stream!AnsweredAtOnce
<1>3. ASSUME NEW tool, NEW timed \in BOOLEAN, IssueFor(tool, timed)
      PROVE  /\ issued' = issued + 1
             /\ {w.token : w \in Underway'} = IF timed THEN {} ELSE {issued + 1}
  <2> DEFINE new == [token |-> issued + 1, tool |-> tool, timed |-> timed]
  <2>1. issued' = issued + 1 /\ outstanding' = outstanding \cup {new}
    BY <1>3 DEF IssueFor
  <2>2. new.token = issued + 1 /\ new.timed = timed
    OBVIOUS
  <2> HIDE DEF new
  <2>3. Underway' = IF timed THEN {} ELSE {new}
    BY <2>1, <2>2 DEF Underway
  <2> QED
    BY <2>1, <2>2, <2>3
<1>4. ASSUME NEW tool, Issues(tool) PROVE Stream!AnsweredLater
  <2>1. issued' = issued + 1 /\ {w.token : w \in Underway'} = {issued + 1}
    BY <1>3, <1>4 DEF Issues, Issue
  <2> QED
    BY <1>1, <1>4, <2>1 DEF Issues, Stream!AnsweredLater
<1>5. CASE Defers
  <2>1. issued' = issued + 1 /\ {w.token : w \in Underway'} = {} /\ log' = log /\ status' = "Blocked"
    BY <1>3, <1>5 DEF Defers, DeferUntil, Wait
  <2> QED
    BY <1>1, <2>1 DEF Stream!PutOff, Stream!NoCall
<1>6. ASSUME NEW w \in outstanding, NEW retry \in Time \cup {Never}, AwaitAgain(w, retry)
      PROVE  Stream!AnsweredAtOnce \/ Stream!WaitsAfterAll
  <2> DEFINE named == [w EXCEPT !.timed = retry # Never]
  <2>1. /\ issued' = issued /\ log' = log /\ status' = "Blocked"
        /\ outstanding' = (outstanding \ {w}) \cup {named}
    BY <1>6 DEF AwaitAgain, Wait
  <2>2. named.timed = (retry # Never) /\ named.token = w.token /\ w.token \in 1 .. issued
    BY DEF WaitInv, TypeOK, EnvironmentOK, TokensIssued
  <2> HIDE DEF named
  <2>3. Underway' = IF retry = Never THEN {named} ELSE {}
    BY <2>1, <2>2 DEF Underway
  <2>4. CASE retry # Never
    BY <2>1, <2>3, <2>4 DEF Stream!AnsweredAtOnce
  <2>5. CASE retry = Never
    <3>1. {u.token : u \in Underway'} = {w.token}
      BY <2>2, <2>3, <2>5
    <3> QED
      BY <1>1, <2>1, <2>2, <3>1 DEF Stream!WaitsAfterAll, Stream!NoCall
  <2> QED
    BY <2>4, <2>5
<1> QED
  BY <1>2, <1>4, <1>5, <1>6 DEF IssuesAtMostOne, AwaitsAgain

LEMMA StepMaps ==
  ASSUME WaitInv, NEW now, Step(now)
  PROVE  Stream!Proceed
<1>1. Underway = {}
  BY StepNeedsNoWait
<1>2. Live /\ Advance
  BY DEF Step
<1>3. Stream!NoCall \/ Stream!Update \/ Stream!Command
  BY <1>2, AdvanceAdds, CallsMap DEF WaitInv, TypeOK, EnvironmentOK
<1>4. \/ Stream!AnsweredAtOnce \/ Stream!AnsweredLater
      \/ Stream!PutOff \/ Stream!WaitsAfterAll
  BY <1>1, <1>2, AdvanceIssues, AnswersMap
<1>5. (~Live)' \in BOOLEAN
  BY DEF Live
<1> QED
  BY <1>1, <1>2, <1>3, <1>4, <1>5 DEF Stream!Proceed

LEMMA NotifyMaps ==
  ASSUME WaitInv, NEW w \in outstanding, Notify(w)
  PROVE  [Stream!StreamNext]_(Stream!streamVars)
<1>1. log' = log /\ issued' = issued /\ (~Live)' = ~Live
  BY DEF Notify, control, Live
<1>2. CASE w \in Underway
  <2>1. Underway = {w} /\ Underway' = {}
    BY <1>2, UnderwayIsOne DEF Notify, Underway
  <2>2. {u.token : u \in Underway'} = {u.token : u \in Underway} \ {w.token}
    BY <2>1
  <2>3. w.token \in {u.token : u \in Underway}
    BY <1>2
  <2> QED
    BY <1>1, <2>2, <2>3 DEF Stream!Complete, Stream!StreamNext
<1>3. CASE w \notin Underway
  <2>1. Underway' = Underway
    BY <1>3 DEF Notify, Underway
  <2> QED
    BY <1>1, <2>1 DEF Stream!streamVars
<1> QED
  BY <1>2, <1>3

LEMMA StutterMaps == UNCHANGED vars => UNCHANGED Stream!streamVars
BY DEF vars, environment, control, Live, Underway, Stream!streamVars

(* The executor implements the stream of commands that sink and runtime    *)
(* are promised: one command at a time, shown before it is given, a token  *)
(* of its own for everything that takes time, nothing after the end.       *)
THEOREM ExecutorImplementsStream == Spec => ImplementsStream
<1>1. Init => Stream!StreamInit
  BY DEF Init, Live, Underway, Stream!StreamInit
<1>2. WaitInv /\ [Next]_vars => [Stream!StreamNext]_(Stream!streamVars)
  <2> SUFFICES ASSUME WaitInv, [Next]_vars
               PROVE  [Stream!StreamNext]_(Stream!streamVars)
    OBVIOUS
  <2> QED
    BY StepMaps, NotifyMaps, StutterMaps DEF Next, Done, Stream!StreamNext
<1> QED
  BY <1>1, <1>2, WaitInvariant, PTL DEF Spec, ImplementsStream, Stream!StreamSpec

----------------------------------------------------------------------------
(* Where one instruction leaves control.                                   *)

StaysPut == Live' => At' = At
Passes == Live' => At' = At + 1
JumpsAway == At \in DOMAIN instructions /\ \E g \in GotosOf(At) : At' \in Searched(g)

Moves == StaysPut \/ Passes \/ JumpsAway

LEMMA FaultStays == ASSUME NEW why, NEW next, Fault(why, next) PROVE StaysPut /\ Passes
BY DEF Fault, Live, StaysPut, Passes

LEMMA ContinuePasses == ASSUME NEW warnings, ContinueWith(At + 1, warnings) PROVE Passes
BY DEF ContinueWith, Passes, At, Resuming

LEMMA WaitStays ==
  ASSUME NEW token, NEW retry, NEW tool, Wait(At, token, retry, tool)
  PROVE  StaysPut
<1>1. At' = At
  BY DEF Wait, At, Resuming
<1> QED
  BY <1>1 DEF StaysPut

LEMMA WaitPasses ==
  ASSUME NEW token, NEW retry, NEW tool, Wait(Afterwards, token, retry, tool)
  PROVE  Passes
<1>1. At' = At + 1
  BY DEF Wait, Afterwards, At, Resuming
<1> QED
  BY <1>1 DEF Passes

LEMMA PolicyPasses == ASSUME NEW policy, NEW why, ByPolicy(policy, why) PROVE Passes
BY FaultStays, ContinuePasses DEF ByPolicy

LEMMA ReadStays == ASSUME NEW outcome, WaitForRead(outcome) PROVE StaysPut
BY WaitStays DEF WaitForRead

LEMMA JumpMoves ==
  ASSUME At \in DOMAIN instructions, NEW g \in GotosOf(At), NEW why, JumpTo(g, why)
  PROVE  Moves
<1>1. ASSUME NEW t \in Searched(g), NEW warnings, ContinueWith(t, warnings)
      PROVE  At' \in Searched(g)
  BY <1>1 DEF ContinueWith, At, Resuming
<1> QED
  BY <1>1, FaultStays, ContinuePasses DEF JumpTo, Continue, Moves, JumpsAway

(* A jump of the instruction control is at is one of the program's.        *)
LEMMA ItsGotos ==
  ASSUME TypeOK, ~AtEnd
  PROVE  /\ Fetch.op = "goto" => Fetch.to \in GotosOf(At)
         /\ Fetch.op = "branch" => Fetch.then \in GotosOf(At)
         /\ Fetch.op = "branch" /\ Fetch.else # NoGoto => Fetch.else \in GotosOf(At)
<1>1. CASE Fetch.op = "goto"
  <2>1. GotosOf(At) = {Fetch.to}
    BY <1>1 DEF GotosOf, Fetch
  <2> QED
    BY <1>1, <2>1
<1>2. CASE Fetch.op = "branch"
  <2>1. GotosOf(At) = {Fetch.then, Fetch.else} \ {NoGoto}
    BY <1>2 DEF GotosOf, Fetch
  <2>2. Fetch.then \in GotoTarget
    BY <1>2, FetchType DEF Instruction
  <2> QED
    BY <1>2, <2>1, <2>2, NoGotoAssumption
<1> QED
  BY <1>1, <1>2

LEMMA TakeMoves ==
  ASSUME TypeOK, ~AtEnd, Fetch.op = "branch", NEW verdict, Take(Fetch, verdict)
  PROVE  Moves
BY FetchType, ItsGotos, JumpMoves, ContinuePasses DEF Take, Continue, Moves

LEMMA AskResolverMoves ==
  ASSUME TypeOK, ~AtEnd, Fetch.op = "branch", AskResolver(Fetch)
  PROVE  Moves
<1>1. \/ \E verdict : Take(Fetch, verdict)
      \/ Fault("condition", At)
      \/ \E outcome : WaitForRead(outcome)
      \/ \E token, retry : Wait(At, token, retry, NoTool)
  BY AskResolverCases DEF DeferUntil, AwaitAgain
<1> QED
  BY <1>1, TakeMoves, FaultStays, ReadStays, WaitStays DEF Moves

LEMMA CompareDirectlyMoves ==
  ASSUME TypeOK, ~AtEnd, Fetch.op = "branch", CompareDirectly(Fetch)
  PROVE  Moves
<1>1. \/ \E outcome : WaitForRead(outcome)
      \/ \E why : Fault(why, At)
      \/ AskResolver(Fetch)
      \/ \E verdict : Take(Fetch, verdict)
  BY DEF CompareDirectly
<1> QED
  BY <1>1, TakeMoves, AskResolverMoves, FaultStays, ReadStays DEF Moves

----------------------------------------------------------------------------
(* What one instruction does: it makes no call, or it calls with the modal *)
(* codes its own code has become part of, and control goes on behind it.   *)

OwnCodes ==
  CASE Fetch.op = "modal" -> [modal EXCEPT ![Fetch.group] = Fetch.value]
    [] Fetch.op = "move" -> Carried
    [] OTHER -> modal

Silent == log' = log /\ (StaysPut \/ JumpsAway) /\ UNCHANGED modal
MovesOn == log' = log /\ Passes /\ (options.attached /\ Live' => modal' = OwnCodes)

IsOwnCall(c) == c.at = At /\ c.modal = OwnCodes
Calls ==
  /\ options.attached /\ Passes /\ (Live' => modal' = OwnCodes)
  /\ \E c : /\ IsOwnCall(c)
            /\ \/ log' = Append(log, c)
               \/ \E e : IsOwnCall(e) /\ e.ev = "emit" /\ log' = log \o <<e, c>>

Effect == Silent \/ MovesOn \/ Calls

LEMMA QuietEffect ==
  ASSUME Quiet, UNCHANGED modal, Moves, Fetch.op \notin {"modal", "move"}
  PROVE  Effect
<1>1. OwnCodes = modal
  BY DEF OwnCodes
<1>2. log' = log
  BY DEF Quiet, environment
<1> QED
  BY <1>1, <1>2 DEF Moves, Effect, Silent, MovesOn

LEMMA ReadEffect ==
  ASSUME NEW outcome, WaitForRead(outcome), UNCHANGED modal
  PROVE  Effect
BY ReadStays DEF WaitForRead, Effect, Silent

LEMMA EmitAndSubmitCalls ==
  ASSUME options.attached, Passes, Live' => modal' = OwnCodes, NEW tool, NEW whole,
         EmitAndSubmit(OwnCodes, tool, whole)
  PROVE  Effect
<1> DEFINE e == Event("emit", OwnCodes, tool, whole)
           c == Event("submit", OwnCodes, tool, whole)
<1>1. IsOwnCall(e) /\ IsOwnCall(c) /\ e.ev = "emit"
  BY DEF IsOwnCall, Event
<1>2. log' = log \o <<e, c>>
  BY DEF EmitAndSubmit
<1> HIDE DEF e, c
<1> QED
  BY <1>1, <1>2 DEF Effect, Calls

LEMMA HandleGotoEffect == ASSUME TypeOK, ~AtEnd, HandleGoto PROVE Effect
<1>1. Moves
  BY FetchType, ItsGotos, JumpMoves DEF HandleGoto
<1> QED
  BY <1>1, QuietEffect DEF HandleGoto, ControlOnly, data

LEMMA HandleBranchEffect == ASSUME TypeOK, ~AtEnd, HandleBranch PROVE Effect
<1>1. Fetch.op = "branch" /\ UNCHANGED modal
  BY DEF HandleBranch, ControlOnly, data
<1>2. Moves
  BY <1>1, AskResolverMoves, CompareDirectlyMoves DEF HandleBranch
<1>3. log' = log
  <2>1. Quiet \/ AskResolver(Fetch) \/ \E outcome : WaitForRead(outcome)
    BY DEF HandleBranch, CompareDirectly
  <2> QED
    BY <2>1, AskResolverCases DEF WaitForRead, DeferUntil, AwaitAgain, Quiet, environment
<1>4. OwnCodes = modal
  BY <1>1 DEF OwnCodes
<1> QED
  BY <1>1, <1>2, <1>3, <1>4 DEF Moves, Effect, Silent, MovesOn

LEMMA HandleAssignEffect == ASSUME HandleAssign PROVE Effect
<1>1. Fetch.op = "assign" /\ UNCHANGED modal
  BY DEF HandleAssign
<1>2. CASE \E outcome : WaitForRead(outcome)
  BY <1>1, <1>2, ReadEffect
<1>3. CASE Quiet /\ ((\E why : Fault(why, At)) \/ Continue(At + 1))
  <2>1. Moves
    BY <1>3, FaultStays, ContinuePasses DEF Continue, Moves
  <2> QED
    BY <1>1, <1>3, <2>1, QuietEffect
<1> QED
  BY <1>2, <1>3 DEF HandleAssign

LEMMA HandleModalEffect == ASSUME HandleModal PROVE Effect
<1> DEFINE c == Event("update", modal', NoTool, TRUE)
<1>1. modal' = OwnCodes
  BY DEF HandleModal, OwnCodes
<1>2. Passes
  BY ContinuePasses DEF HandleModal, Continue
<1>3. IsOwnCall(c)
  BY <1>1 DEF IsOwnCall, Event
<1>4. IF options.attached THEN log' = Append(log, c) ELSE log' = log
  BY DEF HandleModal
<1> HIDE DEF c
<1> QED
  BY <1>1, <1>2, <1>3, <1>4 DEF Effect, MovesOn, Calls

LEMMA DispatchMoveEffect ==
  ASSUME Fetch.op = "move", options.attached, NEW whole, DispatchMove(whole)
  PROVE  Effect
<1>1. OwnCodes = Carried
  BY DEF OwnCodes
<1>2. EmitAndSubmit(OwnCodes, NoTool, whole)
  BY <1>1 DEF DispatchMove
<1>3. Passes
  BY ContinuePasses, WaitPasses, FaultStays DEF DispatchMove, Continue
<1>4. Live' => modal' = OwnCodes
  BY <1>1 DEF DispatchMove, Fault, Live
<1> QED
  BY <1>2, <1>3, <1>4, EmitAndSubmitCalls

LEMMA HandleMoveEffect == ASSUME HandleMove PROVE Effect
<1>1. Fetch.op = "move"
  BY DEF HandleMove
<1>2. CASE ~options.attached /\ Continue(At + 1) /\ Quiet /\ UNCHANGED modal
  BY <1>2, ContinuePasses DEF Continue, Quiet, environment, Effect, MovesOn
<1>3. CASE options.attached /\ \E whole : DispatchMove(whole)
  BY <1>1, <1>3, DispatchMoveEffect
<1>4. CASE UNCHANGED modal /\ \E outcome : WaitForRead(outcome)
  BY <1>4, ReadEffect
<1>5. CASE UNCHANGED modal /\ Quiet /\ \E why : Fault(why, At)
  BY <1>5, FaultStays DEF Quiet, environment, Effect, Silent
<1> QED
  BY <1>2, <1>3, <1>4, <1>5 DEF HandleMove

LEMMA DispatchToolChangeEffect ==
  ASSUME Fetch.op \in {"tool select", "tool change"}, UNCHANGED data,
         NEW t, NEW pendingAtError, NEW warnings, DispatchToolChange(t, pendingAtError, warnings)
  PROVE  Effect
<1>1. OwnCodes = modal /\ UNCHANGED modal
  BY DEF OwnCodes, data
<1>2. Passes
  <2>1. CASE MountedNow(t, warnings)
    BY <2>1, ContinuePasses DEF MountedNow
  <2>2. CASE /\ status' = "Blocked"
             /\ blocked' = [index |-> Afterwards, token |-> issued + 1, retry |-> Never, tool |-> t]
    BY <2>2 DEF Passes, At, Resuming, Afterwards
  <2>3. CASE status' = "Fault"
    BY <2>3 DEF Passes, Live
  <2> QED
    BY <2>1, <2>2, <2>3 DEF DispatchToolChange
<1>3. CASE Quiet
  BY <1>1, <1>2, <1>3, QuietEffect DEF Moves
<1>4. CASE options.attached /\ EmitAndSubmit(modal, t, TRUE)
  BY <1>1, <1>2, <1>4, EmitAndSubmitCalls
<1> QED
  BY <1>3, <1>4 DEF DispatchToolChange

LEMMA HandleToolSelectEffect == ASSUME HandleToolSelect PROVE Effect
<1>1. Fetch.op = "tool select" /\ UNCHANGED data /\ UNCHANGED modal
  BY DEF HandleToolSelect, data
<1>2. CASE \E t, pendingAtError, warnings : DispatchToolChange(t, pendingAtError, warnings)
  BY <1>1, <1>2, DispatchToolChangeEffect
<1>3. CASE Quiet /\ Passes
  BY <1>1, <1>3, QuietEffect DEF Moves
<1> QED
  BY <1>2, <1>3, PolicyPasses, FaultStays, ContinuePasses DEF HandleToolSelect, SelectNow, Continue

LEMMA HandleToolChangeEffect == ASSUME HandleToolChange PROVE Effect
<1>1. Fetch.op = "tool change" /\ UNCHANGED data /\ UNCHANGED modal
  BY DEF HandleToolChange, data
<1>2. CASE \E t, pendingAtError, warnings : DispatchToolChange(t, pendingAtError, warnings)
  BY <1>1, <1>2, DispatchToolChangeEffect
<1>3. CASE Quiet /\ Passes
  BY <1>1, <1>3, QuietEffect DEF Moves
<1> QED
  BY <1>2, <1>3, PolicyPasses DEF HandleToolChange

(* All but calls and returns of subprograms.                               *)
LEMMA AdvanceEffect ==
  ASSUME TypeOK, Advance, ~AtEnd => Fetch.op \notin {"call", "return"}
  PROVE  Effect
<1>1. CASE AtEnd /\ Completes
  BY <1>1 DEF Completes, ControlOnly, Quiet, environment, data, Effect, Silent, StaysPut, Live
<1>2. CASE HandleLabel \/ HandleMCode
  <2>1. Fetch.op \in {"label", "mcode"} /\ Quiet /\ UNCHANGED modal
    BY <1>2 DEF HandleLabel, HandleMCode, ControlOnly, data
  <2>2. Passes
    BY <1>2, ContinuePasses, PolicyPasses DEF HandleLabel, HandleMCode, Continue
  <2> QED
    BY <2>1, <2>2, QuietEffect DEF Moves
<1>3. ~AtEnd => ~HandleCall /\ ~HandleReturn
  BY DEF HandleCall, HandleReturn
<1> QED
  BY <1>1, <1>2, <1>3, HandleGotoEffect, HandleBranchEffect, HandleAssignEffect, HandleModalEffect,
     HandleMoveEffect, HandleToolSelectEffect, HandleToolChangeEffect DEF Advance

----------------------------------------------------------------------------
(* Program order.                                                          *)

InOrder ==
  \A i, j \in DOMAIN log :
    i < j => log[i].at < log[j].at \/ (log[i].ev = "emit" /\ j = i + 1)

CallsBehind == \A i \in DOMAIN log : log[i].at < At

OrderInv == ForwardOnly => InOrder /\ (Live => CallsBehind)

(* A program that cannot go back does not go back.                         *)
LEMMA GoesForward ==
  ASSUME TypeOK, ForwardOnly, Moves, Live'
  PROVE  At' \in Nat /\ At' >= At
<1>1. At \in Nat
  BY WokenTypes
<1>2. CASE StaysPut \/ Passes
  BY <1>1, <1>2 DEF StaysPut, Passes
<1>3. CASE JumpsAway
  <2>1. At \in DOMAIN instructions
    BY <1>3 DEF JumpsAway
  <2>2. PICK g \in GotosOf(At) : At' \in Searched(g)
    BY <1>3 DEF JumpsAway
  <2>3. At' \in Candidates(g) /\ (g.opcode = "GOTOF" => At' > At)
    BY <2>2 DEF Searched, Ahead, Behind
  <2>4. At' > At
    BY <2>1, <2>2, <2>3 DEF ForwardOnly
  <2>5. At' \in Nat
    BY <2>3 DEF Candidates, TypeOK, ProgramOK
  <2> QED
    BY <1>1, <2>4, <2>5
<1> QED
  BY <1>2, <1>3 DEF Moves

LEMMA StepKeepsOrder ==
  ASSUME TypeOK, OrderInv, NEW now, Step(now)
  PROVE  OrderInv'
<1> SUFFICES ASSUME ForwardOnly' PROVE InOrder' /\ (Live' => CallsBehind')
  BY DEF OrderInv
<1>1. ForwardOnly /\ Live /\ Advance
  <2>1. instructions' = instructions
    BY DEF Step, program
  <2> QED
    BY <2>1 DEF ForwardOnly, GotosOf, Candidates, Step
<1>2. InOrder /\ CallsBehind
  BY <1>1 DEF OrderInv
<1>3. Effect
  <2>1. ~AtEnd => Fetch.op \notin {"call", "return"}
    BY <1>1, FetchType DEF ForwardOnly, Fetch
  <2> QED
    BY <1>1, <2>1, AdvanceEffect
<1>4. At \in Nat /\ log \in Seq(Call)
  BY WokenTypes DEF TypeOK, EnvironmentOK
<1>5. \A i \in DOMAIN log : log[i].at \in Nat
  <2>1. \A i \in DOMAIN log : log[i] \in Call
    BY <1>4
  <2> QED
    BY <2>1 DEF Call
<1>6. CASE log' = log /\ Moves
  <2>1. InOrder'
    BY <1>2, <1>6 DEF InOrder
  <2>2. ASSUME Live' PROVE CallsBehind'
    <3>1. At' \in Nat /\ At' >= At
      BY <1>1, <1>6, <2>2, GoesForward
    <3> QED
      BY <1>2, <1>4, <1>5, <1>6, <3>1 DEF CallsBehind
  <2> QED
    BY <2>1, <2>2
<1>7. CASE Calls
  <2>1. Live' => At' = At + 1
    BY <1>7 DEF Calls, Passes
  <2>2. ASSUME NEW c, IsOwnCall(c), log' = Append(log, c) PROVE InOrder' /\ (Live' => CallsBehind')
    <3>1. DOMAIN log' = 1 .. Len(log) + 1 /\ log'[Len(log) + 1].at = At
      BY <1>4, <2>2 DEF IsOwnCall
    <3>2. \A i \in 1 .. Len(log) : log'[i] = log[i] /\ log[i].at < At
      BY <1>2, <1>4, <2>2 DEF CallsBehind
    <3>3. \A i \in DOMAIN log' : i \in 1 .. Len(log) \/ i = Len(log) + 1
      BY <1>4, <3>1
    <3>4. InOrder'
      BY <1>2, <1>4, <3>1, <3>2, <3>3 DEF InOrder
    <3>5. \A i \in DOMAIN log' : log'[i].at < At + 1
      BY <1>4, <1>5, <3>1, <3>2, <3>3
    <3> QED
      BY <2>1, <3>4, <3>5 DEF CallsBehind
  <2>3. ASSUME NEW e, NEW c, IsOwnCall(e), IsOwnCall(c), e.ev = "emit", log' = log \o <<e, c>>
        PROVE  InOrder' /\ (Live' => CallsBehind')
    <3> DEFINE n == Len(log)
    <3>1. n \in Nat /\ DOMAIN log = 1 .. n /\ DOMAIN log' = 1 .. n + 2
      BY <1>4, <2>3
    <3>2. log'[n + 1] = e /\ log'[n + 2] = c
      BY <1>4, <2>3
    <3>3. \A i \in 1 .. n : log'[i] = log[i] /\ log[i].at < At
      BY <1>2, <1>4, <2>3, <3>1 DEF CallsBehind
    <3>4. e.at = At /\ c.at = At
      BY <2>3 DEF IsOwnCall
    <3> HIDE DEF n
    <3>5. \A i \in DOMAIN log' : i \in 1 .. n \/ i = n + 1 \/ i = n + 2
      BY <3>1
    <3>6. InOrder'
      <4> SUFFICES ASSUME NEW i \in DOMAIN log', NEW j \in DOMAIN log', i < j
                   PROVE  log'[i].at < log'[j].at \/ (log'[i].ev = "emit" /\ j = i + 1)
        BY DEF InOrder
      <4>1. CASE i \in 1 .. n /\ j \in 1 .. n
        BY <1>2, <3>1, <3>3, <4>1 DEF InOrder
      <4>2. CASE i \in 1 .. n /\ j \in {n + 1, n + 2}
        <5>1. log'[j] = e \/ log'[j] = c
          BY <3>2, <4>2
        <5>2. log'[j].at = At
          BY <3>4, <5>1
        <5> QED
          BY <3>3, <4>2, <5>2
      <4>3. CASE i = n + 1 /\ j = n + 2
        <5>1. log'[i].ev = "emit"
          BY <2>3, <3>2, <4>3
        <5>2. j = i + 1
          BY ONLY <3>1, <4>3
        <5> QED
          BY <5>1, <5>2
      <4>4. (i \in 1 .. n /\ (j \in 1 .. n \/ j \in {n + 1, n + 2})) \/ (i = n + 1 /\ j = n + 2)
        <5>1. i \in 1 .. n \/ i = n + 1 \/ i = n + 2
          BY <3>5
        <5>2. j \in 1 .. n \/ j = n + 1 \/ j = n + 2
          BY <3>5
        <5>3. i < j
          OBVIOUS
        <5> QED
          BY ONLY <3>1, <5>1, <5>2, <5>3
      <4> QED
        BY <4>1, <4>2, <4>3, <4>4
    <3>7. \A i \in DOMAIN log' : log'[i].at < At + 1
      BY <1>4, <1>5, <3>1, <3>2, <3>3, <3>4, <3>5
    <3> QED
      BY <2>1, <3>6, <3>7 DEF CallsBehind
  <2> QED
    BY <1>7, <2>2, <2>3 DEF Calls
<1> QED
  BY <1>3, <1>6, <1>7 DEF Effect, Silent, MovesOn, Moves

LEMMA IdleKeepsOrder ==
  ASSUME OrderInv, UNCHANGED <<program, control, log>>
  PROVE  OrderInv'
BY DEF OrderInv, program, control, ForwardOnly, GotosOf, Candidates, InOrder, CallsBehind, Live,
   At, Resuming

(* A program that cannot go back shows and submits in program order and    *)
(* each instruction once, whatever waits, answers and conditions come in   *)
(* between: what was submitted before a wait is not submitted after it.    *)
THEOREM ProgramOrderKept == Spec => []InProgramOrder
<1>1. Init => OrderInv
  BY DEF Init, OrderInv, InOrder, CallsBehind
<1>2. TypeOK /\ OrderInv /\ [Next]_vars => OrderInv'
  <2> SUFFICES ASSUME TypeOK, OrderInv, [Next]_vars PROVE OrderInv'
    OBVIOUS
  <2>1. (\E now \in Time : Step(now)) \/ UNCHANGED <<program, control, log>>
    BY DEF Next, Notify, Done, vars, environment
  <2> QED
    BY <2>1, StepKeepsOrder, IdleKeepsOrder
<1>3. OrderInv => InProgramOrder
  BY DEF OrderInv, InOrder, InProgramOrder
<1> QED
  BY <1>1, <1>2, <1>3, TypeCorrect, PTL DEF Spec

----------------------------------------------------------------------------
(* Modal codes.                                                            *)

Setters(n, g) == {i \in 1 .. n : Sets(i, g)}

(* The codes behind the first n instructions.                              *)
CodesAt(codes, n) ==
  \A g \in ModalGroup :
    \/ Setters(n, g) = {} /\ codes[g] = InitialModal[g]
    \/ \E i \in Setters(n, g) :
         (\A j \in Setters(n, g) : j <= i) /\ codes[g] = SetTo(i)

CallsCarry == \A k \in DOMAIN log : CodesAt(log[k].modal, log[k].at)

ModalInv ==
  StraightLine => CallsCarry /\ (options.attached /\ Live => CodesAt(modal, At - 1))

(* One instruction more.                                                   *)
LEMMA OneMoreCode ==
  ASSUME TypeOK, ~AtEnd, CodesAt(modal, At - 1)
  PROVE  CodesAt(OwnCodes, At)
<1>1. At \in Nat \ {0} /\ Fetch \in Instruction /\ Fetch = instructions[At]
  BY WokenTypes, FetchType DEF Fetch
<1> SUFFICES ASSUME NEW g \in ModalGroup
             PROVE  \/ Setters(At, g) = {} /\ OwnCodes[g] = InitialModal[g]
                    \/ \E i \in Setters(At, g) :
                         (\A j \in Setters(At, g) : j <= i) /\ OwnCodes[g] = SetTo(i)
  BY DEF CodesAt
<1>2. modal \in [ModalGroup -> ModalValue]
  BY DEF TypeOK, DataOK
<1>3. CASE Sets(At, g)
  <2>1. At \in Setters(At, g) /\ \A j \in Setters(At, g) : j <= At
    BY <1>1, <1>3 DEF Setters
  <2>2. CASE Fetch.op = "modal" /\ Fetch.group = g
    <3>1. OwnCodes = [modal EXCEPT ![g] = Fetch.value]
      BY <2>2 DEF OwnCodes
    <3>2. SetTo(At) = Fetch.value
      BY <1>1, <2>2 DEF SetTo
    <3> QED
      BY <1>2, <2>1, <3>1, <3>2
  <2>3. CASE Fetch.op = "move" /\ g = "motion" /\ Fetch.motion # "none"
    <3>1. OwnCodes = [modal EXCEPT !["motion"] = Fetch.motion]
      BY <2>3 DEF OwnCodes, Carried
    <3>2. SetTo(At) = Fetch.motion
      BY <1>1, <2>3 DEF SetTo
    <3> QED
      BY <1>2, <2>1, <2>3, <3>1, <3>2
  <2> QED
    BY <1>1, <1>3, <2>2, <2>3 DEF Sets
<1>4. CASE ~Sets(At, g)
  <2>1. Setters(At, g) = Setters(At - 1, g)
    BY <1>1, <1>4 DEF Setters
  <2>2. OwnCodes[g] = modal[g]
    <3>1. CASE Fetch.op = "modal"
      BY <1>1, <1>2, <1>4, <3>1 DEF OwnCodes, Sets
    <3>2. CASE Fetch.op = "move"
      <4>1. OwnCodes = Carried
        BY <3>2 DEF OwnCodes
      <4>2. Fetch.motion = "none" \/ g # "motion"
        BY <1>1, <1>4, <3>2 DEF Sets
      <4> QED
        BY <1>2, <4>1, <4>2 DEF Carried
    <3> QED
      BY <3>1, <3>2 DEF OwnCodes
  <2> QED
    BY <2>1, <2>2 DEF CodesAt
<1> QED
  BY <1>3, <1>4

LEMMA StepKeepsModal ==
  ASSUME TypeOK, ModalInv, NEW now, Step(now)
  PROVE  ModalInv'
<1>1. UNCHANGED <<instructions, options>> /\ Live /\ Advance
  BY DEF Step, program
<1>2. ASSUME NEW codes, NEW n, CodesAt(codes, n) PROVE CodesAt(codes, n)'
  BY <1>1, <1>2 DEF CodesAt, Setters, Sets, SetTo
<1> SUFFICES ASSUME StraightLine
             PROVE  CallsCarry' /\ ((options.attached /\ Live)' => CodesAt(modal, At - 1)')
  BY <1>1 DEF ModalInv, StraightLine
<1>3. CallsCarry /\ (options.attached => CodesAt(modal, At - 1))
  BY <1>1 DEF ModalInv
<1>4. Effect /\ ~JumpsAway
  <2>1. ~AtEnd => Fetch.op \notin {"call", "return"}
    BY FetchType DEF StraightLine, Fetch
  <2>2. At \in DOMAIN instructions => GotosOf(At) = {}
    BY DEF StraightLine, GotosOf
  <2> QED
    BY <1>1, <2>1, <2>2, AdvanceEffect DEF JumpsAway
<1>5. At \in Nat \ {0} /\ log \in Seq(Call)
  BY WokenTypes DEF TypeOK, EnvironmentOK
<1>6. CASE Silent
  <2>1. log' = log /\ modal' = modal /\ (Live' => At' = At)
    BY <1>4, <1>6 DEF Silent, StaysPut
  <2>2. CallsCarry'
    BY <1>1, <1>3, <2>1 DEF CallsCarry, CodesAt, Setters, Sets, SetTo
  <2>3. (options.attached /\ Live)' => CodesAt(modal, At - 1)'
    BY <1>1, <1>3, <2>1 DEF CodesAt, Setters, Sets, SetTo
  <2> QED
    BY <2>2, <2>3
<1>7. CASE (MovesOn \/ Calls) /\ ~(options.attached /\ ~AtEnd)
  <2>1. log' = log /\ ~(options.attached /\ Live)'
    BY <1>1, <1>7 DEF MovesOn, Calls, Advance, Completes, Quiet, environment, Live
  <2> QED
    BY <1>1, <1>3, <2>1 DEF CallsCarry, CodesAt, Setters, Sets, SetTo
<1>8. CASE (MovesOn \/ Calls) /\ options.attached /\ ~AtEnd
  <2>1. CodesAt(OwnCodes, At)
    BY <1>3, <1>8, OneMoreCode
  <2>2. Live' => At' = At + 1 /\ modal' = OwnCodes
    BY <1>8 DEF MovesOn, Calls, Passes
  <2>3. (options.attached /\ Live)' => CodesAt(modal, At - 1)'
    <3>1. ASSUME Live' PROVE At' - 1 = At /\ modal' = OwnCodes
      BY <1>5, <2>2, <3>1
    <3>2. ASSUME Live' PROVE CodesAt(modal, At - 1)'
      BY <1>1, <2>1, <3>1, <3>2 DEF CodesAt, Setters, Sets, SetTo
    <3> QED
      BY <3>2
  <2>4. \A k \in DOMAIN log' : CodesAt(log'[k].modal, log'[k].at)
    <3>1. ASSUME NEW c, IsOwnCall(c) PROVE CodesAt(c.modal, c.at)
      BY <2>1, <3>1 DEF IsOwnCall
    <3>2. CASE log' = log
      BY <1>3, <3>2 DEF CallsCarry
    <3>3. ASSUME NEW c, IsOwnCall(c), log' = Append(log, c)
          PROVE  \A k \in DOMAIN log' : log'[k] = c \/ \E i \in DOMAIN log : log'[k] = log[i]
      BY <1>5, <3>3
    <3>4. ASSUME NEW e, NEW c, log' = log \o <<e, c>>
          PROVE  \A k \in DOMAIN log' :
                   log'[k] = e \/ log'[k] = c \/ \E i \in DOMAIN log : log'[k] = log[i]
      BY <1>5, <3>4
    <3>5. CASE Calls
      <4>1. ASSUME NEW c, IsOwnCall(c), log' = Append(log, c)
            PROVE  \A k \in DOMAIN log' : CodesAt(log'[k].modal, log'[k].at)
        BY <1>3, <3>1, <3>3, <4>1 DEF CallsCarry
      <4>2. ASSUME NEW e, NEW c, IsOwnCall(e), IsOwnCall(c), log' = log \o <<e, c>>
            PROVE  \A k \in DOMAIN log' : CodesAt(log'[k].modal, log'[k].at)
        BY <1>3, <3>1, <3>4, <4>2 DEF CallsCarry
      <4> QED
        BY <3>5, <4>1, <4>2 DEF Calls
    <3> QED
      BY <1>8, <3>2, <3>5 DEF MovesOn
  <2>5. CallsCarry'
    BY <1>1, <2>4 DEF CallsCarry, CodesAt, Setters, Sets, SetTo
  <2> QED
    BY <2>3, <2>5
<1> QED
  BY <1>4, <1>6, <1>7, <1>8 DEF Effect

LEMMA IdleKeepsModal ==
  ASSUME ModalInv, UNCHANGED <<program, control, data, log>>
  PROVE  ModalInv'
<1>1. UNCHANGED <<instructions, options, status, pc, blocked, modal, log>>
  BY DEF program, control, data
<1> QED
  BY <1>1 DEF ModalInv, StraightLine, CallsCarry, CodesAt, Setters, Sets, SetTo, Live, At, Resuming

(* In a program without jumps every call carries, for each modal group,    *)
(* the code last programmed up to its own instruction, whatever the groups *)
(* are and whatever runs, waits and fails in between.                      *)
THEOREM ModalCodesCarried == Spec => []CarriesProgrammedModal
<1>1. Init => ModalInv
  <2> SUFFICES ASSUME Init PROVE ModalInv
    OBVIOUS
  <2>1. At = 1 /\ log = <<>> /\ modal = InitialModal
    BY DEF Init, At, Resuming
  <2>2. \A g : Setters(0, g) = {}
    BY DEF Setters
  <2>3. At - 1 = 0
    BY <2>1
  <2>4. CodesAt(modal, At - 1)
    BY <2>1, <2>2, <2>3 DEF CodesAt
  <2> QED
    BY <2>1, <2>4 DEF ModalInv, CallsCarry
<1>2. TypeOK /\ ModalInv /\ [Next]_vars => ModalInv'
  <2> SUFFICES ASSUME TypeOK, ModalInv, [Next]_vars PROVE ModalInv'
    OBVIOUS
  <2>1. (\E now \in Time : Step(now)) \/ UNCHANGED <<program, control, data, log>>
    BY DEF Next, Notify, Done, vars, environment
  <2> QED
    BY <2>1, StepKeepsModal, IdleKeepsModal
<1>3. ModalInv => CarriesProgrammedModal
  BY DEF ModalInv, CallsCarry, CodesAt, Setters, CarriesProgrammedModal
<1> QED
  BY <1>1, <1>2, <1>3, TypeCorrect, PTL DEF Spec
=============================================================================
