----------------------------- MODULE ProgramRun -----------------------------
(***************************************************************************)
(* What a client that streams a program is promised, with no word about    *)
(* chunks, lines that are buffered, executors or calls of pump: the        *)
(* commands of the program go to the runtime one at a time and in order,   *)
(* none while the runtime still works on the one before, all of them       *)
(* before the end or before the line that is rejected, and none after it.  *)
(* A program with jumps may go from any command to any other.              *)
(***************************************************************************)
EXTENDS Integers, Sequences

CONSTANT NoBadLine  \* the program has no line that is rejected

VARIABLES
  commands,   \* the lines of the program's commands, up to the bad line
  badLine,    \* the first line that cannot be lowered
  hasJumps,
  submitted,  \* the lines of the commands the runtime was given
  working,    \* the tokens the runtime works on
  issued,     \* how many there were
  verdict     \* <<"running">>, or how the run has ended

theProgram == <<commands, badLine, hasJumps>>
runVars == <<theProgram, submitted, working, issued, verdict>>

RunInit ==
  /\ commands \in Seq(Nat) /\ badLine \in Nat \cup {NoBadLine} /\ hasJumps \in BOOLEAN
  /\ submitted = <<>> /\ working = {} /\ issued = 0 /\ verdict = <<"running">>

MayAsk == verdict = <<"running">> /\ working = {}

(* The runtime answers at once, or with a new token.                       *)
Answered == UNCHANGED <<working, issued>>
Awaited == issued' = issued + 1 /\ working' = {issued + 1}

SubmitNext ==
  /\ MayAsk
  /\ \E k \in DOMAIN commands :
       /\ hasJumps \/ k = Len(submitted) + 1
       /\ submitted' = Append(submitted, commands[k])
  /\ \/ Answered /\ verdict' \in {<<"running">>, <<"Faulted">>}  \* also: refused
     \/ Awaited /\ UNCHANGED verdict
  /\ UNCHANGED theProgram

(* A value is read from the runtime.                                       *)
AskValue ==
  MayAsk /\ Awaited /\ UNCHANGED <<theProgram, submitted, verdict>>

RuntimeIsDone ==
  /\ \E t \in working : working' = working \ {t}
  /\ UNCHANGED <<theProgram, submitted, issued, verdict>>

AllSubmitted == hasJumps \/ submitted = commands

ReachesEnd ==
  /\ MayAsk /\ AllSubmitted
  /\ verdict' = IF badLine = NoBadLine THEN <<"Completed">> ELSE <<"Rejected", badLine>>
  /\ UNCHANGED <<theProgram, submitted, working, issued>>

IsCancelled ==
  /\ verdict' = <<"Cancelled">> /\ working' \in {working, {}}
  /\ UNCHANGED <<theProgram, submitted, issued>>

(* The program is at fault, or the client has made a call out of turn.     *)
IsFaulted == verdict' = <<"Faulted">> /\ UNCHANGED <<theProgram, submitted, working, issued>>

RunNext ==
  SubmitNext \/ AskValue \/ RuntimeIsDone \/ ReachesEnd \/ IsCancelled \/ IsFaulted

RunSpec == RunInit /\ [][RunNext]_runVars
=============================================================================
