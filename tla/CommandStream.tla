--------------------------- MODULE CommandStream ---------------------------
(***************************************************************************)
(* What sink and runtime are promised of one program: they are called only *)
(* while the runtime works on nothing; the sink is shown every command     *)
(* right before the runtime is given it; a command, or a value asked for,  *)
(* that takes time has a token of its own; after the end there are no more *)
(* calls.  A condition may also be put off until an event or a time: its   *)
(* token holds nothing up, unless the event is then waited for after all.  *)
(***************************************************************************)
EXTENDS Integers, Sequences

VARIABLES
  calls,    \* on sink and runtime, in order
  working,  \* the tokens the runtime works on
  issued,   \* how many tokens there were
  over

streamVars == <<calls, working, issued, over>>

StreamInit == calls = <<>> /\ working = {} /\ issued = 0 /\ over = FALSE

Latest == calls'[Len(calls')]
NoCall == calls' = calls
Update == Latest.ev = "update" /\ calls' = Append(calls, Latest)
Command ==
  Latest.ev = "submit" /\ calls' = calls \o <<[Latest EXCEPT !.ev = "emit"], Latest>>

AnsweredAtOnce == UNCHANGED <<working, issued>>
AnsweredLater == issued' = issued + 1 /\ working' = {issued + 1} /\ over' = FALSE
PutOff == NoCall /\ issued' = issued + 1 /\ UNCHANGED <<working, over>>
WaitsAfterAll == NoCall /\ (\E t \in 1 .. issued : working' = {t}) /\ UNCHANGED <<issued, over>>

Proceed ==
  /\ ~over /\ working = {}
  /\ \/ /\ over' \in BOOLEAN /\ (NoCall \/ Update \/ Command)
        /\ AnsweredAtOnce \/ AnsweredLater
     \/ PutOff
     \/ WaitsAfterAll

Complete ==
  /\ \E t \in working : working' = working \ {t}
  /\ UNCHANGED <<calls, issued, over>>

StreamNext == Proceed \/ Complete

StreamSpec == StreamInit /\ [][StreamNext]_streamVars
=============================================================================
