------------------------------- MODULE Loops -------------------------------
(* A loop over the numbers 1 .. n, as a recursive function.  The bound     *)
(* variable "before" makes TLC compute the result of each round once.      *)
EXTENDS Integers

Loop(round(_, _), start, n) ==
  LET after[k \in 0 .. n] ==
        IF k = 0 THEN start
        ELSE CHOOSE next \in {round(before, k) : before \in {after[k - 1]}} : TRUE
  IN after[n]
=============================================================================
