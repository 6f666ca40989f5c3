---------------------------- MODULE LoopTheorems ----------------------------
(***************************************************************************)
(* What is known of a loop without running it: what it starts with and     *)
(* what one more round does, whatever the rounds are.  A module that wants *)
(* to know it of one of its loops instantiates this one; input is what the *)
(* loop runs over.                                                         *)
(*                                                                         *)
(* The function that a recursive definition chooses has to be shown to     *)
(* exist, by induction on the number of rounds.  The induction rules of    *)
(* the library are about operators; here the rule is about a set, whose    *)
(* least missing number would be the successor of one that it has.         *)
(***************************************************************************)
EXTENDS Loops, TLAPS, WellFoundedInduction

CONSTANTS Round(_, _, _), First(_)

After(input, n) == Loop(LAMBDA r, k : Round(input, r, k), First(input), n)

(* Induction on the natural numbers: a set with zero and the successor of  *)
(* each number in it has them all.                                         *)
LEMMA SetInduction ==
  ASSUME NEW S, 0 \in S, \A n \in Nat : n \in S => n + 1 \in S
  PROVE  Nat \subseteq S
<1> DEFINE below == OpToRel(<, Nat)
           missing == Nat \ S
<1>1. SUFFICES ASSUME missing # {} PROVE FALSE
  OBVIOUS
<1>2. PICK least \in missing : \A n \in missing : <<n, least>> \notin below
  <2>1. IsWellFoundedOn(below, Nat)
    BY NatLessThanWellFounded
  <2>2. missing \subseteq Nat
    OBVIOUS
  <2>3. QED
    <3> HIDE DEF below, missing
    <3>1. QED
      BY <1>1, <2>1, <2>2, WFMin
<1>3. least # 0 /\ least - 1 \in Nat /\ least = (least - 1) + 1
  OBVIOUS
<1>4. least - 1 \in missing
  BY <1>3
<1>5. <<least - 1, least>> \in below
  BY <1>3 DEF OpToRel
<1>6. QED
  BY <1>2, <1>4, <1>5

----------------------------------------------------------------------------
(* h holds the results of n rounds.                                        *)
Rounds(input, h, n) ==
  h = [k \in 0 .. n |-> IF k = 0 THEN First(input) ELSE Round(input, h[k - 1], k)]

(* For every number of rounds there is a function that records them.       *)
LEMMA RoundsExist == \A input : \A n \in Nat : \E h : Rounds(input, h, n)
<1> TAKE input
<1> DEFINE S == {n \in Nat : \E h : Rounds(input, h, n)}
<1>1. 0 \in S
  <2>1. Rounds(input, [k \in 0 .. 0 |-> First(input)], 0)
    BY DEF Rounds
  <2>2. QED
    BY <2>1
<1>2. ASSUME NEW n \in Nat, n \in S
      PROVE  n + 1 \in S
  <2>1. PICK h : Rounds(input, h, n)
    BY <1>2
  <2> DEFINE g == [k \in 0 .. n + 1 |->
                     IF k = n + 1 THEN Round(input, h[n], n + 1) ELSE h[k]]
  <2>2. ASSUME NEW k \in 0 .. n + 1
        PROVE  g[k] = IF k = 0 THEN First(input) ELSE Round(input, g[k - 1], k)
    BY <2>1 DEF Rounds
  <2>3. Rounds(input, g, n + 1)
    BY <2>2 DEF Rounds
  <2>4. QED
    BY <2>3
<1>3. QED
  <2> HIDE DEF S
  <2>1. Nat \subseteq S
    BY <1>1, <1>2, SetInduction
  <2>2. QED
    BY <2>1 DEF S

(* Two such functions agree on the rounds they share.                      *)
LEMMA RoundsAgree ==
  \A input, g, h : \A n \in Nat :
    Rounds(input, g, n) /\ Rounds(input, h, n + 1) => g[n] = h[n]
<1> TAKE input, g, h
<1> TAKE n \in Nat
<1> SUFFICES ASSUME Rounds(input, g, n), Rounds(input, h, n + 1)
             PROVE  g[n] = h[n]
  OBVIOUS
<1> DEFINE S == {k \in Nat : k <= n => g[k] = h[k]}
<1>1. 0 \in S
  BY DEF Rounds
<1>2. ASSUME NEW k \in Nat, k \in S
      PROVE  k + 1 \in S
  <2>1. SUFFICES ASSUME k + 1 <= n PROVE g[k + 1] = h[k + 1]
    OBVIOUS
  <2>2. g[k] = h[k]
    BY <1>2, <2>1
  <2>3. g[k + 1] = Round(input, g[k], k + 1)
    BY <2>1 DEF Rounds
  <2>4. h[k + 1] = Round(input, h[k], k + 1)
    BY <2>1 DEF Rounds
  <2>5. QED
    BY <2>2, <2>3, <2>4
<1>3. QED
  <2> HIDE DEF S
  <2>1. Nat \subseteq S
    BY <1>1, <1>2, SetInduction
  <2>2. n \in S
    BY <2>1
  <2>3. QED
    BY <2>2 DEF S

(* The bound variable of Loop is no more than a name.                      *)
LEMMA OnlyNext ==
  \A input, before, k :
    (CHOOSE next \in {Round(input, r, k) : r \in {before}} : TRUE) = Round(input, before, k)
<1> TAKE input, before, k
<1>1. {Round(input, r, k) : r \in {before}} = {Round(input, before, k)}
  OBVIOUS
<1>2. \A v : (CHOOSE next \in {v} : TRUE) = v
  OBVIOUS
<1>3. QED
  BY <1>1, <1>2

(* So the function that Loop chooses is one of them.                       *)
LEMMA AfterRounds == \A input : \A n \in Nat : \E h : Rounds(input, h, n) /\ After(input, n) = h[n]
<1> TAKE input
<1> TAKE n \in Nat
<1> DEFINE body(h) ==
      [k \in 0 .. n |->
         IF k = 0 THEN First(input)
         ELSE CHOOSE next \in {Round(input, before, k) : before \in {h[k - 1]}} : TRUE]
    chosen == CHOOSE h : h = body(h)
<1>1. ASSUME NEW h
      PROVE  h = body(h) <=> Rounds(input, h, n)
  BY OnlyNext DEF Rounds
<1>2. Rounds(input, chosen, n)
  <2> HIDE DEF body
  <2>1. PICK h : Rounds(input, h, n)
    BY RoundsExist
  <2>2. h = body(h)
    BY <1>1, <2>1
  <2>3. chosen = body(chosen)
    BY <2>2
  <2>4. QED
    <3> HIDE DEF chosen
    <3>1. QED
      BY <1>1, <2>3
<1>3. After(input, n) = chosen[n]
  BY DEF After, Loop
<1>4. QED
  BY <1>2, <1>3

----------------------------------------------------------------------------
(* The theorems a module takes from here.                                  *)

(* After no round a loop is where it starts.                               *)
THEOREM LoopStarts == \A input : After(input, 0) = First(input)
<1> TAKE input
<1>1. PICK h : Rounds(input, h, 0) /\ After(input, 0) = h[0]
  BY AfterRounds
<1>2. QED
  BY <1>1 DEF Rounds

(* The round n + 1 works on what the n rounds before it have left behind.  *)
THEOREM LoopSteps ==
  \A input : \A n \in Nat : After(input, n + 1) = Round(input, After(input, n), n + 1)
<1> TAKE input
<1> TAKE n \in Nat
<1>1. PICK g : Rounds(input, g, n) /\ After(input, n) = g[n]
  BY AfterRounds
<1>2. PICK h : Rounds(input, h, n + 1) /\ After(input, n + 1) = h[n + 1]
  BY AfterRounds
<1>3. g[n] = h[n]
  BY <1>1, <1>2, RoundsAgree
<1>4. h[n + 1] = Round(input, h[n], n + 1)
  BY <1>2 DEF Rounds
<1>5. QED
  BY <1>1, <1>2, <1>3, <1>4
=============================================================================
