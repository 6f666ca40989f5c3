---------------------- MODULE StructuredLoweringProofs ----------------------
(***************************************************************************)
(* The labels lowering makes up for IF blocks are sound in every text, as  *)
(* long as the text itself uses none of their names: no such label is      *)
(* defined twice, and every jump to one finds it further on or is a jump   *)
(* to the end of a block still open.                                       *)
(*                                                                         *)
(* LabelsSound alone is not inductive.  It needs to know that labels carry *)
(* numbers no higher than the counter, so that the next one is new; that   *)
(* the ends of the open blocks differ and are not defined yet; and that an *)
(* open block remembers where its branch is.                               *)
(*                                                                         *)
(* The second half is about every text, whatever its labels are called:    *)
(* the types of a lowering under way, and the plane of an arc, which the   *)
(* loop over words and the loop of message lowering compute each for       *)
(* itself.  That they agree at each line is an invariant of the loop over  *)
(* lines; what message lowering does at that line is LineOutcome.          *)
(*                                                                         *)
(* Then, for every text too, two results of lowering it as a whole: each   *)
(* word that stands for an instruction is lowered to one, and an IF, ELSE  *)
(* or ENDIF without its counterpart is reported.  The first counts the     *)
(* instructions of a line by kind; the second relates the open blocks to   *)
(* the levels of the lines read so far.                                    *)
(***************************************************************************)
EXTENDS StructuredLowering, MessageLoweringProofs

InternalLabel == {"IF_THEN", "IF_END", "IF_ELSE"} \X Nat

(* A text uses none of the names __CF_IF_THEN_1 and so on.                 *)
NamesApart == \A name \in Letters \cup LongHeads : name \notin InternalLabel

----------------------------------------------------------------------------
(* The invariant, of any result r of lowering.                             *)

IsLabel(ins, label) == ins.op = "label" /\ ins.name = label

JumpsFrom(ins) ==
  CASE ins.op = "goto" -> {ins.to}
    [] ins.op = "branch" -> {ins.then, ins.else} \ {NoGoto}
    [] OTHER -> {}

IsInternal(jump) == jump.kind = "label" /\ jump.target \in InternalLabel

HasShape(r) ==
  /\ {"instructions", "diagnostics", "ifs", "labels", "plane", "rapid"} \subseteq DOMAIN r
  /\ IsSeq(r.instructions) /\ IsSeq(r.ifs) /\ r.labels \in Nat

OpenBlocksSound(r) ==
  \A i \in DOMAIN r.ifs :
    /\ {"branch", "end", "hasElse"} \subseteq DOMAIN r.ifs[i]
    /\ r.ifs[i].branch \in DOMAIN r.instructions
    /\ {"op", "then", "else"} \subseteq DOMAIN r.instructions[r.ifs[i].branch]
    /\ r.instructions[r.ifs[i].branch].op = "branch"

LabelsCounted(r) ==
  /\ \A d \in DOMAIN r.instructions, label \in InternalLabel :
       IsLabel(r.instructions[d], label) => label[2] <= r.labels
  /\ \A i \in DOMAIN r.ifs : r.ifs[i].end \in InternalLabel /\ r.ifs[i].end[2] <= r.labels

DefinedOnce(r) ==
  \A label \in InternalLabel : \A d, e \in DOMAIN r.instructions :
    IsLabel(r.instructions[d], label) /\ IsLabel(r.instructions[e], label) => d = e

EndsApart(r) ==
  /\ \A i, j \in DOMAIN r.ifs : r.ifs[i].end = r.ifs[j].end => i = j
  /\ \A i \in DOMAIN r.ifs, d \in DOMAIN r.instructions :
       ~IsLabel(r.instructions[d], r.ifs[i].end)

Finds(r, i, label) ==
  \/ \E j \in DOMAIN r.ifs : r.ifs[j].end = label
  \/ \E d \in DOMAIN r.instructions : d > i /\ IsLabel(r.instructions[d], label)

JumpsFind(r) ==
  \A i \in DOMAIN r.instructions : \A jump \in JumpsFrom(r.instructions[i]) :
    IsInternal(jump) => Finds(r, i, jump.target)

LoweringInv(r) ==
  /\ HasShape(r) /\ OpenBlocksSound(r) /\ LabelsCounted(r)
  /\ DefinedOnce(r) /\ EndsApart(r) /\ JumpsFind(r)

(* A result that differs in other fields only.                             *)
SameLabels(r, s) ==
  /\ {"instructions", "diagnostics", "ifs", "labels", "plane", "rapid"} \subseteq DOMAIN s
  /\ s.instructions = r.instructions /\ s.ifs = r.ifs /\ s.labels = r.labels

LEMMA OtherFields ==
  ASSUME NEW r, NEW s, LoweringInv(r), SameLabels(r, s)
  PROVE  LoweringInv(s)
BY DEF LoweringInv, SameLabels, HasShape, OpenBlocksSound, LabelsCounted, DefinedOnce, EndsApart,
       JumpsFind, Finds

----------------------------------------------------------------------------
(* An instruction that has nothing to do with made up labels.              *)

IsPlain(ins) ==
  /\ ins.op = "label" => ins.name \notin InternalLabel
  /\ \A jump \in JumpsFrom(ins) : ~IsInternal(jump)

AddsPlain(r, s, ins) ==
  /\ {"instructions", "diagnostics", "ifs", "labels", "plane", "rapid"} \subseteq DOMAIN s
  /\ s.instructions = Append(r.instructions, ins) /\ s.ifs = r.ifs /\ s.labels = r.labels

LEMMA PlainKeeps ==
  ASSUME NEW r, NEW s, NEW ins, LoweringInv(r), IsPlain(ins), AddsPlain(r, s, ins)
  PROVE  LoweringInv(s)
<1> DEFINE old == r.instructions
           new == s.instructions
<1>1. /\ IsSeq(new) /\ Len(old) \in Nat /\ DOMAIN old = 1 .. Len(old)
      /\ DOMAIN new = 1 .. Len(old) + 1 /\ (\A i \in DOMAIN old : new[i] = old[i])
      /\ new[Len(old) + 1] = ins
  BY Appended DEF AddsPlain, LoweringInv, HasShape
<1>2. s.ifs = r.ifs /\ s.labels = r.labels
  BY DEF AddsPlain
<1>3. \A label \in InternalLabel : ~IsLabel(ins, label)
  BY DEF IsPlain, IsLabel
<1>4. \A d \in DOMAIN new : d \in DOMAIN old \/ d = Len(old) + 1
  BY <1>1
<1>5. DOMAIN old \subseteq DOMAIN new
  BY <1>1
<1>6. HasShape(s)
  BY <1>1, <1>2 DEF LoweringInv, HasShape, AddsPlain
<1>7. OpenBlocksSound(s)
  BY <1>1, <1>2, <1>5 DEF LoweringInv, OpenBlocksSound
<1>8. LabelsCounted(s)
  BY <1>1, <1>2, <1>3, <1>4 DEF LoweringInv, LabelsCounted
<1>9. DefinedOnce(s)
  BY <1>1, <1>3, <1>4 DEF LoweringInv, DefinedOnce
<1>10. EndsApart(s)
  BY <1>1, <1>2, <1>3, <1>4 DEF LoweringInv, EndsApart, LabelsCounted
<1>11. JumpsFind(s)
  <2> SUFFICES ASSUME NEW i \in DOMAIN new, NEW jump \in JumpsFrom(new[i]), IsInternal(jump)
               PROVE  Finds(s, i, jump.target)
    BY DEF JumpsFind
  <2>1. i \in DOMAIN old /\ new[i] = old[i]
    BY <1>1, <1>4 DEF IsPlain
  <2>2. Finds(r, i, jump.target)
    BY <2>1 DEF LoweringInv, JumpsFind
  <2> QED
    BY <1>1, <1>2, <1>5, <2>2 DEF Finds
<1> QED
  BY <1>6, <1>7, <1>8, <1>9, <1>10, <1>11 DEF LoweringInv

----------------------------------------------------------------------------
(* The three lines of an IF block.                                         *)

IsNewLabel(r, label) == label \in InternalLabel /\ label[2] > r.labels

LEMMA NewLabelUnused ==
  ASSUME NEW r, LoweringInv(r), NEW label, IsNewLabel(r, label)
  PROVE  /\ \A d \in DOMAIN r.instructions : ~IsLabel(r.instructions[d], label)
         /\ \A i \in DOMAIN r.ifs : r.ifs[i].end # label
<1>1. \A l \in InternalLabel : l[2] \in Nat
  BY DEF InternalLabel
<1> QED
  BY <1>1 DEF IsNewLabel, LoweringInv, LabelsCounted, HasShape

(* What the jumps of an instruction are; at most is transitive.            *)
LEMMA JumpOfGoto ==
  ASSUME NEW ins, ins.op = "goto", NEW jump \in JumpsFrom(ins) PROVE jump = ins.to
BY DEF JumpsFrom

LEMMA TargetOfTo == \A label : To(label).target = label
BY DEF To

LEMMA JumpsOfBranch ==
  ASSUME NEW ins, ins.op = "branch" PROVE JumpsFrom(ins) = {ins.then, ins.else} \ {NoGoto}
BY DEF JumpsFrom

LEMMA AtMostAtMost == \A n, m, k \in Nat : n <= m /\ m <= k => n <= k
OBVIOUS

(* Two instructions more.                                                  *)
LEMMA TwoAppended ==
  ASSUME NEW s, IsSeq(s), NEW a, NEW b
  PROVE  /\ IsSeq(Append(Append(s, a), b)) /\ Len(s) \in Nat /\ DOMAIN s = 1 .. Len(s)
         /\ DOMAIN Append(Append(s, a), b) = 1 .. Len(s) + 2
         /\ \A i \in DOMAIN s : Append(Append(s, a), b)[i] = s[i]
         /\ Append(Append(s, a), b)[Len(s) + 1] = a
         /\ Append(Append(s, a), b)[Len(s) + 2] = b
<1>1. /\ IsSeq(Append(s, a)) /\ Len(s) \in Nat /\ DOMAIN s = 1 .. Len(s)
      /\ Len(Append(s, a)) = Len(s) + 1 /\ DOMAIN Append(s, a) = 1 .. Len(s) + 1
      /\ (\A i \in DOMAIN s : Append(s, a)[i] = s[i]) /\ Append(s, a)[Len(s) + 1] = a
  BY Appended
<1>2. /\ IsSeq(Append(Append(s, a), b)) /\ DOMAIN Append(Append(s, a), b) = 1 .. Len(s) + 2
      /\ (\A i \in 1 .. Len(s) + 1 : Append(Append(s, a), b)[i] = Append(s, a)[i])
      /\ Append(Append(s, a), b)[Len(s) + 2] = b
  BY <1>1, Appended
<1> QED
  BY <1>1, <1>2

(* The same as one concatenation.                                          *)
LEMMA TwoBehind ==
  ASSUME NEW s, IsSeq(s), NEW a, NEW b
  PROVE  s \o <<a, b>> = Append(Append(s, a), b)
BY DEF IsSeq

LEMMA KeptBelowTwo ==
  ASSUME NEW s, IsSeq(s), NEW a, NEW b, NEW i \in DOMAIN s
  PROVE  (s \o <<a, b>>)[i] = s[i]
BY TwoAppended, TwoBehind

(* What else a changed result has to be checked for.                       *)
LEMMA ShapeKept ==
  ASSUME NEW r, HasShape(r), NEW s, DOMAIN s = DOMAIN r,
         IsSeq(s.instructions), IsSeq(s.ifs), s.labels \in Nat
  PROVE  HasShape(s)
BY Zenon DEF HasShape

(* IF: a branch, the label behind it, and one more open block.             *)
IfChanges(r, s, then, end, branch, label, block) ==
  /\ then # end
  /\ then[2] <= s.labels /\ end[2] <= s.labels /\ r.labels <= s.labels
  /\ {"op", "then", "else"} \subseteq DOMAIN branch /\ branch.op = "branch"
  /\ JumpsFrom(branch) \subseteq {To(then), To(end)}
  /\ label.op = "label" /\ label.name = then
  /\ {"branch", "end", "hasElse"} \subseteq DOMAIN block /\ block.end = end
  /\ block.branch = Len(r.instructions) + 1
  /\ s.instructions = Append(Append(r.instructions, branch), label)
  /\ s.ifs = Append(r.ifs, block)

LEMMA IfKeeps ==
  ASSUME NEW r, NEW s, LoweringInv(r), HasShape(s),
         NEW then, NEW end, IsNewLabel(r, then), IsNewLabel(r, end),
         NEW branch, NEW label, NEW block,
         IfChanges(r, s, then, end, branch, label, block)
  PROVE  LoweringInv(s)
<1> USE DEF IfChanges
<1> DEFINE old == r.instructions
           new == s.instructions
<1>1. /\ Len(old) \in Nat /\ DOMAIN old = 1 .. Len(old) /\ DOMAIN new = 1 .. Len(old) + 2
      /\ (\A i \in DOMAIN old : new[i] = old[i])
      /\ new[Len(old) + 1] = branch /\ new[Len(old) + 2] = label
  BY TwoAppended DEF LoweringInv, HasShape
<1>2. /\ Len(r.ifs) \in Nat /\ DOMAIN r.ifs = 1 .. Len(r.ifs)
      /\ DOMAIN s.ifs = 1 .. Len(r.ifs) + 1
      /\ (\A i \in DOMAIN r.ifs : s.ifs[i] = r.ifs[i]) /\ s.ifs[Len(r.ifs) + 1] = block
  BY Appended DEF LoweringInv, HasShape
<1>3. \A d \in DOMAIN new : d \in DOMAIN old \/ d = Len(old) + 1 \/ d = Len(old) + 2
  BY <1>1
<1>4. \A i \in DOMAIN s.ifs : i \in DOMAIN r.ifs \/ i = Len(r.ifs) + 1
  BY <1>2
<1>5. /\ DOMAIN old \subseteq DOMAIN new /\ DOMAIN r.ifs \subseteq DOMAIN s.ifs
      /\ Len(old) + 1 \in DOMAIN new /\ Len(old) + 2 \in DOMAIN new
      /\ Len(r.ifs) + 1 \in DOMAIN s.ifs /\ Len(old) + 1 \notin DOMAIN old
      /\ Len(old) + 2 \notin DOMAIN old /\ Len(old) + 1 # Len(old) + 2
  BY <1>1, <1>2
<1>6. /\ \A l : ~IsLabel(branch, l)
      /\ \A l : IsLabel(label, l) <=> l = then
  BY DEF IsLabel
<1>7. /\ \A d \in DOMAIN old : ~IsLabel(old[d], then) /\ ~IsLabel(old[d], end)
      /\ \A i \in DOMAIN r.ifs : r.ifs[i].end # then /\ r.ifs[i].end # end
  BY NewLabelUnused
<1>8. OpenBlocksSound(s)
  <2> SUFFICES ASSUME NEW i \in DOMAIN s.ifs
               PROVE  /\ {"branch", "end", "hasElse"} \subseteq DOMAIN s.ifs[i]
                      /\ s.ifs[i].branch \in DOMAIN new
                      /\ {"op", "then", "else"} \subseteq DOMAIN new[s.ifs[i].branch]
                      /\ new[s.ifs[i].branch].op = "branch"
    BY DEF OpenBlocksSound
  <2>1. CASE i \in DOMAIN r.ifs
    <3> DEFINE c == r.ifs[i].branch
    <3>1. /\ {"branch", "end", "hasElse"} \subseteq DOMAIN r.ifs[i] /\ c \in DOMAIN old
          /\ {"op", "then", "else"} \subseteq DOMAIN old[c] /\ old[c].op = "branch"
      BY <2>1, Zenon DEF LoweringInv, OpenBlocksSound
    <3>2. c \in DOMAIN new /\ new[c] = old[c] /\ s.ifs[i] = r.ifs[i]
      BY <1>1, <1>2, <1>5, <2>1, <3>1, Zenon
    <3> QED
      BY <3>1, <3>2, Zenon
  <2>2. CASE i = Len(r.ifs) + 1
    <3>1. s.ifs[i] = block /\ new[block.branch] = branch /\ block.branch \in DOMAIN new
      BY <1>1, <1>2, <1>5, <2>2
    <3> QED
      BY <3>1
  <2> QED
    BY <1>4, <2>1, <2>2
<1>9. LabelsCounted(s)
  <2>1. \A n, m, k \in Nat : n <= m /\ m <= k => n <= k
    BY AtMostAtMost
  <2>2. /\ r.labels \in Nat /\ s.labels \in Nat
        /\ \A l \in InternalLabel : l[2] \in Nat
    BY DEF LoweringInv, HasShape, InternalLabel
  <2>3. ASSUME NEW d \in DOMAIN new, NEW l \in InternalLabel, IsLabel(new[d], l)
        PROVE  l[2] <= s.labels
    <3>1. l = then \/ (d \in DOMAIN old /\ IsLabel(old[d], l))
      BY <1>1, <1>3, <1>6, <2>3
    <3>2. CASE d \in DOMAIN old /\ IsLabel(old[d], l)
      <4>1. l[2] <= r.labels
        BY <3>2 DEF LoweringInv, LabelsCounted
      <4> QED
        BY <2>1, <2>2, <4>1
    <3> QED
      BY <3>1, <3>2
  <2>4. ASSUME NEW i \in DOMAIN s.ifs
        PROVE  s.ifs[i].end \in InternalLabel /\ s.ifs[i].end[2] <= s.labels
    <3>1. CASE i \in DOMAIN r.ifs
      <4>1. s.ifs[i].end = r.ifs[i].end /\ r.ifs[i].end \in InternalLabel
        BY <1>2, <3>1 DEF LoweringInv, LabelsCounted
      <4>2. r.ifs[i].end[2] <= r.labels
        BY <3>1 DEF LoweringInv, LabelsCounted
      <4> QED
        BY <2>1, <2>2, <4>1, <4>2
    <3>2. CASE i = Len(r.ifs) + 1
      BY <1>2, <3>2 DEF IsNewLabel
    <3> QED
      BY <1>4, <3>1, <3>2
  <2> QED
    BY <2>3, <2>4 DEF LabelsCounted
<1>10. DefinedOnce(s)
  BY <1>1, <1>3, <1>6, <1>7 DEF LoweringInv, DefinedOnce
<1>11. EndsApart(s)
  <2>1. \A i, j \in DOMAIN s.ifs : s.ifs[i].end = s.ifs[j].end => i = j
    BY <1>2, <1>4, <1>7 DEF LoweringInv, EndsApart
  <2>2. \A i \in DOMAIN s.ifs, d \in DOMAIN new : ~IsLabel(new[d], s.ifs[i].end)
    BY <1>1, <1>2, <1>3, <1>4, <1>6, <1>7 DEF LoweringInv, EndsApart
  <2> QED
    BY <2>1, <2>2 DEF EndsApart
<1>12. JumpsFind(s)
  <2> SUFFICES ASSUME NEW i \in DOMAIN new, NEW jump \in JumpsFrom(new[i]), IsInternal(jump)
               PROVE  Finds(s, i, jump.target)
    BY DEF JumpsFind
  <2>1. CASE i \in DOMAIN old
    <3>1. Finds(r, i, jump.target)
      BY <1>1, <2>1 DEF LoweringInv, JumpsFind
    <3> QED
      BY <1>1, <1>2, <1>5, <3>1 DEF Finds
  <2>2. CASE i = Len(old) + 1
    <3>1. jump.target = then \/ jump.target = end
      BY <1>1, <2>2 DEF To
    <3>2. Len(old) + 2 > i
      BY <1>1, <2>2
    <3> QED
      BY <1>1, <1>2, <1>5, <1>6, <3>1, <3>2 DEF Finds
  <2>3. CASE i = Len(old) + 2
    BY <1>1, <2>3 DEF JumpsFrom
  <2> QED
    BY <1>3, <2>1, <2>2, <2>3
<1> QED
  BY <1>8, <1>9, <1>10, <1>11, <1>12 DEF LoweringInv

(* ENDIF: the label of the innermost block, which is no longer open.       *)
LEMMA EndIfKeeps ==
  ASSUME NEW r, NEW s, LoweringInv(r), r.ifs # <<>>, HasShape(s), s.labels = r.labels,
         NEW label, label.op = "label", label.name = r.ifs[Len(r.ifs)].end,
         s.instructions = Append(r.instructions, label),
         s.ifs = SubSeq(r.ifs, 1, Len(r.ifs) - 1)
  PROVE  LoweringInv(s)
<1> DEFINE old == r.instructions
           new == s.instructions
           end == r.ifs[Len(r.ifs)].end
<1>1. /\ Len(old) \in Nat /\ DOMAIN old = 1 .. Len(old) /\ DOMAIN new = 1 .. Len(old) + 1
      /\ (\A i \in DOMAIN old : new[i] = old[i]) /\ new[Len(old) + 1] = label
  BY Appended DEF LoweringInv, HasShape
<1>2. /\ Len(r.ifs) \in Nat \ {0} /\ DOMAIN r.ifs = 1 .. Len(r.ifs)
      /\ DOMAIN s.ifs = 1 .. Len(r.ifs) - 1
      /\ \A i \in 1 .. Len(r.ifs) - 1 : s.ifs[i] = r.ifs[i]
  BY Shortened DEF LoweringInv, HasShape
<1>3. \A d \in DOMAIN new : d \in DOMAIN old \/ d = Len(old) + 1
  BY <1>1
<1>4. /\ \A i \in DOMAIN s.ifs : i \in DOMAIN r.ifs /\ i # Len(r.ifs) /\ s.ifs[i] = r.ifs[i]
      /\ \A i \in DOMAIN r.ifs : i \in DOMAIN s.ifs \/ i = Len(r.ifs)
      /\ Len(r.ifs) \in DOMAIN r.ifs
  BY <1>2
<1>5. /\ DOMAIN old \subseteq DOMAIN new /\ Len(old) + 1 \in DOMAIN new
      /\ \A i \in DOMAIN old : Len(old) + 1 > i
  BY <1>1
<1>6. \A l : IsLabel(label, l) <=> l = end
  BY DEF IsLabel
<1>7. end \in InternalLabel /\ end[2] <= r.labels
  BY <1>4 DEF LoweringInv, LabelsCounted
<1>8. \A d \in DOMAIN old : ~IsLabel(old[d], end)
  BY <1>4 DEF LoweringInv, EndsApart
<1>9. \A i \in DOMAIN s.ifs : s.ifs[i].end # end
  BY <1>4 DEF LoweringInv, EndsApart
<1>10. OpenBlocksSound(s)
  <2> SUFFICES ASSUME NEW i \in DOMAIN s.ifs
               PROVE  /\ {"branch", "end", "hasElse"} \subseteq DOMAIN s.ifs[i]
                      /\ s.ifs[i].branch \in DOMAIN s.instructions
                      /\ {"op", "then", "else"} \subseteq DOMAIN s.instructions[s.ifs[i].branch]
                      /\ s.instructions[s.ifs[i].branch].op = "branch"
    BY DEF OpenBlocksSound
  <2> DEFINE c == r.ifs[i].branch
  <2>1. i \in DOMAIN r.ifs /\ s.ifs[i] = r.ifs[i]
    BY <1>4, Zenon
  <2>2. /\ {"branch", "end", "hasElse"} \subseteq DOMAIN r.ifs[i] /\ c \in DOMAIN old
        /\ {"op", "then", "else"} \subseteq DOMAIN old[c] /\ old[c].op = "branch"
    BY <2>1, Zenon DEF LoweringInv, OpenBlocksSound
  <2>3. c \in DOMAIN new /\ new[c] = old[c]
    BY <1>1, <1>5, <2>2, Zenon
  <2> QED
    BY <2>1, <2>2, <2>3, Zenon
<1>11. LabelsCounted(s)
  BY <1>1, <1>3, <1>4, <1>6, <1>7 DEF LoweringInv, LabelsCounted
<1>12. DefinedOnce(s)
  <2> SUFFICES ASSUME NEW l \in InternalLabel, NEW d \in DOMAIN new, NEW e \in DOMAIN new,
                      IsLabel(new[d], l), IsLabel(new[e], l)
               PROVE  d = e
    BY DEF DefinedOnce
  <2>1. CASE l = end
    BY <1>1, <1>3, <1>8, <2>1
  <2>2. CASE l # end
    <3>1. d \in DOMAIN old /\ e \in DOMAIN old
      BY <1>1, <1>3, <1>6, <2>2
    <3> QED
      BY <1>1, <3>1 DEF LoweringInv, DefinedOnce
  <2> QED
    BY <2>1, <2>2
<1>13. EndsApart(s)
  <2>1. \A i, j \in DOMAIN s.ifs : s.ifs[i].end = s.ifs[j].end => i = j
    BY <1>4 DEF LoweringInv, EndsApart
  <2>2. \A i \in DOMAIN s.ifs, d \in DOMAIN new : ~IsLabel(new[d], s.ifs[i].end)
    BY <1>1, <1>3, <1>4, <1>6, <1>9 DEF LoweringInv, EndsApart
  <2> QED
    BY <2>1, <2>2 DEF EndsApart
<1>14. JumpsFind(s)
  <2> SUFFICES ASSUME NEW i \in DOMAIN new, NEW jump \in JumpsFrom(new[i]), IsInternal(jump)
               PROVE  Finds(s, i, jump.target)
    BY DEF JumpsFind
  <2>1. i # Len(old) + 1
    BY <1>1 DEF JumpsFrom
  <2>2. i \in DOMAIN old /\ new[i] = old[i]
    BY <1>1, <1>3, <2>1
  <2>3. Finds(r, i, jump.target)
    BY <2>2 DEF LoweringInv, JumpsFind
  <2>4. CASE jump.target = end
    BY <1>1, <1>5, <1>6, <2>2, <2>4 DEF Finds
  <2>5. CASE jump.target # end
    BY <1>1, <1>4, <1>5, <2>3, <2>5 DEF Finds
  <2> QED
    BY <2>4, <2>5
<1> QED
  BY <1>10, <1>11, <1>12, <1>13, <1>14 DEF LoweringInv

LEMMA TwoMore ==
  ASSUME NEW n \in Nat
  PROVE  /\ \A d \in 1 .. n + 2 : d \in 1 .. n \/ d = n + 1 \/ d = n + 2
         /\ \A d \in 1 .. n : d \in 1 .. n + 2 /\ d # n + 1 /\ d # n + 2 /\ n + 2 > d
         /\ n + 1 \in 1 .. n + 2 /\ n + 2 \in 1 .. n + 2 /\ n + 2 \notin 1 .. n
OBVIOUS

(* ELSE: a jump to the end, a label, and the branch sent to that label.    *)
ElseChanges(r, s, goto, label, branch) ==
  /\ s.instructions =
       [Append(Append(r.instructions, goto), label) EXCEPT ![r.ifs[Len(r.ifs)].branch] = branch]
  /\ s.ifs = [r.ifs EXCEPT ![Len(r.ifs)] = [r.ifs[Len(r.ifs)] EXCEPT !.hasElse = TRUE]]

LEMMA ElseKeeps ==
  ASSUME NEW r, NEW s, LoweringInv(r), r.ifs # <<>>, HasShape(s),
         NEW else, IsNewLabel(r, else), else[2] <= s.labels, r.labels <= s.labels,
         NEW goto, goto.op = "goto", goto.to = To(r.ifs[Len(r.ifs)].end),
         NEW label, label.op = "label", label.name = else,
         NEW b, b = r.ifs[Len(r.ifs)].branch,
         NEW branch, branch = [r.instructions[b] EXCEPT !.else = To(else)],
         ElseChanges(r, s, goto, label, branch)
  PROVE  LoweringInv(s)
<1> DEFINE old == r.instructions
           new == s.instructions
           top == Len(r.ifs)
<1>1. top \in DOMAIN r.ifs
  BY Shortened DEF LoweringInv, HasShape
<1>2. /\ b \in DOMAIN old /\ {"op", "then", "else"} \subseteq DOMAIN old[b]
      /\ old[b].op = "branch"
  BY <1>1 DEF LoweringInv, OpenBlocksSound
<1>3. PICK long :
        /\ new = [long EXCEPT ![b] = branch]
        /\ IsSeq(long) /\ Len(old) \in Nat /\ DOMAIN old = 1 .. Len(old)
        /\ DOMAIN long = 1 .. Len(old) + 2 /\ (\A i \in DOMAIN old : long[i] = old[i])
        /\ long[Len(old) + 1] = goto /\ long[Len(old) + 2] = label
  <2> DEFINE l == Append(Append(old, goto), label)
  <2>1. new = [l EXCEPT ![b] = branch]
    BY DEF ElseChanges
  <2>2. /\ IsSeq(l) /\ Len(old) \in Nat /\ DOMAIN old = 1 .. Len(old)
        /\ DOMAIN l = 1 .. Len(old) + 2 /\ (\A i \in DOMAIN old : l[i] = old[i])
        /\ l[Len(old) + 1] = goto /\ l[Len(old) + 2] = label
    BY TwoAppended DEF LoweringInv, HasShape
  <2> HIDE DEF l
  <2> QED
    BY <2>1, <2>2
<1>4. b \in DOMAIN long /\ b # Len(old) + 1 /\ b # Len(old) + 2
  <2>1. b \in 1 .. Len(old) /\ Len(old) \in Nat /\ DOMAIN long = 1 .. Len(old) + 2
    BY <1>2, <1>3, Zenon
  <2> QED
    BY <2>1, TwoMore, Zenon
<1>5. /\ DOMAIN new = DOMAIN long /\ new[b] = branch
      /\ \A i \in DOMAIN long : i # b => new[i] = long[i]
  <2>1. IsSeq(long) /\ b \in DOMAIN long
    BY <1>3, <1>4, Zenon
  <2>2. /\ DOMAIN [long EXCEPT ![b] = branch] = DOMAIN long /\ [long EXCEPT ![b] = branch][b] = branch
        /\ \A i \in DOMAIN long : i # b => [long EXCEPT ![b] = branch][i] = long[i]
    BY <2>1, Changed, Zenon
  <2>3. new = [long EXCEPT ![b] = branch]
    BY <1>3, Zenon
  <2> QED
    BY <2>2, <2>3, Zenon
<1>6. /\ branch.op = "branch" /\ branch.then = old[b].then /\ branch.else = To(else)
      /\ DOMAIN branch = DOMAIN old[b]
  BY <1>2
<1>7. /\ DOMAIN new = 1 .. Len(old) + 2
      /\ \A i \in DOMAIN old : i # b => new[i] = old[i]
      /\ new[Len(old) + 1] = goto /\ new[Len(old) + 2] = label
      /\ \A d \in DOMAIN new : d \in DOMAIN old \/ d = Len(old) + 1 \/ d = Len(old) + 2
      /\ DOMAIN old \subseteq DOMAIN new /\ Len(old) + 2 \in DOMAIN new
      /\ Len(old) + 2 \notin DOMAIN old
      /\ \A i \in DOMAIN old : Len(old) + 2 > i
  <2>1. DOMAIN new = 1 .. Len(old) + 2 /\ DOMAIN old = 1 .. Len(old) /\ Len(old) \in Nat
    BY <1>3, <1>5, Zenon
  <2>2. /\ \A d \in DOMAIN new : d \in DOMAIN old \/ d = Len(old) + 1 \/ d = Len(old) + 2
        /\ \A d \in DOMAIN old : d \in DOMAIN new /\ Len(old) + 2 > d
        /\ Len(old) + 1 \in DOMAIN new /\ Len(old) + 2 \in DOMAIN new
        /\ Len(old) + 2 \notin DOMAIN old
    BY <2>1, TwoMore, Zenon
  <2>3. /\ \A i \in DOMAIN old : i # b => new[i] = old[i]
        /\ new[Len(old) + 1] = goto /\ new[Len(old) + 2] = label
    BY <1>3, <1>4, <1>5, <2>2, Zenon
  <2> QED
    BY <2>1, <2>2, <2>3, Zenon
<1>8. /\ DOMAIN s.ifs = DOMAIN r.ifs
      /\ \A i \in DOMAIN r.ifs :
           /\ s.ifs[i].end = r.ifs[i].end /\ s.ifs[i].branch = r.ifs[i].branch
           /\ {"branch", "end", "hasElse"} \subseteq DOMAIN s.ifs[i]
  <2>1. \A i \in DOMAIN r.ifs : {"branch", "end", "hasElse"} \subseteq DOMAIN r.ifs[i]
    BY DEF LoweringInv, OpenBlocksSound
  <2>2. /\ DOMAIN s.ifs = DOMAIN r.ifs
        /\ s.ifs[top] = [r.ifs[top] EXCEPT !.hasElse = TRUE]
        /\ \A i \in DOMAIN r.ifs : i # top => s.ifs[i] = r.ifs[i]
    BY <1>1, Changed DEF LoweringInv, HasShape, ElseChanges
  <2>3. /\ s.ifs[top].end = r.ifs[top].end /\ s.ifs[top].branch = r.ifs[top].branch
        /\ {"branch", "end", "hasElse"} \subseteq DOMAIN s.ifs[top]
    BY <1>1, <2>1, <2>2
  <2> QED
    BY <2>1, <2>2, <2>3
<1>9. /\ \A l : ~IsLabel(branch, l) /\ ~IsLabel(goto, l) /\ ~IsLabel(old[b], l)
      /\ \A l : IsLabel(label, l) <=> l = else
  BY <1>2, <1>6 DEF IsLabel
<1>10. /\ \A i \in DOMAIN old, l \in InternalLabel : IsLabel(new[i], l) <=> IsLabel(old[i], l)
  <2> SUFFICES ASSUME NEW i \in DOMAIN old, NEW l \in InternalLabel
               PROVE  IsLabel(new[i], l) <=> IsLabel(old[i], l)
    OBVIOUS
  <2>1. CASE i = b
    BY <1>5, <1>9, <2>1, Zenon
  <2>2. CASE i # b
    BY <1>7, <2>2, Zenon
  <2> QED
    BY <2>1, <2>2
<1>11. /\ \A d \in DOMAIN old : ~IsLabel(old[d], else)
       /\ \A i \in DOMAIN r.ifs : r.ifs[i].end # else
  BY NewLabelUnused
<1>12. \A i \in DOMAIN r.ifs : r.ifs[i].end \in InternalLabel
  BY DEF LoweringInv, LabelsCounted
<1>13. else \in InternalLabel
  BY DEF IsNewLabel
<1>14. OpenBlocksSound(s)
  <2> SUFFICES ASSUME NEW i \in DOMAIN s.ifs
               PROVE  /\ {"branch", "end", "hasElse"} \subseteq DOMAIN s.ifs[i]
                      /\ s.ifs[i].branch \in DOMAIN new
                      /\ {"op", "then", "else"} \subseteq DOMAIN new[s.ifs[i].branch]
                      /\ new[s.ifs[i].branch].op = "branch"
    BY DEF OpenBlocksSound
  <2> DEFINE c == r.ifs[i].branch
  <2>1. /\ c \in DOMAIN old /\ {"op", "then", "else"} \subseteq DOMAIN old[c]
        /\ old[c].op = "branch" /\ s.ifs[i].branch = c
    BY <1>8 DEF LoweringInv, OpenBlocksSound
  <2>4. c \in DOMAIN new /\ {"branch", "end", "hasElse"} \subseteq DOMAIN s.ifs[i]
    BY <1>7, <1>8, <2>1, Zenon
  <2>2. CASE c = b
    <3>1. new[c] = branch /\ DOMAIN branch = DOMAIN old[c] /\ branch.op = "branch"
      BY <1>5, <1>6, <2>2, Zenon
    <3>2. {"op", "then", "else"} \subseteq DOMAIN new[c] /\ new[c].op = "branch"
      BY <2>1, <3>1, Zenon
    <3>3. s.ifs[i].branch = c
      BY <2>1, Zenon
    <3> HIDE DEF c
    <3> QED
      BY <2>4, <3>2, <3>3, Zenon
  <2>3. CASE c # b
    <3>1. new[c] = old[c]
      BY <1>7, <2>1, <2>3, Zenon
    <3> QED
      BY <2>1, <2>4, <3>1, Zenon
  <2> QED
    BY <2>2, <2>3
<1>15. LabelsCounted(s)
  <2>1. \A n, m, k \in Nat : n <= m /\ m <= k => n <= k
    BY AtMostAtMost
  <2>2. /\ r.labels \in Nat /\ s.labels \in Nat
        /\ \A l \in InternalLabel : l[2] \in Nat
    BY DEF LoweringInv, HasShape, InternalLabel
  <2>3. ASSUME NEW d \in DOMAIN new, NEW l \in InternalLabel, IsLabel(new[d], l)
        PROVE  l[2] <= s.labels
    <3>1. l = else \/ (d \in DOMAIN old /\ IsLabel(old[d], l))
      BY <1>7, <1>9, <1>10, <2>3
    <3>2. CASE d \in DOMAIN old /\ IsLabel(old[d], l)
      <4>1. l[2] <= r.labels
        BY <3>2 DEF LoweringInv, LabelsCounted
      <4> QED
        BY <2>1, <2>2, <4>1
    <3> QED
      BY <3>1, <3>2
  <2>4. ASSUME NEW i \in DOMAIN s.ifs
        PROVE  s.ifs[i].end \in InternalLabel /\ s.ifs[i].end[2] <= s.labels
    <3>1. s.ifs[i].end = r.ifs[i].end /\ r.ifs[i].end \in InternalLabel
      BY <1>8, <1>12
    <3>2. r.ifs[i].end[2] <= r.labels
      BY <1>8 DEF LoweringInv, LabelsCounted
    <3> QED
      BY <2>1, <2>2, <3>1, <3>2
  <2> QED
    BY <2>3, <2>4 DEF LabelsCounted
<1>16. DefinedOnce(s)
  <2> SUFFICES ASSUME NEW l \in InternalLabel, NEW d \in DOMAIN new, NEW e \in DOMAIN new,
                      IsLabel(new[d], l), IsLabel(new[e], l)
               PROVE  d = e
    BY DEF DefinedOnce
  <2>1. CASE l = else
    BY <1>7, <1>9, <1>10, <1>11, <2>1
  <2>2. CASE l # else
    <3>1. d \in DOMAIN old /\ e \in DOMAIN old
      BY <1>7, <1>9, <2>2
    <3> QED
      BY <1>10, <3>1 DEF LoweringInv, DefinedOnce
  <2> QED
    BY <2>1, <2>2
<1>17. EndsApart(s)
  <2>1. \A i, j \in DOMAIN s.ifs : s.ifs[i].end = s.ifs[j].end => i = j
    BY <1>8 DEF LoweringInv, EndsApart
  <2>2. \A i \in DOMAIN s.ifs, d \in DOMAIN new : ~IsLabel(new[d], s.ifs[i].end)
    <3> SUFFICES ASSUME NEW i \in DOMAIN r.ifs, NEW d \in DOMAIN new
                 PROVE  ~IsLabel(new[d], r.ifs[i].end)
      BY <1>8, Zenon
    <3>1. CASE d \in DOMAIN old
      <4>1. ~IsLabel(old[d], r.ifs[i].end)
        BY <3>1, Zenon DEF LoweringInv, EndsApart
      <4> QED
        BY <1>10, <1>12, <3>1, <4>1, Zenon
    <3>2. CASE d = Len(old) + 1
      BY <1>7, <1>9, <3>2, Zenon
    <3>3. CASE d = Len(old) + 2
      BY <1>7, <1>9, <1>11, <3>3, Zenon
    <3> QED
      BY <1>7, <3>1, <3>2, <3>3, Zenon
  <2> QED
    BY <2>1, <2>2 DEF EndsApart
<1>18. JumpsFind(s)
  <2> SUFFICES ASSUME NEW i \in DOMAIN new, NEW jump \in JumpsFrom(new[i]), IsInternal(jump)
               PROVE  Finds(s, i, jump.target)
    BY DEF JumpsFind
  <2>1. ASSUME i \in DOMAIN old, jump \in JumpsFrom(old[i]) PROVE Finds(s, i, jump.target)
    <3>1. Finds(r, i, jump.target)
      BY <2>1 DEF LoweringInv, JumpsFind
    <3>2. jump.target \in InternalLabel
      BY DEF IsInternal
    <3>3. CASE \E j \in DOMAIN r.ifs : r.ifs[j].end = jump.target
      BY <1>8, <3>3, Zenon DEF Finds
    <3>4. ASSUME NEW d \in DOMAIN old, d > i, IsLabel(old[d], jump.target)
          PROVE  Finds(s, i, jump.target)
      <4>1. d \in DOMAIN new /\ IsLabel(new[d], jump.target)
        BY <1>7, <1>10, <3>2, <3>4, Zenon
      <4> QED
        BY <3>4, <4>1, Zenon DEF Finds
    <3> QED
      BY <3>1, <3>3, <3>4, Zenon DEF Finds
  <2>2. CASE i = b
    <3>1. jump \in JumpsFrom(old[b]) \/ jump = To(else)
      <4>1. jump \in JumpsFrom(branch) /\ branch.op = "branch" /\ old[b].op = "branch"
        BY <1>2, <1>5, <1>6, <2>2, Zenon
      <4>2. branch.then = old[b].then /\ branch.else = To(else)
        BY <1>6, Zenon
      <4>3. /\ JumpsFrom(branch) = {branch.then, branch.else} \ {NoGoto}
            /\ JumpsFrom(old[b]) = {old[b].then, old[b].else} \ {NoGoto}
        BY <4>1, JumpsOfBranch, Zenon
      <4> QED
        BY <4>1, <4>2, <4>3, Zenon
    <3>2. CASE jump = To(else)
      BY <1>2, <1>7, <1>9, <2>2, <3>2 DEF Finds, To
    <3> QED
      BY <1>2, <2>1, <2>2, <3>1, <3>2
  <2>3. CASE i = Len(old) + 1
    <3>1. jump.target = r.ifs[top].end
      <4>1. jump \in JumpsFrom(goto)
        BY <1>7, <2>3, Zenon
      <4>2. jump = goto.to /\ goto.to = To(r.ifs[top].end)
        BY <4>1, JumpOfGoto, Zenon
      <4> QED
        BY <4>2, TargetOfTo, Zenon
    <3> QED
      BY <1>1, <1>8, <3>1 DEF Finds
  <2>4. CASE i = Len(old) + 2
    BY <1>7, <2>4 DEF JumpsFrom
  <2> QED
    BY <1>7, <2>1, <2>2, <2>3, <2>4
<1> QED
  BY <1>14, <1>15, <1>16, <1>17, <1>18 DEF LoweringInv

----------------------------------------------------------------------------
(* What the kinds of lines do.                                             *)

LEMMA EmitsPlain ==
  ASSUME NEW r, LoweringInv(r), NEW ins, IsPlain(ins)
  PROVE  LoweringInv(Emit(r, <<ins>>))
<1>1. r.instructions \o <<ins>> = Append(r.instructions, ins)
  BY OneBehind DEF LoweringInv, HasShape
<1>2. AddsPlain(r, Emit(r, <<ins>>), ins)
  BY <1>1 DEF Emit, AddsPlain, LoweringInv, HasShape
<1> QED
  BY <1>2, PlainKeeps

LEMMA ReportKeeps ==
  ASSUME NEW r, LoweringInv(r), NEW severity, NEW k, NEW why
  PROVE  LoweringInv(Report(r, severity, k, why))
<1>1. SameLabels(r, Report(r, severity, k, why))
  BY DEF Report, SameLabels, LoweringInv, HasShape
<1> QED
  BY <1>1, OtherFields

LEMMA AssignKeeps ==
  ASSUME NEW r, LoweringInv(r), NEW l, NEW k
  PROVE  LoweringInv(AssignLine(r, l, k))
<1>1. \A at, head, value : IsPlain(ToolSelect(at, head, value))
  BY DEF ToolSelect, IsPlain, JumpsFrom
<1>2. IsPlain([op |-> "assign", source |-> SourceOf(l, k), name |-> l.statement.to,
               rhs |-> l.statement.rhs])
  BY DEF IsPlain, JumpsFrom
<1> QED
  BY <1>1, <1>2, EmitsPlain, ReportKeeps DEF AssignLine

(* The names of a text are no made up labels.                              *)
LEMMA StatementTypes ==
  ASSUME NEW l \in TextLine
  PROVE  /\ l.statement.kind \in {"none", "else", "endif", "loop", "assign", "if", "label", "goto",
                                  "if goto"}
         /\ l.statement.kind = "label" => l.statement.name \in Name
         /\ l.statement.kind = "goto" => l.statement.to \in Jump
         /\ l.statement.kind = "if goto" =>
              l.statement.then \in Jump /\ l.statement.else \in Jump \cup {NoGoto}
BY DEF TextLine, Statement

LEMMA KindOfStatement ==
  ASSUME NEW l, NEW kind \in {"label", "goto", "if goto", "if", "else", "endif"}, KindOf(l) = kind
  PROVE  l.statement.kind = kind
BY DEF KindOf

LEMMA NoInternalJump ==
  ASSUME NamesApart, NEW jump \in Jump
  PROVE  ~IsInternal(jump)
BY DEF NamesApart, Jump, IsInternal, LongHeads

LEMMA LabelKeeps ==
  ASSUME NamesApart, NEW r, LoweringInv(r), NEW l \in TextLine, NEW k, KindOf(l) = "label"
  PROVE  LoweringInv(LabelLine(r, l, k))
<1>1. l.statement.name \in LongHeads
  BY KindOfStatement, StatementTypes DEF LongHeads
<1>2. IsPlain(LabelAt(SourceOf(l, k), l.statement.name))
  BY <1>1 DEF IsPlain, LabelAt, JumpsFrom, NamesApart
<1> QED
  BY <1>2, EmitsPlain DEF LabelLine

LEMMA GotoKeeps ==
  ASSUME NamesApart, NEW r, LoweringInv(r), NEW l \in TextLine, NEW k, KindOf(l) = "goto"
  PROVE  LoweringInv(GotoLine(r, l, k))
<1>1. ~IsInternal(l.statement.to)
  BY KindOfStatement, StatementTypes, NoInternalJump
<1>2. IsPlain(Goto(SourceOf(l, k), l.statement.to))
  BY <1>1 DEF IsPlain, Goto, JumpsFrom
<1> QED
  BY <1>2, EmitsPlain DEF GotoLine

LEMMA IfGotoKeeps ==
  ASSUME NamesApart, NEW r, LoweringInv(r), NEW l \in TextLine, NEW k, KindOf(l) = "if goto"
  PROVE  LoweringInv(IfGotoLine(r, l, k))
<1> DEFINE s == l.statement
           ins == Branch(SourceOf(l, k), s.test, s.then, s.else)
<1>1. s.then \in Jump /\ s.else \in Jump \cup {NoGoto}
  BY KindOfStatement, StatementTypes
<1>2. ins.op = "branch" /\ ins.then = s.then /\ ins.else = s.else
  BY DEF Branch
<1> HIDE DEF ins
<1>3. IsPlain(ins)
  BY <1>1, <1>2, NoInternalJump DEF IsPlain, JumpsFrom
<1> QED
  BY <1>3, EmitsPlain DEF IfGotoLine, ins

LEMMA ProcKeeps ==
  ASSUME NamesApart, NEW r, LoweringInv(r), NEW l \in TextLine, NEW k, KindOf(l) = "proc"
  PROVE  LoweringInv(ProcLine(r, l, k))
<1>1. IsProc(l)
  BY StatementTypes DEF KindOf
<1>2. l.words \in Seq(Word) /\ Len(l.words) = 2
  BY <1>1 DEF IsProc, IsMalformedProc, TextLine
<1>3. l.words[2] \in Word
  BY <1>2
<1>4. l.words[2].head \in Letters \cup LongHeads
  BY <1>3 DEF Word
<1>5. IsPlain(LabelAt(SourceOf(l, k), l.words[2].head))
  BY <1>4 DEF IsPlain, LabelAt, JumpsFrom, NamesApart
<1> QED
  BY <1>5, EmitsPlain, ReportKeeps DEF ProcLine

LEMMA CallKeeps ==
  ASSUME NEW r, LoweringInv(r), NEW l, NEW k
  PROVE  LoweringInv(CallLine(r, l, k))
<1>1. \A at, target, repeat :
        IsPlain([op |-> "call", source |-> at, target |-> target, repeat |-> repeat])
  BY DEF IsPlain, JumpsFrom
<1> QED
  BY <1>1, EmitsPlain, ReportKeeps DEF CallLine

LEMMA WordGivesPlain ==
  ASSUME NEW w, NEW at
  PROVE  WordCode(w, at) = <<>> \/ \E ins : IsPlain(ins) /\ WordCode(w, at) = <<ins>>
<1>1. \A group, value : IsPlain(Modal(at, group, value))
  BY DEF Modal, IsPlain, JumpsFrom
<1>2. IsPlain(ToolSelect(at, w.head, w.value))
  BY DEF ToolSelect, IsPlain, JumpsFrom
<1>3. IsPlain([op |-> "return", source |-> at]) /\ IsPlain(MInstruction(w, at))
  BY DEF MInstruction, IsPlain, JumpsFrom
<1> QED
  BY <1>1, <1>2, <1>3 DEF WordCode

LEMMA WordKeeps ==
  ASSUME NEW r, LoweringInv(r), NEW l, NEW k, NEW i
  PROVE  LoweringInv(LowerWord(r, l, k, i))
<1> DEFINE code == WordCode(l.words[i], SourceOf(l, k))
           s == LowerWord(r, l, k, i)
<1>1. /\ DOMAIN s = DOMAIN r /\ s.instructions = r.instructions \o code
      /\ s.ifs = r.ifs /\ s.labels = r.labels
  BY DEF LowerWord, LoweringInv, HasShape
<1>2. code = <<>> \/ \E ins : IsPlain(ins) /\ code = <<ins>>
  BY WordGivesPlain
<1> HIDE DEF code, s
<1>3. CASE code = <<>>
  <2>1. SameLabels(r, s)
    BY <1>1, <1>3, NothingBehind DEF SameLabels, LoweringInv, HasShape
  <2> QED
    BY <2>1, OtherFields DEF s
<1>4. ASSUME NEW ins, IsPlain(ins), code = <<ins>> PROVE LoweringInv(s)
  <2>1. AddsPlain(r, s, ins)
    BY <1>1, <1>4, OneBehind DEF AddsPlain, LoweringInv, HasShape
  <2> QED
    BY <1>4, <2>1, PlainKeeps
<1> QED
  BY <1>2, <1>3, <1>4 DEF s

LEMMA MotionKeeps ==
  ASSUME NEW r, LoweringInv(r), NEW l, NEW k
  PROVE  LoweringInv(LowerMotion(r, l, k))
<1>1. \A message, at : IsPlain(MoveOf(message, l, at, r))
  BY DEF MoveOf, IsPlain, JumpsFrom
<1> QED
  BY <1>1, EmitsPlain DEF LowerMotion

LEMMA InternalLabels ==
  ASSUME NEW n \in Nat
  PROVE  /\ n + 1 \in Nat /\ n + 2 \in Nat /\ n <= n + 1 /\ n <= n + 2 /\ n + 1 <= n + 2
         /\ n + 1 > n /\ n + 2 > n
         /\ \A m \in Nat, prefix \in {"IF_THEN", "IF_END", "IF_ELSE"} :
              Internal(prefix, m) \in InternalLabel /\ Internal(prefix, m)[2] = m
         /\ Internal("IF_THEN", n + 1) # Internal("IF_END", n + 2)
BY DEF Internal, InternalLabel

LEMMA IfLineKeeps ==
  ASSUME NEW r, LoweringInv(r), NEW l, NEW k
  PROVE  LoweringInv(IfLine(r, l, k))
<1> DEFINE at == SourceOf(l, k)
           then == Internal("IF_THEN", r.labels + 1)
           end == Internal("IF_END", r.labels + 2)
           branch == Branch(at, l.statement.test, To(then), To(end))
           label == LabelAt(at, then)
           block == [branch |-> NextInstruction(r), end |-> end, hasElse |-> FALSE]
           s == IfLine(r, l, k)
<1>1. r.labels \in Nat /\ IsSeq(r.instructions) /\ IsSeq(r.ifs)
  BY DEF LoweringInv, HasShape
<1>2. /\ DOMAIN s = DOMAIN r /\ s.instructions = r.instructions \o <<branch, label>>
      /\ s.ifs = Append(r.ifs, block) /\ s.labels = r.labels + 2
  BY DEF IfLine, Emit, LoweringInv, HasShape
<1> HIDE DEF at, then, end, branch, label, block, s
<1>3. s.instructions = Append(Append(r.instructions, branch), label)
  <2>1. r.instructions \o <<branch, label>> = Append(Append(r.instructions, branch), label)
    BY <1>1, TwoBehind
  <2> QED
    BY <1>2, <2>1, Zenon
<1>4. IsNewLabel(r, then) /\ IsNewLabel(r, end) /\ then # end
  BY <1>1, InternalLabels, Zenon DEF IsNewLabel, then, end
<1>5. then[2] <= s.labels /\ end[2] <= s.labels /\ r.labels <= s.labels /\ s.labels \in Nat
  <2>1. then[2] = r.labels + 1 /\ end[2] = r.labels + 2
    BY <1>1, InternalLabels, Zenon DEF then, end
  <2> QED
    BY <1>1, <1>2, <2>1
<1>6. /\ {"op", "then", "else"} \subseteq DOMAIN branch /\ branch.op = "branch"
      /\ JumpsFrom(branch) \subseteq {To(then), To(end)}
  BY DEF Branch, JumpsFrom, branch
<1>7. label.op = "label" /\ label.name = then
  BY DEF LabelAt, label
<1>8. /\ {"branch", "end", "hasElse"} \subseteq DOMAIN block /\ block.end = end
      /\ block.branch = Len(r.instructions) + 1
  BY DEF NextInstruction, block
<1>9. HasShape(s)
  <2>1. IsSeq(Append(Append(r.instructions, branch), label))
    BY <1>1, TwoAppended
  <2>2. IsSeq(Append(r.ifs, block))
    BY <1>1, Appended
  <2>3. IsSeq(s.instructions) /\ IsSeq(s.ifs)
    BY <1>2, <1>3, <2>1, <2>2, Zenon
  <2> QED
    BY <1>2, <1>5, <2>3, ShapeKept, Zenon DEF LoweringInv
<1>10. IfChanges(r, s, then, end, branch, label, block)
  BY <1>2, <1>3, <1>4, <1>5, <1>6, <1>7, <1>8, Zenon DEF IfChanges
<1>11. LoweringInv(s)
  BY <1>4, <1>9, <1>10, IfKeeps, Zenon
<1> QED
  BY <1>11 DEF s

LEMMA EndIfLineKeeps ==
  ASSUME NEW r, LoweringInv(r), NEW l, NEW k
  PROVE  LoweringInv(EndIfLine(r, l, k))
<1>1. CASE r.ifs = <<>>
  BY <1>1, ReportKeeps DEF EndIfLine
<1>2. CASE r.ifs # <<>>
  <2> DEFINE label == LabelAt(SourceOf(l, k), r.ifs[Len(r.ifs)].end)
             s == EndIfLine(r, l, k)
  <2>1. /\ DOMAIN s = DOMAIN r /\ s.instructions = r.instructions \o <<label>>
        /\ s.ifs = SubSeq(r.ifs, 1, Len(r.ifs) - 1) /\ s.labels = r.labels
    BY <1>2 DEF EndIfLine, Emit, InnermostIf, Last, Front, LoweringInv, HasShape
  <2>2. s.instructions = Append(r.instructions, label)
    BY <2>1, OneBehind DEF LoweringInv, HasShape
  <2>3. label.op = "label" /\ label.name = r.ifs[Len(r.ifs)].end
    BY DEF LabelAt
  <2> HIDE DEF label, s
  <2>4. HasShape(s)
    <3>1. IsSeq(r.instructions) /\ IsSeq(r.ifs) /\ r.labels \in Nat /\ HasShape(r)
      BY DEF LoweringInv, HasShape
    <3>2. IsSeq(Append(r.instructions, label))
      BY <3>1, Appended
    <3>3. IsSeq(SubSeq(r.ifs, 1, Len(r.ifs) - 1))
      BY <1>2, <3>1, Shortened
    <3>4. IsSeq(s.instructions) /\ IsSeq(s.ifs) /\ s.labels \in Nat
      BY <2>1, <2>2, <3>1, <3>2, <3>3, Zenon
    <3> QED
      BY <2>1, <3>1, <3>4, ShapeKept, Zenon
  <2>5. LoweringInv(s)
    BY <1>2, <2>1, <2>2, <2>3, <2>4, EndIfKeeps
  <2> QED
    BY <2>5 DEF s
<1> QED
  BY <1>1, <1>2

LEMMA ElseOfIfKeeps ==
  ASSUME NEW r, LoweringInv(r), r.ifs # <<>>, NEW l, NEW k
  PROVE  LoweringInv(ElseOfIf(r, l, k))
<1> DEFINE at == SourceOf(l, k)
           else == Internal("IF_ELSE", r.labels + 1)
           goto == Goto(at, To(r.ifs[Len(r.ifs)].end))
           label == LabelAt(at, else)
           b == r.ifs[Len(r.ifs)].branch
           branch == [r.instructions[b] EXCEPT !.else = To(else)]
           s == ElseOfIf(r, l, k)
           long == r.instructions \o <<goto, label>>
<1>1. r.labels \in Nat /\ IsSeq(r.instructions) /\ IsSeq(r.ifs)
  BY DEF LoweringInv, HasShape
<1>2. Len(r.ifs) \in DOMAIN r.ifs
  BY <1>1, Shortened
<1>3. b \in DOMAIN r.instructions
  BY <1>2 DEF LoweringInv, OpenBlocksSound
<1>4. long = Append(Append(r.instructions, goto), label) /\ long[b] = r.instructions[b]
  <2> HIDE DEF at, else, goto, label, b, branch, s
  <2>1. long = Append(Append(r.instructions, goto), label)
    BY <1>1, TwoBehind
  <2>2. long[b] = r.instructions[b]
    BY <1>1, <1>3, KeptBelowTwo
  <2> QED
    BY <2>1, <2>2, Zenon
<1>5. /\ DOMAIN s = DOMAIN r
      /\ s.instructions = [long EXCEPT ![b] = [long[b] EXCEPT !.else = To(else)]]
      /\ s.ifs = [r.ifs EXCEPT ![Len(r.ifs)] = [r.ifs[Len(r.ifs)] EXCEPT !.hasElse = TRUE]]
      /\ s.labels = r.labels + 1
  BY DEF ElseOfIf, Emit, InnermostIf, Last, LoweringInv, HasShape
<1>6. ElseChanges(r, s, goto, label, branch)
  BY <1>4, <1>5 DEF ElseChanges
<1>7. IsNewLabel(r, else)
  BY <1>1, InternalLabels, Zenon DEF IsNewLabel
<1>8. else[2] <= s.labels /\ r.labels <= s.labels /\ s.labels \in Nat
  <2>1. else[2] = r.labels + 1
    BY <1>1, InternalLabels, Zenon
  <2>2. s.labels = r.labels + 1
    BY <1>5, Zenon
  <2> HIDE DEF at, else, goto, label, b, branch, s, long
  <2> QED
    BY <1>1, <2>1, <2>2
<1>9. HasShape(s)
  <2> HIDE DEF at, else, goto, label, b, branch, s, long
  <2>1. IsSeq(long) /\ b \in DOMAIN long
    <3>1. /\ IsSeq(Append(Append(r.instructions, goto), label)) /\ Len(r.instructions) \in Nat
          /\ DOMAIN r.instructions = 1 .. Len(r.instructions)
          /\ DOMAIN Append(Append(r.instructions, goto), label) = 1 .. Len(r.instructions) + 2
      BY <1>1, TwoAppended
    <3>2. b \in 1 .. Len(r.instructions) + 2
      BY <1>3, <3>1, TwoMore, Zenon
    <3> QED
      BY <1>4, <3>1, <3>2, Zenon
  <2>2. IsSeq([long EXCEPT ![b] = [long[b] EXCEPT !.else = To(else)]])
    BY <2>1, Changed
  <2>3. IsSeq([r.ifs EXCEPT ![Len(r.ifs)] = [r.ifs[Len(r.ifs)] EXCEPT !.hasElse = TRUE]])
    BY <1>1, <1>2, Changed
  <2>4. IsSeq(s.instructions) /\ IsSeq(s.ifs)
    BY <1>5, <2>2, <2>3, Zenon
  <2> QED
    BY <1>5, <1>8, <2>4, ShapeKept, Zenon DEF LoweringInv
<1>10. /\ goto.op = "goto" /\ goto.to = To(r.ifs[Len(r.ifs)].end)
       /\ label.op = "label" /\ label.name = else
  BY DEF Goto, LabelAt
<1>11. branch = [r.instructions[b] EXCEPT !.else = To(else)] /\ b = r.ifs[Len(r.ifs)].branch
  OBVIOUS
<1> HIDE DEF at, else, goto, label, b, branch, s, long
<1>12. LoweringInv(s)
  BY <1>6, <1>7, <1>8, <1>9, <1>10, <1>11, ElseKeeps
<1> QED
  BY <1>12 DEF s

LEMMA ElseLineKeeps ==
  ASSUME NEW r, LoweringInv(r), NEW l, NEW k
  PROVE  LoweringInv(ElseLine(r, l, k))
BY ReportKeeps, ElseOfIfKeeps DEF ElseLine

----------------------------------------------------------------------------
(* The theorem.                                                            *)

AtSomeLine == text \in Texts /\ pos \in Nat \ {0}
LabelsInv == AtSomeLine /\ LoweringInv(out)

LEMMA LineIsTyped ==
  ASSUME AtSomeLine, InLoop
  PROVE  Line \in TextLine
<1>1. text \in Seq(TextLines) /\ pos \in 1 .. Len(text)
  BY StructuredTextsAssumption DEF AtSomeLine, InLoop
<1>2. Line \in TextLines
  BY <1>1 DEF Line
<1> QED
  BY <1>2, TextLinesAssumption

LEMMA LoopKeepsInv ==
  ASSUME NamesApart, LabelsInv, LoweringNext
  PROVE  LoweringInv(out)'
<1> USE DEF LabelsInv
<1>1. CASE PassLine \/ LowerLoop
  BY <1>1 DEF PassLine, LowerLoop, GoOn
<1>2. CASE LowerAssignment
  BY <1>2, AssignKeeps DEF LowerAssignment, GoOn
<1>3. CASE LowerIf
  BY <1>3, IfLineKeeps DEF LowerIf, GoOn
<1>4. CASE LowerElse
  BY <1>4, ElseLineKeeps DEF LowerElse, GoOn
<1>5. CASE LowerEndIf
  BY <1>5, EndIfLineKeeps DEF LowerEndIf, GoOn
<1>6. CASE LowerLabel
  BY <1>6, LineIsTyped, LabelKeeps DEF LowerLabel, AtLine, GoOn
<1>7. CASE LowerGoto
  BY <1>7, LineIsTyped, GotoKeeps DEF LowerGoto, AtLine, GoOn
<1>8. CASE LowerIfGoto
  BY <1>8, LineIsTyped, IfGotoKeeps DEF LowerIfGoto, AtLine, GoOn
<1>9. CASE LowerProc
  BY <1>9, LineIsTyped, ProcKeeps DEF LowerProc, AtLine, GoOn
<1>10. CASE LowerCall
  BY <1>10, CallKeeps DEF LowerCall, GoOn
<1>11. CASE LowerNextWord
  BY <1>11, WordKeeps DEF LowerNextWord
<1>12. CASE LowerWords
  BY <1>12, MotionKeeps DEF LowerWords, GoOn
<1>13. CASE ReturnAil
  <2>1. SameLabels(out, Finish(out))
    BY DEF Finish, SameLabels, LoweringInv, HasShape
  <2> QED
    BY <1>13, <2>1, OtherFields DEF ReturnAil
<1> QED
  BY <1>1, <1>2, <1>3, <1>4, <1>5, <1>6, <1>7, <1>8, <1>9, <1>10, <1>11, <1>12, <1>13
     DEF LoweringNext

LEMMA LoopGoesOn ==
  ASSUME AtSomeLine, LoweringNext
  PROVE  AtSomeLine'
<1>1. Len(text) \in Nat
  BY StructuredTextsAssumption DEF AtSomeLine
<1>2. text' = text
  BY DEF LoweringNext, PassLine, LowerAssignment, LowerIf, LowerElse, LowerEndIf, LowerLabel,
     LowerGoto, LowerIfGoto, LowerProc, LowerCall, LowerNextWord, LowerWords, LowerLoop,
     ReturnAil, GoOn
<1>3. pos' = pos + 1 \/ pos' = pos \/ pos' = Len(text) + 2
  BY DEF LoweringNext, PassLine, LowerAssignment, LowerIf, LowerElse, LowerEndIf, LowerLabel,
     LowerGoto, LowerIfGoto, LowerProc, LowerCall, LowerNextWord, LowerWords, LowerLoop,
     ReturnAil, GoOn
<1> QED
  BY <1>1, <1>2, <1>3 DEF AtSomeLine

LEMMA InvImpliesSound == LabelsInv => LabelsSound
<1> SUFFICES ASSUME LabelsInv PROVE LabelsSound
  OBVIOUS
<1>1. Internals(out.labels) \subseteq InternalLabel
  BY DEF Internals, InternalLabel, LabelsInv, LoweringInv, HasShape
<1>2. LabelsUnique
  BY <1>1 DEF LabelsUnique, Definitions, LabelsInv, LoweringInv, DefinedOnce, IsLabel
<1>3. JumpsResolved
  <2> SUFFICES ASSUME NEW i \in DOMAIN out.instructions, NEW g \in JumpsAt(i),
                      g.kind = "label", g.target \in Internals(out.labels)
               PROVE  g.target \in OpenEnds \/ \E d \in Definitions(g.target) : d > i
    BY DEF JumpsResolved
  <2>1. g \in JumpsFrom(out.instructions[i]) /\ IsInternal(g)
    BY <1>1 DEF JumpsAt, JumpsFrom, IsInternal
  <2>2. Finds(out, i, g.target)
    BY <2>1 DEF LabelsInv, LoweringInv, JumpsFind
  <2> QED
    BY <2>2 DEF Finds, OpenEnds, Definitions, IsLabel
<1> QED
  BY <1>2, <1>3 DEF LabelsSound

LEMMA StartSound == LoweringInit => LabelsInv
<1> SUFFICES ASSUME LoweringInit PROVE LabelsInv
  OBVIOUS
<1>1. /\ out.instructions = <<>> /\ out.ifs = <<>> /\ out.labels = 0
      /\ {"instructions", "diagnostics", "ifs", "labels", "plane", "rapid"} \subseteq DOMAIN out
  BY DEF LoweringInit, Start
<1>2. IsSeq(<<>>)
  BY DEF IsSeq
<1>3. LoweringInv(out)
  BY <1>1, <1>2 DEF LoweringInv, HasShape, OpenBlocksSound, LabelsCounted, DefinedOnce, EndsApart,
     JumpsFind
<1> QED
  BY <1>3 DEF LabelsInv, AtSomeLine, LoweringInit

(* The labels of IF blocks are sound in every text that uses none of their *)
(* names: none is defined twice, and every jump to one finds it further on *)
(* or leads to the end of a block still open.                              *)
THEOREM LabelsAreSound == NamesApart => (LoweringSpec => []LabelsSound)
<1> SUFFICES ASSUME NamesApart PROVE LoweringSpec => []LabelsSound
  OBVIOUS
<1>1. LabelsInv /\ [LoweringNext]_loweringVars => LabelsInv'
  <2> SUFFICES ASSUME LabelsInv, [LoweringNext]_loweringVars PROVE LabelsInv'
    OBVIOUS
  <2>1. CASE UNCHANGED loweringVars
    BY <2>1 DEF loweringVars, LabelsInv, AtSomeLine
  <2>2. CASE LoweringNext
    BY <2>2, LoopKeepsInv, LoopGoesOn DEF LabelsInv
  <2> QED
    BY <2>1, <2>2
<1> QED
  BY <1>1, StartSound, InvImpliesSound, PTL DEF LoweringSpec

----------------------------------------------------------------------------
(* The types, and the planes of arcs.  Neither needs names to be apart.    *)

Fields ==
  {"instructions", "diagnostics", "messages", "rejected", "ifs", "labels", "plane", "rapid"}

Shaped(r) ==
  /\ Fields \subseteq DOMAIN r
  /\ IsSeq(r.instructions) /\ IsSeq(r.diagnostics) /\ IsSeq(r.ifs) /\ r.labels \in Nat

IsBranch(ins) == {"op", "then", "else"} \subseteq DOMAIN ins /\ ins.op = "branch"

IsBlock(r, block) ==
  /\ {"branch", "end", "hasElse"} \subseteq DOMAIN block
  /\ block.branch \in DOMAIN r.instructions /\ IsBranch(r.instructions[block.branch])
  /\ block.end \in Internals(r.labels) /\ block.hasElse \in BOOLEAN

(* What ArcsFitTheirPlane says of one instruction.                         *)
Fits(t, ins) ==
  ins.op = "move" /\ ins.motion \in {"G2", "G3"} =>
    \E plane \in 17 .. 19 :
      ins.effective = CodeName(plane) /\ FitsPlane(t[ins.source.line], plane)

IsSound(t, r) ==
  /\ Shaped(r)
  /\ \A i \in DOMAIN r.ifs : IsBlock(r, r.ifs[i])
  /\ \A i \in DOMAIN r.instructions : Fits(t, r.instructions[i])

(* What every line leaves alone but one with words, and what it may report.*)
SameModes(r, s) ==
  s.plane = r.plane /\ s.rapid = r.rapid /\ s.messages = r.messages /\ s.rejected = r.rejected
ReportsOnly(r, s, k) == ErrorLines(s.diagnostics) \subseteq ErrorLines(r.diagnostics) \cup {k}

Leads(t, r, s, k) == IsSound(t, s) /\ SameModes(r, s) /\ ReportsOnly(r, s, k)

LEMMA BlockStays ==
  ASSUME NEW r, NEW s, NEW block, IsBlock(r, block), r.labels \in Nat, s.labels \in Nat,
         r.labels <= s.labels,
         \A d \in DOMAIN r.instructions :
           d \in DOMAIN s.instructions /\ (IsBranch(r.instructions[d]) => IsBranch(s.instructions[d]))
  PROVE  IsBlock(s, block)
<1>1. Internals(r.labels) \subseteq Internals(s.labels)
  BY DEF Internals
<1>2. QED
  BY <1>1, Zenon DEF IsBlock

LEMMA ErrorAppended ==
  ASSUME NEW ds, IsSeq(ds), NEW d
  PROVE  IsSeq(Append(ds, d)) /\ ErrorLines(Append(ds, d)) \subseteq ErrorLines(ds) \cup {d.line}
<1>1. /\ IsSeq(Append(ds, d)) /\ Len(ds) \in Nat /\ DOMAIN ds = 1 .. Len(ds)
      /\ DOMAIN Append(ds, d) = 1 .. Len(ds) + 1
      /\ \A i \in DOMAIN ds : Append(ds, d)[i] = ds[i]
      /\ Append(ds, d)[Len(ds) + 1] = d
  BY Appended
<1>2. ASSUME NEW i \in DOMAIN Append(ds, d), Append(ds, d)[i].severity = "Error"
      PROVE  Append(ds, d)[i].line \in ErrorLines(ds) \cup {d.line}
  <2>1. i \in DOMAIN ds \/ i = Len(ds) + 1
    BY <1>1
  <2>2. QED
    BY <1>1, <1>2, <2>1 DEF ErrorLines
<1>3. QED
  BY <1>1, <1>2 DEF ErrorLines

(* One instruction more.                                                   *)
LEMMA EmitLeads ==
  ASSUME NEW t, NEW r, IsSound(t, r), NEW ins, Fits(t, ins), NEW k
  PROVE  Leads(t, r, Emit(r, <<ins>>), k)
<1> DEFINE s == Emit(r, <<ins>>)
           old == r.instructions
<1>1. /\ DOMAIN s = DOMAIN r /\ s.instructions = old \o <<ins>> /\ s.diagnostics = r.diagnostics
      /\ s.ifs = r.ifs /\ s.labels = r.labels /\ SameModes(r, s)
  BY DEF Emit, IsSound, Shaped, Fields, SameModes
<1>2. IsSeq(old) /\ r.labels \in Nat
  BY DEF IsSound, Shaped
<1>3. s.instructions = Append(old, ins)
  BY <1>1, <1>2, OneBehind
<1> HIDE DEF s, old
<1>4. /\ IsSeq(s.instructions) /\ Len(old) \in Nat /\ DOMAIN old = 1 .. Len(old)
      /\ DOMAIN s.instructions = 1 .. Len(old) + 1
      /\ (\A i \in DOMAIN old : s.instructions[i] = old[i]) /\ s.instructions[Len(old) + 1] = ins
  BY <1>2, <1>3, Appended
<1>5. Shaped(s)
  BY <1>1, <1>4 DEF IsSound, Shaped
<1>6. \A i \in DOMAIN s.ifs : IsBlock(s, s.ifs[i])
  <2>1. \A d \in DOMAIN old : d \in DOMAIN s.instructions /\ s.instructions[d] = old[d]
    BY <1>4
  <2>2. r.labels <= s.labels
    BY <1>1, <1>2
  <2>3. QED
    BY <1>1, <1>2, <2>1, <2>2, BlockStays DEF IsSound, old
<1>7. ASSUME NEW i \in DOMAIN s.instructions
      PROVE  Fits(t, s.instructions[i])
  <2>1. i \in DOMAIN old \/ i = Len(old) + 1
    BY <1>4
  <2>2. QED
    BY <1>4, <2>1 DEF IsSound, old
<1>8. ReportsOnly(r, s, k)
  BY <1>1 DEF ReportsOnly
<1>9. QED
  BY <1>1, <1>5, <1>6, <1>7, <1>8 DEF Leads, IsSound, s

LEMMA ReportLeads ==
  ASSUME NEW t, NEW r, IsSound(t, r), NEW severity, NEW k, NEW why
  PROVE  Leads(t, r, Report(r, severity, k, why), k)
<1> DEFINE s == Report(r, severity, k, why)
           d == Diag(severity, k, why)
<1>1. /\ DOMAIN s = DOMAIN r /\ s.instructions = r.instructions
      /\ s.diagnostics = Append(r.diagnostics, d)
      /\ s.ifs = r.ifs /\ s.labels = r.labels /\ SameModes(r, s)
  BY DEF Report, IsSound, Shaped, Fields, SameModes
<1>2. d.line = k
  BY DEF Diag
<1> HIDE DEF s, d
<1>3. IsSeq(s.diagnostics) /\ ReportsOnly(r, s, k)
  BY <1>1, <1>2, ErrorAppended DEF IsSound, Shaped, ReportsOnly
<1>4. IsSound(t, s)
  BY <1>1, <1>3 DEF IsSound, Shaped, IsBlock
<1>5. QED
  BY <1>1, <1>3, <1>4 DEF Leads, s

(* A report behind an instruction.                                         *)
LEMMA EmitReportLeads ==
  ASSUME NEW t, NEW r, IsSound(t, r), NEW ins, Fits(t, ins), NEW severity, NEW k, NEW why
  PROVE  Leads(t, r, Report(Emit(r, <<ins>>), severity, k, why), k)
<1> DEFINE s == Emit(r, <<ins>>)
<1>1. Leads(t, r, s, k)
  BY EmitLeads
<1> HIDE DEF s
<1>2. Leads(t, s, Report(s, severity, k, why), k)
  BY <1>1, ReportLeads DEF Leads
<1>3. QED
  BY <1>1, <1>2 DEF Leads, SameModes, ReportsOnly, s

LEMMA AssignLeads ==
  ASSUME NEW t, NEW r, IsSound(t, r), NEW l, NEW k
  PROVE  Leads(t, r, AssignLine(r, l, k), k)
<1>1. \A at, head, value : Fits(t, ToolSelect(at, head, value))
  BY DEF ToolSelect, Fits
<1>2. Fits(t, [op |-> "assign", source |-> SourceOf(l, k), name |-> l.statement.to,
               rhs |-> l.statement.rhs])
  BY DEF Fits
<1> QED
  BY <1>1, <1>2, EmitLeads, ReportLeads DEF AssignLine

LEMMA JumpsLead ==
  ASSUME NEW t, NEW r, IsSound(t, r), NEW l, NEW k
  PROVE  /\ Leads(t, r, LabelLine(r, l, k), k) /\ Leads(t, r, GotoLine(r, l, k), k)
         /\ Leads(t, r, IfGotoLine(r, l, k), k)
<1>1. \A at, name : Fits(t, LabelAt(at, name))
  BY DEF LabelAt, Fits
<1>2. \A at, jump : Fits(t, Goto(at, jump))
  BY DEF Goto, Fits
<1>3. \A at, test, then, else : Fits(t, Branch(at, test, then, else))
  BY DEF Branch, Fits
<1>4. QED
  BY <1>1, <1>2, <1>3, EmitLeads DEF LabelLine, GotoLine, IfGotoLine

LEMMA SubprogramsLead ==
  ASSUME NEW t, NEW r, IsSound(t, r), NEW l, NEW k
  PROVE  Leads(t, r, ProcLine(r, l, k), k) /\ Leads(t, r, CallLine(r, l, k), k)
<1>1. \A at, name : Fits(t, LabelAt(at, name))
  BY DEF LabelAt, Fits
<1>2. \A at, target, repeat :
        Fits(t, [op |-> "call", source |-> at, target |-> target, repeat |-> repeat])
  BY DEF Fits
<1>3. Leads(t, r, ProcLine(r, l, k), k)
  BY <1>1, EmitLeads, EmitReportLeads DEF ProcLine
<1>4. Leads(t, r, CallLine(r, l, k), k)
  BY <1>2, EmitLeads, EmitReportLeads DEF CallLine
<1>5. QED
  BY <1>3, <1>4

LEMMA IfLeads ==
  ASSUME NEW t, NEW r, IsSound(t, r), NEW l, NEW k
  PROVE  Leads(t, r, IfLine(r, l, k), k)
<1> DEFINE at == SourceOf(l, k)
           then == Internal("IF_THEN", r.labels + 1)
           end == Internal("IF_END", r.labels + 2)
           branch == Branch(at, l.statement.test, To(then), To(end))
           label == LabelAt(at, then)
           block == [branch |-> NextInstruction(r), end |-> end, hasElse |-> FALSE]
           s == IfLine(r, l, k)
           old == r.instructions
<1>1. r.labels \in Nat /\ IsSeq(old) /\ IsSeq(r.ifs)
  BY DEF IsSound, Shaped
<1>2. /\ DOMAIN s = DOMAIN r /\ s.instructions = old \o <<branch, label>>
      /\ s.ifs = Append(r.ifs, block) /\ s.labels = r.labels + 2
      /\ s.diagnostics = r.diagnostics /\ SameModes(r, s)
  BY DEF IfLine, Emit, IsSound, Shaped, Fields, SameModes
<1>3. IsBranch(branch) /\ Fits(t, branch) /\ Fits(t, label)
  BY DEF Branch, LabelAt, IsBranch, Fits
<1>4. end \in Internals(r.labels + 2)
  BY <1>1 DEF Internal, Internals
<1>5. {"branch", "end", "hasElse"} \subseteq DOMAIN block /\ block.branch = Len(old) + 1
      /\ block.end = end /\ block.hasElse \in BOOLEAN
  BY DEF NextInstruction
<1> HIDE DEF at, then, end, branch, label, block, s, old
<1>6. s.instructions = Append(Append(old, branch), label)
  BY <1>1, <1>2, TwoBehind
<1>7. /\ IsSeq(s.instructions) /\ Len(old) \in Nat /\ DOMAIN old = 1 .. Len(old)
      /\ DOMAIN s.instructions = 1 .. Len(old) + 2
      /\ (\A i \in DOMAIN old : s.instructions[i] = old[i])
      /\ s.instructions[Len(old) + 1] = branch /\ s.instructions[Len(old) + 2] = label
  BY <1>1, <1>6, TwoAppended
<1>8. /\ IsSeq(s.ifs) /\ Len(r.ifs) \in Nat /\ DOMAIN r.ifs = 1 .. Len(r.ifs)
      /\ DOMAIN s.ifs = 1 .. Len(r.ifs) + 1
      /\ (\A i \in DOMAIN r.ifs : s.ifs[i] = r.ifs[i]) /\ s.ifs[Len(r.ifs) + 1] = block
  BY <1>1, <1>2, Appended
<1>9. Shaped(s)
  BY <1>1, <1>2, <1>7, <1>8 DEF IsSound, Shaped
<1>10. IsBlock(s, block)
  <2>1. Len(old) + 1 \in DOMAIN s.instructions
    BY <1>7
  <2>2. QED
    BY <1>2, <1>3, <1>4, <1>5, <1>7, <2>1 DEF IsBlock
<1>11. ASSUME NEW i \in DOMAIN s.ifs
       PROVE  IsBlock(s, s.ifs[i])
  <2>1. CASE i \in DOMAIN r.ifs
    <3>1. s.labels \in Nat /\ r.labels <= s.labels
      BY <1>1, <1>2
    <3>2. \A d \in DOMAIN old : d \in DOMAIN s.instructions /\ s.instructions[d] = old[d]
      BY <1>7
    <3>3. IsBlock(r, r.ifs[i])
      BY <2>1 DEF IsSound
    <3>4. QED
      BY <1>1, <1>8, <2>1, <3>1, <3>2, <3>3, BlockStays DEF old
  <2>2. CASE i = Len(r.ifs) + 1
    BY <1>8, <1>10, <2>2
  <2>3. QED
    BY <1>8, <2>1, <2>2
<1>12. ASSUME NEW i \in DOMAIN s.instructions
       PROVE  Fits(t, s.instructions[i])
  <2>1. i \in DOMAIN old \/ i = Len(old) + 1 \/ i = Len(old) + 2
    BY <1>7
  <2>2. QED
    BY <1>3, <1>7, <2>1 DEF IsSound, old
<1>13. ReportsOnly(r, s, k)
  BY <1>2 DEF ReportsOnly
<1>14. QED
  BY <1>2, <1>9, <1>11, <1>12, <1>13 DEF Leads, IsSound, s

LEMMA EndIfLeads ==
  ASSUME NEW t, NEW r, IsSound(t, r), NEW l, NEW k
  PROVE  Leads(t, r, EndIfLine(r, l, k), k)
<1>1. CASE r.ifs = <<>>
  BY <1>1, ReportLeads DEF EndIfLine
<1>2. CASE r.ifs # <<>>
  <2> DEFINE label == LabelAt(SourceOf(l, k), InnermostIf(r).end)
             e == Emit(r, <<label>>)
             s == EndIfLine(r, l, k)
  <2>1. Fits(t, label)
    BY DEF LabelAt, Fits
  <2>2. Leads(t, r, e, k) /\ e.ifs = r.ifs /\ e.instructions = r.instructions \o <<label>>
    <3> HIDE DEF label
    <3>1. Leads(t, r, e, k)
      BY <2>1, EmitLeads
    <3>2. QED
      BY <3>1 DEF Emit, IsSound, Shaped, Fields
  <2>3. s = [e EXCEPT !.ifs = Front(@)]
    BY <1>2 DEF EndIfLine
  <2> HIDE DEF label, e, s
  <2>4. IsSound(t, e)
    BY <2>2 DEF Leads
  <2>5. /\ DOMAIN s = DOMAIN e /\ s.instructions = e.instructions /\ s.diagnostics = e.diagnostics
        /\ s.labels = e.labels /\ SameModes(e, s) /\ s.ifs = SubSeq(r.ifs, 1, Len(r.ifs) - 1)
    BY <2>2, <2>3, <2>4 DEF IsSound, Shaped, Fields, SameModes, Front
  <2>6. /\ IsSeq(s.ifs) /\ Len(r.ifs) \in Nat \ {0} /\ DOMAIN r.ifs = 1 .. Len(r.ifs)
        /\ DOMAIN s.ifs = 1 .. Len(r.ifs) - 1 /\ \A i \in 1 .. Len(r.ifs) - 1 : s.ifs[i] = r.ifs[i]
    BY <1>2, <2>5, Shortened DEF IsSound, Shaped
  <2>7. Shaped(s)
    BY <2>4, <2>5, <2>6 DEF IsSound, Shaped
  <2>8. ASSUME NEW i \in DOMAIN s.ifs
        PROVE  IsBlock(s, s.ifs[i])
    <3>1. i \in DOMAIN e.ifs /\ s.ifs[i] = e.ifs[i]
      BY <2>2, <2>6
    <3>2. IsBlock(e, e.ifs[i])
      BY <2>4, <3>1 DEF IsSound
    <3>3. QED
      BY <2>5, <3>1, <3>2 DEF IsBlock
  <2>9. IsSound(t, s)
    BY <2>4, <2>5, <2>7, <2>8 DEF IsSound
  <2>10. QED
    BY <2>2, <2>5, <2>9 DEF Leads, SameModes, ReportsOnly, s
<1>3. QED
  BY <1>1, <1>2

LEMMA ElseOfIfLeads ==
  ASSUME NEW t, NEW r, IsSound(t, r), r.ifs # <<>>, NEW l, NEW k
  PROVE  Leads(t, r, ElseOfIf(r, l, k), k)
<1> DEFINE at == SourceOf(l, k)
           else == Internal("IF_ELSE", r.labels + 1)
           goto == Goto(at, To(InnermostIf(r).end))
           label == LabelAt(at, else)
           b == r.ifs[Len(r.ifs)].branch
           long == r.instructions \o <<goto, label>>
           branch == [long[b] EXCEPT !.else = To(else)]
           s == ElseOfIf(r, l, k)
           old == r.instructions
<1>1. r.labels \in Nat /\ IsSeq(old) /\ IsSeq(r.ifs)
  BY DEF IsSound, Shaped
<1>2. Len(r.ifs) \in DOMAIN r.ifs
  BY <1>1, Shortened
<1>3. b \in DOMAIN old /\ IsBranch(old[b]) /\ IsBlock(r, r.ifs[Len(r.ifs)])
  BY <1>2 DEF IsSound, IsBlock
<1>4. /\ DOMAIN s = DOMAIN r
      /\ s.instructions = [long EXCEPT ![b] = branch]
      /\ s.ifs = [r.ifs EXCEPT ![Len(r.ifs)] = [r.ifs[Len(r.ifs)] EXCEPT !.hasElse = TRUE]]
      /\ s.labels = r.labels + 1 /\ s.diagnostics = r.diagnostics /\ SameModes(r, s)
  BY DEF ElseOfIf, Emit, InnermostIf, Last, IsSound, Shaped, Fields, SameModes
<1>5. Fits(t, goto) /\ Fits(t, label)
  BY DEF Goto, LabelAt, Fits
<1> HIDE DEF at, else, goto, label, s, old
<1>6. long = Append(Append(old, goto), label)
  BY <1>1, TwoBehind DEF old
<1> HIDE DEF long
<1>7. /\ IsSeq(long) /\ Len(old) \in Nat /\ DOMAIN old = 1 .. Len(old)
      /\ DOMAIN long = 1 .. Len(old) + 2 /\ (\A i \in DOMAIN old : long[i] = old[i])
      /\ long[Len(old) + 1] = goto /\ long[Len(old) + 2] = label
  BY <1>1, <1>6, TwoAppended
<1> HIDE DEF b
<1>8. b \in DOMAIN long /\ long[b] = old[b]
  BY <1>3, <1>7
<1>9. IsBranch(branch) /\ Fits(t, branch)
  BY <1>3, <1>8 DEF IsBranch, Fits
<1> HIDE DEF branch
<1>10. /\ IsSeq(s.instructions) /\ DOMAIN s.instructions = DOMAIN long /\ s.instructions[b] = branch
       /\ \A i \in DOMAIN long : i # b => s.instructions[i] = long[i]
  <2> DEFINE new == [long EXCEPT ![b] = branch]
  <2>1. /\ IsSeq(new) /\ DOMAIN new = DOMAIN long /\ new[b] = branch
        /\ \A i \in DOMAIN long : i # b => new[i] = long[i]
    BY <1>7, <1>8, Changed
  <2> HIDE DEF new
  <2>2. s.instructions = new
    BY <1>4 DEF new
  <2>3. QED
    BY <2>1, <2>2
<1> DEFINE top == [r.ifs[Len(r.ifs)] EXCEPT !.hasElse = TRUE]
<1>11. /\ DOMAIN top = DOMAIN r.ifs[Len(r.ifs)] /\ top.branch = r.ifs[Len(r.ifs)].branch
       /\ top.end = r.ifs[Len(r.ifs)].end /\ top.hasElse = TRUE
  BY <1>3 DEF IsBlock
<1> HIDE DEF top
<1>12. /\ IsSeq(s.ifs) /\ DOMAIN s.ifs = DOMAIN r.ifs /\ s.ifs[Len(r.ifs)] = top
       /\ \A i \in DOMAIN r.ifs : i # Len(r.ifs) => s.ifs[i] = r.ifs[i]
  BY <1>1, <1>2, <1>4, Changed DEF top
<1>13. Shaped(s)
  BY <1>1, <1>4, <1>10, <1>12 DEF IsSound, Shaped
<1>14. ASSUME NEW block, IsBlock(r, block)
       PROVE  IsBlock(s, block)
  <2>1. s.labels \in Nat /\ r.labels <= s.labels
    BY <1>1, <1>4
  <2>2. \A d \in DOMAIN old : d \in DOMAIN s.instructions /\ (d # b => s.instructions[d] = old[d])
    BY <1>7, <1>10
  <2>3. \A d \in DOMAIN old : d \in DOMAIN s.instructions /\ (IsBranch(old[d]) => IsBranch(s.instructions[d]))
    BY <1>9, <1>10, <2>2
  <2>4. QED
    BY <1>1, <1>14, <2>1, <2>3, BlockStays DEF old
<1>15. ASSUME NEW i \in DOMAIN s.ifs
       PROVE  IsBlock(s, s.ifs[i])
  <2>1. IsBlock(s, r.ifs[i])
    BY <1>12, <1>14 DEF IsSound
  <2>2. CASE i = Len(r.ifs)
    BY <1>11, <1>12, <2>1, <2>2 DEF IsBlock
  <2>3. CASE i # Len(r.ifs)
    BY <1>12, <2>1, <2>3
  <2>4. QED
    BY <2>2, <2>3
<1>16. ASSUME NEW i \in DOMAIN s.instructions
       PROVE  Fits(t, s.instructions[i])
  <2>1. i \in DOMAIN old \/ i = Len(old) + 1 \/ i = Len(old) + 2
    BY <1>7, <1>10
  <2>2. Fits(t, long[i])
    BY <1>5, <1>7, <2>1 DEF IsSound, old
  <2>3. QED
    BY <1>9, <1>10, <2>2
<1>17. ReportsOnly(r, s, k)
  BY <1>4 DEF ReportsOnly
<1>18. QED
  BY <1>4, <1>13, <1>15, <1>16, <1>17 DEF Leads, IsSound, s

LEMMA ElseLeads ==
  ASSUME NEW t, NEW r, IsSound(t, r), NEW l, NEW k
  PROVE  Leads(t, r, ElseLine(r, l, k), k)
BY ReportLeads, ElseOfIfLeads DEF ElseLine

(* The text is read as far as the messages of it go.                       *)
Reads(t, p, r) == p <= Len(t) /\ (r.rejected = NoValue \/ p < r.rejected)

(* At the word w of line p: the plane is the one message lowering has at   *)
(* that line, and its codes up to the word; nothing is reported of the     *)
(* line but what the parser says of it.                                    *)
InLine(t, p, w, r) ==
  /\ w \in 1 .. Len(t[p].words) + 1
  /\ w # 1 => KindOf(t[p]) = "words" /\ ~Skipped(t[p])
  /\ r.plane = CodeName(PlaneOf(SubSeq(t[p].words, 1, w - 1), Lowered(t, p - 1).plane))
  /\ ErrorLines(r.diagnostics) \subseteq ErrorLines(LowerToMessages(t).diagnostics) \cup 1 .. p - 1

LoopState(t, p, w, r) ==
  /\ t \in Texts /\ p \in 1 .. Len(t) + 2 /\ IsSound(t, r)
  /\ r.messages = LowerToMessages(t).messages /\ r.rejected = LowerToMessages(t).rejected
  /\ r.plane \in {"G17", "G18", "G19"} /\ r.rapid \in {"none", "RTLION", "RTLIOF"}
  /\ Reads(t, p, r) => InLine(t, p, w, r)
  /\ ~Reads(t, p, r) => w = 1

LoopInv == LoopState(text, pos, word, out)

(* What message lowering says of a line that is read.                      *)
LEMMA ReadLine ==
  ASSUME NEW t \in Texts, NEW r, r.rejected = LowerToMessages(t).rejected, NEW p \in Nat \ {0},
         Reads(t, p, r)
  PROVE  /\ IsText(t) /\ Len(t) \in Nat /\ p \in 1 .. Len(t) /\ t[p] \in TextLine /\ t[p] \in TextLines
         /\ ~Stops(t, p) /\ p # r.rejected
         /\ Lowered(t, p - 1).plane \in 17 .. 19 /\ Lowered(t, p - 1).rejected = NoValue
         /\ Lowered(t, p).plane = IF Skipped(t[p]) THEN Lowered(t, p - 1).plane
                                  ELSE PlaneOf(t[p].words, Lowered(t, p - 1).plane)
<1>1. /\ t \in Seq(TextLines) /\ IsText(t) /\ Len(t) \in Nat
      /\ FromLines(t, LowerToMessages(t), Len(t)) /\ IsResult(t, LowerToMessages(t), Len(t))
  BY StructuredTextsAssumption, LinesMakeText, LoweredMessages
<1>2. p \in 1 .. Len(t)
  BY <1>1 DEF Reads
<1>3. t[p] \in TextLine /\ t[p] \in TextLines
  BY <1>1, <1>2, TextLinesAssumption
<1>4. LowerToMessages(t) = Lowered(t, Len(t))
  BY LoweredWhole
<1>5. LowerToMessages(t).rejected \in {NoValue} \cup 1 .. Len(t)
  BY <1>1 DEF IsResult, Result
<1>6. p \in Reading(LowerToMessages(t), Len(t)) /\ p # r.rejected
  BY <1>2, <1>5 DEF Reading, Reads, NoValue
<1>7. ~Stops(t, p)
  <2>1. p \notin Stopping(t)
    BY <1>1, <1>6 DEF FromLines
  <2>2. QED
    BY <1>2, <2>1, Zenon DEF Stopping
<1>8. Lowered(t, p - 1).rejected = NoValue
  BY <1>1, <1>2, <1>4, <1>6, NothingBefore
<1>9. Lowered(t, p - 1).plane \in 17 .. 19
  <2>1. p - 1 \in 0 .. Len(t)
    BY <1>1, <1>2
  <2>2. QED
    BY <1>1, <2>1, LoweredIsResult DEF IsResult, Result
<1>10. Lowered(t, p).plane = IF Skipped(t[p]) THEN Lowered(t, p - 1).plane
                             ELSE PlaneAt(t, Lowered(t, p - 1), p)
  BY <1>1, <1>2, <1>7, <1>8, LineOutcome, Zenon
<1>11. QED
  BY <1>1, <1>2, <1>3, <1>6, <1>7, <1>8, <1>9, <1>10 DEF PlaneAt

(* Words without a plane code keep the plane.                              *)
LEMMA NoCodesNoChange ==
  ASSUME NEW ws, Len(ws) \in Nat, DOMAIN ws = 1 .. Len(ws), NEW current,
         \A i \in DOMAIN ws : ~IsG(ws[i], 17 .. 19)
  PROVE  PlaneOf(ws, current) = current
<1>1. {i \in DOMAIN ws : IsG(ws[i], 17 .. 19)} = {}
  BY Zenon
<1>2. QED
  BY <1>1, PlaneCode

LEMMA NoWords == ASSUME NEW ws, NEW current PROVE PlaneOf(SubSeq(ws, 1, 0), current) = current
<1>1. SubSeq(ws, 1, 0) = <<>>
  OBVIOUS
<1>2. Len(<<>>) \in Nat /\ DOMAIN <<>> = 1 .. Len(<<>>) /\ \A i \in DOMAIN <<>> : FALSE
  OBVIOUS
<1>3. PlaneOf(<<>>, current) = current
  BY <1>2, NoCodesNoChange
<1>4. QED
  BY <1>1, <1>3

(* On to the next line.                                                    *)
LEMMA NextLine ==
  ASSUME NEW t, NEW p, NEW w, NEW r, LoopState(t, p, w, r), Reads(t, p, r),
         NEW s, Leads(t, r, s, p),
         r.plane = CodeName(IF Skipped(t[p]) THEN Lowered(t, p - 1).plane
                            ELSE PlaneOf(t[p].words, Lowered(t, p - 1).plane))
  PROVE  LoopState(t, p + 1, 1, s)
<1>1. t \in Texts /\ p \in Nat \ {0} /\ r.rejected = LowerToMessages(t).rejected
  BY DEF LoopState
<1>2. /\ Len(t) \in Nat /\ p \in 1 .. Len(t) /\ (p + 1) - 1 = p
      /\ r.plane = CodeName(Lowered(t, p).plane)
  BY <1>1, ReadLine
<1>3. p + 1 \in 1 .. Len(t) + 2
  BY <1>2
<1>4. SameModes(r, s) /\ IsSound(t, s) /\ ReportsOnly(r, s, p)
  BY DEF Leads
<1>5. ASSUME Reads(t, p + 1, s)
      PROVE  InLine(t, p + 1, 1, s)
  <2>1. p + 1 \in 1 .. Len(t) /\ p + 1 \in Nat \ {0} /\ s.rejected = LowerToMessages(t).rejected
    BY <1>1, <1>2, <1>4, <1>5 DEF Reads, SameModes
  <2>2. Len(t[p + 1].words) \in Nat
    <3>1. IsText(t)
      BY <1>1, ReadLine
    <3>2. QED
      BY <2>1, <3>1 DEF IsText
  <2>3. 1 \in 1 .. Len(t[p + 1].words) + 1 /\ 1 - 1 = 0
    BY <2>2
  <2>4. s.plane = CodeName(PlaneOf(SubSeq(t[p + 1].words, 1, 1 - 1), Lowered(t, (p + 1) - 1).plane))
    BY <1>2, <1>4, <2>3, NoWords DEF SameModes
  <2>5. ErrorLines(s.diagnostics) \subseteq
          ErrorLines(LowerToMessages(t).diagnostics) \cup 1 .. (p + 1) - 1
    <3>1. ErrorLines(r.diagnostics) \subseteq ErrorLines(LowerToMessages(t).diagnostics) \cup 1 .. p - 1
      BY DEF LoopState, InLine
    <3>2. 1 .. (p + 1) - 1 = 1 .. p - 1 \cup {p}
      BY <1>2
    <3>3. QED
      BY <1>4, <3>1, <3>2 DEF ReportsOnly
  <2>6. QED
    BY <2>3, <2>4, <2>5 DEF InLine
<1>6. QED
  BY <1>3, <1>4, <1>5 DEF LoopState, SameModes

(* A line that is no line of words sets no plane.                          *)
LEMMA OnlyWordsSetPlanes ==
  ASSUME NEW l \in TextLines, KindOf(l) # "words", KindOf(l) # "malformed"
  PROVE  \A i \in DOMAIN l.words : ~IsG(l.words[i], 17 .. 19)
<1>1. l \in TextLine /\ (l.statement.kind # "none" => l.words = <<>>)
  BY TextLinesAssumption
<1>2. l.words \in Seq(Word)
  BY <1>1 DEF TextLine
<1>3. \A w : w.value = NoValue => ~IsG(w, 17 .. 19)
  BY DEF IsG, NoValue
<1>4. \A w : w.head # "G" => ~IsG(w, 17 .. 19)
  BY DEF IsG
<1>5. CASE l.statement.kind # "none"
  BY <1>1, <1>5
<1>6. CASE l.statement.kind = "none" /\ IsProc(l)
  <2>1. Len(l.words) = 2 /\ l.words[1].value = NoValue /\ IsTarget(l.words[2])
    BY <1>6 DEF IsProc, IsMalformedProc
  <2>2. l.words[2].value = NoValue
    BY <2>1 DEF IsTarget
  <2>3. \A i \in DOMAIN l.words : i = 1 \/ i = 2
    BY <1>2, <2>1
  <2>4. QED
    BY <1>3, <2>1, <2>2, <2>3
<1>7. CASE l.statement.kind = "none" /\ CallsIn(l.words) # {}
  <2>1. \/ Len(l.words) = 1 /\ IsTarget(l.words[1])
        \/ Len(l.words) = 2 /\ l.words[1].head = "M" /\ l.words[2].head = "P"
        \/ \E j \in {1, 2} : Len(l.words) = 2 /\ IsTarget(l.words[j]) /\ l.words[3 - j].head = "P"
    BY <1>7 DEF CallsIn, IsIsoCall, IsM98, IsRepeat
  <2>2. CASE Len(l.words) = 1 /\ IsTarget(l.words[1])
    <3>1. \A i \in DOMAIN l.words : i = 1
      BY <1>2, <2>2
    <3>2. QED
      BY <1>3, <2>2, <3>1 DEF IsTarget
  <2>3. CASE Len(l.words) = 2 /\ l.words[1].head = "M" /\ l.words[2].head = "P"
    <3>1. \A i \in DOMAIN l.words : i = 1 \/ i = 2
      BY <1>2, <2>3
    <3>2. QED
      BY <1>4, <2>3, <3>1
  <2>4. CASE \E j \in {1, 2} : Len(l.words) = 2 /\ IsTarget(l.words[j]) /\ l.words[3 - j].head = "P"
    <3>1. PICK j \in {1, 2} : Len(l.words) = 2 /\ IsTarget(l.words[j]) /\ l.words[3 - j].head = "P"
      BY <2>4
    <3>2. \A i \in DOMAIN l.words : i = j \/ i = 3 - j
      BY <1>2, <3>1
    <3>3. QED
      BY <1>3, <1>4, <3>1, <3>2 DEF IsTarget
  <2>5. QED
    BY <2>1, <2>2, <2>3, <2>4
<1>8. QED
  BY <1>5, <1>6, <1>7 DEF KindOf

(* A line that is not one of words, or is passed over, keeps the plane.    *)
LEMMA PlaneBeforeOther ==
  ASSUME NEW t, NEW p, NEW w, NEW r, LoopState(t, p, w, r), Reads(t, p, r),
         \/ Skipped(t[p])
         \/ KindOf(t[p]) # "words" /\ KindOf(t[p]) # "malformed"
  PROVE  /\ w = 1
         /\ r.plane = CodeName(IF Skipped(t[p]) THEN Lowered(t, p - 1).plane
                               ELSE PlaneOf(t[p].words, Lowered(t, p - 1).plane))
<1>1. t \in Texts /\ p \in Nat \ {0} /\ r.rejected = LowerToMessages(t).rejected
  BY DEF LoopState
<1>2. /\ p \in 1 .. Len(t) /\ t[p] \in TextLines
      /\ Len(t[p].words) \in Nat /\ DOMAIN t[p].words = 1 .. Len(t[p].words)
  BY <1>1, ReadLine DEF IsText
<1>3. w = 1
  BY DEF LoopState, InLine
<1>4. r.plane = CodeName(Lowered(t, p - 1).plane)
  <2>1. r.plane = CodeName(PlaneOf(SubSeq(t[p].words, 1, w - 1), Lowered(t, p - 1).plane)) /\ w - 1 = 0
    BY <1>3 DEF LoopState, InLine
  <2>2. QED
    BY <2>1, NoWords
<1>5. CASE Skipped(t[p])
  BY <1>3, <1>4, <1>5
<1>6. CASE KindOf(t[p]) # "words" /\ KindOf(t[p]) # "malformed"
  <2>1. PlaneOf(t[p].words, Lowered(t, p - 1).plane) = Lowered(t, p - 1).plane
    BY <1>2, <1>6, OnlyWordsSetPlanes, NoCodesNoChange
  <2>2. QED
    BY <1>3, <1>4, <2>1
<1>7. QED
  BY <1>5, <1>6

(* Only skipped lines are passed over among those that are read.           *)
LEMMA PassedIsSkipped ==
  ASSUME NEW t, NEW p, NEW w, NEW r, LoopState(t, p, w, r), Reads(t, p, r), Passed(r, t[p], p)
  PROVE  Skipped(t[p])
<1> SUFFICES ASSUME ~Skipped(t[p])
             PROVE  FALSE
  OBVIOUS
<1>1. t \in Texts /\ p \in Nat \ {0} /\ r.rejected = LowerToMessages(t).rejected
  BY DEF LoopState
<1>2. /\ Len(t) \in Nat /\ p \in 1 .. Len(t) /\ ~Stops(t, p) /\ p # r.rejected
      /\ IsResult(t, LowerToMessages(t), Len(t))
  BY <1>1, ReadLine, LoweredMessages, StructuredTextsAssumption
<1>3. p \in ErrorLines(r.diagnostics)
  BY ErrorIsLine DEF Passed
<1>4. p \in ErrorLines(LowerToMessages(t).diagnostics)
  BY <1>2, <1>3 DEF LoopState, InLine
<1>5. p \in FaultyLines(t)
  BY <1>1, <1>2, <1>4 DEF IsResult
<1>6. QED
  BY <1>2, <1>5 DEF Stops

(* The next word.                                                          *)
LEMMA OneMoreWord ==
  ASSUME NEW ws \in Seq(Word), NEW n \in 0 .. Len(ws), n + 1 \in 1 .. Len(ws), NEW current
  PROVE  PlaneOf(SubSeq(ws, 1, n + 1), current) =
           IF IsG(ws[n + 1], 17 .. 19) THEN ws[n + 1].value ELSE PlaneOf(SubSeq(ws, 1, n), current)
<1> DEFINE some == SubSeq(ws, 1, n)
           more == SubSeq(ws, 1, n + 1)
           own == {i \in DOMAIN some : IsG(some[i], 17 .. 19)}
           now == {i \in DOMAIN more : IsG(more[i], 17 .. 19)}
<1>1. /\ n \in Nat /\ Len(some) = n /\ DOMAIN some = 1 .. n
      /\ Len(more) = n + 1 /\ DOMAIN more = 1 .. n + 1
      /\ \A i \in 1 .. n : some[i] = ws[i] /\ more[i] = ws[i]
      /\ more[n + 1] = ws[n + 1] /\ n + 1 \in Nat
  OBVIOUS
<1> HIDE DEF some, more
<1>2. CASE IsG(ws[n + 1], 17 .. 19)
  <2>1. n + 1 \in now /\ \A j \in now : j <= n + 1
    BY <1>1, <1>2
  <2> HIDE DEF now
  <2>2. PlaneOf(more, current) = more[n + 1].value
    BY <1>1, <2>1, PlaneCode DEF now
  <2>3. QED
    BY <1>1, <1>2, <2>2 DEF more, some
<1>3. CASE ~IsG(ws[n + 1], 17 .. 19)
  <2>1. now = own
    <3>1. \A i : i \in now <=> i \in own
      <4>1. \A i \in 1 .. n + 1 : i \in 1 .. n \/ i = n + 1
        BY <1>1
      <4>2. \A i \in 1 .. n : i \in 1 .. n + 1
        BY <1>1
      <4>3. QED
        BY <1>1, <1>3, <4>1, <4>2, Zenon
    <3> HIDE DEF now, own
    <3>2. QED
      BY <3>1
  <2>2. /\ own = {} => PlaneOf(some, current) = current
        /\ \A i \in own : (\A j \in own : j <= i) => PlaneOf(some, current) = some[i].value
    BY <1>1, PlaneCode
  <2>3. /\ now = {} => PlaneOf(more, current) = current
        /\ \A i \in now : (\A j \in now : j <= i) => PlaneOf(more, current) = more[i].value
    BY <1>1, PlaneCode
  <2>4. own \subseteq 1 .. n
    BY <1>1
  <2> HIDE DEF now, own
  <2>5. PlaneOf(more, current) = PlaneOf(some, current)
    <3>1. CASE own = {}
      BY <2>1, <2>2, <2>3, <3>1
    <3>2. CASE own # {}
      <4>1. Max(own) \in own /\ \A j \in own : j <= Max(own)
        BY <1>1, <2>4, <3>2, Greatest
      <4>2. PICK top \in own : \A j \in own : j <= top
        BY <4>1
      <4>3. PlaneOf(some, current) = some[top].value /\ PlaneOf(more, current) = more[top].value
        BY <2>1, <2>2, <2>3, <4>2
      <4>4. some[top] = more[top]
        BY <1>1, <2>4, <4>2
      <4>5. QED
        BY <4>3, <4>4
    <3>3. QED
      BY <3>1, <3>2
  <2>6. QED
    BY <1>3, <2>5 DEF more, some
<1>4. QED
  BY <1>2, <1>3

(* The modal codes other than planes leave the plane as it is.             *)
LEMMA OtherModes ==
  ASSUME NEW t, NEW r, IsSound(t, r), NEW s, DOMAIN s = DOMAIN r, s.instructions = r.instructions,
         s.diagnostics = r.diagnostics, s.ifs = r.ifs, s.labels = r.labels
  PROVE  IsSound(t, s)
BY DEF IsSound, Shaped, IsBlock

(* A word emits at most one instruction and may set plane and mode.        *)
LEMMA WordLeads ==
  ASSUME NEW t, NEW r, IsSound(t, r), NEW l, NEW k, NEW i
  PROVE  LET s == LowerWord(r, l, k, i) IN
           /\ IsSound(t, s) /\ s.messages = r.messages /\ s.rejected = r.rejected
           /\ s.diagnostics = r.diagnostics
           /\ s.plane = IF IsG(l.words[i], 17 .. 19) THEN CodeName(l.words[i].value) ELSE r.plane
           /\ s.rapid \in {r.rapid, "RTLION", "RTLIOF"}
<1> DEFINE w == l.words[i]
           code == WordCode(w, SourceOf(l, k))
           s == LowerWord(r, l, k, i)
           e == IF code = <<>> THEN r ELSE Emit(r, code)
<1>1. code = <<>> \/ \E ins : ins.op # "move" /\ code = <<ins>>
  <2>1. \A at, group, value : Modal(at, group, value).op # "move"
    BY DEF Modal
  <2>2. \A at, head, value : ToolSelect(at, head, value).op # "move"
    BY DEF ToolSelect
  <2>3. \A at : [op |-> "return", source |-> at].op # "move" /\ MInstruction(w, at).op # "move"
    BY DEF MInstruction
  <2>4. QED
    BY <2>1, <2>2, <2>3 DEF WordCode
<1>2. /\ DOMAIN s = DOMAIN r /\ s.instructions = r.instructions \o code
      /\ s.messages = r.messages /\ s.rejected = r.rejected
      /\ s.diagnostics = r.diagnostics /\ s.ifs = r.ifs /\ s.labels = r.labels
      /\ s.plane = (IF IsG(w, 17 .. 19) THEN CodeName(w.value) ELSE r.plane)
      /\ s.rapid \in {r.rapid, "RTLION", "RTLIOF"}
  BY DEF LowerWord, IsSound, Shaped, Fields
<1> HIDE DEF code, s
<1>3. IsSound(t, e)
  <2>1. ASSUME NEW ins, ins.op # "move", code = <<ins>>
        PROVE  IsSound(t, Emit(r, code))
    <3>1. Fits(t, ins)
      BY <2>1 DEF Fits
    <3>2. QED
      BY <2>1, <3>1, EmitLeads DEF Leads
  <2>2. QED
    BY <1>1, <2>1
<1>4. /\ DOMAIN e = DOMAIN r /\ e.instructions = r.instructions \o code
      /\ e.diagnostics = r.diagnostics /\ e.ifs = r.ifs /\ e.labels = r.labels
  <2>1. CASE code = <<>>
    BY <2>1, NothingBehind DEF IsSound, Shaped
  <2>2. CASE code # <<>>
    BY <2>2 DEF Emit, IsSound, Shaped, Fields
  <2>3. QED
    BY <2>1, <2>2
<1> HIDE DEF e
<1>5. IsSound(t, s)
  BY <1>2, <1>3, <1>4, OtherModes
<1>6. QED
  BY <1>2, <1>5 DEF s

LEMMA NextWord ==
  ASSUME NEW t, NEW p, NEW w, NEW r, LoopState(t, p, w, r), Reads(t, p, r),
         ~Skipped(t[p]), KindOf(t[p]) = "words", w <= Len(t[p].words)
  PROVE  LoopState(t, p, w + 1, LowerWord(r, t[p], p, w))
<1> DEFINE s == LowerWord(r, t[p], p, w)
           ws == t[p].words
           low == Lowered(t, p - 1).plane
           plane == PlaneOf(SubSeq(ws, 1, w - 1), low)
<1>1. t \in Texts /\ p \in Nat \ {0} /\ r.rejected = LowerToMessages(t).rejected
  BY DEF LoopState
<1>2. /\ p \in 1 .. Len(t) /\ t[p] \in TextLine /\ Len(ws) \in Nat /\ DOMAIN ws = 1 .. Len(ws)
      /\ low \in 17 .. 19
  BY <1>1, ReadLine DEF IsText
<1>3. ws \in Seq(Word)
  BY <1>2 DEF TextLine
<1>4. /\ IsSound(t, s) /\ s.messages = r.messages /\ s.rejected = r.rejected
      /\ s.diagnostics = r.diagnostics
      /\ s.plane = (IF IsG(ws[w], 17 .. 19) THEN CodeName(ws[w].value) ELSE r.plane)
      /\ s.rapid \in {r.rapid, "RTLION", "RTLIOF"}
  BY WordLeads DEF LoopState
<1>5. /\ InLine(t, p, w, r) /\ w \in 1 .. Len(ws) + 1 /\ r.plane = CodeName(plane)
  BY DEF LoopState, InLine
<1> HIDE DEF s, ws, low
<1>6. w - 1 \in 0 .. Len(ws) /\ (w - 1) + 1 = w /\ w \in 1 .. Len(ws) /\ (w + 1) - 1 = w
      /\ w + 1 \in 1 .. Len(ws) + 1
  BY <1>2, <1>5 DEF ws
<1>7. PlaneOf(SubSeq(ws, 1, w), low) = IF IsG(ws[w], 17 .. 19) THEN ws[w].value ELSE plane
  <2> HIDE DEF plane
  <2>1. PlaneOf(SubSeq(ws, 1, (w - 1) + 1), low) =
          IF IsG(ws[(w - 1) + 1], 17 .. 19) THEN ws[(w - 1) + 1].value ELSE plane
    BY <1>3, <1>6, OneMoreWord, Zenon DEF plane
  <2>2. QED
    BY <1>6, <2>1
<1>8. s.plane = CodeName(PlaneOf(SubSeq(ws, 1, (w + 1) - 1), low))
  BY <1>4, <1>5, <1>6, <1>7
<1>9. s.plane \in {"G17", "G18", "G19"}
  <2>1. IsG(ws[w], 17 .. 19) => CodeName(ws[w].value) \in {"G17", "G18", "G19"}
    BY DEF IsG, CodeName
  <2>2. QED
    BY <1>4, <2>1 DEF LoopState
<1>10. InLine(t, p, w + 1, s)
  BY <1>4, <1>5, <1>6, <1>8 DEF InLine, ws, low
<1>11. Reads(t, p, s)
  BY <1>4 DEF Reads
<1>12. s.rapid \in {"none", "RTLION", "RTLIOF"}
  BY <1>4 DEF LoopState
<1>13. QED
  BY <1>4, <1>9, <1>10, <1>11, <1>12 DEF LoopState, s

(* The motion of a line gets the plane its center words were checked with. *)
LEMMA MotionFits ==
  ASSUME NEW t, NEW p, NEW w, NEW r, LoopState(t, p, w, r), Reads(t, p, r),
         ~Skipped(t[p]), KindOf(t[p]) = "words", w > Len(t[p].words)
  PROVE  /\ r.plane = CodeName(PlaneOf(t[p].words, Lowered(t, p - 1).plane))
         /\ \A i \in DOMAIN r.messages : r.messages[i].line = p =>
              Fits(t, MoveOf(r.messages[i], t[p], SourceOf(t[p], p), r))
<1> DEFINE l == t[p]
           ws == l.words
           low == Lowered(t, p - 1).plane
           plane == PlaneOf(ws, low)
<1>1. t \in Texts /\ p \in Nat \ {0} /\ r.rejected = LowerToMessages(t).rejected
  BY DEF LoopState
<1>2. /\ p \in 1 .. Len(t) /\ l \in TextLine /\ Len(ws) \in Nat /\ DOMAIN ws = 1 .. Len(ws)
      /\ low \in 17 .. 19 /\ ~Stops(t, p)
  BY <1>1, ReadLine DEF IsText
<1>3. r.plane = CodeName(plane)
  <2>1. w \in 1 .. Len(ws) + 1 /\ r.plane = CodeName(PlaneOf(SubSeq(ws, 1, w - 1), low))
    BY DEF LoopState, InLine
  <2>2. w - 1 = Len(ws) /\ ws \in Seq(Word)
    BY <1>2, <2>1 DEF TextLine
  <2>3. SubSeq(ws, 1, Len(ws)) = ws
    BY <2>2
  <2>4. QED
    BY <2>1, <2>2, <2>3
<1>4. plane \in 17 .. 19
  BY <1>2, PlaneStaysPlane
<1>5. IsArc(l) => FitsPlane(l, plane)
  <2>1. WrongAt(t, Lowered(t, p - 1), p) = <<>>
    BY <1>2, Zenon DEF Stops
  <2>2. PlaneDiagnostics(l, p, plane) = <<>>
    BY <2>1 DEF WrongAt, PlaneAt
  <2> HIDE DEF l, plane
  <2>3. ~IsArc(l) \/ FitsPlane(l, plane)
    BY <1>1, <1>2, <2>2, PlaneErrors DEF l
  <2>4. QED
    BY <2>3, Zenon
<1>6. ASSUME NEW i \in DOMAIN r.messages, r.messages[i].line = p
      PROVE  Fits(t, MoveOf(r.messages[i], l, SourceOf(l, p), r))
  <2> DEFINE message == r.messages[i]
             move == MoveOf(message, l, SourceOf(l, p), r)
  <2>1. FromLines(t, LowerToMessages(t), Len(t)) /\ r.messages = LowerToMessages(t).messages
    BY <1>1, LoweredMessages, StructuredTextsAssumption DEF LoopState
  <2>2. message = MessageOf(l, p) /\ p \in Giving(t)
    BY <1>6, <2>1 DEF FromLines, LinesOf
  <2>3. message.code = MotionOf(ws) /\ MotionOf(ws) # NoValue
    <3>1. GivesOne(t, p)
      BY <2>2, Zenon DEF Giving
    <3>2. QED
      BY <2>2, <3>1 DEF MessageOf, GivesOne
  <2>4. message.code \in 0 .. 4
    BY <1>2, <2>3, MotionCode DEF Motion
  <2>5. /\ move.source.line = p
        /\ move.motion = (IF message.code = 4 THEN "none" ELSE CodeName(message.code))
        /\ message.code \in {2, 3} => move.effective = r.plane
    BY DEF MoveOf, SourceOf
  <2> HIDE DEF message, move, plane, l
  <2>6. move.motion \in {"G2", "G3"} => message.code \in {2, 3}
    BY <2>4, <2>5 DEF CodeName
  <2>7. message.code \in {2, 3} => IsArc(l)
    BY <2>3 DEF IsArc
  <2>8. QED
    BY <1>3, <1>4, <1>5, <2>5, <2>6, <2>7 DEF Fits, move, message, l
<1>7. QED
  BY <1>3, <1>6

(* The motion of a line of words, the last thing it emits.                 *)
LEMMA MotionLeads ==
  ASSUME NEW t, NEW p, NEW w, NEW r, LoopState(t, p, w, r), Reads(t, p, r),
         ~Skipped(t[p]), KindOf(t[p]) = "words", w > Len(t[p].words)
  PROVE  Leads(t, r, LowerMotion(r, t[p], p), p)
<1> DEFINE messages == {i \in DOMAIN r.messages : r.messages[i].line = p}
           chosen == CHOOSE i \in messages : TRUE
           move == MoveOf(r.messages[chosen], t[p], SourceOf(t[p], p), r)
<1>1. LowerMotion(r, t[p], p) = IF messages = {} THEN r ELSE Emit(r, <<move>>)
  BY DEF LowerMotion
<1>2. IsSound(t, r)
  BY DEF LoopState
<1>3. CASE messages = {}
  BY <1>1, <1>2, <1>3 DEF Leads, SameModes, ReportsOnly
<1>4. CASE messages # {}
  <2>1. chosen \in messages
    BY <1>4
  <2>2. Fits(t, move)
    <3> HIDE DEF chosen
    <3>1. QED
      BY <2>1, MotionFits
  <2> HIDE DEF move
  <2>3. QED
    BY <1>1, <1>2, <1>4, <2>2, EmitLeads
<1>5. QED
  BY <1>3, <1>4

(* A whole line: passed over, or lowered by kind.                          *)
LEMMA OtherLineStep ==
  ASSUME LoopInv, NEW kind, kind # "words", kind # "malformed", AtLine(kind),
         NEW s, Leads(text, out, s, pos), GoOn(s)
  PROVE  LoopInv'
<1>1. LoopState(text, pos, word, out) /\ Reads(text, pos, out) /\ KindOf(text[pos]) = kind
  BY DEF LoopInv, AtLine, InLoop, Reads, Line
<1>2. out.plane = CodeName(IF Skipped(text[pos]) THEN Lowered(text, pos - 1).plane
                           ELSE PlaneOf(text[pos].words, Lowered(text, pos - 1).plane))
  BY <1>1, PlaneBeforeOther
<1>3. LoopState(text, pos + 1, 1, s)
  BY <1>1, <1>2, NextLine
<1>4. QED
  BY <1>3 DEF LoopInv, GoOn

(* Every step of the loop keeps the agreement of the planes and the types. *)
LEMMA LoopSound ==
  ASSUME LoopInv, LoweringNext
  PROVE  LoopInv'
<1>1. LoopState(text, pos, word, out) /\ IsSound(text, out) /\ (InLoop <=> Reads(text, pos, out))
  BY DEF LoopInv, LoopState, InLoop, Reads
<1>2. CASE PassLine
  <2>1. Reads(text, pos, out) /\ Passed(out, text[pos], pos) /\ GoOn(out)
    BY <1>1, <1>2 DEF PassLine, Line
  <2>2. Skipped(text[pos])
    BY <1>1, <2>1, PassedIsSkipped
  <2>3. out.plane = CodeName(IF Skipped(text[pos]) THEN Lowered(text, pos - 1).plane
                             ELSE PlaneOf(text[pos].words, Lowered(text, pos - 1).plane))
    BY <1>1, <2>1, <2>2, PlaneBeforeOther
  <2>4. Leads(text, out, out, pos)
    BY <1>1 DEF Leads, SameModes, ReportsOnly
  <2>5. LoopState(text, pos + 1, 1, out)
    BY <1>1, <2>1, <2>3, <2>4, NextLine
  <2>6. QED
    BY <2>1, <2>5 DEF LoopInv, GoOn
<1>3. CASE LowerAssignment
  BY <1>1, <1>3, AssignLeads, OtherLineStep DEF LowerAssignment
<1>4. CASE LowerIf
  BY <1>1, <1>4, IfLeads, OtherLineStep DEF LowerIf
<1>5. CASE LowerElse
  BY <1>1, <1>5, ElseLeads, OtherLineStep DEF LowerElse
<1>6. CASE LowerEndIf
  BY <1>1, <1>6, EndIfLeads, OtherLineStep DEF LowerEndIf
<1>7. CASE LowerLabel
  BY <1>1, <1>7, JumpsLead, OtherLineStep DEF LowerLabel
<1>8. CASE LowerGoto
  BY <1>1, <1>8, JumpsLead, OtherLineStep DEF LowerGoto
<1>9. CASE LowerIfGoto
  BY <1>1, <1>9, JumpsLead, OtherLineStep DEF LowerIfGoto
<1>10. CASE LowerProc
  BY <1>1, <1>10, SubprogramsLead, OtherLineStep DEF LowerProc
<1>11. CASE LowerCall
  BY <1>1, <1>11, SubprogramsLead, OtherLineStep DEF LowerCall
<1>12. CASE LowerLoop
  <2>1. Leads(text, out, out, pos)
    BY <1>1 DEF Leads, SameModes, ReportsOnly
  <2>2. QED
    BY <1>12, <2>1, OtherLineStep DEF LowerLoop
<1>13. CASE LowerNextWord
  <2>1. /\ Reads(text, pos, out) /\ ~Skipped(text[pos]) /\ KindOf(text[pos]) = "words"
        /\ word <= Len(text[pos].words)
        /\ out' = LowerWord(out, text[pos], pos, word) /\ word' = word + 1 /\ UNCHANGED <<text, pos>>
    BY <1>1, <1>13, Zenon DEF LowerNextWord, AtLine, Line, Passed
  <2>2. LoopState(text, pos, word + 1, LowerWord(out, text[pos], pos, word))
    BY <1>1, <2>1, NextWord
  <2>3. QED
    BY <2>1, <2>2 DEF LoopInv
<1>14. CASE LowerWords
  <2>1. /\ Reads(text, pos, out) /\ ~Skipped(text[pos]) /\ KindOf(text[pos]) = "words"
        /\ word > Len(text[pos].words) /\ GoOn(LowerMotion(out, text[pos], pos))
    BY <1>1, <1>14, Zenon DEF LowerWords, AtLine, Line, Passed
  <2>2. Leads(text, out, LowerMotion(out, text[pos], pos), pos)
    BY <1>1, <2>1, MotionLeads
  <2>3. out.plane = CodeName(IF Skipped(text[pos]) THEN Lowered(text, pos - 1).plane
                             ELSE PlaneOf(text[pos].words, Lowered(text, pos - 1).plane))
    BY <1>1, <2>1, MotionFits
  <2>4. LoopState(text, pos + 1, 1, LowerMotion(out, text[pos], pos))
    BY <1>1, <2>1, <2>2, <2>3, NextLine
  <2>5. QED
    BY <2>1, <2>4 DEF LoopInv, GoOn
<1>15. CASE ReturnAil
  <2>1. ~Reads(text, pos, out) /\ out' = Finish(out) /\ pos' = Len(text) + 2 /\ UNCHANGED <<text, word>>
    BY <1>1, <1>15 DEF ReturnAil
  <2>2. /\ DOMAIN Finish(out) = DOMAIN out /\ SameModes(out, Finish(out))
        /\ Finish(out).instructions = out.instructions
        /\ Finish(out).ifs = out.ifs /\ Finish(out).labels = out.labels
        /\ Finish(out).diagnostics =
             out.diagnostics \o [i \in DOMAIN out.ifs |->
               Diag("Error", out.instructions[out.ifs[i].branch].source.line, "missing ENDIF")]
    BY <1>1 DEF Finish, IsSound, Shaped, Fields, SameModes
  <2>3. IsSeq(Finish(out).diagnostics)
    <3> DEFINE ds == out.diagnostics
               es == [i \in DOMAIN out.ifs |->
                        Diag("Error", out.instructions[out.ifs[i].branch].source.line, "missing ENDIF")]
    <3>1. PICK D : ds \in Seq(D)
      BY <1>1 DEF IsSound, Shaped, IsSeq
    <3>2. PICK n \in Nat : DOMAIN out.ifs = 1 .. n
      BY <1>1 DEF IsSound, Shaped, IsSeq
    <3>3. es \in [1 .. n -> {es[i] : i \in 1 .. n}]
      BY <3>2
    <3> HIDE DEF es
    <3>4. es \in Seq({es[i] : i \in 1 .. n})
      BY <3>3, SeqDef
    <3>5. ds \in Seq(D \cup {es[i] : i \in 1 .. n}) /\ es \in Seq(D \cup {es[i] : i \in 1 .. n})
      BY <3>1, <3>4, SeqMonotonic
    <3>6. ds \o es \in Seq(D \cup {es[i] : i \in 1 .. n})
      BY <3>5, ConcatProperties
    <3>7. QED
      BY <2>2, <3>6 DEF IsSeq, es
  <2>4. IsSound(text, Finish(out))
    <3> DEFINE f == Finish(out)
    <3>1. Shaped(f)
      BY <1>1, <2>2, <2>3 DEF IsSound, Shaped
    <3> HIDE DEF f
    <3>2. QED
      BY <1>1, <2>2, <3>1 DEF IsSound, IsBlock, f
  <2>5. Len(text) \in Nat
    BY <1>1, StructuredTextsAssumption DEF LoopState
  <2>6. ~Reads(text, Len(text) + 2, Finish(out)) /\ Len(text) + 2 \in 1 .. Len(text) + 2
    BY <2>5 DEF Reads
  <2>7. word = 1
    BY <1>1, <2>1 DEF LoopState
  <2>8. LoopState(text, Len(text) + 2, word, Finish(out))
    BY <1>1, <2>2, <2>4, <2>6, <2>7 DEF LoopState, SameModes
  <2>9. QED
    BY <2>1, <2>8 DEF LoopInv
<1>16. QED
  BY <1>2, <1>3, <1>4, <1>5, <1>6, <1>7, <1>8, <1>9, <1>10, <1>11, <1>12, <1>13, <1>14, <1>15
     DEF LoweringNext

(* No line read, no instruction emitted: the two planes are G17.           *)
LEMMA LoopStart == LoweringInit => LoopInv
<1> SUFFICES ASSUME LoweringInit
             PROVE  LoopInv
  OBVIOUS
<1> DEFINE told == LowerToMessages(text)
<1>1. text \in Texts /\ pos = 1 /\ word = 1 /\ out = Start(told)
  BY DEF LoweringInit
<1>2. /\ IsText(text) /\ Len(text) \in Nat /\ IsResult(text, told, Len(text))
  BY <1>1, StructuredTextsAssumption, LinesMakeText, LoweredMessages
<1>3. /\ out.instructions = <<>> /\ out.ifs = <<>> /\ out.labels = 0 /\ Fields \subseteq DOMAIN out
      /\ out.plane = "G17" /\ out.rapid = "none"
      /\ out.messages = told.messages /\ out.rejected = told.rejected /\ out.diagnostics = told.diagnostics
  BY <1>1 DEF Start, Fields
<1> HIDE DEF told
<1>4. IsSeq(<<>>) /\ IsSeq(told.diagnostics)
  BY <1>2 DEF IsSeq, IsResult, Result
<1>5. IsSound(text, out)
  BY <1>3, <1>4 DEF IsSound, Shaped
<1>6. Reads(text, 1, out) => InLine(text, 1, 1, out)
  <2> SUFFICES ASSUME Reads(text, 1, out)
               PROVE  InLine(text, 1, 1, out)
    OBVIOUS
  <2>1. 1 \in 1 .. Len(text) /\ Len(text[1].words) \in Nat
    BY <1>2 DEF Reads, IsText
  <2>2. 1 \in 1 .. Len(text[1].words) + 1 /\ 1 - 1 = 0
    BY <2>1
  <2>3. Lowered(text, 0).plane = 17 /\ CodeName(17) = "G17"
    BY LoweredByLine DEF Unlowered, CodeName
  <2>4. out.plane = CodeName(PlaneOf(SubSeq(text[1].words, 1, 1 - 1), Lowered(text, 1 - 1).plane))
    BY <1>3, <2>2, <2>3, NoWords
  <2>5. QED
    BY <1>3, <2>2, <2>4 DEF InLine, told
<1>7. 1 \in 1 .. Len(text) + 2
  BY <1>2
<1>8. QED
  BY <1>1, <1>3, <1>5, <1>6, <1>7 DEF LoopInv, LoopState, told

(* Nothing happens.                                                        *)
LEMMA LoopStutters == LoopInv /\ UNCHANGED loweringVars => LoopInv'
BY DEF loweringVars, LoopInv

(* The loop over any text stays within its lines and words; its stack of   *)
(* open blocks points at branches it has emitted.                          *)
THEOREM LoweringTypes == LoweringSpec => []LoweringTypeOK
<1>1. LoopInv => LoweringTypeOK
  <2> SUFFICES ASSUME LoopInv
               PROVE  LoweringTypeOK
    OBVIOUS
  <2>1. /\ text \in Texts /\ pos \in 1 .. Len(text) + 2 /\ IsSound(text, out)
        /\ out.plane \in {"G17", "G18", "G19"} /\ out.rapid \in {"none", "RTLION", "RTLIOF"}
    BY DEF LoopInv, LoopState
  <2>2. IsText(text) /\ DOMAIN text = 1 .. Len(text) /\ Len(text) \in Nat
        /\ IsResult(text, LowerToMessages(text), Len(text))
    BY <2>1, StructuredTextsAssumption, LinesMakeText, LoweredMessages
  <2>3. word \in 1 .. (IF pos \in DOMAIN text THEN Len(Line.words) ELSE 0) + 1
    <3>1. CASE Reads(text, pos, out)
      <4>1. word \in 1 .. Len(text[pos].words) + 1
        BY <3>1 DEF LoopInv, LoopState, InLine
      <4>2. pos \in DOMAIN text
        BY <2>1, <2>2, <3>1 DEF Reads
      <4>3. QED
        BY <4>1, <4>2 DEF Line
    <3>2. CASE ~Reads(text, pos, out)
      <4>1. word = 1
        BY <3>2 DEF LoopInv, LoopState
      <4>2. (IF pos \in DOMAIN text THEN Len(Line.words) ELSE 0) \in Nat
        BY <2>2 DEF IsText, Line
      <4>3. QED
        BY <4>1, <4>2
    <3>3. QED
      BY <3>1, <3>2
  <2>4. out.labels \in Nat
    BY <2>1 DEF IsSound, Shaped
  <2>5. out.rejected \in {NoValue} \cup DOMAIN text
    BY <2>2 DEF IsResult, Result, LoopInv, LoopState
  <2>6. \A i \in DOMAIN out.ifs :
          /\ out.ifs[i].branch \in DOMAIN out.instructions
          /\ out.instructions[out.ifs[i].branch].op = "branch"
          /\ out.ifs[i].end \in Internals(out.labels) /\ out.ifs[i].hasElse \in BOOLEAN
    BY <2>1 DEF IsSound, IsBlock, IsBranch
  <2>7. QED
    BY <2>1, <2>3, <2>4, <2>5, <2>6 DEF LoweringTypeOK
<1>2. QED
  BY <1>1, LoopStart, LoopSound, LoopStutters, PTL DEF LoweringSpec

(* The plane the AIL loop gives an arc is one its center words fit, though *)
(* they were checked by the message loop against a plane of its own.       *)
THEOREM ArcPlanesAgree == LoweringSpec => []ArcsFitTheirPlane
<1>1. LoopInv => ArcsFitTheirPlane
  <2> SUFFICES ASSUME LoopInv, NEW i \in DOMAIN out.instructions, out.instructions[i].op = "move",
                      out.instructions[i].motion \in {"G2", "G3"}
               PROVE  \E plane \in 17 .. 19 :
                        /\ out.instructions[i].effective = CodeName(plane)
                        /\ FitsPlane(text[out.instructions[i].source.line], plane)
    BY Zenon DEF ArcsFitTheirPlane, FitsPlane
  <2>1. Fits(text, out.instructions[i])
    BY DEF LoopInv, LoopState, IsSound
  <2>2. QED
    BY <2>1, Zenon DEF Fits
<1>2. QED
  BY <1>1, LoopStart, LoopSound, LoopStutters, PTL DEF LoweringSpec

----------------------------------------------------------------------------
(* No word is lost.  Instructions are counted by their line and kind.      *)

CountIn(code, k, ops) ==
  Cardinality({i \in DOMAIN code : code[i].source.line = k /\ code[i].op \in ops})

(* A line adds instructions of its own; those before it keep what they are *)
(* and which line they are of, though ELSE changes the target of one.      *)
AddsOf(code, more, k) ==
  /\ IsSeq(code) /\ IsSeq(more) /\ DOMAIN code \subseteq DOMAIN more
  /\ \A i \in DOMAIN code : more[i].op = code[i].op /\ more[i].source = code[i].source
  /\ \A i \in DOMAIN more : i \notin DOMAIN code => more[i].source.line = k

LEMMA OthersCounted ==
  ASSUME NEW code, NEW more, NEW k, AddsOf(code, more, k), NEW j, j # k, NEW ops
  PROVE  CountIn(more, j, ops) = CountIn(code, j, ops)
<1>1. {i \in DOMAIN more : more[i].source.line = j /\ more[i].op \in ops}
        = {i \in DOMAIN code : code[i].source.line = j /\ code[i].op \in ops}
  BY DEF AddsOf
<1> QED
  BY <1>1 DEF CountIn

LEMMA AddsNothing == ASSUME NEW code, IsSeq(code), NEW k PROVE AddsOf(code, code, k)
BY DEF AddsOf

LEMMA AddsMore ==
  ASSUME NEW a, NEW b, NEW c, NEW k, AddsOf(a, b, k), AddsOf(b, c, k)
  PROVE  AddsOf(a, c, k)
BY DEF AddsOf

(* One instruction behind the others: it counts for its line and kind.     *)
LEMMA OneCounted ==
  ASSUME NEW code, IsSeq(code), NEW ins, NEW k, ins.source.line = k
  PROVE  /\ AddsOf(code, Append(code, ins), k)
         /\ \A ops : CountIn(Append(code, ins), k, ops)
                       = CountIn(code, k, ops) + (IF ins.op \in ops THEN 1 ELSE 0)
<1> DEFINE more == Append(code, ins)
<1>1. /\ IsSeq(more) /\ Len(code) \in Nat /\ DOMAIN code = 1 .. Len(code)
      /\ DOMAIN more = 1 .. Len(code) + 1
      /\ (\A i \in DOMAIN code : more[i] = code[i]) /\ more[Len(code) + 1] = ins
  BY Appended
<1> HIDE DEF more
<1>2. AddsOf(code, more, k)
  BY <1>1 DEF AddsOf
<1>3. ASSUME NEW ops
      PROVE  CountIn(more, k, ops) = CountIn(code, k, ops) + (IF ins.op \in ops THEN 1 ELSE 0)
  <2> DEFINE old == {i \in DOMAIN code : code[i].source.line = k /\ code[i].op \in ops}
             new == {i \in DOMAIN more : more[i].source.line = k /\ more[i].op \in ops}
  <2>1. IsFiniteSet(old) /\ Cardinality(old) \in Nat /\ Len(code) + 1 \notin old
    <3>1. IsFiniteSet(1 .. Len(code))
      BY <1>1, FS_Interval
    <3>2. old \subseteq 1 .. Len(code)
      BY <1>1
    <3>3. IsFiniteSet(old)
      BY <3>1, <3>2, FS_Subset
    <3> QED
      BY <1>1, <3>2, <3>3, FS_CardinalityType
  <2>2. CASE ins.op \in ops
    <3>1. new = old \cup {Len(code) + 1}
      BY <1>1, <2>2
    <3>2. Cardinality(new) = Cardinality(old) + 1
      BY <2>1, <3>1, FS_AddElement
    <3> QED
      BY <2>2, <3>2 DEF CountIn
  <2>3. CASE ins.op \notin ops
    <3>1. new = old
      BY <1>1, <2>3
    <3>2. Cardinality(new) = Cardinality(old) + 0
      <4> HIDE DEF old, new
      <4> QED
        BY <2>1, <3>1
    <3> QED
      BY <2>3, <3>2 DEF CountIn
  <2> QED
    BY <2>2, <2>3
<1> QED
  BY <1>2, <1>3 DEF more

LEMMA EmitAdds ==
  ASSUME NEW t, NEW r, IsSound(t, r), NEW ins, NEW k, ins.source.line = k
  PROVE  /\ AddsOf(r.instructions, Emit(r, <<ins>>).instructions, k)
         /\ \A ops : CountIn(Emit(r, <<ins>>).instructions, k, ops)
                       = CountIn(r.instructions, k, ops) + (IF ins.op \in ops THEN 1 ELSE 0)
<1>1. /\ Emit(r, <<ins>>).instructions = r.instructions \o <<ins>> /\ IsSeq(r.instructions)
  BY DEF Emit, IsSound, Shaped, Fields
<1>2. r.instructions \o <<ins>> = Append(r.instructions, ins)
  BY <1>1, OneBehind
<1> DEFINE code == r.instructions
           more == Append(code, ins)
<1>3. /\ AddsOf(code, more, k)
      /\ \A ops : CountIn(more, k, ops) = CountIn(code, k, ops) + (IF ins.op \in ops THEN 1 ELSE 0)
  BY <1>1, OneCounted
<1>4. Emit(r, <<ins>>).instructions = more
  BY <1>1, <1>2
<1> HIDE DEF code, more
<1> QED
  BY <1>3, <1>4 DEF code

LEMMA ReportAdds ==
  ASSUME NEW t, NEW r, IsSound(t, r), NEW severity, NEW k, NEW why
  PROVE  /\ Report(r, severity, k, why).instructions = r.instructions
         /\ AddsOf(r.instructions, Report(r, severity, k, why).instructions, k)
BY AddsNothing DEF Report, IsSound, Shaped, Fields

LEMMA EmitReportAdds ==
  ASSUME NEW t, NEW r, IsSound(t, r), NEW ins, NEW k, ins.source.line = k, NEW severity, NEW why
  PROVE  AddsOf(r.instructions, Report(Emit(r, <<ins>>), severity, k, why).instructions, k)
<1> DEFINE s == Emit(r, <<ins>>)
<1>1. DOMAIN s = DOMAIN r /\ AddsOf(r.instructions, s.instructions, k)
  <2>1. DOMAIN s = DOMAIN r
    BY DEF Emit
  <2> QED
    BY <2>1, EmitAdds
<1> HIDE DEF s
<1>2. Report(s, severity, k, why).instructions = s.instructions
  BY <1>1 DEF Report, IsSound, Shaped, Fields
<1> QED
  BY <1>1, <1>2 DEF s

LEMMA PlainLinesAdd ==
  ASSUME NEW t, NEW r, IsSound(t, r), NEW l, NEW k
  PROVE  /\ AddsOf(r.instructions, AssignLine(r, l, k).instructions, k)
         /\ AddsOf(r.instructions, LabelLine(r, l, k).instructions, k)
         /\ AddsOf(r.instructions, GotoLine(r, l, k).instructions, k)
         /\ AddsOf(r.instructions, IfGotoLine(r, l, k).instructions, k)
         /\ AddsOf(r.instructions, ProcLine(r, l, k).instructions, k)
         /\ AddsOf(r.instructions, CallLine(r, l, k).instructions, k)
<1> DEFINE at == SourceOf(l, k)
<1>1. at.line = k
  BY DEF SourceOf
<1> HIDE DEF at
<1>2. AddsOf(r.instructions, AssignLine(r, l, k).instructions, k)
  <2>1. \A head, value : ToolSelect(at, head, value).source.line = k
    BY <1>1 DEF ToolSelect
  <2>2. [op |-> "assign", source |-> at, name |-> l.statement.to, rhs |-> l.statement.rhs].source.line = k
    BY <1>1
  <2>3. \A ins : ins.source.line = k => AddsOf(r.instructions, Emit(r, <<ins>>).instructions, k)
    BY EmitAdds
  <2>4. AddsOf(r.instructions, Emit(r, <<ToolSelect(at, l.statement.to, l.statement.rhs.value)>>).instructions, k)
    BY <2>1, <2>3, Zenon
  <2> DEFINE set == [op |-> "assign", source |-> at, name |-> l.statement.to, rhs |-> l.statement.rhs]
  <2>5. AddsOf(r.instructions, Emit(r, <<set>>).instructions, k)
    <3> HIDE DEF set
    <3> QED
      BY <2>2, <2>3, Zenon DEF set
  <2> QED
    BY <2>4, <2>5, ReportAdds, Zenon DEF AssignLine, at
<1>3. \A name : LabelAt(at, name).source.line = k
  BY <1>1 DEF LabelAt
<1>4. \A jump : Goto(at, jump).source.line = k
  BY <1>1 DEF Goto
<1>5. \A test, then, else : Branch(at, test, then, else).source.line = k
  BY <1>1 DEF Branch
<1>6. \A target, repeat :
        [op |-> "call", source |-> at, target |-> target, repeat |-> repeat].source.line = k
  BY <1>1
<1>7. /\ AddsOf(r.instructions, LabelLine(r, l, k).instructions, k)
      /\ AddsOf(r.instructions, GotoLine(r, l, k).instructions, k)
      /\ AddsOf(r.instructions, IfGotoLine(r, l, k).instructions, k)
  BY <1>3, <1>4, <1>5, EmitAdds DEF LabelLine, GotoLine, IfGotoLine, at
<1>8. AddsOf(r.instructions, ProcLine(r, l, k).instructions, k)
  BY <1>3, EmitAdds, EmitReportAdds DEF ProcLine, at
<1>9. AddsOf(r.instructions, CallLine(r, l, k).instructions, k)
  BY <1>6, EmitAdds, EmitReportAdds DEF CallLine, at
<1> QED
  BY <1>2, <1>7, <1>8, <1>9

LEMMA TwoCounted ==
  ASSUME NEW code, IsSeq(code), NEW one, NEW two, NEW k, one.source.line = k, two.source.line = k
  PROVE  AddsOf(code, code \o <<one, two>>, k)
<1>1. AddsOf(code, Append(code, one), k)
  BY OneCounted
<1>2. AddsOf(Append(code, one), Append(Append(code, one), two), k)
  BY <1>1, OneCounted DEF AddsOf
<1>3. code \o <<one, two>> = Append(Append(code, one), two)
  BY TwoBehind
<1> QED
  BY <1>1, <1>2, <1>3, AddsMore

LEMMA BlockLinesAdd ==
  ASSUME NEW t, NEW r, IsSound(t, r), NEW l, NEW k
  PROVE  /\ AddsOf(r.instructions, IfLine(r, l, k).instructions, k)
         /\ AddsOf(r.instructions, ElseLine(r, l, k).instructions, k)
         /\ AddsOf(r.instructions, EndIfLine(r, l, k).instructions, k)
<1> DEFINE at == SourceOf(l, k)
<1>1. at.line = k /\ IsSeq(r.instructions)
  BY DEF SourceOf, IsSound, Shaped
<1> HIDE DEF at
<1>2. \A name : LabelAt(at, name).source.line = k
  BY <1>1 DEF LabelAt
<1>3. AddsOf(r.instructions, IfLine(r, l, k).instructions, k)
  <2> DEFINE then == Internal("IF_THEN", r.labels + 1)
             branch == Branch(at, l.statement.test, To(then), To(Internal("IF_END", r.labels + 2)))
             label == LabelAt(at, then)
  <2>1. IfLine(r, l, k).instructions = r.instructions \o <<branch, label>>
    BY DEF IfLine, Emit, IsSound, Shaped, Fields, at
  <2>2. branch.source.line = k /\ label.source.line = k
    BY <1>1, <1>2 DEF Branch
  <2> HIDE DEF branch, label
  <2> QED
    BY <1>1, <2>1, <2>2, TwoCounted
<1>4. AddsOf(r.instructions, EndIfLine(r, l, k).instructions, k)
  <2>1. CASE r.ifs = <<>>
    BY <2>1, ReportAdds DEF EndIfLine
  <2>2. CASE r.ifs # <<>>
    <3> DEFINE label == LabelAt(at, InnermostIf(r).end)
               e == Emit(r, <<label>>)
    <3>1. DOMAIN e = DOMAIN r /\ AddsOf(r.instructions, e.instructions, k)
      <4>1. label.source.line = k
        BY <1>2
      <4> HIDE DEF label
      <4>2. DOMAIN e = DOMAIN r
        BY DEF Emit
      <4> QED
        BY <4>1, <4>2, EmitAdds
    <3>2. EndIfLine(r, l, k) = [e EXCEPT !.ifs = Front(@)]
      BY <2>2 DEF EndIfLine, at
    <3> HIDE DEF e
    <3>3. EndIfLine(r, l, k).instructions = e.instructions
      BY <3>1, <3>2 DEF IsSound, Shaped, Fields
    <3> QED
      BY <3>1, <3>3
  <2> QED
    BY <2>1, <2>2
<1>5. ASSUME r.ifs # <<>>
      PROVE  AddsOf(r.instructions, ElseOfIf(r, l, k).instructions, k)
  <2> DEFINE else == Internal("IF_ELSE", r.labels + 1)
             goto == Goto(at, To(InnermostIf(r).end))
             label == LabelAt(at, else)
             b == r.ifs[Len(r.ifs)].branch
             long == r.instructions \o <<goto, label>>
             branch == [long[b] EXCEPT !.else = To(else)]
             s == ElseOfIf(r, l, k)
  <2>1. s.instructions = [long EXCEPT ![b] = branch]
    BY DEF ElseOfIf, Emit, InnermostIf, Last, IsSound, Shaped, Fields, at
  <2>2. goto.source.line = k /\ label.source.line = k
    BY <1>1, <1>2 DEF Goto
  <2>3. AddsOf(r.instructions, long, k)
    <3> HIDE DEF goto, label
    <3> QED
      BY <1>1, <2>2, TwoCounted
  <2>4. b \in DOMAIN r.instructions /\ IsBranch(r.instructions[b])
    <3>1. Len(r.ifs) \in DOMAIN r.ifs
      BY <1>5, Shortened DEF IsSound, Shaped
    <3> QED
      BY <3>1 DEF IsSound, IsBlock
  <2> HIDE DEF long, b, s
  <2>5. branch.op = long[b].op /\ branch.source = long[b].source
    BY DEF branch
  <2> HIDE DEF branch
  <2>6. AddsOf(long, s.instructions, k)
    <3> DEFINE new == [long EXCEPT ![b] = branch]
    <3>1. IsSeq(long) /\ b \in DOMAIN long
      BY <2>3, <2>4 DEF AddsOf
    <3>2. /\ IsSeq(new) /\ DOMAIN new = DOMAIN long /\ new[b] = branch
          /\ \A i \in DOMAIN long : i # b => new[i] = long[i]
      BY <3>1, Changed
    <3> HIDE DEF new
    <3>3. \A i \in DOMAIN long : new[i].op = long[i].op /\ new[i].source = long[i].source
      BY <2>5, <3>2
    <3>4. AddsOf(long, new, k)
      BY <3>1, <3>2, <3>3 DEF AddsOf
    <3> QED
      BY <2>1, <3>4 DEF new
  <2> QED
    BY <2>3, <2>6, AddsMore DEF s
<1>6. AddsOf(r.instructions, ElseLine(r, l, k).instructions, k)
  BY <1>5, ReportAdds DEF ElseLine
<1> QED
  BY <1>3, <1>4, <1>6

WordOps == {"mcode", "tool change", "tool select"}
IsCounted(w) == w.head \in {"M", "M1", "T", "T1"} /\ ~(w.head = "M" /\ w.value = 17)

(* A word the rules let pass gives an instruction of these kinds exactly   *)
(* if it is an M or T word, M17 excepted.                                  *)
LEMMA WordOp ==
  ASSUME NEW l \in TextLines, ~BreaksRule(l), NEW i \in DOMAIN l.words, NEW at
  PROVE  LET code == WordCode(l.words[i], at) IN
           \/ code = <<>> /\ ~IsCounted(l.words[i])
           \/ \E ins : /\ code = <<ins>> /\ ins.source = at /\ ins.op # "move"
                       /\ ins.op \in WordOps <=> IsCounted(l.words[i])
<1> DEFINE w == l.words[i]
           code == WordCode(w, at)
<1>1. /\ w.head \in {"M", "M1"} => w.value \in Nat /\ (w.head = "M1" => w.eq)
      /\ w.head \in {"T", "T1"} => w.value \in Nat
  BY AilOptionsAssumption DEF BreaksRule, BreaksMShape, BreaksTShape, Selects
<1> HIDE DEF w
<1>2. CASE w.head \in {"M", "M1"}
  <2>1. IsMCode(w)
    BY <1>1, <1>2, Zenon DEF IsMCode
  <2>2. code = <<MInstruction(w, at)>>
    BY <1>2, <2>1 DEF WordCode, IsG
  <2>3. /\ MInstruction(w, at).source = at
        /\ MInstruction(w, at).op \in {"return", "tool change", "mcode"}
        /\ MInstruction(w, at).op = "return" <=> w.head = "M" /\ w.value = 17
    BY DEF MInstruction
  <2>4. MInstruction(w, at).op \in WordOps <=> IsCounted(w)
    BY <1>2, <2>3 DEF WordOps, IsCounted
  <2>5. MInstruction(w, at).op # "move"
    BY <2>3
  <2> QED
    BY <2>2, <2>3, <2>4, <2>5, Zenon DEF w
<1>3. CASE w.head \in {"T", "T1"}
  <2>1. code = <<ToolSelect(at, w.head, w.value)>>
    <3>1. w.value # NoValue
      BY <1>1, <1>3 DEF NoValue
    <3>2. ~IsG(w, 17 .. 19) /\ ~IsG(w, 40 .. 42) /\ ~IsMCode(w)
      BY <1>3 DEF IsG, IsMCode
    <3> QED
      BY <1>3, <3>1, <3>2 DEF WordCode
  <2>2. /\ ToolSelect(at, w.head, w.value).source = at
        /\ ToolSelect(at, w.head, w.value).op = "tool select"
    BY DEF ToolSelect
  <2>3. ToolSelect(at, w.head, w.value).op \in WordOps <=> IsCounted(w)
    BY <1>3, <2>2 DEF WordOps, IsCounted
  <2>4. ToolSelect(at, w.head, w.value).op # "move"
    BY <2>2
  <2> QED
    BY <2>1, <2>2, <2>3, <2>4, Zenon DEF w
<1>4. CASE w.head \notin {"M", "M1", "T", "T1"}
  <2>1. ~IsCounted(w) /\ ~IsMCode(w)
    BY <1>4, Zenon DEF IsCounted, IsMCode
  <2>2. \A group, value : /\ Modal(at, group, value).source = at
                          /\ Modal(at, group, value).op = "modal"
    BY DEF Modal
  <2>3. [op |-> "return", source |-> at].source = at /\ [op |-> "return", source |-> at].op = "return"
    OBVIOUS
  <2>4. code = <<>> \/ \E ins : code = <<ins>> /\ ins.source = at /\ ins.op \in {"modal", "return"}
    <3>1. \/ code = <<>> \/ (\E group, value : code = <<Modal(at, group, value)>>)
          \/ code = <<[op |-> "return", source |-> at]>>
      BY <1>4, <2>1 DEF WordCode
    <3> QED
      BY <2>2, <2>3, <3>1
  <2>5. \A op \in {"modal", "return"} : op # "move" /\ op \notin WordOps
    BY DEF WordOps
  <2> QED
    BY <2>1, <2>4, <2>5, Zenon DEF w
<1> QED
  BY <1>2, <1>3, <1>4

LEMMA NoneCounted ==
  ASSUME NEW code, NEW k, \A i \in DOMAIN code : code[i].source.line # k, NEW ops
  PROVE  CountIn(code, k, ops) = 0
<1>1. {i \in DOMAIN code : code[i].source.line = k /\ code[i].op \in ops} = {}
  OBVIOUS
<1> QED
  BY <1>1, FS_EmptySet DEF CountIn

(* What WordsKept says of a line that has been lowered, and before a word. *)
KeptLine(l, k, code) ==
  ~Skipped(l) =>
    /\ KindOf(l) # "malformed"
    /\ KindOf(l) = "words" =>
         /\ CountIn(code, k, WordOps) = Cardinality({i \in DOMAIN l.words : IsCounted(l.words[i])})
         /\ CountIn(code, k, {"move"}) = IF MotionOf(l.words) # NoValue THEN 1 ELSE 0

KeptWords(ws, p, w, code) ==
  /\ CountIn(code, p, WordOps) = Cardinality({i \in 1 .. w - 1 : IsCounted(ws[i])})
  /\ CountIn(code, p, {"move"}) = 0

KeepState(t, p, w, r) ==
  /\ \A i \in DOMAIN r.instructions :
       r.instructions[i].source.line \in Nat
       /\ (r.instructions[i].source.line < p \/ (r.instructions[i].source.line = p /\ w # 1))
  /\ \A k \in 1 .. Len(t) :
       k < p /\ (r.rejected = NoValue \/ k < r.rejected) => KeptLine(t[k], k, r.instructions)
  /\ Reads(t, p, r) => KeptWords(t[p].words, p, w, r.instructions)

LEMMA OtherLinesKept ==
  ASSUME NEW code, NEW more, NEW p, AddsOf(code, more, p), NEW k, k # p, NEW l, KeptLine(l, k, code)
  PROVE  KeptLine(l, k, more)
<1>1. \A ops : CountIn(more, k, ops) = CountIn(code, k, ops)
  BY OthersCounted
<1> QED
  BY <1>1, Zenon DEF KeptLine

(* On to the next line.                                                    *)
LEMMA NextLineKept ==
  ASSUME NEW t, NEW p, NEW w, NEW r, LoopState(t, p, w, r), Reads(t, p, r), KeepState(t, p, w, r),
         NEW s, AddsOf(r.instructions, s.instructions, p), s.rejected = r.rejected,
         KeptLine(t[p], p, s.instructions)
  PROVE  KeepState(t, p + 1, 1, s)
<1>1. t \in Texts /\ p \in Nat \ {0} /\ r.rejected = LowerToMessages(t).rejected
  BY DEF LoopState
<1>2. Len(t) \in Nat /\ p \in 1 .. Len(t)
  BY <1>1, ReadLine
<1>3. \A i \in DOMAIN s.instructions :
        s.instructions[i].source.line \in Nat /\ s.instructions[i].source.line < p + 1
  <2>1. \A i \in DOMAIN s.instructions : \/ s.instructions[i].source.line = p
                                        \/ /\ s.instructions[i].source.line \in Nat
                                           /\ s.instructions[i].source.line <= p
    BY <1>1 DEF AddsOf, KeepState
  <2> QED
    BY <1>1, <2>1
<1>4. ASSUME NEW k \in 1 .. Len(t), k < p + 1, s.rejected = NoValue \/ k < s.rejected
      PROVE  KeptLine(t[k], k, s.instructions)
  <2>1. CASE k = p
    BY <2>1
  <2>2. CASE k # p
    <3>1. KeptLine(t[k], k, r.instructions)
      BY <1>1, <1>4, <2>2 DEF KeepState
    <3> QED
      BY <2>2, <3>1, OtherLinesKept
  <2> QED
    BY <2>1, <2>2
<1>5. KeptWords(t[p + 1].words, p + 1, 1, s.instructions)
  <2>1. \A ops : CountIn(s.instructions, p + 1, ops) = 0
    BY <1>1, <1>3, NoneCounted
  <2>2. {i \in 1 .. 1 - 1 : IsCounted(t[p + 1].words[i])} = {}
    OBVIOUS
  <2> QED
    BY <2>1, <2>2, FS_EmptySet DEF KeptWords
<1> QED
  BY <1>1, <1>3, <1>4, <1>5 DEF KeepState

LEMMA NextWordKept ==
  ASSUME NEW t, NEW p, NEW w, NEW r, LoopState(t, p, w, r), Reads(t, p, r), KeepState(t, p, w, r),
         ~Skipped(t[p]), KindOf(t[p]) = "words", w <= Len(t[p].words)
  PROVE  KeepState(t, p, w + 1, LowerWord(r, t[p], p, w))
<1> DEFINE s == LowerWord(r, t[p], p, w)
           ws == t[p].words
           at == SourceOf(t[p], p)
           code == WordCode(ws[w], at)
           old == {i \in 1 .. w - 1 : IsCounted(ws[i])}
           new == {i \in 1 .. (w + 1) - 1 : IsCounted(ws[i])}
<1>1. t \in Texts /\ p \in Nat \ {0} /\ r.rejected = LowerToMessages(t).rejected /\ IsSound(t, r)
  BY DEF LoopState
<1>2. /\ p \in 1 .. Len(t) /\ t[p] \in TextLines /\ Len(ws) \in Nat /\ DOMAIN ws = 1 .. Len(ws)
      /\ IsText(t) /\ ~Stops(t, p)
  BY <1>1, ReadLine DEF IsText
<1>3. w \in 1 .. Len(ws) /\ w \in Nat
  BY <1>2 DEF LoopState, InLine
<1>4. ~BreaksRule(t[p])
  BY <1>2, StopsAtBad DEF BadInItself
<1>5. at.line = p /\ IsSeq(r.instructions)
  BY <1>1 DEF SourceOf, IsSound, Shaped
<1>6. /\ s.instructions = r.instructions \o code /\ s.rejected = r.rejected
  BY <1>1 DEF LowerWord, IsSound, Shaped, Fields
<1>7. \/ code = <<>> /\ ~IsCounted(ws[w])
      \/ \E ins : /\ code = <<ins>> /\ ins.source = at /\ ins.op # "move"
                  /\ ins.op \in WordOps <=> IsCounted(ws[w])
  <2> HIDE DEF at
  <2>1. w \in DOMAIN t[p].words
    BY <1>2, <1>3
  <2> QED
    BY <1>2, <1>4, <2>1, WordOp, Zenon
<1> HIDE DEF s, code, ws, at
<1> DEFINE n == IF IsCounted(ws[w]) THEN 1 ELSE 0
<1>8. /\ AddsOf(r.instructions, s.instructions, p)
      /\ CountIn(s.instructions, p, WordOps) = CountIn(r.instructions, p, WordOps) + n
      /\ CountIn(s.instructions, p, {"move"}) = CountIn(r.instructions, p, {"move"})
  <2>1. KeptWords(ws, p, w, r.instructions)
    BY DEF KeepState, ws
  <2>2. IsFiniteSet(old)
    <3>1. IsFiniteSet(1 .. w - 1)
      BY <1>3, FS_Interval
    <3> QED
      BY <3>1, FS_Subset
  <2>3. CountIn(r.instructions, p, WordOps) \in Nat /\ CountIn(r.instructions, p, {"move"}) = 0
    BY <2>1, <2>2, FS_CardinalityType DEF KeptWords
  <2>4. CASE code = <<>> /\ ~IsCounted(ws[w])
    <3>1. s.instructions = r.instructions
      BY <1>5, <1>6, <2>4, NothingBehind
    <3>2. n = 0
      BY <2>4
    <3> HIDE DEF n
    <3> QED
      BY <1>5, <2>3, <3>1, <3>2, AddsNothing
  <2>5. ASSUME NEW ins, code = <<ins>>, ins.source = at, ins.op # "move",
               ins.op \in WordOps <=> IsCounted(ws[w])
        PROVE  /\ AddsOf(r.instructions, s.instructions, p)
               /\ CountIn(s.instructions, p, WordOps) = CountIn(r.instructions, p, WordOps) + n
               /\ CountIn(s.instructions, p, {"move"}) = CountIn(r.instructions, p, {"move"})
    <3>1. s.instructions = Append(r.instructions, ins) /\ ins.source.line = p
      BY <1>5, <1>6, <2>5, OneBehind
    <3>2. /\ AddsOf(r.instructions, s.instructions, p)
          /\ \A ops : CountIn(s.instructions, p, ops)
                        = CountIn(r.instructions, p, ops) + (IF ins.op \in ops THEN 1 ELSE 0)
      BY <1>5, <3>1, OneCounted
    <3>3. n = IF ins.op \in WordOps THEN 1 ELSE 0
      BY <2>5, Zenon
    <3> HIDE DEF n
    <3> QED
      BY <2>3, <2>5, <3>2, <3>3
  <2> QED
    BY <1>7, <2>4, <2>5
<1>9. IsFiniteSet(old) /\ Cardinality(old) \in Nat /\ w \notin old
  <2>1. IsFiniteSet(1 .. w - 1)
    BY <1>3, FS_Interval
  <2>2. IsFiniteSet(old)
    BY <2>1, FS_Subset
  <2> QED
    BY <1>3, <2>2, FS_CardinalityType
<1>10. Cardinality(new) = Cardinality(old) + n
  <2>1. CASE IsCounted(ws[w])
    <3>1. new = old \cup {w}
      BY <1>3, <2>1
    <3> HIDE DEF old, new
    <3> QED
      BY <1>9, <2>1, <3>1, FS_AddElement
  <2>2. CASE ~IsCounted(ws[w])
    <3>1. new = old
      BY <1>3, <2>2
    <3> HIDE DEF old, new
    <3> QED
      BY <1>9, <2>2, <3>1
  <2> QED
    BY <2>1, <2>2
<1>11. KeptWords(ws, p, w + 1, s.instructions)
  <2>1. KeptWords(ws, p, w, r.instructions)
    BY DEF KeepState, ws
  <2> HIDE DEF n
  <2>2. CountIn(s.instructions, p, WordOps) = Cardinality(new)
    <3> HIDE DEF new
    <3> QED
      BY <1>8, <1>10, <2>1 DEF KeptWords
  <2> QED
    BY <1>8, <2>1, <2>2 DEF KeptWords
<1>12. \A i \in DOMAIN s.instructions :
         /\ s.instructions[i].source.line \in Nat
         /\ s.instructions[i].source.line < p \/ (s.instructions[i].source.line = p /\ w + 1 # 1)
  <2>1. w + 1 # 1
    BY <1>3
  <2> QED
    BY <1>1, <1>8, <2>1 DEF AddsOf, KeepState
<1>13. ASSUME NEW k \in 1 .. Len(t), k < p, s.rejected = NoValue \/ k < s.rejected
       PROVE  KeptLine(t[k], k, s.instructions)
  <2>1. KeptLine(t[k], k, r.instructions) /\ k # p
    BY <1>1, <1>6, <1>13 DEF KeepState
  <2> QED
    BY <1>8, <2>1, OtherLinesKept
<1> QED
  BY <1>11, <1>12, <1>13 DEF KeepState, s, ws

LEMMA WordsLineKept ==
  ASSUME NEW t, NEW p, NEW w, NEW r, LoopState(t, p, w, r), Reads(t, p, r), KeepState(t, p, w, r),
         ~Skipped(t[p]), KindOf(t[p]) = "words", w > Len(t[p].words)
  PROVE  /\ AddsOf(r.instructions, LowerMotion(r, t[p], p).instructions, p)
         /\ KeptLine(t[p], p, LowerMotion(r, t[p], p).instructions)
<1> DEFINE ws == t[p].words
           messages == {i \in DOMAIN r.messages : r.messages[i].line = p}
           chosen == CHOOSE i \in messages : TRUE
           move == MoveOf(r.messages[chosen], t[p], SourceOf(t[p], p), r)
           s == LowerMotion(r, t[p], p)
<1>1. t \in Texts /\ p \in Nat \ {0} /\ r.rejected = LowerToMessages(t).rejected /\ IsSound(t, r)
  BY DEF LoopState
<1>2. /\ p \in 1 .. Len(t) /\ Len(ws) \in Nat /\ DOMAIN ws = 1 .. Len(ws)
      /\ FromLines(t, LowerToMessages(t), Len(t)) /\ r.messages = LowerToMessages(t).messages
  BY <1>1, ReadLine, LoweredMessages, StructuredTextsAssumption DEF IsText, LoopState
<1>3. 1 .. w - 1 = DOMAIN ws
  <2>1. w \in 1 .. Len(ws) + 1
    BY DEF LoopState, InLine
  <2>2. w - 1 = Len(ws)
    BY <1>2, <2>1
  <2> QED
    BY <1>2, <2>2
<1>4. /\ CountIn(r.instructions, p, WordOps) = Cardinality({i \in DOMAIN ws : IsCounted(ws[i])})
      /\ CountIn(r.instructions, p, {"move"}) = 0
  BY <1>3 DEF KeepState, KeptWords
<1>5. CountIn(r.instructions, p, WordOps) \in Nat
  <2>1. IsFiniteSet(DOMAIN ws)
    <3> HIDE DEF ws
    <3>1. IsFiniteSet(1 .. Len(ws))
      BY <1>2, FS_Interval
    <3> QED
      BY <1>2, <3>1
  <2>2. IsFiniteSet({i \in DOMAIN ws : IsCounted(ws[i])})
    BY <2>1, FS_Subset
  <2> QED
    BY <1>4, <2>2, FS_CardinalityType
<1>6. messages # {} <=> MotionOf(ws) # NoValue
  <2>1. messages # {} <=> p \in LinesOf(r.messages)
    BY DEF LinesOf
  <2>2. p \in LinesOf(r.messages) <=> p \in Giving(t) /\ p \in Reading(LowerToMessages(t), Len(t))
    BY <1>2 DEF FromLines
  <2>3. p \in Reading(LowerToMessages(t), Len(t))
    <3>1. IsResult(t, LowerToMessages(t), Len(t))
      BY <1>1, LoweredMessages, StructuredTextsAssumption
    <3>2. LowerToMessages(t).rejected \in {NoValue} \cup 1 .. Len(t)
      BY <3>1 DEF IsResult, Result
    <3> QED
      BY <1>1, <1>2, <3>2 DEF Reads, Reading, NoValue
  <2>4. p \in Giving(t) <=> MotionOf(ws) # NoValue
    BY <1>2, Zenon DEF Giving, GivesOne
  <2> QED
    BY <2>1, <2>2, <2>3, <2>4, Zenon
<1>7. s = IF messages = {} THEN r ELSE Emit(r, <<move>>)
  BY DEF LowerMotion
<1>8. move.source.line = p /\ move.op = "move" /\ "move" \notin WordOps
  BY DEF MoveOf, SourceOf, WordOps
<1> HIDE DEF s, move, messages, ws
<1>9. CASE messages = {}
  <2>1. s = r /\ MotionOf(ws) = NoValue
    BY <1>6, <1>7, <1>9
  <2>2. AddsOf(r.instructions, s.instructions, p)
    BY <1>1, <2>1, AddsNothing DEF IsSound, Shaped
  <2> QED
    BY <1>4, <2>1, <2>2 DEF KeptLine, s, ws
<1>10. CASE messages # {}
  <2>1. /\ AddsOf(r.instructions, s.instructions, p)
        /\ \A ops : CountIn(s.instructions, p, ops)
                      = CountIn(r.instructions, p, ops) + (IF move.op \in ops THEN 1 ELSE 0)
    BY <1>1, <1>7, <1>8, <1>10, EmitAdds
  <2>2. /\ CountIn(s.instructions, p, WordOps) = CountIn(r.instructions, p, WordOps)
        /\ CountIn(s.instructions, p, {"move"}) = 1
    BY <1>4, <1>5, <1>8, <2>1
  <2> QED
    BY <1>4, <1>6, <1>10, <2>1, <2>2 DEF KeptLine, s, ws
<1> QED
  BY <1>9, <1>10 DEF s

LEMMA OtherLineKept ==
  ASSUME LoopInv, KeepState(text, pos, word, out), NEW kind, kind # "words", kind # "malformed",
         AtLine(kind), NEW s, Leads(text, out, s, pos),
         AddsOf(out.instructions, s.instructions, pos), GoOn(s)
  PROVE  KeepState(text, pos, word, out)'
<1>1. LoopState(text, pos, word, out) /\ Reads(text, pos, out) /\ KindOf(text[pos]) = kind
  BY DEF LoopInv, AtLine, InLoop, Reads, Line
<1>2. KeptLine(text[pos], pos, s.instructions)
  BY <1>1, Zenon DEF KeptLine
<1>3. KeepState(text, pos + 1, 1, s)
  BY <1>1, <1>2, NextLineKept DEF Leads, SameModes
<1> QED
  BY <1>3 DEF GoOn

LEMMA LoopKeeps ==
  ASSUME LoopInv, KeepState(text, pos, word, out), LoweringNext
  PROVE  KeepState(text, pos, word, out)'
<1>1. LoopState(text, pos, word, out) /\ IsSound(text, out) /\ (InLoop <=> Reads(text, pos, out))
  BY DEF LoopInv, LoopState, InLoop, Reads
<1>2. AddsOf(out.instructions, out.instructions, pos) /\ Leads(text, out, out, pos)
  BY <1>1, AddsNothing DEF IsSound, Shaped, Leads, SameModes, ReportsOnly
<1>3. CASE PassLine
  <2>1. Reads(text, pos, out) /\ Passed(out, text[pos], pos) /\ GoOn(out)
    BY <1>1, <1>3 DEF PassLine, Line
  <2>2. Skipped(text[pos])
    BY <1>1, <2>1, PassedIsSkipped
  <2>3. KeptLine(text[pos], pos, out.instructions)
    BY <2>2, Zenon DEF KeptLine
  <2>4. KeepState(text, pos + 1, 1, out)
    BY <1>1, <1>2, <2>1, <2>3, NextLineKept
  <2> QED
    BY <2>1, <2>4 DEF GoOn
<1>4. CASE LowerAssignment
  BY <1>1, <1>4, AssignLeads, PlainLinesAdd, OtherLineKept DEF LowerAssignment
<1>5. CASE LowerIf
  BY <1>1, <1>5, IfLeads, BlockLinesAdd, OtherLineKept DEF LowerIf
<1>6. CASE LowerElse
  BY <1>1, <1>6, ElseLeads, BlockLinesAdd, OtherLineKept DEF LowerElse
<1>7. CASE LowerEndIf
  BY <1>1, <1>7, EndIfLeads, BlockLinesAdd, OtherLineKept DEF LowerEndIf
<1>8. CASE LowerLabel
  BY <1>1, <1>8, JumpsLead, PlainLinesAdd, OtherLineKept DEF LowerLabel
<1>9. CASE LowerGoto
  BY <1>1, <1>9, JumpsLead, PlainLinesAdd, OtherLineKept DEF LowerGoto
<1>10. CASE LowerIfGoto
  BY <1>1, <1>10, JumpsLead, PlainLinesAdd, OtherLineKept DEF LowerIfGoto
<1>11. CASE LowerProc
  BY <1>1, <1>11, SubprogramsLead, PlainLinesAdd, OtherLineKept DEF LowerProc
<1>12. CASE LowerCall
  BY <1>1, <1>12, SubprogramsLead, PlainLinesAdd, OtherLineKept DEF LowerCall
<1>13. CASE LowerLoop
  BY <1>2, <1>13, OtherLineKept DEF LowerLoop
<1>14. CASE LowerNextWord
  <2>1. /\ Reads(text, pos, out) /\ ~Skipped(text[pos]) /\ KindOf(text[pos]) = "words"
        /\ word <= Len(text[pos].words)
        /\ out' = LowerWord(out, text[pos], pos, word) /\ word' = word + 1 /\ UNCHANGED <<text, pos>>
    BY <1>1, <1>14, Zenon DEF LowerNextWord, AtLine, Line, Passed
  <2>2. KeepState(text, pos, word + 1, LowerWord(out, text[pos], pos, word))
    BY <1>1, <2>1, NextWordKept
  <2> QED
    BY <2>1, <2>2
<1>15. CASE LowerWords
  <2>1. /\ Reads(text, pos, out) /\ ~Skipped(text[pos]) /\ KindOf(text[pos]) = "words"
        /\ word > Len(text[pos].words) /\ GoOn(LowerMotion(out, text[pos], pos))
    BY <1>1, <1>15, Zenon DEF LowerWords, AtLine, Line, Passed
  <2>2. LowerMotion(out, text[pos], pos).rejected = out.rejected
    BY <1>1, <2>1, MotionLeads DEF Leads, SameModes
  <2>3. KeepState(text, pos + 1, 1, LowerMotion(out, text[pos], pos))
    BY <1>1, <2>1, <2>2, WordsLineKept, NextLineKept
  <2> QED
    BY <2>1, <2>3 DEF GoOn
<1>16. CASE ReturnAil
  <2>1. ~Reads(text, pos, out) /\ out' = Finish(out) /\ pos' = Len(text) + 2 /\ UNCHANGED <<text, word>>
    BY <1>1, <1>16 DEF ReturnAil
  <2>2. Finish(out).instructions = out.instructions /\ Finish(out).rejected = out.rejected
    BY <1>1 DEF Finish, IsSound, Shaped, Fields
  <2>3. /\ word = 1 /\ Len(text) \in Nat /\ pos \in 1 .. Len(text) + 2
        /\ out.rejected \in {NoValue} \cup 1 .. Len(text)
    <3>1. IsResult(text, LowerToMessages(text), Len(text)) /\ Len(text) \in Nat
      BY <1>1, LoweredMessages, StructuredTextsAssumption DEF LoopState
    <3> QED
      BY <1>1, <2>1, <3>1 DEF LoopState, IsResult, Result
  <2>4. \A k \in 1 .. Len(text) : (out.rejected = NoValue \/ k < out.rejected) => k < pos
    BY <2>1, <2>3 DEF Reads, NoValue
  <2>5. ~Reads(text, Len(text) + 2, Finish(out))
    BY <2>3 DEF Reads
  <2>6. KeepState(text, Len(text) + 2, 1, Finish(out))
    <3>1. \A i \in DOMAIN out.instructions :
            /\ out.instructions[i].source.line \in Nat
            /\ out.instructions[i].source.line < Len(text) + 2
      BY <2>3 DEF KeepState
    <3>2. \A k \in 1 .. Len(text) :
            (out.rejected = NoValue \/ k < out.rejected) => KeptLine(text[k], k, out.instructions)
      BY <2>4 DEF KeepState
    <3> QED
      BY <2>2, <2>5, <3>1, <3>2 DEF KeepState
  <2> QED
    BY <2>1, <2>3, <2>6
<1> QED
  BY <1>3, <1>4, <1>5, <1>6, <1>7, <1>8, <1>9, <1>10, <1>11, <1>12, <1>13, <1>14, <1>15, <1>16
     DEF LoweringNext

LEMMA KeepStarts == LoweringInit => KeepState(text, pos, word, out)
<1> SUFFICES ASSUME LoweringInit
             PROVE  KeepState(text, 1, 1, out)
  BY DEF LoweringInit
<1>1. out.instructions = <<>>
  BY DEF LoweringInit, Start
<1>2. KeptWords(text[1].words, 1, 1, <<>>)
  <2>1. \A ops : CountIn(<<>>, 1, ops) = 0
    BY NoneCounted
  <2>2. {i \in 1 .. 1 - 1 : IsCounted(text[1].words[i])} = {}
    OBVIOUS
  <2> QED
    BY <2>1, <2>2, FS_EmptySet DEF KeptWords
<1> QED
  BY <1>1, <1>2 DEF KeepState

(* When lowerToAil returns, every M and T word and every motion of a line  *)
(* it has read has given one instruction, whatever the text is: no word    *)
(* that the rules let pass is dropped.                                     *)
THEOREM NoWordIsLost == LoweringSpec => []WordsKept
<1>1. LoopInv /\ KeepState(text, pos, word, out) => WordsKept
  <2> SUFFICES ASSUME LoopInv, KeepState(text, pos, word, out), Returned,
                      NEW k \in Read, ~Skipped(text[k])
               PROVE  /\ KindOf(text[k]) # "malformed"
                      /\ KindOf(text[k]) = "words" =>
                           /\ From(k, WordOps)
                                = Cardinality({i \in DOMAIN text[k].words : IsCounted(text[k].words[i])})
                           /\ From(k, {"move"}) = IF Moves(k) THEN 1 ELSE 0
    BY Zenon DEF WordsKept, WordOps, IsCounted
  <2>1. IsResult(text, LowerToMessages(text), Len(text)) /\ Len(text) \in Nat
    BY LoweredMessages, StructuredTextsAssumption DEF LoopInv, LoopState
  <2>2. out.rejected \in {NoValue} \cup 1 .. Len(text)
    BY <2>1 DEF LoopInv, LoopState, IsResult, Result
  <2>3. k \in 1 .. Len(text) /\ (out.rejected = NoValue \/ k < out.rejected) /\ k < pos
    BY <2>1, <2>2 DEF Read, LastLine, Returned, NoValue
  <2>4. KeptLine(text[k], k, out.instructions)
    BY <2>3 DEF KeepState
  <2>5. \A ops : CountIn(out.instructions, k, ops) = From(k, ops)
    BY DEF CountIn, From
  <2>6. Moves(k) <=> MotionOf(text[k].words) # NoValue
    BY Zenon DEF Moves
  <2> QED
    BY <2>4, <2>5, <2>6, Zenon DEF KeptLine
<1>2. LoweringInit => KeepState(text, pos, word, out)
  BY KeepStarts
<1>3. LoopInv /\ KeepState(text, pos, word, out) /\ [LoweringNext]_loweringVars
        => KeepState(text, pos, word, out)'
  <2>1. UNCHANGED loweringVars /\ KeepState(text, pos, word, out) => KeepState(text, pos, word, out)'
    BY DEF loweringVars
  <2> QED
    BY <2>1, LoopKeeps
<1> QED
  BY <1>1, <1>2, <1>3, LoopStart, LoopSound, LoopStutters, PTL DEF LoweringSpec

----------------------------------------------------------------------------
(* Blocks that do not match.  The level of a line is the number of blocks  *)
(* open behind it, counted over all lines so far.                          *)

BlockKind(t, k) == IF Skipped(t[k]) THEN "none" ELSE t[k].statement.kind
LinesUpTo(t, n, kind) == {m \in 1 .. n : BlockKind(t, m) = kind}
Level(t, n) == Cardinality(LinesUpTo(t, n, "if")) - Cardinality(LinesUpTo(t, n, "endif"))

Surrounds(t, i, k) ==
  BlockKind(t, i) = "if" /\ i < k /\ \A m \in i .. k : Level(t, m) > Level(t, i - 1)
ElseOf(t, e, i) ==
  BlockKind(t, e) = "else" /\ Surrounds(t, i, e) /\ Level(t, e) = Level(t, i - 1) + 1

(* Line k is no ENDIF without an IF, and no ELSE without one or after one. *)
Matches(t, k) ==
  /\ Level(t, k) >= 0
  /\ BlockKind(t, k) = "else" =>
       \E i \in 1 .. k - 1 : ElseOf(t, k, i) /\ \A f \in 1 .. k - 1 : ~ElseOf(t, f, i)

LEMMA OneMoreLine ==
  ASSUME NEW t, NEW n \in Nat, NEW kind
  PROVE  /\ IsFiniteSet(LinesUpTo(t, n, kind)) /\ Cardinality(LinesUpTo(t, n, kind)) \in Nat
         /\ Cardinality(LinesUpTo(t, n + 1, kind)) =
              Cardinality(LinesUpTo(t, n, kind)) + (IF BlockKind(t, n + 1) = kind THEN 1 ELSE 0)
<1> DEFINE old == LinesUpTo(t, n, kind)
           new == LinesUpTo(t, n + 1, kind)
<1>1. IsFiniteSet(old) /\ Cardinality(old) \in Nat
  <2>1. IsFiniteSet(1 .. n)
    BY FS_Interval
  <2>2. IsFiniteSet(old)
    BY <2>1, FS_Subset DEF LinesUpTo
  <2> QED
    BY <2>2, FS_CardinalityType
<1>2. n + 1 \notin old
  BY DEF LinesUpTo
<1>3. CASE BlockKind(t, n + 1) = kind
  <2>1. new = old \cup {n + 1}
    BY <1>3 DEF LinesUpTo
  <2> HIDE DEF old, new
  <2>2. Cardinality(new) = Cardinality(old) + 1
    BY <1>1, <1>2, <2>1, FS_AddElement
  <2> QED
    BY <1>1, <1>3, <2>2 DEF old, new
<1>4. CASE BlockKind(t, n + 1) # kind
  <2>1. new = old
    BY <1>4 DEF LinesUpTo
  <2> HIDE DEF old, new
  <2>2. Cardinality(new) = Cardinality(old) + 0
    BY <1>1, <2>1
  <2> QED
    BY <1>1, <1>4, <2>2 DEF old, new
<1> QED
  BY <1>3, <1>4

LEMMA LevelStep ==
  ASSUME NEW t
  PROVE  /\ Level(t, 0) = 0
         /\ \A n \in Nat : /\ Level(t, n) \in Int
                           /\ Level(t, n + 1) = Level(t, n) + (CASE BlockKind(t, n + 1) = "if" -> 1
                                                                 [] BlockKind(t, n + 1) = "endif" -> -1
                                                                 [] OTHER -> 0)
<1>1. \A kind : LinesUpTo(t, 0, kind) = {}
  BY DEF LinesUpTo
<1>2. Level(t, 0) = 0
  BY <1>1, FS_EmptySet DEF Level
<1>3. ASSUME NEW n \in Nat
      PROVE  /\ Level(t, n) \in Int
             /\ Level(t, n + 1) = Level(t, n) + (CASE BlockKind(t, n + 1) = "if" -> 1
                                                   [] BlockKind(t, n + 1) = "endif" -> -1
                                                   [] OTHER -> 0)
  <2> DEFINE kind == BlockKind(t, n + 1)
             ifs == Cardinality(LinesUpTo(t, n, "if"))
             ends == Cardinality(LinesUpTo(t, n, "endif"))
             newIfs == Cardinality(LinesUpTo(t, n + 1, "if"))
             newEnds == Cardinality(LinesUpTo(t, n + 1, "endif"))
  <2>1. /\ ifs \in Nat /\ ends \in Nat
        /\ newIfs = ifs + (IF kind = "if" THEN 1 ELSE 0)
        /\ newEnds = ends + (IF kind = "endif" THEN 1 ELSE 0)
    BY OneMoreLine
  <2>2. Level(t, n) = ifs - ends /\ Level(t, n + 1) = newIfs - newEnds
    BY DEF Level
  <2> HIDE DEF kind, ifs, ends, newIfs, newEnds
  <2>3. CASE kind = "if"
    BY <2>1, <2>2, <2>3 DEF kind
  <2>4. CASE kind = "endif"
    BY <2>1, <2>2, <2>4 DEF kind
  <2>5. CASE kind # "if" /\ kind # "endif"
    BY <2>1, <2>2, <2>5 DEF kind
  <2> QED
    BY <2>3, <2>4, <2>5
<1> QED
  BY <1>2, <1>3

LEMMA LevelHere ==
  ASSUME NEW t, NEW p \in Nat \ {0}
  PROVE  /\ Level(t, p - 1) \in Int /\ Level(t, p) \in Int
         /\ BlockKind(t, p) = "if" => Level(t, p) = Level(t, p - 1) + 1
         /\ BlockKind(t, p) = "endif" => Level(t, p) = Level(t, p - 1) - 1
         /\ BlockKind(t, p) \notin {"if", "endif"} => Level(t, p) = Level(t, p - 1)
<1> DEFINE n == p - 1
<1>1. n \in Nat /\ n + 1 = p
  OBVIOUS
<1> HIDE DEF n
<1>2. /\ Level(t, n) \in Int /\ Level(t, n + 1) \in Int
      /\ Level(t, n + 1) = Level(t, n) + (CASE BlockKind(t, n + 1) = "if" -> 1
                                            [] BlockKind(t, n + 1) = "endif" -> -1
                                            [] OTHER -> 0)
  <2>1. n + 1 \in Nat
    BY <1>1
  <2> QED
    BY <1>1, <2>1, LevelStep
<1>3. BlockKind(t, p) = "if" => Level(t, p) = Level(t, n) + 1
  BY <1>1, <1>2
<1>4. BlockKind(t, p) = "endif" => Level(t, p) = Level(t, n) - 1
  BY <1>1, <1>2
<1>5. BlockKind(t, p) \notin {"if", "endif"} => Level(t, p) = Level(t, n)
  BY <1>1, <1>2
<1> QED
  BY <1>1, <1>2, <1>3, <1>4, <1>5 DEF n

(* The module's way of counting, from any line on.                         *)
LEMMA DepthIsLevel ==
  ASSUME NEW i \in Nat \ {0}, NEW k \in Nat, i <= k + 1
  PROVE  Depth(i, k) = Level(text, k) - Level(text, i - 1)
<1>1. ASSUME NEW kind
      PROVE  /\ Lines(kind, i, k) = Cardinality(LinesUpTo(text, k, kind))
                                     - Cardinality(LinesUpTo(text, i - 1, kind))
             /\ Cardinality(LinesUpTo(text, k, kind)) \in Nat
             /\ Cardinality(LinesUpTo(text, i - 1, kind)) \in Nat
  <2> DEFINE all == LinesUpTo(text, k, kind)
             before == LinesUpTo(text, i - 1, kind)
             own == {m \in i .. k : KindAt(m) = kind}
  <2>1. i - 1 \in Nat
    OBVIOUS
  <2>2. /\ IsFiniteSet(all) /\ IsFiniteSet(before)
        /\ Cardinality(all) \in Nat /\ Cardinality(before) \in Nat
    BY <2>1, OneMoreLine
  <2>3. all = before \cup own /\ before \cap own = {}
    <3>1. \A m : KindAt(m) = BlockKind(text, m)
      BY DEF KindAt, BlockKind
    <3> QED
      BY <3>1 DEF LinesUpTo
  <2>4. IsFiniteSet(own) /\ Cardinality(own) \in Nat
    <3>1. own \subseteq all
      BY <2>3
    <3> HIDE DEF own, all
    <3>2. IsFiniteSet(own)
      BY <2>2, <3>1, FS_Subset
    <3> QED
      BY <3>2, FS_CardinalityType
  <2>5. Lines(kind, i, k) = Cardinality(own)
    BY DEF Lines
  <2> HIDE DEF all, before, own
  <2>6. Cardinality(all) = Cardinality(before) + Cardinality(own) - Cardinality({})
    BY <2>2, <2>3, <2>4, FS_Union
  <2>7. Cardinality({}) = 0
    BY FS_EmptySet
  <2>8. Cardinality(own) = Cardinality(all) - Cardinality(before)
    BY <2>2, <2>4, <2>6, <2>7
  <2> QED
    BY <2>2, <2>5, <2>8 DEF all, before
<1>2. /\ Depth(i, k) = Lines("if", i, k) - Lines("endif", i, k)
      /\ Level(text, k) = Cardinality(LinesUpTo(text, k, "if")) - Cardinality(LinesUpTo(text, k, "endif"))
      /\ Level(text, i - 1) = Cardinality(LinesUpTo(text, i - 1, "if"))
                               - Cardinality(LinesUpTo(text, i - 1, "endif"))
  BY DEF Depth, Level
<1> QED
  BY <1>1, <1>2

BlockReasons == {"ELSE without IF", "duplicate ELSE", "ENDIF without IF", "missing ENDIF"}
Blames(r) == \E i \in DOMAIN r.diagnostics : r.diagnostics[i].why \in BlockReasons

(* The j-th open block before line p starts at line i.                     *)
Opens(t, p, i, j) ==
  /\ BlockKind(t, i) = "if" /\ Level(t, i - 1) = j - 1
  /\ \A m \in i .. p - 1 : Level(t, m) >= j
OpenAt(t, p, ifs, j) ==
  \E i \in 1 .. p - 1 :
    /\ Opens(t, p, i, j)
    /\ ifs[j].hasElse = TRUE <=> \E e \in 1 .. p - 1 : ElseOf(t, e, i)

(* Before line p: nothing has been blamed, all lines match, and the stack  *)
(* holds the blocks that are open; or a line does not match.               *)
BlockState(t, p, r) ==
  /\ p <= LastLine(t, r) + 1
  /\ Blames(r) => \E k \in 1 .. p - 1 : ~Matches(t, k)
  /\ ~Blames(r) =>
       /\ \A k \in 1 .. p - 1 : Matches(t, k)
       /\ Level(t, p - 1) = Len(r.ifs)
       /\ \A j \in DOMAIN r.ifs : OpenAt(t, p, r.ifs, j)

LEMMA SameBlame ==
  ASSUME NEW r, IsSeq(r.diagnostics), NEW s, NEW severity, NEW k, NEW why,
         s.diagnostics = Append(r.diagnostics, Diag(severity, k, why))
  PROVE  Blames(s) <=> Blames(r) \/ why \in BlockReasons
<1> DEFINE d == Diag(severity, k, why)
<1>1. d.why = why
  BY DEF Diag
<1> HIDE DEF d
<1>2. /\ Len(r.diagnostics) \in Nat /\ DOMAIN r.diagnostics = 1 .. Len(r.diagnostics)
      /\ DOMAIN s.diagnostics = 1 .. Len(r.diagnostics) + 1
      /\ \A i \in DOMAIN r.diagnostics : s.diagnostics[i] = r.diagnostics[i]
      /\ s.diagnostics[Len(r.diagnostics) + 1] = d
  BY Appended DEF d
<1> QED
  BY <1>1, <1>2 DEF Blames

(* A line that is no IF, ELSE or ENDIF.                                    *)
LEMMA OtherLineMatches ==
  ASSUME NEW t, NEW p \in Nat \ {0}, NEW r, BlockState(t, p, r),
         BlockKind(t, p) \notin {"if", "else", "endif"}, p <= LastLine(t, r),
         LastLine(t, r) \in Nat, IsSeq(r.ifs),
         NEW s, s.ifs = r.ifs, Blames(s) <=> Blames(r), s.rejected = r.rejected
  PROVE  BlockState(t, p + 1, s)
<1>1. LastLine(t, s) = LastLine(t, r)
  BY DEF LastLine
<1>2. CASE Blames(r)
  <2>1. PICK k \in 1 .. p - 1 : ~Matches(t, k)
    BY <1>2 DEF BlockState
  <2>2. k \in 1 .. (p + 1) - 1
    BY <2>1
  <2> QED
    BY <1>1, <1>2, <2>1, <2>2 DEF BlockState
<1>3. CASE ~Blames(r)
  <2>1. p - 1 \in Nat /\ (p - 1) + 1 = p /\ (p + 1) - 1 = p
    OBVIOUS
  <2>2. /\ \A k \in 1 .. p - 1 : Matches(t, k)
        /\ Level(t, p - 1) = Len(r.ifs) /\ \A j \in DOMAIN r.ifs : OpenAt(t, p, r.ifs, j)
    BY <1>3 DEF BlockState
  <2>3. Level(t, p) = Level(t, p - 1) /\ Level(t, p - 1) \in Int
    BY <2>1, LevelHere
  <2>4. Len(r.ifs) \in Nat /\ DOMAIN r.ifs = 1 .. Len(r.ifs)
    BY DEF IsSeq
  <2>5. \A k \in 1 .. p : Matches(t, k)
    <3>1. Matches(t, p)
      BY <2>2, <2>3, <2>4 DEF Matches
    <3> QED
      BY <2>2, <3>1
  <2>6. ASSUME NEW j \in DOMAIN r.ifs
        PROVE  OpenAt(t, p + 1, r.ifs, j)
    <3>1. PICK i \in 1 .. p - 1 :
            /\ Opens(t, p, i, j)
            /\ r.ifs[j].hasElse = TRUE <=> \E e \in 1 .. p - 1 : ElseOf(t, e, i)
      BY <2>2, <2>6, Zenon DEF OpenAt
    <3>2. Opens(t, p + 1, i, j)
      <4>1. \A m \in i .. p : m \in i .. p - 1 \/ m = p
        BY <3>1
      <4> QED
        BY <2>1, <2>2, <2>3, <2>4, <3>1, <4>1 DEF Opens
    <3>3. ~ElseOf(t, p, i)
      BY DEF ElseOf
    <3>4. (\E e \in 1 .. p - 1 : ElseOf(t, e, i)) <=> \E e \in 1 .. p : ElseOf(t, e, i)
      BY <3>3
    <3>5. i \in 1 .. p
      BY <3>1
    <3> QED
      BY <2>1, <3>1, <3>2, <3>4, <3>5 DEF OpenAt
  <2> QED
    BY <1>1, <1>3, <2>1, <2>2, <2>3, <2>5, <2>6 DEF BlockState
<1> QED
  BY <1>2, <1>3

LEMMA IfMatches ==
  ASSUME NEW t, NEW p \in Nat \ {0}, NEW r, BlockState(t, p, r),
         BlockKind(t, p) = "if", p <= LastLine(t, r), LastLine(t, r) \in Nat, IsSeq(r.ifs),
         NEW s, NEW block, block.hasElse # TRUE, s.ifs = Append(r.ifs, block),
         Blames(s) <=> Blames(r), s.rejected = r.rejected
  PROVE  BlockState(t, p + 1, s)
<1>1. LastLine(t, s) = LastLine(t, r)
  BY DEF LastLine
<1>2. CASE Blames(r)
  <2>1. PICK k \in 1 .. p - 1 : ~Matches(t, k)
    BY <1>2 DEF BlockState
  <2>2. k \in 1 .. (p + 1) - 1
    BY <2>1
  <2> QED
    BY <1>1, <1>2, <2>1, <2>2 DEF BlockState
<1>3. CASE ~Blames(r)
  <2>1. p - 1 \in Nat /\ (p - 1) + 1 = p /\ (p + 1) - 1 = p
    OBVIOUS
  <2>2. /\ \A k \in 1 .. p - 1 : Matches(t, k)
        /\ Level(t, p - 1) = Len(r.ifs) /\ \A j \in DOMAIN r.ifs : OpenAt(t, p, r.ifs, j)
    BY <1>3 DEF BlockState
  <2>3. Level(t, p) = Level(t, p - 1) + 1
    BY <2>1, LevelHere
  <2>4. /\ Len(r.ifs) \in Nat /\ DOMAIN r.ifs = 1 .. Len(r.ifs)
        /\ DOMAIN s.ifs = 1 .. Len(r.ifs) + 1 /\ Len(s.ifs) = Len(r.ifs) + 1
        /\ (\A j \in DOMAIN r.ifs : s.ifs[j] = r.ifs[j]) /\ s.ifs[Len(r.ifs) + 1] = block
    BY Appended
  <2>5. \A k \in 1 .. p : Matches(t, k)
    <3>1. Matches(t, p)
      BY <2>2, <2>3, <2>4 DEF Matches
    <3> QED
      BY <2>2, <3>1
  <2>6. ASSUME NEW j \in DOMAIN s.ifs
        PROVE  OpenAt(t, p + 1, s.ifs, j)
    <3>1. CASE j \in DOMAIN r.ifs
      <4>1. PICK i \in 1 .. p - 1 :
              /\ Opens(t, p, i, j)
              /\ r.ifs[j].hasElse = TRUE <=> \E e \in 1 .. p - 1 : ElseOf(t, e, i)
        BY <2>2, <3>1, Zenon DEF OpenAt
      <4>2. Opens(t, p + 1, i, j)
        <5>1. \A m \in i .. p : m \in i .. p - 1 \/ m = p
          BY <4>1
        <5> QED
          BY <2>1, <2>2, <2>3, <2>4, <3>1, <4>1, <5>1 DEF Opens
      <4>3. ~ElseOf(t, p, i)
        BY DEF ElseOf
      <4>4. (\E e \in 1 .. p - 1 : ElseOf(t, e, i)) <=> \E e \in 1 .. p : ElseOf(t, e, i)
        BY <4>3
      <4>5. i \in 1 .. p /\ s.ifs[j].hasElse = r.ifs[j].hasElse
        BY <2>4, <3>1, <4>1
      <4> QED
        BY <2>1, <4>1, <4>2, <4>4, <4>5 DEF OpenAt
    <3>2. CASE j = Len(r.ifs) + 1
      <4>1. Opens(t, p + 1, p, j)
        <5>1. \A m \in p .. p : m = p
          OBVIOUS
        <5> QED
          BY <2>1, <2>2, <2>3, <2>4, <3>2, <5>1 DEF Opens
      <4>2. \A e \in 1 .. p : ~ElseOf(t, e, p)
        BY DEF ElseOf, Surrounds
      <4>3. s.ifs[j].hasElse # TRUE /\ p \in 1 .. (p + 1) - 1
        <5>1. s.ifs[j] = block /\ p \in 1 .. (p + 1) - 1
          BY <2>4, <3>2
        <5> QED
          BY <5>1, Zenon
      <4> QED
        BY <2>1, <4>1, <4>2, <4>3 DEF OpenAt
    <3> QED
      BY <2>4, <3>1, <3>2
  <2> QED
    BY <1>1, <1>3, <2>1, <2>2, <2>3, <2>4, <2>5, <2>6 DEF BlockState
<1> QED
  BY <1>2, <1>3

(* The innermost open block is the only one an ELSE can belong to.         *)
LEMMA InnermostOpens ==
  ASSUME NEW t, NEW p \in Nat \ {0}, BlockKind(t, p) = "else", NEW n \in Nat, Level(t, p - 1) = n,
         NEW o \in 1 .. p - 1, Opens(t, p, o, n)
  PROVE  /\ ElseOf(t, p, o)
         /\ \A i \in 1 .. p - 1 : ElseOf(t, p, i) => i = o
<1>1. p - 1 \in Nat /\ Level(t, p) = n /\ o \in Nat \ {0} /\ o - 1 \in Nat
  BY LevelHere
<1>2. /\ BlockKind(t, o) = "if" /\ Level(t, o - 1) = n - 1
      /\ \A m \in o .. p - 1 : Level(t, m) >= n
  BY DEF Opens
<1>3. ElseOf(t, p, o)
  <2>1. ASSUME NEW m \in o .. p
        PROVE  Level(t, m) > Level(t, o - 1)
    <3>1. Level(t, m) \in Int
      <4>1. m \in Nat
        BY <1>1
      <4> QED
        BY <4>1, LevelStep
    <3>2. m \in o .. p - 1 \/ m = p
      BY <1>1
    <3>3. Level(t, m) >= n
      BY <1>1, <1>2, <3>2
    <3> QED
      BY <1>2, <3>1, <3>3
  <2>2. Level(t, p) = Level(t, o - 1) + 1
    BY <1>1, <1>2
  <2> QED
    BY <1>1, <1>2, <2>1, <2>2 DEF ElseOf, Surrounds
<1>4. ASSUME NEW i \in 1 .. p - 1, ElseOf(t, p, i), i # o
      PROVE  FALSE
  <2>1. i \in Nat \ {0} /\ i - 1 \in Nat /\ Level(t, i - 1) \in Int
    BY <1>1, LevelHere
  <2>2. Level(t, i - 1) = n - 1 /\ \A m \in i .. p : Level(t, m) > n - 1
    <3>1. Level(t, p) = Level(t, i - 1) + 1 /\ \A m \in i .. p : Level(t, m) > Level(t, i - 1)
      BY <1>4 DEF ElseOf, Surrounds
    <3>2. Level(t, i - 1) = n - 1
      BY <1>1, <2>1, <3>1
    <3> QED
      BY <3>1, <3>2
  <2>3. CASE i < o
    <3>1. o - 1 \in i .. p
      BY <1>1, <2>1, <2>3
    <3> QED
      BY <1>2, <2>2, <3>1
  <2>4. CASE o < i
    <3>1. i - 1 \in o .. p - 1
      BY <1>1, <2>1, <2>4
    <3> QED
      BY <1>2, <2>2, <3>1
  <2> QED
    BY <1>1, <1>4, <2>1, <2>3, <2>4
<1> QED
  BY <1>3, <1>4

LEMMA ElseMatches ==
  ASSUME NEW t, NEW p \in Nat \ {0}, NEW r, BlockState(t, p, r),
         BlockKind(t, p) = "else", p <= LastLine(t, r), LastLine(t, r) \in Nat, IsSeq(r.ifs),
         r.ifs # <<>>, r.ifs[Len(r.ifs)].hasElse # TRUE,
         NEW s, NEW block, block.hasElse = TRUE, s.ifs = [r.ifs EXCEPT ![Len(r.ifs)] = block],
         Blames(s) <=> Blames(r), s.rejected = r.rejected
  PROVE  BlockState(t, p + 1, s)
<1>1. LastLine(t, s) = LastLine(t, r)
  BY DEF LastLine
<1>2. CASE Blames(r)
  <2>1. PICK k \in 1 .. p - 1 : ~Matches(t, k)
    BY <1>2 DEF BlockState
  <2>2. k \in 1 .. (p + 1) - 1
    BY <2>1
  <2> QED
    BY <1>1, <1>2, <2>1, <2>2 DEF BlockState
<1>3. CASE ~Blames(r)
  <2> DEFINE n == Len(r.ifs)
  <2>1. p - 1 \in Nat /\ (p - 1) + 1 = p /\ (p + 1) - 1 = p
    OBVIOUS
  <2>2. n \in Nat \ {0} /\ DOMAIN r.ifs = 1 .. n /\ n \in DOMAIN r.ifs
    BY Shortened
  <2>3. /\ \A k \in 1 .. p - 1 : Matches(t, k)
        /\ Level(t, p - 1) = n /\ \A j \in DOMAIN r.ifs : OpenAt(t, p, r.ifs, j)
    BY <1>3 DEF BlockState
  <2>4. /\ DOMAIN s.ifs = 1 .. n /\ Len(s.ifs) = n /\ s.ifs[n] = block
        /\ \A j \in 1 .. n : j # n => s.ifs[j] = r.ifs[j]
    BY <2>2, Changed
  <2> HIDE DEF n
  <2>5. Level(t, p) = n
    BY <2>3, LevelHere
  <2>6. PICK o \in 1 .. p - 1 :
          /\ Opens(t, p, o, n)
          /\ r.ifs[n].hasElse = TRUE <=> \E e \in 1 .. p - 1 : ElseOf(t, e, o)
    BY <2>2, <2>3, Zenon DEF OpenAt
  <2>7. ElseOf(t, p, o)
    BY <2>2, <2>3, <2>6, InnermostOpens
  <2>8. \A f \in 1 .. p - 1 : ~ElseOf(t, f, o)
    BY <2>6, Zenon DEF n
  <2>9. \A k \in 1 .. p : Matches(t, k)
    <3>1. Matches(t, p)
      BY <2>2, <2>5, <2>7, <2>8 DEF Matches
    <3> QED
      BY <2>3, <3>1
  <2>10. ASSUME NEW j \in DOMAIN s.ifs
         PROVE  OpenAt(t, p + 1, s.ifs, j)
    <3>1. PICK i \in 1 .. p - 1 :
            /\ Opens(t, p, i, j)
            /\ r.ifs[j].hasElse = TRUE <=> \E e \in 1 .. p - 1 : ElseOf(t, e, i)
      BY <2>2, <2>3, <2>4, Zenon DEF OpenAt
    <3>2. \A k \in 1 .. p - 1 : Opens(t, p, k, j) => Opens(t, p + 1, k, j)
      <4>1. \A k \in 1 .. p - 1 : \A m \in k .. p : m \in k .. p - 1 \/ m = p
        OBVIOUS
      <4> QED
        BY <2>1, <2>2, <2>4, <2>5, <4>1 DEF Opens
    <3>3. CASE j = n
      <4>1. Opens(t, p + 1, o, j) /\ o \in 1 .. p /\ p \in 1 .. p
        BY <2>6, <3>2, <3>3
      <4>2. s.ifs[j].hasElse = TRUE
        BY <2>4, <3>3, Zenon
      <4> QED
        BY <2>1, <2>7, <4>1, <4>2, Zenon DEF OpenAt
    <3>4. CASE j # n
      <4>1. ~ElseOf(t, p, i)
        <5>1. Level(t, i - 1) = j - 1 /\ j \in Nat
          BY <2>4, <3>1 DEF Opens
        <5>2. Level(t, p) # Level(t, i - 1) + 1
          BY <2>2, <2>5, <3>4, <5>1
        <5> QED
          BY <5>2 DEF ElseOf
      <4>2. (\E e \in 1 .. p - 1 : ElseOf(t, e, i)) <=> \E e \in 1 .. p : ElseOf(t, e, i)
        BY <4>1
      <4>3. i \in 1 .. p /\ s.ifs[j] = r.ifs[j]
        BY <2>4, <3>1, <3>4
      <4>4. Opens(t, p + 1, i, j)
        BY <3>1, <3>2
      <4> QED
        BY <2>1, <3>1, <4>2, <4>3, <4>4, Zenon DEF OpenAt
    <3> QED
      BY <3>3, <3>4
  <2> QED
    BY <1>1, <1>3, <2>1, <2>3, <2>4, <2>5, <2>9, <2>10 DEF BlockState
<1> QED
  BY <1>2, <1>3

(* An ELSE that is blamed belongs to no block or to one that has an ELSE.  *)
LEMMA ElseBlamed ==
  ASSUME NEW t, NEW p \in Nat \ {0}, NEW r, BlockState(t, p, r),
         BlockKind(t, p) = "else", p <= LastLine(t, r), LastLine(t, r) \in Nat, IsSeq(r.ifs),
         r.ifs = <<>> \/ r.ifs[Len(r.ifs)].hasElse = TRUE,
         NEW s, Blames(s), s.rejected = r.rejected
  PROVE  BlockState(t, p + 1, s)
<1>1. LastLine(t, s) = LastLine(t, r) /\ (p + 1) - 1 = p /\ p - 1 \in Nat
  BY DEF LastLine
<1>2. \E k \in 1 .. p : ~Matches(t, k)
  <2>1. CASE Blames(r)
    BY <2>1 DEF BlockState
  <2>2. CASE ~Blames(r) /\ r.ifs = <<>>
    <3>1. Level(t, p - 1) = 0 /\ \A k \in 1 .. p - 1 : Matches(t, k)
      BY <2>2 DEF BlockState
    <3>2. Level(t, p) = 0
      BY <3>1, LevelHere
    <3>3. ASSUME NEW i \in 1 .. p - 1, ElseOf(t, p, i)
          PROVE  FALSE
      <4>1. Level(t, i - 1) = -1
        <5>2. i \in Nat \ {0}
          OBVIOUS
        <5>1. i \in Nat \ {0} /\ Level(t, i - 1) \in Int
          BY <5>2, LevelHere
        <5> QED
          BY <3>2, <3>3, <5>1 DEF ElseOf
      <4>2. i = 1 \/ i - 1 \in 1 .. p - 1
        OBVIOUS
      <4>3. CASE i = 1
        BY <4>1, <4>3, LevelStep
      <4>4. CASE i - 1 \in 1 .. p - 1
        BY <3>1, <4>1, <4>4 DEF Matches
      <4> QED
        BY <4>2, <4>3, <4>4
    <3>4. ~Matches(t, p)
      BY <3>3 DEF Matches
    <3> QED
      BY <3>4
  <2>3. CASE ~Blames(r) /\ r.ifs # <<>> /\ r.ifs[Len(r.ifs)].hasElse = TRUE
    <3> DEFINE n == Len(r.ifs)
    <3>1. n \in Nat \ {0} /\ n \in DOMAIN r.ifs
      BY <2>3, Shortened
    <3>2. Level(t, p - 1) = n /\ OpenAt(t, p, r.ifs, n)
      BY <2>3, <3>1, Zenon DEF BlockState
    <3>3. PICK o \in 1 .. p - 1 :
            /\ Opens(t, p, o, n)
            /\ r.ifs[n].hasElse = TRUE <=> \E e \in 1 .. p - 1 : ElseOf(t, e, o)
      BY <3>2, Zenon DEF OpenAt
    <3>4. PICK f \in 1 .. p - 1 : ElseOf(t, f, o)
      BY <2>3, <3>3, Zenon
    <3> HIDE DEF n
    <3>5. \A i \in 1 .. p - 1 : ElseOf(t, p, i) => i = o
      BY <3>1, <3>2, <3>3, InnermostOpens
    <3>6. ~Matches(t, p)
      BY <3>4, <3>5 DEF Matches
    <3> QED
      BY <3>6
  <2> QED
    BY <2>1, <2>2, <2>3
<1>3. p + 1 <= LastLine(t, s) + 1
  BY <1>1
<1> QED
  BY <1>1, <1>2, <1>3 DEF BlockState

LEMMA EndIfMatches ==
  ASSUME NEW t, NEW p \in Nat \ {0}, NEW r, BlockState(t, p, r),
         BlockKind(t, p) = "endif", p <= LastLine(t, r), LastLine(t, r) \in Nat, IsSeq(r.ifs),
         r.ifs # <<>>, NEW s, s.ifs = SubSeq(r.ifs, 1, Len(r.ifs) - 1),
         Blames(s) <=> Blames(r), s.rejected = r.rejected
  PROVE  BlockState(t, p + 1, s)
<1>1. LastLine(t, s) = LastLine(t, r)
  BY DEF LastLine
<1>2. CASE Blames(r)
  <2>1. PICK k \in 1 .. p - 1 : ~Matches(t, k)
    BY <1>2 DEF BlockState
  <2>2. k \in 1 .. (p + 1) - 1
    BY <2>1
  <2> QED
    BY <1>1, <1>2, <2>1, <2>2 DEF BlockState
<1>3. CASE ~Blames(r)
  <2> DEFINE n == Len(r.ifs)
  <2>1. p - 1 \in Nat /\ (p - 1) + 1 = p /\ (p + 1) - 1 = p
    OBVIOUS
  <2>2. /\ n \in Nat \ {0} /\ DOMAIN r.ifs = 1 .. n
        /\ DOMAIN s.ifs = 1 .. n - 1 /\ (\A j \in 1 .. n - 1 : s.ifs[j] = r.ifs[j]) /\ IsSeq(s.ifs)
    BY Shortened
  <2>3. Len(s.ifs) = n - 1
    <3>1. Len(s.ifs) \in Nat /\ DOMAIN s.ifs = 1 .. Len(s.ifs)
      BY <2>2 DEF IsSeq
    <3> HIDE DEF n
    <3> QED
      BY <2>2, <3>1
  <2>4. /\ \A k \in 1 .. p - 1 : Matches(t, k)
        /\ Level(t, p - 1) = n /\ \A j \in DOMAIN r.ifs : OpenAt(t, p, r.ifs, j)
    BY <1>3 DEF BlockState
  <2> HIDE DEF n
  <2>5. Level(t, p) = n - 1
    BY <2>4, LevelHere
  <2>6. \A k \in 1 .. p : Matches(t, k)
    <3>1. Matches(t, p)
      BY <2>2, <2>5 DEF Matches
    <3> QED
      BY <2>4, <3>1
  <2>7. ASSUME NEW j \in DOMAIN s.ifs
        PROVE  OpenAt(t, p + 1, s.ifs, j)
    <3>1. j \in DOMAIN r.ifs /\ j <= n - 1 /\ s.ifs[j] = r.ifs[j] /\ j \in Nat
      BY <2>2
    <3>2. PICK i \in 1 .. p - 1 :
            /\ Opens(t, p, i, j)
            /\ r.ifs[j].hasElse = TRUE <=> \E e \in 1 .. p - 1 : ElseOf(t, e, i)
      BY <2>4, <3>1, Zenon DEF OpenAt
    <3>3. Opens(t, p + 1, i, j)
      <4>1. \A m \in i .. p : m \in i .. p - 1 \/ m = p
        BY <3>2
      <4> QED
        BY <2>1, <2>5, <3>1, <3>2, <4>1 DEF Opens
    <3>4. ~ElseOf(t, p, i)
      BY DEF ElseOf
    <3>5. (\E e \in 1 .. p - 1 : ElseOf(t, e, i)) <=> \E e \in 1 .. p : ElseOf(t, e, i)
      BY <3>4
    <3>6. i \in 1 .. p
      BY <3>2
    <3> QED
      BY <2>1, <3>1, <3>2, <3>3, <3>5, <3>6, Zenon DEF OpenAt
  <2> QED
    BY <1>1, <1>3, <2>1, <2>3, <2>4, <2>5, <2>6, <2>7 DEF BlockState
<1> QED
  BY <1>2, <1>3

LEMMA EndIfBlamed ==
  ASSUME NEW t, NEW p \in Nat \ {0}, NEW r, BlockState(t, p, r),
         BlockKind(t, p) = "endif", p <= LastLine(t, r), LastLine(t, r) \in Nat, r.ifs = <<>>,
         NEW s, Blames(s), s.rejected = r.rejected
  PROVE  BlockState(t, p + 1, s)
<1>1. LastLine(t, s) = LastLine(t, r) /\ (p + 1) - 1 = p /\ p - 1 \in Nat
  BY DEF LastLine
<1>2. \E k \in 1 .. p : ~Matches(t, k)
  <2>1. CASE Blames(r)
    BY <2>1 DEF BlockState
  <2>2. CASE ~Blames(r)
    <3>1. Level(t, p - 1) = 0
      BY <2>2 DEF BlockState
    <3>2. Level(t, p) = -1
      BY <3>1, LevelHere
    <3>3. ~Matches(t, p)
      BY <3>2 DEF Matches
    <3> QED
      BY <3>3
  <2> QED
    BY <2>1, <2>2
<1>3. p + 1 <= LastLine(t, s) + 1
  BY <1>1
<1> QED
  BY <1>1, <1>2, <1>3 DEF BlockState

(* What lowering does with the stack and with the blame.                   *)
KeepsBlocks(r, s) == s.ifs = r.ifs /\ (Blames(s) <=> Blames(r)) /\ s.rejected = r.rejected

LEMMA EmitKeepsBlocks ==
  ASSUME NEW t, NEW r, IsSound(t, r), NEW code
  PROVE  KeepsBlocks(r, Emit(r, code)) /\ Emit(r, code).diagnostics = r.diagnostics
                                      /\ DOMAIN Emit(r, code) = DOMAIN r
BY DEF Emit, IsSound, Shaped, Fields, KeepsBlocks, Blames

LEMMA ReportKeepsBlocks ==
  ASSUME NEW r, Fields \subseteq DOMAIN r, IsSeq(r.diagnostics), NEW severity, NEW k, NEW why
  PROVE  /\ Report(r, severity, k, why).ifs = r.ifs
         /\ Report(r, severity, k, why).rejected = r.rejected
         /\ Blames(Report(r, severity, k, why)) <=> Blames(r) \/ why \in BlockReasons
<1> DEFINE s == Report(r, severity, k, why)
<1>1. /\ s.ifs = r.ifs /\ s.rejected = r.rejected
      /\ s.diagnostics = Append(r.diagnostics, Diag(severity, k, why))
  BY DEF Report, Fields
<1> HIDE DEF s
<1>2. Blames(s) <=> Blames(r) \/ why \in BlockReasons
  BY <1>1, SameBlame
<1> QED
  BY <1>1, <1>2, Zenon DEF s

LEMMA ReportBlames ==
  ASSUME NEW t, NEW r, IsSound(t, r), NEW k, NEW why \in BlockReasons
  PROVE  Report(r, "Error", k, why).rejected = r.rejected /\ Blames(Report(r, "Error", k, why))
<1>1. Fields \subseteq DOMAIN r /\ IsSeq(r.diagnostics)
  BY DEF IsSound, Shaped
<1> QED
  BY <1>1, ReportKeepsBlocks

LEMMA EmitReportKeepsBlocks ==
  ASSUME NEW t, NEW r, IsSound(t, r), NEW code, NEW severity, NEW k, NEW why, why \notin BlockReasons
  PROVE  KeepsBlocks(r, Report(Emit(r, code), severity, k, why))
<1> DEFINE e == Emit(r, code)
<1>1. KeepsBlocks(r, e) /\ e.diagnostics = r.diagnostics /\ DOMAIN e = DOMAIN r
  BY EmitKeepsBlocks
<1>2. Fields \subseteq DOMAIN r /\ IsSeq(r.diagnostics)
  BY DEF IsSound, Shaped
<1> HIDE DEF e
<1>3. /\ Report(e, severity, k, why).ifs = e.ifs /\ Report(e, severity, k, why).rejected = e.rejected
      /\ Blames(Report(e, severity, k, why)) <=> Blames(e) \/ why \in BlockReasons
  BY <1>1, <1>2, ReportKeepsBlocks
<1> QED
  BY <1>1, <1>3, Zenon DEF KeepsBlocks, e

LEMMA OtherLinesKeepBlocks ==
  ASSUME NEW t, NEW r, IsSound(t, r), NEW l, NEW k, NEW i
  PROVE  /\ KeepsBlocks(r, AssignLine(r, l, k)) /\ KeepsBlocks(r, LabelLine(r, l, k))
         /\ KeepsBlocks(r, GotoLine(r, l, k)) /\ KeepsBlocks(r, IfGotoLine(r, l, k))
         /\ KeepsBlocks(r, ProcLine(r, l, k)) /\ KeepsBlocks(r, CallLine(r, l, k))
         /\ KeepsBlocks(r, LowerWord(r, l, k, i)) /\ KeepsBlocks(r, LowerMotion(r, l, k))
         /\ KeepsBlocks(r, r)
<1>1. \A code : KeepsBlocks(r, Emit(r, code))
  BY EmitKeepsBlocks
<1>2. KeepsBlocks(r, r)
  BY Zenon DEF KeepsBlocks
<1>3. /\ "malformed PROC" \notin BlockReasons /\ "PROC signature" \notin BlockReasons
      /\ "call arguments" \notin BlockReasons
  BY DEF BlockReasons
<1>4. \A severity, why : why \notin BlockReasons => KeepsBlocks(r, Report(r, severity, k, why))
  <2>1. Fields \subseteq DOMAIN r /\ IsSeq(r.diagnostics)
    BY DEF IsSound, Shaped
  <2> QED
    BY <2>1, ReportKeepsBlocks DEF KeepsBlocks
<1>5. \A code, severity, why :
        why \notin BlockReasons => KeepsBlocks(r, Report(Emit(r, code), severity, k, why))
  BY EmitReportKeepsBlocks
<1>6. KeepsBlocks(r, AssignLine(r, l, k))
  BY <1>1, <1>3, <1>4, Zenon DEF AssignLine
<1>7. /\ KeepsBlocks(r, LabelLine(r, l, k)) /\ KeepsBlocks(r, GotoLine(r, l, k))
      /\ KeepsBlocks(r, IfGotoLine(r, l, k))
  BY <1>1, Zenon DEF LabelLine, GotoLine, IfGotoLine
<1>8. KeepsBlocks(r, ProcLine(r, l, k))
  BY <1>1, <1>3, <1>5, Zenon DEF ProcLine
<1>9. KeepsBlocks(r, CallLine(r, l, k))
  BY <1>1, <1>3, <1>5, Zenon DEF CallLine
<1>10. KeepsBlocks(r, LowerMotion(r, l, k))
  BY <1>1, <1>2, Zenon DEF LowerMotion
<1>11. KeepsBlocks(r, LowerWord(r, l, k, i))
  <2> DEFINE s == LowerWord(r, l, k, i)
  <2>1. s.ifs = r.ifs /\ s.diagnostics = r.diagnostics /\ s.rejected = r.rejected
    BY DEF LowerWord, IsSound, Shaped, Fields
  <2> HIDE DEF s
  <2>2. Blames(s) <=> Blames(r)
    BY <2>1 DEF Blames
  <2> QED
    BY <2>1, <2>2, Zenon DEF KeepsBlocks, s
<1> QED
  BY <1>2, <1>6, <1>7, <1>8, <1>9, <1>10, <1>11

LEMMA IfLineBlocks ==
  ASSUME NEW t, NEW r, IsSound(t, r), NEW l, NEW k
  PROVE  LET s == IfLine(r, l, k) IN
           \E block : /\ block.hasElse # TRUE /\ s.ifs = Append(r.ifs, block)
                      /\ Blames(s) <=> Blames(r)
                      /\ s.rejected = r.rejected
<1> DEFINE s == IfLine(r, l, k)
           block == [branch |-> NextInstruction(r), end |-> Internal("IF_END", r.labels + 2),
                     hasElse |-> FALSE]
<1>1. s.ifs = Append(r.ifs, block) /\ s.diagnostics = r.diagnostics /\ s.rejected = r.rejected
  BY DEF IfLine, Emit, IsSound, Shaped, Fields
<1>2. block.hasElse # TRUE
  BY Zenon
<1> HIDE DEF s, block
<1>3. Blames(s) <=> Blames(r)
  BY <1>1 DEF Blames
<1> QED
  BY <1>1, <1>2, <1>3, Zenon DEF s

(* There is no block that an ELSE could be part of.                        *)
HasNoPlace(r) == r.ifs = <<>> \/ r.ifs[Len(r.ifs)].hasElse = TRUE

(* s is r, after an ELSE.                                                  *)
TakesElse(r, s) ==
  /\ s.rejected = r.rejected
  /\ HasNoPlace(r) => Blames(s)
  /\ ~HasNoPlace(r) =>
       /\ Blames(s) <=> Blames(r)
       /\ \E block : block.hasElse = TRUE /\ s.ifs = [r.ifs EXCEPT ![Len(r.ifs)] = block]

LEMMA ElseLineBlocks ==
  ASSUME NEW t, NEW r, IsSound(t, r), NEW l, NEW k
  PROVE  TakesElse(r, ElseLine(r, l, k))
<1> DEFINE s == ElseLine(r, l, k)
<1>1. IsSeq(r.ifs)
  BY DEF IsSound, Shaped
<1>2. "ELSE without IF" \in BlockReasons /\ "duplicate ELSE" \in BlockReasons
  BY DEF BlockReasons
<1>3. CASE r.ifs = <<>>
  <2>1. s = Report(r, "Error", k, "ELSE without IF")
    BY <1>3, Zenon DEF ElseLine
  <2> HIDE DEF s
  <2>2. s.rejected = r.rejected /\ Blames(s)
    BY <1>2, <2>1, ReportBlames, Zenon
  <2> QED
    BY <1>3, <2>2, Zenon DEF s, HasNoPlace, TakesElse
<1>4. CASE r.ifs # <<>> /\ r.ifs[Len(r.ifs)].hasElse = TRUE
  <2>1. s = Report(r, "Error", k, "duplicate ELSE")
    <3>1. InnermostIf(r).hasElse
      BY <1>4, Zenon DEF InnermostIf, Last
    <3> QED
      BY <1>4, <3>1, Zenon DEF ElseLine
  <2> HIDE DEF s
  <2>2. s.rejected = r.rejected /\ Blames(s)
    BY <1>2, <2>1, ReportBlames, Zenon
  <2> QED
    BY <1>4, <2>2, Zenon DEF s, HasNoPlace, TakesElse
<1>5. CASE r.ifs # <<>> /\ r.ifs[Len(r.ifs)].hasElse # TRUE
  <2>1. IsBlock(r, r.ifs[Len(r.ifs)])
    <3>1. Len(r.ifs) \in DOMAIN r.ifs
      BY <1>1, <1>5, Shortened
    <3> QED
      BY <3>1 DEF IsSound
  <2>2. s = ElseOfIf(r, l, k)
    <3>1. ~InnermostIf(r).hasElse
      BY <1>5, <2>1, Zenon DEF InnermostIf, Last, IsBlock
    <3> QED
      BY <1>5, <3>1, Zenon DEF ElseLine
  <2> DEFINE block == [r.ifs[Len(r.ifs)] EXCEPT !.hasElse = TRUE]
  <2>3. /\ s.ifs = [r.ifs EXCEPT ![Len(r.ifs)] = block]
        /\ s.diagnostics = r.diagnostics /\ s.rejected = r.rejected
    BY <2>2 DEF ElseOfIf, Emit, InnermostIf, Last, IsSound, Shaped, Fields
  <2>4. block.hasElse = TRUE
    BY <2>1 DEF IsBlock
  <2> HIDE DEF s, block
  <2>5. Blames(s) <=> Blames(r)
    BY <2>3 DEF Blames
  <2> QED
    BY <1>5, <2>3, <2>4, <2>5, Zenon DEF s, HasNoPlace, TakesElse
<1> QED
  BY <1>3, <1>4, <1>5, Zenon DEF HasNoPlace

LEMMA EndIfLineBlocks ==
  ASSUME NEW t, NEW r, IsSound(t, r), NEW l, NEW k
  PROVE  LET s == EndIfLine(r, l, k) IN
           /\ s.rejected = r.rejected
           /\ r.ifs = <<>> => Blames(s)
           /\ r.ifs # <<>> => /\ s.ifs = SubSeq(r.ifs, 1, Len(r.ifs) - 1)
                              /\ Blames(s) <=> Blames(r)
<1> DEFINE s == EndIfLine(r, l, k)
<1>1. CASE r.ifs = <<>>
  <2>1. s = Report(r, "Error", k, "ENDIF without IF")
    BY <1>1, Zenon DEF EndIfLine
  <2>2. "ENDIF without IF" \in BlockReasons
    BY DEF BlockReasons
  <2> HIDE DEF s
  <2>3. s.rejected = r.rejected /\ Blames(s)
    BY <2>1, <2>2, ReportBlames, Zenon
  <2> QED
    BY <1>1, <2>3, Zenon DEF s
<1>2. CASE r.ifs # <<>>
  <2>1. /\ s.ifs = SubSeq(r.ifs, 1, Len(r.ifs) - 1) /\ s.diagnostics = r.diagnostics
        /\ s.rejected = r.rejected
    BY <1>2 DEF EndIfLine, Emit, Front, IsSound, Shaped, Fields
  <2> HIDE DEF s
  <2>2. Blames(s) <=> Blames(r)
    BY <2>1 DEF Blames
  <2> QED
    BY <1>2, <2>1, <2>2, Zenon DEF s
<1> QED
  BY <1>1, <1>2, Zenon

----------------------------------------------------------------------------
(* The loop, and what it leaves when it returns.                           *)

AllMatch(t, last) == (\A k \in 1 .. last : Matches(t, k)) /\ Level(t, last) = 0

BlocksOf(t, p, r) ==
  IF p = Len(t) + 2 THEN AllMatch(t, LastLine(t, r)) <=> ~Blames(r) ELSE BlockState(t, p, r)

LEMMA ReadsUpTo ==
  ASSUME NEW t, NEW p, NEW w, NEW r, LoopState(t, p, w, r)
  PROVE  /\ Len(t) \in Nat /\ p \in Nat \ {0} /\ LastLine(t, r) \in Nat /\ LastLine(t, r) <= Len(t)
         /\ Reads(t, p, r) <=> p <= LastLine(t, r)
         /\ IsSound(t, r) /\ IsSeq(r.ifs) /\ IsSeq(r.diagnostics)
<1>1. IsResult(t, LowerToMessages(t), Len(t)) /\ Len(t) \in Nat
  BY LoweredMessages, StructuredTextsAssumption DEF LoopState
<1>2. r.rejected \in {NoValue} \cup 1 .. Len(t) /\ p \in Nat \ {0}
  BY <1>1 DEF LoopState, IsResult, Result
<1>3. LastLine(t, r) \in Nat /\ LastLine(t, r) <= Len(t) /\ (Reads(t, p, r) <=> p <= LastLine(t, r))
  BY <1>1, <1>2 DEF LastLine, Reads, NoValue
<1>4. IsSound(t, r) /\ IsSeq(r.ifs) /\ IsSeq(r.diagnostics)
  BY DEF LoopState, IsSound, Shaped
<1> QED
  BY <1>1, <1>2, <1>3, <1>4

(* The kind of a line that is not passed over.                             *)
LEMMA KindOfBlock ==
  ASSUME NEW t, NEW p, t[p] \in TextLines, ~Skipped(t[p]), NEW kind \in {"if", "else", "endif"}
  PROVE  KindOf(t[p]) = kind <=> BlockKind(t, p) = kind
<1> DEFINE l == t[p]
<1>1. BlockKind(t, p) = l.statement.kind
  BY DEF BlockKind
<1>2. ASSUME l.statement.kind = kind
      PROVE  KindOf(l) = kind
  <2>1. l.words = <<>>
    BY <1>2, TextLinesAssumption
  <2>2. ~IsMalformedProc(l) /\ ~IsProc(l)
    BY <1>2, <2>1 DEF IsMalformedProc, IsProc
  <2>3. Len(l.words) = 0
    BY <2>1
  <2>4. CallsIn(l.words) = {}
    BY <2>3 DEF CallsIn, IsIsoCall
  <2> QED
    BY <1>2, <2>2, <2>4 DEF KindOf
<1>3. KindOf(l) = kind => l.statement.kind = kind
  BY KindOfStatement
<1> QED
  BY <1>1, <1>2, <1>3

LEMMA BlocksGoOn ==
  ASSUME LoopInv, BlocksOf(text, pos, out), InLoop,
         NEW s, GoOn(s), BlockState(text, pos, out) => BlockState(text, pos + 1, s)
  PROVE  BlocksOf(text, pos, out)'
<1>1. /\ Len(text) \in Nat /\ pos \in Nat \ {0} /\ pos <= LastLine(text, out)
      /\ LastLine(text, out) <= Len(text) /\ LastLine(text, out) \in Nat
  BY ReadsUpTo DEF LoopInv, InLoop, Reads
<1>2. pos # Len(text) + 2 /\ pos + 1 # Len(text) + 2
  BY <1>1
<1>3. BlocksOf(text, pos + 1, s)
  BY <1>2, Zenon DEF BlocksOf
<1> QED
  BY <1>3 DEF GoOn

LEMMA LineRead ==
  ASSUME LoopInv, InLoop
  PROVE  text[pos] \in TextLines
<1>1. /\ text \in Texts /\ out.rejected = LowerToMessages(text).rejected /\ pos \in Nat \ {0}
      /\ Reads(text, pos, out)
  BY ReadsUpTo DEF LoopInv, LoopState, InLoop, Reads
<1> QED
  BY <1>1, ReadLine

LEMMA OtherBlocksGoOn ==
  ASSUME LoopInv, BlocksOf(text, pos, out), InLoop, NEW s, GoOn(s), KeepsBlocks(out, s),
         Skipped(Line) \/ KindOf(Line) \notin {"if", "else", "endif"}
  PROVE  BlocksOf(text, pos, out)'
<1>1. /\ pos \in Nat \ {0} /\ pos <= LastLine(text, out) /\ LastLine(text, out) \in Nat
      /\ IsSeq(out.ifs)
  BY ReadsUpTo DEF LoopInv, InLoop, Reads
<1>2. BlockKind(text, pos) \notin {"if", "else", "endif"}
  <2>1. CASE Skipped(Line)
    BY <2>1 DEF BlockKind, Line
  <2>2. CASE ~Skipped(Line)
    <3>1. text[pos] \in TextLines
      BY LineRead
    <3>2. \A kind \in {"if", "else", "endif"} : KindOf(text[pos]) = kind <=> BlockKind(text, pos) = kind
      BY <2>2, <3>1, KindOfBlock DEF Line
    <3> QED
      BY <2>2, <3>2 DEF Line
  <2> QED
    BY <2>1, <2>2
<1>3. s.ifs = out.ifs /\ (Blames(s) <=> Blames(out)) /\ s.rejected = out.rejected
  BY Zenon DEF KeepsBlocks
<1>4. BlockState(text, pos, out) => BlockState(text, pos + 1, s)
  BY <1>1, <1>2, <1>3, OtherLineMatches
<1> QED
  BY <1>4, BlocksGoOn

LEMMA BlockLinesGoOn ==
  ASSUME LoopInv, BlocksOf(text, pos, out), LowerIf \/ LowerElse \/ LowerEndIf
  PROVE  BlocksOf(text, pos, out)'
<1>1. InLoop /\ ~Skipped(text[pos])
  BY Zenon DEF LowerIf, LowerElse, LowerEndIf, AtLine, Passed, Line
<1>0. text[pos] \in TextLines
  BY <1>1, LineRead
<1>2. /\ pos \in Nat \ {0} /\ pos <= LastLine(text, out) /\ LastLine(text, out) \in Nat
      /\ IsSeq(out.ifs) /\ IsSound(text, out)
  BY <1>1, ReadsUpTo DEF LoopInv, InLoop, Reads
<1>3. CASE LowerIf
  <2> DEFINE s == IfLine(out, Line, pos)
  <2>1. GoOn(s) /\ BlockKind(text, pos) = "if"
    BY <1>1, <1>0, <1>3, KindOfBlock DEF LowerIf, AtLine, Line
  <2>2. \E block : /\ block.hasElse # TRUE /\ s.ifs = Append(out.ifs, block)
                   /\ Blames(s) <=> Blames(out)
                   /\ s.rejected = out.rejected
    BY <1>2, IfLineBlocks
  <2> HIDE DEF s
  <2>3. BlockState(text, pos, out) => BlockState(text, pos + 1, s)
    BY <1>2, <2>1, <2>2, IfMatches
  <2> QED
    BY <1>1, <2>1, <2>3, BlocksGoOn
<1>4. CASE LowerElse
  <2> DEFINE s == ElseLine(out, Line, pos)
  <2>1. GoOn(s) /\ BlockKind(text, pos) = "else"
    BY <1>1, <1>0, <1>4, KindOfBlock DEF LowerElse, AtLine, Line
  <2>2. /\ s.rejected = out.rejected
        /\ HasNoPlace(out) => Blames(s)
        /\ ~HasNoPlace(out) => /\ Blames(s) <=> Blames(out)
                      /\ \E block : /\ block.hasElse = TRUE
                                     /\ s.ifs = [out.ifs EXCEPT ![Len(out.ifs)] = block]
    <3>1. TakesElse(out, ElseLine(out, Line, pos))
      BY <1>2, ElseLineBlocks
    <3> QED
      BY <3>1, Zenon DEF TakesElse
  <2> HIDE DEF s
  <2>3. CASE HasNoPlace(out)
    <3>1. BlockState(text, pos, out) => BlockState(text, pos + 1, s)
      BY <1>2, <2>1, <2>2, <2>3, ElseBlamed DEF HasNoPlace
    <3> QED
      BY <1>1, <2>1, <3>1, BlocksGoOn
  <2>4. CASE ~HasNoPlace(out)
    <3>1. BlockState(text, pos, out) => BlockState(text, pos + 1, s)
      BY <1>2, <2>1, <2>2, <2>4, ElseMatches DEF HasNoPlace
    <3> QED
      BY <1>1, <2>1, <3>1, BlocksGoOn
  <2> QED
    BY <2>3, <2>4
<1>5. CASE LowerEndIf
  <2> DEFINE s == EndIfLine(out, Line, pos)
  <2>1. GoOn(s) /\ BlockKind(text, pos) = "endif"
    BY <1>1, <1>0, <1>5, KindOfBlock DEF LowerEndIf, AtLine, Line
  <2>2. /\ s.rejected = out.rejected
        /\ out.ifs = <<>> => Blames(s)
        /\ out.ifs # <<>> => /\ s.ifs = SubSeq(out.ifs, 1, Len(out.ifs) - 1)
                             /\ Blames(s) <=> Blames(out)
    BY <1>2, EndIfLineBlocks
  <2> HIDE DEF s
  <2>3. BlockState(text, pos, out) => BlockState(text, pos + 1, s)
    BY <1>2, <2>1, <2>2, EndIfMatches, EndIfBlamed
  <2> QED
    BY <1>1, <2>1, <2>3, BlocksGoOn
<1> QED
  BY <1>3, <1>4, <1>5

(* When lowering returns it blames the blocks that are still open.         *)
LEMMA FinishBlames ==
  ASSUME NEW t, NEW r, IsSound(t, r)
  PROVE  /\ Finish(r).rejected = r.rejected
         /\ Blames(Finish(r)) <=> Blames(r) \/ r.ifs # <<>>
<1> DEFINE missing == [i \in DOMAIN r.ifs |->
                         Diag("Error", r.instructions[r.ifs[i].branch].source.line, "missing ENDIF")]
           ds == r.diagnostics
           s == Finish(r)
<1>1. s.rejected = r.rejected /\ s.diagnostics = ds \o missing
  BY DEF Finish, IsSound, Shaped, Fields
<1>2. IsSeq(ds) /\ IsSeq(r.ifs)
  BY DEF IsSound, Shaped
<1>3. PICK D : ds \in Seq(D)
  BY <1>2 DEF IsSeq
<1>4. Len(r.ifs) \in Nat /\ DOMAIN r.ifs = 1 .. Len(r.ifs) /\ (Len(r.ifs) = 0 <=> r.ifs = <<>>)
  <2>1. PICK I : r.ifs \in Seq(I)
    BY <1>2 DEF IsSeq
  <2> QED
    BY <2>1
<1>5. DOMAIN missing = DOMAIN r.ifs /\ \A i \in DOMAIN missing : missing[i].why = "missing ENDIF"
  BY DEF Diag
<1> DEFINE E == {missing[i] : i \in 1 .. Len(r.ifs)}
<1>6. missing \in Seq(E) /\ Len(missing) = Len(r.ifs)
  <2> DEFINE n == Len(r.ifs)
  <2>1. n \in Nat /\ missing \in [1 .. n -> {missing[i] : i \in 1 .. n}]
    BY <1>4
  <2> HIDE DEF missing, n
  <2>2. missing \in Seq({missing[i] : i \in 1 .. n})
    BY <2>1, SeqDef
  <2>3. Len(missing) = n
    BY <2>1, <2>2
  <2> QED
    BY <2>2, <2>3 DEF n
<1> HIDE DEF missing, E, ds, s
<1>7. ds \in Seq(D \cup E) /\ missing \in Seq(D \cup E)
  BY <1>3, <1>6, SeqMonotonic
<1>8. /\ Len(ds) \in Nat /\ DOMAIN ds = 1 .. Len(ds)
      /\ DOMAIN (ds \o missing) = 1 .. Len(ds) + Len(r.ifs)
      /\ \A i \in 1 .. Len(ds) : (ds \o missing)[i] = ds[i]
      /\ \A i \in 1 .. Len(r.ifs) : (ds \o missing)[Len(ds) + i] = missing[i]
  BY <1>4, <1>6, <1>7
<1>9. "missing ENDIF" \in BlockReasons
  BY DEF BlockReasons
<1>10. Blames(s) <=> \E i \in DOMAIN (ds \o missing) : (ds \o missing)[i].why \in BlockReasons
  BY <1>1 DEF Blames
<1>11. Blames(r) <=> \E i \in 1 .. Len(ds) : ds[i].why \in BlockReasons
  BY <1>8 DEF Blames, ds
<1>12. CASE r.ifs = <<>>
  <2>1. DOMAIN (ds \o missing) = 1 .. Len(ds)
    <3>1. Len(r.ifs) = 0 /\ Len(ds) \in Nat
      BY <1>4, <1>8, <1>12
    <3>2. Len(ds) + Len(r.ifs) = Len(ds)
      BY <3>1
    <3> QED
      BY <1>8, <3>2
  <2>2. Blames(s) <=> Blames(r)
    BY <1>8, <1>10, <1>11, <2>1
  <2> QED
    BY <1>1, <1>12, <2>2, Zenon DEF s
<1>13. CASE r.ifs # <<>>
  <2>1. 1 \in 1 .. Len(r.ifs) /\ Len(ds) + 1 \in DOMAIN (ds \o missing)
    BY <1>4, <1>8, <1>13
  <2>2. (ds \o missing)[Len(ds) + 1].why = "missing ENDIF"
    BY <1>4, <1>5, <1>8, <2>1
  <2>3. Blames(s)
    BY <1>9, <1>10, <2>1, <2>2
  <2> QED
    BY <1>1, <1>13, <2>3, Zenon DEF s
<1> QED
  BY <1>12, <1>13

LEMMA ReturnMatches ==
  ASSUME LoopInv, BlocksOf(text, pos, out), ReturnAil
  PROVE  BlocksOf(text, pos, out)'
<1> DEFINE last == LastLine(text, out)
           s == Finish(out)
<1>1. /\ Len(text) \in Nat /\ pos \in Nat \ {0} /\ last \in Nat /\ ~(pos <= last)
      /\ IsSound(text, out) /\ IsSeq(out.ifs)
  BY ReadsUpTo DEF LoopInv, ReturnAil, InLoop, Reads
<1>2. BlockState(text, pos, out) /\ out' = s /\ pos' = Len(text) + 2 /\ text' = text
  BY Zenon DEF BlocksOf, ReturnAil, Returned
<1>3. pos = last + 1 /\ pos - 1 = last
  BY <1>1, <1>2 DEF BlockState
<1>4. s.rejected = out.rejected /\ (Blames(s) <=> Blames(out) \/ out.ifs # <<>>)
  BY <1>1, FinishBlames, Zenon
<1> HIDE DEF s
<1>5. LastLine(text, s) = last
  BY <1>4 DEF LastLine
<1> HIDE DEF last
<1>6. Len(out.ifs) = 0 <=> out.ifs = <<>>
  <2>1. PICK I : out.ifs \in Seq(I)
    BY <1>1 DEF IsSeq
  <2> QED
    BY <2>1
<1>7. AllMatch(text, last) <=> ~Blames(s)
  <2>1. CASE Blames(out)
    <3>1. \E k \in 1 .. last : ~Matches(text, k)
      BY <1>2, <1>3, <2>1 DEF BlockState
    <3> QED
      BY <1>4, <2>1, <3>1, Zenon DEF AllMatch
  <2>2. CASE ~Blames(out)
    <3>1. (\A k \in 1 .. last : Matches(text, k)) /\ Level(text, last) = Len(out.ifs)
      BY <1>2, <1>3, <2>2 DEF BlockState
    <3>2. AllMatch(text, last) <=> out.ifs = <<>>
      BY <1>6, <3>1 DEF AllMatch
    <3> QED
      BY <1>4, <2>2, <3>2, Zenon
  <2> QED
    BY <2>1, <2>2
<1>8. BlocksOf(text, Len(text) + 2, s)
  BY <1>5, <1>7, Zenon DEF BlocksOf
<1> QED
  BY <1>2, <1>8

LEMMA BlocksStart == LoweringInit => BlocksOf(text, pos, out)
<1> SUFFICES ASSUME LoweringInit
             PROVE  BlocksOf(text, 1, out)
  BY DEF LoweringInit
<1>1. LoopInv /\ pos = 1 /\ out = Start(LowerToMessages(text)) /\ text \in Texts
  BY LoopStart DEF LoweringInit
<1>2. /\ Len(text) \in Nat /\ LastLine(text, out) \in Nat
      /\ IsResult(text, LowerToMessages(text), Len(text))
  BY <1>1, ReadsUpTo, LoweredMessages, StructuredTextsAssumption DEF LoopInv
<1>3. out.ifs = <<>> /\ out.diagnostics = LowerToMessages(text).diagnostics
  BY <1>1 DEF Start
<1>4. ~Blames(out)
  <2>1. out.diagnostics \in Seq(Diagnostic)
    BY <1>2, <1>3 DEF IsResult, Result
  <2>2. \A i \in DOMAIN out.diagnostics : out.diagnostics[i].why \in Reasons
    <3>1. \A i \in DOMAIN out.diagnostics : out.diagnostics[i] \in Diagnostic
      BY <2>1
    <3> QED
      BY <3>1 DEF Diagnostic
  <2>3. Reasons \cap BlockReasons = {}
    BY DEF Reasons, BlockReasons
  <2> QED
    BY <2>2, <2>3 DEF Blames
<1>5. BlockState(text, 1, out)
  <2>1. Level(text, 1 - 1) = Len(out.ifs)
    BY <1>3, LevelStep
  <2>2. 1 .. 1 - 1 = {} /\ DOMAIN out.ifs = {} /\ 1 <= LastLine(text, out) + 1
    BY <1>2, <1>3
  <2> QED
    BY <1>4, <2>1, <2>2 DEF BlockState
<1>6. 1 # Len(text) + 2
  BY <1>2
<1> QED
  BY <1>5, <1>6, Zenon DEF BlocksOf

LEMMA BlocksKept ==
  ASSUME LoopInv, BlocksOf(text, pos, out), LoweringNext
  PROVE  BlocksOf(text, pos, out)'
<1>1. IsSound(text, out)
  BY DEF LoopInv, LoopState
<1>2. CASE PassLine
  <2>1. InLoop /\ GoOn(out) /\ Skipped(Line)
    BY <1>2, PassedIsSkipped DEF PassLine, LoopInv, InLoop, Reads, Line
  <2> QED
    BY <1>1, <2>1, OtherLinesKeepBlocks, OtherBlocksGoOn
<1>3. CASE LowerAssignment
  BY <1>1, <1>3, OtherLinesKeepBlocks, OtherBlocksGoOn DEF LowerAssignment, AtLine
<1>4. CASE LowerLabel
  BY <1>1, <1>4, OtherLinesKeepBlocks, OtherBlocksGoOn DEF LowerLabel, AtLine
<1>5. CASE LowerGoto
  BY <1>1, <1>5, OtherLinesKeepBlocks, OtherBlocksGoOn DEF LowerGoto, AtLine
<1>6. CASE LowerIfGoto
  BY <1>1, <1>6, OtherLinesKeepBlocks, OtherBlocksGoOn DEF LowerIfGoto, AtLine
<1>7. CASE LowerProc
  BY <1>1, <1>7, OtherLinesKeepBlocks, OtherBlocksGoOn DEF LowerProc, AtLine
<1>8. CASE LowerCall
  BY <1>1, <1>8, OtherLinesKeepBlocks, OtherBlocksGoOn DEF LowerCall, AtLine
<1>9. CASE LowerLoop
  BY <1>1, <1>9, OtherLinesKeepBlocks, OtherBlocksGoOn DEF LowerLoop, AtLine
<1>10. CASE LowerWords
  BY <1>1, <1>10, OtherLinesKeepBlocks, OtherBlocksGoOn DEF LowerWords, AtLine
<1>11. CASE LowerNextWord
  <2> DEFINE s == LowerWord(out, Line, pos, word)
  <2>1. InLoop /\ out' = s /\ text' = text /\ pos' = pos
    BY <1>11 DEF LowerNextWord, AtLine
  <2>2. s.ifs = out.ifs /\ (Blames(s) <=> Blames(out)) /\ s.rejected = out.rejected
    <3>1. KeepsBlocks(out, LowerWord(out, Line, pos, word))
      BY <1>1, OtherLinesKeepBlocks
    <3> QED
      BY <3>1, Zenon DEF KeepsBlocks
  <2> HIDE DEF s
  <2>3. LastLine(text, s) = LastLine(text, out)
    BY <2>2 DEF LastLine
  <2>4. BlockState(text, pos, out) => BlockState(text, pos, s)
    BY <2>2, <2>3 DEF BlockState
  <2>5. pos # Len(text) + 2
    BY <2>1, ReadsUpTo DEF LoopInv, InLoop, Reads
  <2>6. BlocksOf(text, pos, s)
    BY <2>4, <2>5, Zenon DEF BlocksOf
  <2> QED
    BY <2>1, <2>6
<1> QED
  BY <1>2, <1>3, <1>4, <1>5, <1>6, <1>7, <1>8, <1>9, <1>10, <1>11, BlockLinesGoOn, ReturnMatches
     DEF LoweringNext

(* Balanced counts from each IF, AllMatch from the first line.             *)
LEMMA BalancedMatches ==
  ASSUME Len(text) \in Nat, LastLine(text, out) \in Nat
  PROVE  Balanced <=> AllMatch(text, LastLine(text, out))
<1> DEFINE last == LastLine(text, out)
<1>1. Read = 1 .. last
  BY DEF Read
<1> HIDE DEF last
<1>2. \A n \in Nat : Level(text, n) \in Int
  BY LevelStep
<1>3. \A k \in Nat : Depth(1, k) = Level(text, k)
  <2> SUFFICES ASSUME NEW k \in Nat
               PROVE  Depth(1, k) = Level(text, k)
    OBVIOUS
  <2>1. 1 \in Nat \ {0} /\ 1 <= k + 1 /\ 1 - 1 = 0
    OBVIOUS
  <2>2. Depth(1, k) = Level(text, k) - Level(text, 1 - 1)
    BY <2>1, DepthIsLevel
  <2> QED
    BY <1>2, <2>1, <2>2, LevelStep
<1>4. \A m : KindAt(m) = BlockKind(text, m)
  BY DEF KindAt, BlockKind
<1>5. ASSUME NEW e \in Nat \ {0}, NEW i \in Nat \ {0}
      PROVE  IsElseOf(e, i) <=> ElseOf(text, e, i)
  <2>1. CASE i < e
    <3>1. \A m \in i .. e : Depth(i, m) = Level(text, m) - Level(text, i - 1) /\ m \in Nat
      <4>1. \A m \in i .. e : m \in Nat /\ i <= m + 1
        OBVIOUS
      <4> QED
        BY <4>1, DepthIsLevel
    <3>2. Level(text, i - 1) \in Int /\ \A m \in i .. e : Level(text, m) \in Int
      <4>1. i - 1 \in Nat
        OBVIOUS
      <4> QED
        BY <1>2, <3>1, <4>1
    <3>3. e \in i .. e
      BY <2>1
    <3>4. \A m \in i .. e : /\ Depth(i, m) >= 1 <=> Level(text, m) > Level(text, i - 1)
                            /\ Depth(i, m) = 1 <=> Level(text, m) = Level(text, i - 1) + 1
      BY <3>1, <3>2
    <3> QED
      BY <1>4, <3>3, <3>4 DEF IsElseOf, Encloses, ElseOf, Surrounds
  <2>2. CASE ~(i < e)
    BY <2>2 DEF IsElseOf, Encloses, ElseOf, Surrounds
  <2> QED
    BY <2>1, <2>2
<1>6. \A e, i : ElseOf(text, e, i) => i < e
  BY DEF ElseOf, Surrounds
<1>7. ASSUME NEW k \in 1 .. last
      PROVE  (\E i \in 1 .. last : IsElseOf(k, i) /\ \A f \in 1 .. last : IsElseOf(f, i) => f >= k)
               <=> \E i \in 1 .. k - 1 : ElseOf(text, k, i) /\ \A f \in 1 .. k - 1 : ~ElseOf(text, f, i)
  <2>1. \A e, i \in 1 .. last : IsElseOf(e, i) <=> ElseOf(text, e, i)
    <3>1. \A i \in 1 .. last : i \in Nat \ {0}
      OBVIOUS
    <3> QED
      BY <1>5, <3>1
  <2>2. \A i \in 1 .. k - 1 : i \in 1 .. last /\ ~(i >= k)
    BY last \in Nat DEF last
  <2>3. \A i \in 1 .. last : i < k => i \in 1 .. k - 1
    OBVIOUS
  <2>4. \A f \in 1 .. last : ~(f >= k) => f \in 1 .. k - 1
    OBVIOUS
  <2> QED
    BY <1>6, <2>1, <2>2, <2>3, <2>4
<1>8. \A k \in 1 .. last : Depth(1, k) = Level(text, k) /\ KindAt(k) = BlockKind(text, k)
  BY <1>3, <1>4
<1>9. Depth(1, last) = Level(text, last)
  BY <1>3 DEF last
<1>10. Balanced <=> /\ \A k \in 1 .. last : Depth(1, k) >= 0
                   /\ Depth(1, last) = 0
                   /\ \A e \in 1 .. last : KindAt(e) = "else" =>
                        \E i \in 1 .. last : IsElseOf(e, i)
                                            /\ \A f \in 1 .. last : IsElseOf(f, i) => f >= e
  BY <1>1, Zenon DEF Balanced, last
<1>11. AllMatch(text, last) <=>
         /\ \A k \in 1 .. last : Level(text, k) >= 0
         /\ Level(text, last) = 0
         /\ \A k \in 1 .. last : BlockKind(text, k) = "else" =>
              \E i \in 1 .. k - 1 : ElseOf(text, k, i) /\ \A f \in 1 .. k - 1 : ~ElseOf(text, f, i)
  BY Zenon DEF AllMatch, Matches
<1> QED
  BY <1>7, <1>8, <1>9, <1>10, <1>11 DEF last

(* When lowerToAil returns, an ELSE, an ENDIF or an open IF has been       *)
(* reported exactly if the blocks of the lines it has read do not match,   *)
(* whatever the text is: errors within a block hide nothing.               *)
THEOREM BlamesUnbalanced == LoweringSpec => []UnbalancedReported
<1>1. LoopInv /\ BlocksOf(text, pos, out) => UnbalancedReported
  <2> SUFFICES ASSUME LoopInv, BlocksOf(text, pos, out), Returned
               PROVE  Balanced <=> \A i \in DOMAIN out.diagnostics :
                                     out.diagnostics[i].why \notin BlockReasons
    BY Zenon DEF UnbalancedReported, BlockReasons
  <2>1. AllMatch(text, LastLine(text, out)) <=> ~Blames(out)
    BY Zenon DEF BlocksOf, Returned
  <2>2. Balanced <=> AllMatch(text, LastLine(text, out))
    BY ReadsUpTo, BalancedMatches DEF LoopInv
  <2> QED
    BY <2>1, <2>2, Zenon DEF Blames
<1>2. LoopInv /\ BlocksOf(text, pos, out) /\ [LoweringNext]_loweringVars => BlocksOf(text, pos, out)'
  <2>1. UNCHANGED loweringVars /\ BlocksOf(text, pos, out) => BlocksOf(text, pos, out)'
    BY DEF loweringVars
  <2> QED
    BY <2>1, BlocksKept
<1> QED
  BY <1>1, <1>2, BlocksStart, LoopStart, LoopSound, LoopStutters, PTL DEF LoweringSpec
=============================================================================
