------------------------------ MODULE ClauseText ------------------------------
(***************************************************************************)
(* The text of a clause as the checks of matrix.py, software.py,           *)
(* workforce.py and playbook.py read it: a sequence of sentences, each of  *)
(* which says one thing they look for, with the number it states.          *)
(***************************************************************************)
EXTENDS Integers, Sequences, FiniteSets

Sentence(what, n) == [what |-> what, n |-> n]

Says(text, what) == \E i \in DOMAIN text : text[i].what = what

SaysAny(text, whats) == \E what \in whats : Says(text, what)

(* The numbers stated of something, all of them, and the highest.  Zero    *)
(* stands for none where a check starts counting at zero.                  *)
Stated(text, what) == {text[i].n : i \in {j \in DOMAIN text : text[j].what = what}}

Highest(numbers) == CHOOSE n \in numbers : \A other \in numbers : other <= n

Lowest(numbers) == CHOOSE n \in numbers : \A other \in numbers : n <= other

(* mutant: the first number stated is taken for the longest                *)
Longest_First(text, what) ==
    IF Says(text, what) THEN Head(SelectSeq(text, LAMBDA sentence : sentence.what = what)).n ELSE 0

Longest(text, what) == IF Says(text, what) THEN Highest(Stated(text, what)) ELSE 0

(* The first and the last number stated, for the checks that read one.      *)
FirstStated(text, what) == Head(SelectSeq(text, LAMBDA sentence : sentence.what = what)).n

LastStated(text, what) ==
    LET told == SelectSeq(text, LAMBDA sentence : sentence.what = what) IN told[Len(told)].n

(* re.search finds the first place where any of these is said, and no      *)
(* other: a check that then asks whether that place is negated sees no     *)
(* second one.                                                             *)
FirstIs(text, what, others) ==
    \E i \in DOMAIN text :
        /\ text[i].what = what
        /\ \A j \in 1..(i - 1) : text[j].what \notin others \cup {what}

(***************************************************************************)
(* The outcomes of a matrix check, and how serious each is.                *)
(***************************************************************************)
TierRank(tier) ==
    CASE tier = "within" -> 0 [] tier = "fallback" -> 1 [] tier = "review" -> 2
      [] tier = "deviates" -> 3 [] tier = "unacceptable" -> 4

MostSerious(tiers) == CHOOSE tier \in tiers : \A other \in tiers : TierRank(other) <= TierRank(tier)

(* A limit and the fallback beyond it, from above and from below.          *)
AtMost(n, th) == IF n <= th.ok THEN "within" ELSE IF n <= th.fb THEN "fallback" ELSE "deviates"

AtLeast(n, th) == IF n >= th.ok THEN "within" ELSE IF n >= th.fb THEN "fallback" ELSE "deviates"
=============================================================================
