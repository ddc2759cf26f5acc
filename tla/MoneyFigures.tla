----------------------------- MODULE MoneyFigures -----------------------------
(***************************************************************************)
(* The money of a document (pipeline/stages/classify.py _validate,         *)
(* _check_money, _reconcile): figures two models gave, line items with the *)
(* amount each one's quote states, and the arithmetic that ties them.      *)
(***************************************************************************)
EXTENDS Integers, Sequences

LOCAL INSTANCE SequencesExt
LOCAL INSTANCE FiniteSetsExt

CONSTANTS
    Figures,        \* what the models may give: [base, total, newTotal, delta, source,
                    \* amends, wording]; source: what the extraction's quote of the total
                    \* states, or NoQuote
    LineItems,      \* [amount, quoted]: the amount its source quote states, or NoFigure
    NoFigure,
    NoQuote,
    SCALE,          \* a multiplier a model may drop, as in "1.2 million" read as 1.2
    MaxItems        \* bound: line items

(* A figure is a number or is not given.                                   *)
Figure == Int \cup {NoFigure}

ASSUME FiguresAssumption ==
    /\ Figures \subseteq [base : Figure, total : Figure, newTotal : Figure, delta : Figure,
                         source : Figure \cup {NoQuote}, amends : BOOLEAN,
                         wording : {"none", "reduction", "increase"}]
    /\ LineItems \subseteq [amount : Int, quoted : Figure]
    /\ SCALE \in Int /\ NoFigure \notin Int /\ NoQuote \notin Figure

VARIABLES
    figures,        \* after the validator's have replaced the extraction's
    own,            \* those the validator gave; the others are the extraction's
    lines           \* the validator's line items so far

moneyVars == <<figures, own, lines>>

Compares == {"base", "total", "newTotal", "delta"}

MoneyInit ==
    /\ figures \in Figures /\ own \in SUBSET {f \in Compares : figures[f] # NoFigure}
    /\ lines = <<>>

AddLine ==
    /\ Len(lines) < MaxItems
    /\ \E line \in LineItems : lines' = Append(lines, line)
    /\ UNCHANGED <<figures, own>>

MoneyNext == AddLine

(***************************************************************************)
(* The checks                                                              *)
(***************************************************************************)

Size(n) == IF n < 0 THEN -n ELSE n
Near(a, b) == Size(a - b) <= 1

Total(amounts) ==
    LET upTo[n \in 0 .. Len(amounts)] == IF n = 0 THEN 0 ELSE upTo[n - 1] + amounts[n]
    IN  upTo[Len(amounts)]

(* The total itself, listed among its parts, is counted once.              *)
WithoutStated(amounts, stated) ==
    LET same == {i \in DOMAIN amounts : Near(amounts[i], stated)}
    IN  IF same = {} THEN amounts ELSE RemoveAt(amounts, Min(same))

Unknown == [computed |-> FALSE, reconciled |-> FALSE]
Compared(sum, stated) == [computed |-> TRUE, reconciled |-> Near(sum, stated)]

StatedTotal(f) == IF f.newTotal # NoFigure THEN f.newTotal ELSE f.total

(* Two parts or more add up to the stated total, or else the base and the  *)
(* change do.                                                              *)
Reconcile(f, amounts) ==
    LET stated == StatedTotal(f)
        parts == IF stated = NoFigure THEN amounts ELSE WithoutStated(amounts, stated)
    IN  IF stated = NoFigure THEN Unknown
        ELSE IF Len(parts) >= 2 THEN Compared(Total(parts), stated)
        ELSE IF f.base # NoFigure /\ f.delta # NoFigure THEN Compared(f.base + f.delta, stated)
        ELSE Unknown

Amounts(items) == [i \in DOMAIN items |-> items[i].amount]

(* An amount its quote does not state, but states times the multiplier.    *)
ScaleDropped(amount, quoted) ==
    /\ amount # NoFigure /\ quoted # NoFigure
    /\ ~Near(Size(quoted), Size(amount)) /\ Size(quoted) = SCALE * Size(amount)

(* mutant: figures are trusted as they were read                           *)
FixScale_Never(amount, quoted) == amount

FixScale(amount, quoted) == IF ScaleDropped(amount, quoted) THEN quoted ELSE amount

FixedLines == [i \in DOMAIN lines |-> [lines[i] EXCEPT !.amount = FixScale(@, lines[i].quoted)]]

(* What the validator itself gave.                                         *)
Given(f) == IF f \in own THEN figures[f] ELSE NoFigure

OwnFigures == [base |-> Given("base"), total |-> Given("total"), newTotal |-> Given("newTotal"), delta |-> Given("delta")]

(* The quote of a line item that states the total, or else of the largest. *)
SourceForTotal(total) ==
    LET stating == {i \in DOMAIN lines : total # NoFigure /\ lines[i].amount = total}
        largest == {i \in DOMAIN lines : \A j \in DOMAIN lines : lines[j].amount <= lines[i].amount}
    IN  IF lines = <<>> THEN NoFigure
        ELSE lines[Min(IF stating # {} THEN stating ELSE largest)].quoted

(* The extraction's quote goes before one for the validator's total.       *)
SourceOfTotal == IF figures.source # NoQuote THEN figures.source ELSE SourceForTotal(Given("total"))

FixedTotal == FixScale(figures.total, SourceOfTotal)

SignOf(n) == IF n < 0 THEN -1 ELSE 1

(* What the arithmetic says of the change, or else its wording: 0 for      *)
(* nothing.                                                                *)
Direction ==
    IF /\ figures.base # NoFigure /\ figures.newTotal # NoFigure /\ figures.base # figures.newTotal
       /\ Near(Size(figures.newTotal - figures.base), Size(figures.delta))
    THEN SignOf(figures.newTotal - figures.base)
    ELSE CASE figures.wording = "reduction" -> -1
           [] figures.wording = "increase" -> 1
           [] OTHER -> 0

(* mutant: the change keeps the sign the models gave it                    *)
SignedDelta_AsGiven == figures.delta

(* The change, signed as the document has it; one nobody stated is the     *)
(* difference.                                                             *)
SignedDelta ==
    LET delta == figures.delta
    IN  IF delta = NoFigure
        THEN IF figures.amends /\ figures.base # NoFigure /\ figures.newTotal # NoFigure
             THEN figures.newTotal - figures.base ELSE NoFigure
        ELSE IF delta # 0 /\ Direction # 0 /\ SignOf(delta) # Direction THEN -delta
        ELSE delta

(* What is stored: the figures after the checks, and whether they add up.  *)
Stored == [figures EXCEPT !.total = FixedTotal, !.delta = SignedDelta]

(* The validator's figures alone, with the amounts as they were read; what *)
(* cannot be computed is answered by the model, which is not modelled.     *)
FirstVerdict == Reconcile(OwnFigures, Amounts(lines))

(* Checked again with all the figures as corrected, where that can be      *)
(* computed.                                                               *)
Verdict ==
    LET again == Reconcile(Stored, Amounts(FixedLines)) IN IF again.computed THEN again ELSE FirstVerdict

(***************************************************************************)
(* Properties                                                              *)
(***************************************************************************)

Rechecked == Reconcile(Stored, Amounts(FixedLines)).computed

(* Some of the amounts, but for one at most, which is the total itself.    *)
Sums(amounts, stated) ==
    {Total(amounts)} \cup {Total(RemoveAt(amounts, i)) : i \in {j \in DOMAIN amounts : Near(amounts[j], stated)}}

(* Figures said to add up do: as they are stored, in parts or as a change. *)
AddsUpAsStored ==
    Rechecked /\ Verdict.reconciled =>
        \/ \E sum \in Sums(Amounts(FixedLines), StatedTotal(Stored)) : Near(sum, StatedTotal(Stored))
        \/ Near(Stored.base + Stored.delta, StatedTotal(Stored))

(* A reduction is not reported as not adding up for want of its sign       *)
(* (comment in _check_money).                                              *)
ReductionAddsUp ==
    /\ figures.base # NoFigure /\ figures.newTotal # NoFigure /\ figures.delta # NoFigure
    /\ figures.base # figures.newTotal /\ Near(Size(figures.newTotal - figures.base), Size(figures.delta))
    /\ Len(lines) < 2
    => Verdict.reconciled

(* An amount read without its multiplier does not make the parts miss the  *)
(* total: the answer is the one its quote gives.                           *)
ReadInFull ==
    [i \in DOMAIN lines |-> IF ScaleDropped(lines[i].amount, lines[i].quoted) THEN lines[i].quoted
                            ELSE lines[i].amount]

MultiplierForgiven == Rechecked => Verdict = Reconcile(Stored, ReadInFull)

(* The first answer, about the validator's own figures, is left standing   *)
(* only when these have another total than the stored ones (so it is about *)
(* a total that is not stored), or when a correction found the total       *)
(* itself among the parts.                                                 *)
StaleOnlyOfTotals ==
    FirstVerdict.computed /\ ~Rechecked =>
        \/ StatedTotal(OwnFigures) # StatedTotal(Stored)
        \/ \E i \in DOMAIN lines : /\ FixedLines[i].amount # lines[i].amount
                                   /\ Near(FixedLines[i].amount, StatedTotal(Stored))

(* The total listed as one more line item changes nothing (comment in      *)
(* _reconcile).                                                            *)
TotalCountedOnce ==
    LET amounts == Amounts(FixedLines)
    IN  StatedTotal(Stored) # NoFigure /\ (\A i \in DOMAIN amounts : ~Near(amounts[i], StatedTotal(Stored)))
            => Reconcile(Stored, Append(amounts, StatedTotal(Stored))) = Reconcile(Stored, amounts)

(* The order of the line items is nothing, but where amounts that differ   *)
(* could each be the total.                                                *)
OrderOfLines ==
    LET amounts == Amounts(FixedLines)
        totals == {i \in DOMAIN amounts : Near(amounts[i], StatedTotal(Stored))}
    IN  Rechecked /\ (\A i, j \in totals : amounts[i] = amounts[j])
            => Reconcile(Stored, Reverse(amounts)).reconciled = Verdict.reconciled

(* The stored figures are those the answer is about (classify._reconcile). *)
FiguresHold == AddsUpAsStored /\ ReductionAddsUp /\ MultiplierForgiven /\ StaleOnlyOfTotals
               /\ TotalCountedOnce /\ OrderOfLines
=============================================================================
