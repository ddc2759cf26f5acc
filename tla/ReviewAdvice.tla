---------------------------- MODULE ReviewAdvice ----------------------------
(***************************************************************************)
(* What Govern says of a contract when it is read: whom it waits on, the   *)
(* one next step it advises, and the actions it offers to the reader       *)
(* (shared/govern/workflow.py), beside the routing rules they depend on.   *)
(* Every handler that writes the contract is one conditional write, so one *)
(* step; an approver's request reads the contract first, to see whether he *)
(* may, and is two.                                                        *)
(***************************************************************************)
EXTENDS Integers, Sequences, ContractStates
LOCAL INSTANCE SequencesExt

CONSTANTS
    AdviceItems,    \* open items that can be raised
    HardItems,      \* those unacceptable without a fallback
    AdviceOffices,  \* offices a contract can be sent to
    OfficeOf,       \* OfficeOf[i]: the one that has to see i, or NoOffice
    NoOffice,
    RoutingRules,   \* the rules, in order: what they cover, what triggers them, the route
    Kinds,          \* what can be found in a document: type, unacceptable terms, risk
    Values,         \* values a person can give
    NoValue,
    ApprovesFor     \* the offices a person who can only view approves for

ASSUME AdviceAssumption ==
    /\ HardItems \subseteq AdviceItems
    /\ NoOffice \notin AdviceOffices
    /\ OfficeOf \in [AdviceItems -> AdviceOffices \cup {NoOffice}]
    /\ Len(RoutingRules) \in Nat
    /\ \A k \in 1 .. Len(RoutingRules) : RoutingRules[k].route \in Seq(AdviceOffices)
    /\ NoValue \notin Values /\ Values \subseteq Nat /\ Values # {}
    /\ ApprovesFor \subseteq AdviceOffices

VARIABLES
    contract,   \* what the contract's item holds of this
    ruled,      \* the feature routing_rules is on
    post        \* the office of an approval checked and not performed yet, or NoOffice

adviceVars == <<contract, ruled, post>>

Arrived(kind) ==
    [state |-> "intake", draft |-> TRUE, status |-> "PROCESSING", owned |-> FALSE, asked |-> FALSE,
     open |-> {}, required |-> <<>>, escalated |-> <<>>, approved |-> {}, value |-> NoValue, kind |-> kind]
-----------------------------------------------------------------------------
(* Routing.                                                                *)

(* What a rule's triggers say of the contract; a rule without triggers     *)
(* covers all it looks at.                                                 *)
Triggers(rule) == {t \in {"minValue", "anyUnacceptable", "minRisk"} : rule[t] # NoValue}

Fires(rule, c) ==
    \/ rule.minValue # NoValue /\ c.value # NoValue /\ c.value >= rule.minValue
    \/ rule.anyUnacceptable # NoValue /\ c.kind.unacceptable
    \/ rule.minRisk # NoValue /\ c.kind.risk >= rule.minRisk

(* evaluate_routing: the routes of the rules that cover the contract, in   *)
(* the order of the rules.                                                 *)
RuleOffices(c) ==
    LET hit(rule) == /\ rule.types = {} \/ c.kind.type \in rule.types
                     /\ Triggers(rule) = {} \/ Fires(rule, c)
        upto[k \in 0 .. Len(RoutingRules)] ==
            IF k = 0 THEN <<>>
            ELSE IF hit(RoutingRules[k]) THEN upto[k - 1] \o RoutingRules[k].route
            ELSE upto[k - 1]
    IN  IF ruled THEN upto[Len(RoutingRules)] ELSE <<>>

(* Each office once, where it is first named.                              *)
Once(offices) ==
    LET upto[n \in 0 .. Len(offices)] ==
            IF n = 0 THEN <<>>
            ELSE IF offices[n] \in ToSet(upto[n - 1]) THEN upto[n - 1]
            ELSE Append(upto[n - 1], offices[n])
    IN  upto[Len(offices)]

(* The offices of a list that are none of done.                            *)
Without(offices, done) ==
    LET upto[n \in 0 .. Len(offices)] ==
            IF n = 0 THEN <<>>
            ELSE IF offices[n] \in done THEN upto[n - 1]
            ELSE Append(upto[n - 1], offices[n])
    IN  upto[Len(offices)]

(* apply_routing, with the rules of the settings.                          *)
Routed(c) == [c EXCEPT !.required = Once(RuleOffices(c) \o c.escalated)]

(* pending_offices, approved_offices.                                      *)
StillPending(c) == Without(c.required, c.approved)
-----------------------------------------------------------------------------
(* Actions (perform_action).                                               *)

PiStates == {"intake", "in_review", "escalated"}

FromStates ==
    LET others == [office_approve |-> AllowedFrom.approve, ask_pi |-> PiStates, pi_answered |-> PiStates,
                   comment |-> States, assign |-> OpenStates \cup {"signed", "active"}]
    IN  [a \in DOMAIN others \cup DOMAIN AllowedFrom |->
            IF a \in DOMAIN others THEN others[a] ELSE AllowedFrom[a]]

Actions == DOMAIN FromStates

(* The states and the PI request an action asks for.                       *)
Accepts(c, a) == /\ c.state \in FromStates[a]
                 /\ a = "ask_pi" => ~c.asked
                 /\ a = "pi_answered" => c.asked

To(c, s) == [c EXCEPT !.state = s, !.draft = FALSE]

(* Mutant: while the rules are off an approval keeps no required office.   *)
AfterApproval_Forgets(c) ==
    LET r == IF ruled THEN c ELSE [c EXCEPT !.required = <<>>]
    IN  To(r, IF StillPending(r) # <<>> THEN "escalated" ELSE "ready_to_sign")

(* _after_approval: while the rules are off, the offices they asked for go.*)
AfterApproval(c) ==
    LET r == IF ruled THEN c ELSE [c EXCEPT !.required = Once(c.escalated)]
    IN  To(r, IF StillPending(r) # <<>> THEN "escalated" ELSE "ready_to_sign")

ClearsRequest == {"approve", "office_approve", "send_back", "escalate", "reject",
                  "send_for_signature", "reopen"}

(* The contract after the action; o is the office it is about.             *)
After(before, a, o) ==
    LET c == [before EXCEPT !.asked = @ /\ a \notin ClearsRequest]
    IN  CASE a = "approve"        -> AfterApproval(c)
          [] a = "office_approve" -> AfterApproval([c EXCEPT !.approved = @ \cup {o}])
          [] a = "send_back"      -> To([c EXCEPT !.approved = {}], "sent_back")
          [] a = "escalate"       -> To(Routed([c EXCEPT !.escalated = Once(@ \o <<o>>), !.approved = @ \ {o}]),
                                        "escalated")
          [] a \in {"reject", "send_for_signature", "mark_signed", "activate", "close", "reopen"} ->
                To(c, CHOOSE s \in StatesAfter[a] : TRUE)
          [] a = "assign"         -> IF c.state = "intake" /\ ~c.draft
                                     THEN To([c EXCEPT !.owned = TRUE], "in_review")
                                     ELSE [c EXCEPT !.owned = TRUE]
          [] a = "ask_pi"         -> [c EXCEPT !.asked = TRUE]
          [] a = "pi_answered"    -> [c EXCEPT !.asked = FALSE]
          [] a = "comment"        -> c

Perform(a, o) == contract' = After(contract, a, o)
-----------------------------------------------------------------------------
(* What is said.                                                           *)

Advice(action, office, items) == [action |-> action, office |-> office, items |-> items]
Advise(action) == Advice(action, NoOffice, {})

(* An office has to see items: it is waited for, or they go to it.         *)
OfficeStep(c, o, items) ==
    Advice(IF o \in ToSet(c.required) /\ c.state = "escalated" THEN "wait" ELSE "escalate", o, items)

(* Its items whose office has not approved; the rows of an item come in    *)
(* the order of the clauses, which is any.                                 *)
Unseen(c, items) == {i \in items : OfficeOf[i] \notin c.approved \cup {NoOffice}}
FirstItem(items) == CHOOSE i \in items : TRUE
SameOffice(i, items) == {j \in items : OfficeOf[j] = OfficeOf[i]}

(* Mutant: what is with the other side is sent back again.                 *)
ItemStep_AlwaysBack(c) ==
    LET hard == c.open \cap HardItems
    IN  IF Unseen(c, hard) # {}
        THEN LET i == FirstItem(Unseen(c, hard)) IN OfficeStep(c, OfficeOf[i], SameOffice(i, hard))
        ELSE IF hard # {} THEN Advice("reject", NoOffice, hard)
        ELSE IF Unseen(c, c.open) # {}
        THEN LET i == FirstItem(Unseen(c, c.open)) IN OfficeStep(c, OfficeOf[i], SameOffice(i, c.open))
        ELSE Advice("send_back", NoOffice, c.open)

(* Steps 4 to 6: the open items.                                           *)
ItemStep(c) ==
    LET hard == c.open \cap HardItems
    IN  CASE Unseen(c, hard) # {} ->
                LET i == FirstItem(Unseen(c, hard)) IN OfficeStep(c, OfficeOf[i], SameOffice(i, hard))
          [] Unseen(c, hard) = {} /\ hard # {} -> Advice("reject", NoOffice, hard)
          [] hard = {} /\ Unseen(c, c.open) # {} ->
                LET i == FirstItem(Unseen(c, c.open)) IN OfficeStep(c, OfficeOf[i], SameOffice(i, c.open))
          [] hard = {} /\ Unseen(c, c.open) = {} ->
                Advice(IF c.state = "sent_back" THEN "wait" ELSE "send_back", NoOffice, c.open)

(* Steps 7 to 9: nothing is open.                                          *)
CleanStep(c) ==
    CASE c.state = "ready_to_sign"     -> Advise("send_for_signature")
      [] c.state = "out_for_signature" -> Advise("wait")
      [] c.state \notin {"ready_to_sign", "out_for_signature"} ->
            IF c.value = NoValue THEN Advise("add_value")
            ELSE Advice("approve", IF c.state = "escalated" /\ StillPending(c) # <<>>
                                 THEN Head(StillPending(c)) ELSE NoOffice, {})

(* next_step: the first rule that matches.                                 *)
NextStep(c) ==
    IF c.state \notin OpenStates THEN Advise("none")
    ELSE IF c.status = "not_agreement" THEN Advise("analyze_anyway")
    ELSE IF c.status = "FAILED" THEN Advise("reanalyze")
    ELSE IF c.status # "READY" THEN Advise("wait")
    ELSE IF ~c.owned THEN Advise("assign")
    ELSE IF c.asked /\ c.state \in PiStates THEN Advise("wait")
    ELSE IF c.open # {} THEN ItemStep(c)
    ELSE CleanStep(c)

Failed == {"FAILED", "not_agreement"}

(* waiting_on.                                                             *)
WaitingOn(c) ==
    LET reviewer == [kind |-> "internal_reviewer", office |-> NoOffice]
        other(kind) == [kind |-> kind, office |-> NoOffice]
    IN  CASE c.asked /\ c.state \in PiStates -> other("pi_department")
          [] ~c.asked /\ c.state \in {"intake", "in_review"} ->
                IF c.state = "intake" /\ c.draft THEN other("nobody") ELSE reviewer
          [] ~c.asked /\ c.state = "escalated" ->
                IF StillPending(c) = <<>> THEN reviewer
                ELSE [kind |-> "internal_office", office |-> Head(StillPending(c))]
          [] c.state = "sent_back" -> other("counterparty")
          [] c.state \in {"ready_to_sign", "out_for_signature"} -> other("signatory")
          [] c.state \notin OpenStates -> other("nobody")

(* allowed_actions: an editor's, and those of one who only views.          *)
Offered(c, edits) ==
    IF edits THEN {a \in Actions : Accepts(c, a)}
    ELSE {a \in {"comment", "office_approve"} :
             /\ Accepts(c, a)
             /\ a = "office_approve" => ToSet(StillPending(c)) \cap ApprovesFor # {}}
-----------------------------------------------------------------------------
AdviceInit == contract \in {Arrived(k) : k \in Kinds} /\ ruled \in BOOLEAN /\ post = NoOffice

(* An editor posts an action.                                              *)
EditorActs(a, o) ==
    /\ a \in Offered(contract, TRUE)
    /\ a \notin {"office_approve", "escalate"} => o = NoOffice
    /\ a \in {"office_approve", "escalate"} => o \in AdviceOffices
    /\ Perform(a, o)
    /\ UNCHANGED <<ruled, post>>

(* An approver who can only view posts an approval (_post_action): it is   *)
(* checked against the contract as read,                                   *)
ApproverAsks(o) ==
    /\ post = NoOffice
    /\ "office_approve" \in Offered(contract, FALSE)
    /\ o \in ToSet(StillPending(contract)) \cap ApprovesFor
    /\ post' = o
    /\ UNCHANGED <<contract, ruled>>

(* and performed on the contract as it is then, from any state an approval *)
(* may start from.                                                         *)
ApproverActs ==
    /\ post # NoOffice
    /\ IF Accepts(contract, "office_approve") THEN Perform("office_approve", post) ELSE UNCHANGED contract
    /\ post' = NoOffice
    /\ UNCHANGED ruled

(* update_fields: the routing is evaluated again whatever the state.       *)
GiveValue(v) ==
    /\ contract.value # v
    /\ contract' = Routed([contract EXCEPT !.value = v])
    /\ UNCHANGED <<ruled, post>>

(* An item is added, reopened or closed by hand.                           *)
EditItem(i) ==
    /\ contract' = [contract EXCEPT !.open = IF i \in @ THEN @ \ {i} ELSE @ \cup {i}]
    /\ UNCHANGED <<ruled, post>>

(* The document is analysed, or analysed again.                            *)
Analysed(status) ==
    /\ (status = "PROCESSING") # (contract.status = "PROCESSING")
    /\ contract' = [contract EXCEPT !.status = status]
    /\ UNCHANGED <<ruled, post>>

(* Its clauses are graded (rescore): items are raised, and a reviewer may  *)
(* be assigned by a rule.  New terms need fresh approval, and a settled    *)
(* contract stays where it is.                                             *)
Regrade(revised, items, kind, owned) ==
    LET c == Routed([contract EXCEPT !.open = items, !.kind = kind, !.owned = owned,
                                     !.approved = IF revised THEN {} ELSE @])
        review == IF owned THEN "in_review" ELSE "intake"
    IN  /\ contract.status = "READY"
        /\ contract.owned => owned
        /\ revised => owned = contract.owned
        /\ contract' = IF \/ revised /\ c.state \notin {"signed", "active", "closed"}
                          \/ ~revised /\ c.state = "intake"
                       THEN To(c, review) ELSE c
        /\ UNCHANGED <<ruled, post>>

(* The envelope was declined, voided or expired.                           *)
CancelSigning ==
    /\ contract.state = "out_for_signature"
    /\ contract' = To(contract, "ready_to_sign")
    /\ UNCHANGED <<ruled, post>>

(* The feature routing_rules is switched.                                  *)
SwitchRules == ruled' = ~ruled /\ UNCHANGED <<contract, post>>

AdviceNext ==
    \/ \E a \in Actions, o \in AdviceOffices \cup {NoOffice} : EditorActs(a, o)
    \/ \E o \in AdviceOffices : ApproverAsks(o)
    \/ ApproverActs
    \/ \E v \in Values : GiveValue(v)
    \/ \E i \in AdviceItems : EditItem(i)
    \/ \E status \in Failed \cup {"PROCESSING", "READY"} : Analysed(status)
    \/ \E revised, owned \in BOOLEAN, items \in SUBSET AdviceItems, kind \in Kinds :
          Regrade(revised, items, kind, owned)
    \/ CancelSigning \/ SwitchRules
-----------------------------------------------------------------------------
(* What the reader is advised to do can be done: an editor is offered it.  *)
(* The one exception is an item raised while the contract is out for       *)
(* signature, which cannot be escalated or sent back from there.           *)
AdviceAccepted ==
    LET advised == NextStep(contract).action
    IN  advised \in Actions =>
            \/ advised \in Offered(contract, TRUE)
            \/ /\ contract.state = "out_for_signature" /\ contract.open # {}
               /\ advised \in {"escalate", "send_back"}

(* The contract when the advice has been followed: the office that should  *)
(* approve does.                                                           *)
Followed(c, s) ==
    CASE s.action = "approve" /\ s.office # NoOffice    -> After(c, "office_approve", s.office)
      [] s.action \in {"reanalyze", "analyze_anyway"}   -> [c EXCEPT !.status = "PROCESSING"]
      [] s.action = "add_value"                         -> Routed([c EXCEPT !.value = CHOOSE v \in Values : TRUE])
      [] s.action \in Actions /\ s.office = NoOffice    -> After(c, s.action, NoOffice)
      [] s.action = "escalate"                          -> After(c, "escalate", s.office)

(* Nobody is advised to do again what he has just done: with the advice    *)
(* followed, the next one is another.                                      *)
AdviceMoves ==
    LET s == NextStep(contract)
    IN  s.action \notin {"none", "wait"} => NextStep(Followed(contract, s)) # s

(* When the advice is to wait, the contract is said to wait for somebody   *)
(* else than its reviewer; and an office it waits for is offered the       *)
(* approval, though it can only view.                                      *)
WaitsAgree ==
    LET on == WaitingOn(contract)
    IN  /\ contract.status = "READY" /\ NextStep(contract).action = "wait" =>
              on.kind \in {"pi_department", "internal_office", "counterparty", "signatory"}
        /\ on.office \in ApprovesFor => "office_approve" \in Offered(contract, FALSE)
        /\ on.kind = "internal_office" => on.office \notin contract.approved

(* A contract is advised to be signed when every office that a person      *)
(* escalated it to has approved, and whatever the rules did meanwhile.     *)
EscalationsApproved ==
    NextStep(contract).action = "send_for_signature" => ToSet(contract.escalated) \subseteq contract.approved

AdviceHolds == AdviceAccepted /\ AdviceMoves /\ WaitsAgree /\ EscalationsApproved
=============================================================================
