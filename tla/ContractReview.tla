--------------------------- MODULE ContractReview ---------------------------
(***************************************************************************)
(* The review of one contract (lambdas/shared/govern/workflow.py): its     *)
(* state and stage, approvals and routed offices, the open items           *)
(* ("blockers"), and the versions of its document that govern-intake       *)
(* grades as they arrive (govern_intake/handler.py, revisions.py).         *)
(*                                                                         *)
(* The contract item is read, changed by a closure and written on the      *)
(* condition that rev has not moved (store.mutate).  A closure that reads  *)
(* nothing else is one step here.  Open items are items of their own,      *)
(* written without a lock, and openBlockerRefs on the contract is a copy   *)
(* of them: whoever changes them takes several steps, interleaved with     *)
(* those of others.                                                        *)
(***************************************************************************)
EXTENDS Naturals, ContractStates

CONSTANTS
    Original,       \* the document the contract was made for (its contractId)
    Revisions,      \* later versions, uploaded by either party
    Flawed,         \* documents whose terms or value make a routing rule fire
    RuleOffices,    \* the offices that rule asks for ({}: routing_rules is off)
    Offices,        \* the offices a person can escalate to, RuleOffices included
    Raised,         \* Raised[d]: the items Sonar raises on document d
    SonarItems,     \* the items Sonar can raise
    Notes,          \* the items reviewers can add
    Intakes,        \* concurrent govern-intake runs
    Callers,        \* concurrent govern-api requests
    Ops,            \* what people and the sweeper do: names of OpNames
    Faults,         \* which of FaultKinds may happen
    MaxFaults,      \* bound: how many of them do
    MaxAnalyses,    \* bound: how often each document is analysed
    None            \* nothing

Docs  == Revisions \cup {Original}
Items == SonarItems \cup Notes
Procs == Intakes \cup Callers

OpNames == DOMAIN AllowedFrom \cup
    {"post",            \* POST /contracts right after the upload
     "assign", "office_approve", "ask_pi", "pi_answered",
     "cancel_esign",    \* a Govern envelope ends without a signature
     "patch",           \* a person sets the value or the term end
     "rescore", "item", "term"}

FaultKinds == {"crash",       \* an invocation stops (timeout, exception, exit)
               "duplicate",   \* SQS delivers a message it has delivered
               "lost"}        \* an event is not published, or its message is dead-lettered

ASSUME DocsAssumption   == /\ Original \notin Revisions
                           /\ Flawed \subseteq Docs
                           /\ None \notin Docs
ASSUME OfficeAssumption == RuleOffices \subseteq Offices /\ "reviewer" \notin Offices
ASSUME ItemsAssumption  == /\ SonarItems \cap Notes = {}
                           /\ None \notin Items
                           /\ Raised \in [Docs -> SUBSET SonarItems]
ASSUME ProcsAssumption  == Intakes \cap Callers = {}
ASSUME KindsAssumption  == Ops \subseteq OpNames /\ Faults \subseteq FaultKinds
ASSUME LimitsAssumption == MaxFaults \in Nat /\ MaxAnalyses \in Nat \ {0}

VARIABLES
    (* the contract item *)
    state,      \* "absent" before it is created
    stage,
    owned,      \* it has an owner
    asked,      \* piRequest is there
    current,    \* currentDocId
    reviewed,   \* reviewedDocId and reviewedDocVersion (None: matrix is None)
    approvals,  \* approvals[a]: the document current when a approved, or None
    escalated,  \* routing.escalated
    required,   \* routing.required
    valued,     \* a person entered a value that makes the routing rule fire
    term,       \* how far the term end is
    refs,       \* openBlockerRefs
    (* beside it *)
    items,      \* items[i]: the blocker item i
    version,    \* version[d]: latestVersion of document d (0: still being read)
    linked,     \* documents in versionDocIds: the contract accounts for them
    queue,      \* documents with a message in the intake queue
    (* invocations *)
    pc,         \* pc[p]: the next step of invocation p
    ctx,        \* ctx[p]: what p has read and goes by
    faults,     \* faults so far
    (* history *)
    graded,     \* documents whose grades have been stored
    torn        \* an item was written behind the back of a rescore, or a run crashed

moveVars   == <<state, stage>>
routeVars  == <<approvals, escalated, required, valued>>
personVars == <<owned, asked>>
docVars    == <<current, reviewed, graded>>
itemVars   == <<refs, items, torn>>
inVars     == <<version, linked, queue>>
procVars   == <<pc, ctx>>
vars == <<moveVars, routeVars, personVars, docVars, term, itemVars, inVars,
          procVars, faults>>

Approvers == Offices \cup {"reviewer"}
Stages    == {"draft", "review", "negotiation", "approval", "signed", "active",
              "renewal", "expired"}
Terms     == {"none", "far", "soon", "past"}
Status    == {"absent", "open", "closed"}
Reasons   == {"intake", "reanalysed", "revision", "manual"}
Labels    == {"idle", "create", "scan", "write", "commit", "put", "refresh", "save"}

Versions == [doc : Docs, ver : Nat]

Contexts == [doc   : Docs \cup {None},       \* the document to grade
             ver   : Nat,                    \* its version
             why   : Reasons,
             seen  : [Items -> Status],      \* the items read before replacing them
             todo  : SUBSET SonarItems,      \* items still to replace
             item  : Items \cup {None},      \* the item edited
             to    : Status,                 \* the status it gets
             found : SUBSET Items]           \* open items read in the closure

NoItems   == [i \in Items |-> "absent"]
Context(d, v, why, i, to) ==
    [doc |-> d, ver |-> v, why |-> why, seen |-> NoItems, todo |-> {},
     item |-> i, to |-> to, found |-> {}]

NoContext          == Context(None, 0, "manual", None, "absent")
Grading(d, v, why) == Context(d, v, why, None, "absent")
Editing(i, to)     == Context(None, 0, "manual", i, to)
-----------------------------------------------------------------------------
(* Helpers.                                                                *)

StageOf == [intake |-> "review", in_review |-> "review", escalated |-> "review",
            sent_back |-> "negotiation", ready_to_sign |-> "approval",
            out_for_signature |-> "approval", signed |-> "signed",
            active |-> "active", closed |-> "expired"]

(* stage_for: a rejected contract keeps the stage it was rejected in.      *)
StageFor(s) == IF s = "rejected" THEN stage ELSE StageOf[s]

(* _enter_state.                                                           *)
Enter(s) == state' = s /\ stage' = StageFor(s)

(* Mutant: an approval leaves the request open.                            *)
ClearsPiRequest_NotApprove == {"office_approve", "send_back", "escalate",
                               "reject", "send_for_signature", "reopen"}

(* The actions after which the PI's answer is no longer waited for.        *)
ClearsPiRequest == {"approve", "office_approve", "send_back", "escalate",
                    "reject", "send_for_signature", "reopen"}

(* evaluate_routing with the grades of document d, apply_routing.          *)
RuleFor(d, value) == IF value \/ d \in Flawed THEN RuleOffices ELSE {}
Routing(r, value, by_hand) ==
    RuleFor(IF r = None THEN None ELSE r.doc, value) \cup by_hand

(* Mutant: only the rules ask for offices.                                 *)
Pending_Rules(given) == {o \in required \ escalated : given[o] = None}

(* pending_offices: the offices asked for that have not approved.          *)
Pending(given) == {o \in required : given[o] = None}

NoApprovals == [a \in Approvers |-> None]

(* Mutant: a revised version reopens a signed contract.                    *)
Settled_Closed == {"closed"}

(* Mutant: it does not touch a contract that is being signed.              *)
Settled_Signing == {"ready_to_sign", "out_for_signature", "signed", "active", "closed"}

(* The states a revised version leaves as they are.                        *)
Settled == {"signed", "active", "closed"}

OpenOf(its) == {i \in Items : its[i] = "open"}

(* Mutant: only what Sonar raises now is counted.                          *)
GradedRefs_SonarOnly(c) == {i \in Raised[c.doc] : c.seen[i] # "closed"}

(* _replace_sonar_blockers: the open ones of the list it returns, the      *)
(* reviewers' items as they were read and Sonar's as they are written.     *)
GradedRefs(c) == {i \in Notes : c.seen[i] = "open"}
                     \cup {i \in Raised[c.doc] : c.seen[i] # "closed"}

Goto(p, label) == pc' = [pc EXCEPT ![p] = label]

Begin(p, label, context) == /\ pc[p] = "idle"
                            /\ Goto(p, label)
                            /\ ctx' = [ctx EXCEPT ![p] = context]

(* The contract is written: another run that is about to write its copy    *)
(* loses the race and runs its closure again.                              *)
LostRace(q) == IF pc[q] = "save" THEN "refresh" ELSE pc[q]

Written == /\ pc' = [q \in Procs |-> LostRace(q)]
           /\ UNCHANGED ctx

WrittenBy(p) == /\ pc' = [[q \in Procs |-> LostRace(q)] EXCEPT ![p] = "idle"]
                /\ ctx' = [ctx EXCEPT ![p] = NoContext]

Grade(p) == pc[p] \in {"write", "commit"}

(* An item is written by p while another run is replacing items by a list  *)
(* it has read before.                                                     *)
Tear(p) == torn' = (torn \/ \E q \in Procs \ {p} : Grade(q))

Fault(kind) == /\ kind \in Faults
               /\ faults < MaxFaults
               /\ faults' = faults + 1
-----------------------------------------------------------------------------
Init ==
    /\ state = "absent" /\ stage = "draft"
    /\ owned = FALSE /\ asked = FALSE
    /\ current = Original /\ reviewed = None
    /\ approvals = NoApprovals
    /\ escalated = {} /\ required = {} /\ valued = FALSE
    /\ term = "none"
    /\ refs = {} /\ items = NoItems
    /\ version = [d \in Docs |-> 0]
    /\ linked = {} /\ queue = {}
    /\ pc = [p \in Procs |-> "idle"]
    /\ ctx = [p \in Procs |-> NoContext]
    /\ faults = 0 /\ graded = {} /\ torn = FALSE
-----------------------------------------------------------------------------
(* What reviewers do (perform_action, POST /contracts/{id}/actions).       *)

May(op) == op \in Ops /\ state \in AllowedFrom[op]

Answered(op) == asked' = (asked /\ op \notin ClearsPiRequest)

(* _after_approval: on to the offices still to approve, else ready to sign.*)
Approval(a, op) ==
    /\ op \in Ops
    /\ state \in AllowedFrom.approve
    /\ LET given == [approvals EXCEPT ![a] = current]
       IN /\ approvals' = given
          /\ Enter(IF Pending(given) # {} THEN "escalated" ELSE "ready_to_sign")
    /\ Answered(op)
    /\ Written
    /\ UNCHANGED <<escalated, required, valued, owned, docVars, term, itemVars,
                   inVars, faults>>

Approve == Approval("reviewer", "approve")
OfficeApprove(o) == Approval(o, "office_approve")

SendBack ==
    /\ May("send_back")
    /\ approvals' = NoApprovals
    /\ Enter("sent_back")
    /\ Answered("send_back")
    /\ Written
    /\ UNCHANGED <<escalated, required, valued, owned, docVars, term, itemVars,
                   inVars, faults>>

Escalate(o) ==
    /\ May("escalate")
    /\ escalated' = escalated \cup {o}
    /\ approvals' = [approvals EXCEPT ![o] = None]
    /\ required' = Routing(reviewed, valued, escalated')
    /\ Enter("escalated")
    /\ Answered("escalate")
    /\ Written
    /\ UNCHANGED <<valued, owned, docVars, term, itemVars, inVars, faults>>

(* The actions that only move it.  mark_signed also copies the open items  *)
(* again.                                                                  *)
Move(op, s) ==
    /\ May(op)
    /\ Enter(s)
    /\ Answered(op)
    /\ refs' = IF op = "mark_signed" THEN OpenOf(items) ELSE refs
    /\ Written
    /\ UNCHANGED <<routeVars, owned, docVars, term, items, torn, inVars, faults>>

Reject           == Move("reject", "rejected")
SendForSignature == Move("send_for_signature", "out_for_signature")
MarkSigned       == Move("mark_signed", "signed")
Activate         == Move("activate", "active")
Close            == Move("close", "closed")
Reopen           == Move("reopen", "in_review")

(* cancel_esign: the envelope was declined, voided or expired.             *)
CancelEsign ==
    /\ "cancel_esign" \in Ops
    /\ state = "out_for_signature"
    /\ Enter("ready_to_sign")
    /\ Written
    /\ UNCHANGED <<routeVars, personVars, docVars, term, itemVars, inVars, faults>>

Assign ==
    /\ "assign" \in Ops
    /\ state \in OpenStates \cup {"signed", "active"}
    /\ owned' = TRUE
    /\ IF state = "intake" /\ stage # "draft" THEN Enter("in_review")
                                             ELSE UNCHANGED moveVars
    /\ Written
    /\ UNCHANGED <<routeVars, asked, docVars, term, itemVars, inVars, faults>>

(* The states in which the PI or the department can be asked, and answer.  *)
PiFrom == {"intake", "in_review", "escalated"}

PiRequest(op) ==
    /\ op \in Ops
    /\ state \in PiFrom
    /\ asked = (op = "pi_answered")
    /\ asked' = ~asked
    /\ Written
    /\ UNCHANGED <<moveVars, routeVars, owned, docVars, term, itemVars, inVars, faults>>

AskPi      == PiRequest("ask_pi")
PiAnswered == PiRequest("pi_answered")

(* update_fields: the value or the term end; the routing is evaluated      *)
(* again whatever state the contract is in.                                *)
Patch(value, end) ==
    /\ \/ "patch" \in Ops /\ value # valued /\ end = term
       \/ "term" \in Ops /\ end # term /\ value = valued
    /\ state # "absent"
    /\ valued' = value /\ term' = end
    /\ required' = Routing(reviewed, value, escalated)
    /\ Written
    /\ UNCHANGED <<moveVars, approvals, escalated, personVars, docVars, itemVars,
                   inVars, faults>>

(* Time, and the sweeper's advance_term.                                   *)
TermNears ==
    /\ "term" \in Ops
    /\ term \in {"far", "soon"}
    /\ term' = IF term = "far" THEN "soon" ELSE "past"
    /\ UNCHANGED <<moveVars, routeVars, personVars, docVars, itemVars, inVars,
                   procVars, faults>>

AdvanceTerm ==
    /\ "term" \in Ops
    /\ state \in {"signed", "active"}
    /\ \/ term = "past" /\ Enter("closed")
       \/ term = "soon" /\ stage # "renewal" /\ stage' = "renewal" /\ UNCHANGED state
    /\ Written
    /\ UNCHANGED <<routeVars, personVars, docVars, term, itemVars, inVars, faults>>
-----------------------------------------------------------------------------
(* Documents (the pipeline, revisions.py) and the intake queue.            *)

(* A document is analysed, or analysed again, and the event is queued.     *)
Analyse(d) ==
    /\ d \in linked \cup {Original}
    /\ version[d] < MaxAnalyses
    /\ version' = [version EXCEPT ![d] = @ + 1]
    /\ queue' = queue \cup {d}
    /\ UNCHANGED <<moveVars, routeVars, personVars, docVars, term, itemVars, linked,
                   procVars, faults>>

(* presign_revision: the contract accounts for the document from now on.   *)
Upload(d) ==
    /\ d \in Revisions \ linked
    /\ state \notin TerminalStates \cup {"absent"}
    /\ linked' = linked \cup {d}
    /\ Written
    /\ UNCHANGED <<moveVars, routeVars, personVars, docVars, term, itemVars, version,
                   queue, faults>>

Requeue(d) ==
    /\ queue' = queue \cup {d}
    /\ UNCHANGED <<moveVars, routeVars, personVars, docVars, term, itemVars, version,
                   linked, procVars>>

(* requeue_candidates: documents no contract accounts for (hourly).        *)
Reconcile(d) == /\ version[d] > 0
                /\ d \notin linked \cup queue
                /\ Requeue(d)
                /\ UNCHANGED faults

Redeliver(d) == /\ version[d] > 0
                /\ d \notin queue
                /\ Fault("duplicate")
                /\ Requeue(d)

Lose(d) ==
    /\ d \in queue
    /\ Fault("lost")
    /\ queue' = queue \ {d}
    /\ UNCHANGED <<moveVars, routeVars, personVars, docVars, term, itemVars, version,
                   linked, procVars>>
-----------------------------------------------------------------------------
(* govern-intake and rescore.                                              *)

(* create_from_document; whether an assignment rule finds an owner is left *)
(* open.                                                                   *)
Create(ready) ==
    /\ owned' \in BOOLEAN
    /\ state' = IF owned' /\ ready THEN "in_review" ELSE "intake"
    /\ stage' = IF ready THEN "review" ELSE "draft"
    /\ required' = Routing(None, valued, escalated)
    /\ linked' = {Original}

Post ==
    /\ "post" \in Ops
    /\ state = "absent"
    /\ Create(version[Original] > 0)
    /\ Written
    /\ UNCHANGED <<approvals, escalated, valued, asked, docVars, term, itemVars,
                   version, queue, faults>>

(* Mutant: whatever has been reviewed once is left alone.                  *)
AlreadyReviewed_Any(d) == reviewed # None

(* handle_event: the version reviewed last is this one.                    *)
AlreadyReviewed(d) == reviewed = [doc |-> d, ver |-> version[d]]

(* Mutant: an event of the first document is taken for a new version.      *)
ReasonFor_Revision(d) == "revision"

(* handle_event: a new version, the first reading, or one read again.      *)
ReasonFor(d) == IF d \in Revisions THEN "revision"
                ELSE IF reviewed = None THEN "intake" ELSE "reanalysed"

Receive(p, d) ==
    /\ pc[p] = "idle"
    /\ d \in queue
    /\ queue' = queue \ {d}
    /\ IF AlreadyReviewed(d)
       THEN UNCHANGED procVars
       ELSE Begin(p, IF state = "absent" THEN "create" ELSE "scan",
                  Grading(d, version[d], ReasonFor(d)))
    /\ UNCHANGED <<moveVars, routeVars, personVars, docVars, term, itemVars, version,
                   linked, faults>>

CreateContract(p) ==
    /\ pc[p] = "create"
    /\ Goto(p, "scan")
    /\ IF state = "absent" THEN Create(TRUE)
                           ELSE UNCHANGED <<moveVars, owned, required, linked>>
    /\ UNCHANGED <<approvals, escalated, valued, asked, docVars, term, itemVars,
                   version, queue, ctx, faults>>

(* POST /contracts/{id}/rescore: the document that is current now.         *)
Rescore(p) ==
    /\ "rescore" \in Ops
    /\ state # "absent"
    /\ version[current] > 0
    /\ Begin(p, "scan", Grading(current, version[current], "manual"))
    /\ UNCHANGED <<moveVars, routeVars, personVars, docVars, term, itemVars, inVars,
                   faults>>

(* _replace_sonar_blockers: the items are read,                            *)
Scan(p) ==
    /\ pc[p] = "scan"
    /\ LET old == {i \in SonarItems : items[i] # "absent"}
           new == Raised[ctx[p].doc]
       IN /\ ctx' = [ctx EXCEPT ![p].seen = items, ![p].todo = old \cup new]
          /\ Goto(p, IF old \cup new = {} THEN "commit" ELSE "write")
    /\ UNCHANGED <<moveVars, routeVars, personVars, docVars, term, itemVars, inVars,
                   faults>>

(* Mutant: an item raised again is open.                                   *)
Kept_Not(old) == "open"

(* The status an item that is raised is written with.                      *)
Kept(old) == IF old = "closed" THEN "closed" ELSE "open"

(* then those no longer raised are deleted and the others written, as they *)
(* were read if they were there.                                           *)
WriteItem(p, i) ==
    LET raised == Raised[ctx[p].doc] IN
    /\ pc[p] = "write"
    /\ i \in ctx[p].todo
    /\ i \in raised => ctx[p].todo \subseteq raised
    /\ items' = [items EXCEPT ![i] = IF i \notin raised THEN "absent"
                                     ELSE Kept(ctx[p].seen[i])]
    /\ ctx' = [ctx EXCEPT ![p].todo = @ \ {i}]
    /\ Goto(p, IF ctx[p].todo = {i} THEN "commit" ELSE "write")
    /\ Tear(p)
    /\ UNCHANGED <<moveVars, routeVars, personVars, docVars, term, refs, inVars, faults>>

(* Mutant: a revised version keeps the approvals of the one before.        *)
ApprovalsAfter_Kept(why) == approvals

(* New terms need fresh approval.                                          *)
ApprovalsAfter(why) == IF why = "revision" THEN NoApprovals ELSE approvals

(* The change rescore commits, in the state the contract has then.         *)
MoveGraded(why) ==
    /\ owned' \in IF why \in {"intake", "reanalysed"} THEN {owned, TRUE} ELSE {owned}
    /\ IF why = "revision"
       THEN IF state \in Settled THEN UNCHANGED moveVars
            ELSE Enter(IF owned THEN "in_review" ELSE "intake")
       ELSE IF state = "intake" /\ (stage = "draft" \/ why # "manual")
       THEN Enter(IF owned' THEN "in_review" ELSE "intake")
       ELSE UNCHANGED moveVars

Commit(p) ==
    LET c == ctx[p] IN
    /\ pc[p] = "commit"
    /\ reviewed' = [doc |-> c.doc, ver |-> c.ver]
    /\ graded' = graded \cup {c.doc}
    /\ refs' = GradedRefs(c)
    /\ approvals' = ApprovalsAfter(c.why)
    /\ IF c.why = "revision"
       THEN /\ current' = c.doc
            /\ linked' = linked \cup {c.doc}
       ELSE UNCHANGED <<current, linked>>
    /\ MoveGraded(c.why)
    /\ required' = Routing(reviewed', valued, escalated)
    /\ WrittenBy(p)
    /\ UNCHANGED <<escalated, valued, asked, term, items, torn, version, queue, faults>>
-----------------------------------------------------------------------------
(* Open items edited by reviewers (add_blocker, edit_blocker): the item is *)
(* written, then the contract with the items its closure reads.            *)

AddItem(p, i) ==
    /\ "item" \in Ops
    /\ state # "absent"
    /\ i \in Notes
    /\ items[i] = "absent"
    /\ items' = [items EXCEPT ![i] = "open"]
    /\ Begin(p, "refresh", NoContext)
    /\ Tear(p)
    /\ UNCHANGED <<moveVars, routeVars, personVars, docVars, term, refs, inVars, faults>>

EditItem(p, i, to) ==
    /\ "item" \in Ops
    /\ items[i] # "absent"
    /\ Begin(p, "put", Editing(i, to))
    /\ UNCHANGED <<moveVars, routeVars, personVars, docVars, term, itemVars, inVars,
                   faults>>

PutItem(p) ==
    /\ pc[p] = "put"
    /\ items' = [items EXCEPT ![ctx[p].item] = ctx[p].to]
    /\ Goto(p, "refresh")
    /\ ctx' = [ctx EXCEPT ![p] = NoContext]
    /\ Tear(p)
    /\ UNCHANGED <<moveVars, routeVars, personVars, docVars, term, refs, inVars, faults>>

(* Mutant: the items are not read again after a lost race.                 *)
Found_Once(p) == IF ctx[p].found = {} THEN OpenOf(items) ELSE ctx[p].found

(* refresh_refs: the open items, read inside the closure.                  *)
Found(p) == OpenOf(items)

Refresh(p) ==
    /\ pc[p] = "refresh"
    /\ ctx' = [ctx EXCEPT ![p].found = Found(p)]
    /\ Goto(p, "save")
    /\ UNCHANGED <<moveVars, routeVars, personVars, docVars, term, itemVars, inVars,
                   faults>>

Save(p) ==
    /\ pc[p] = "save"
    /\ refs' = ctx[p].found
    /\ WrittenBy(p)
    /\ UNCHANGED <<moveVars, routeVars, personVars, docVars, term, items, torn, inVars,
                   faults>>

(* An invocation stops, or gives up after five lost races; the message of  *)
(* an intake run is visible again.                                         *)
Crash(p) ==
    /\ pc[p] # "idle"
    /\ Fault("crash")
    /\ torn' = (torn \/ pc[p] \in {"write", "commit", "refresh", "save"})
    /\ queue' = queue \cup (IF p \in Intakes THEN {ctx[p].doc} ELSE {})
    /\ Goto(p, "idle")
    /\ ctx' = [ctx EXCEPT ![p] = NoContext]
    /\ UNCHANGED <<moveVars, routeVars, personVars, docVars, term, refs, items, version,
                   linked>>
-----------------------------------------------------------------------------
Reviewing ==
    \/ Approve \/ SendBack \/ Assign \/ AskPi \/ PiAnswered
    \/ Reject \/ SendForSignature \/ MarkSigned \/ Activate \/ Close \/ Reopen
    \/ CancelEsign \/ Post \/ TermNears \/ AdvanceTerm
    \/ \E o \in Offices : OfficeApprove(o) \/ Escalate(o)
    \/ \E value \in BOOLEAN, end \in Terms : Patch(value, end)

Arriving ==
    \E d \in Docs : \/ Analyse(d) \/ Upload(d)
                    \/ Reconcile(d) \/ Redeliver(d) \/ Lose(d)

GoOn(p) ==
    \/ CreateContract(p) \/ Scan(p) \/ Commit(p)
    \/ PutItem(p) \/ Refresh(p) \/ Save(p)
    \/ \E i \in SonarItems : WriteItem(p, i)

Starting ==
    \/ \E p \in Intakes, d \in Docs : Receive(p, d)
    \/ \E p \in Callers : \/ Rescore(p)
                          \/ \E i \in Items : \/ AddItem(p, i)
                                              \/ EditItem(p, i, "open")
                                              \/ EditItem(p, i, "closed")

Next == \/ Reviewing \/ Arriving \/ Starting
        \/ \E p \in Procs : GoOn(p) \/ Crash(p)

Safe == Init /\ [][Next]_vars

(* A run that has begun goes on, a queued message is received, and the     *)
(* sweeper comes every hour.                                               *)
Fairness == /\ \A p \in Procs : WF_vars(GoOn(p))
            /\ \A d \in Docs : /\ WF_vars(\E p \in Intakes : Receive(p, d))
                               /\ WF_vars(Reconcile(d))

Spec == Safe /\ Fairness
-----------------------------------------------------------------------------
(* Properties.                                                             *)

(* Every variable has its type, and a run holds what its step goes by.     *)
ContractShapes ==
    /\ state \in States \cup {"absent"} /\ stage \in Stages
    /\ owned \in BOOLEAN /\ asked \in BOOLEAN
    /\ current \in Docs /\ reviewed \in Versions \cup {None} /\ graded \subseteq Docs
    /\ approvals \in [Approvers -> Docs \cup {None}]
    /\ escalated \subseteq Offices /\ required \subseteq Offices
    /\ valued \in BOOLEAN /\ term \in Terms

RunShapes ==
    /\ refs \subseteq Items /\ items \in [Items -> Status] /\ torn \in BOOLEAN
    /\ version \in [Docs -> Nat] /\ linked \subseteq Docs /\ queue \subseteq Docs
    /\ pc \in [Procs -> Labels] /\ ctx \in [Procs -> Contexts]
    /\ faults \in Nat

ContextOK(p) ==
    /\ pc[p] \in {"create", "scan", "write", "commit"} => ctx[p].doc \in Docs
    /\ pc[p] = "put" => ctx[p].item \in Items
    /\ ctx[p].why = "revision" => ctx[p].doc \in Revisions
    /\ p \in Intakes => pc[p] \notin {"put", "refresh", "save"}

TypeOK == ContractShapes /\ RunShapes /\ \A p \in Procs : ContextOK(p)

(* workflow.py:1478, 2518.  An approval that counts was given to the       *)
(* version that is current now: however intake runs, rescores and          *)
(* approvals interleave, none outlives the version it was given to.        *)
ApprovalsOfCurrentVersion ==
    \A a \in Approvers : approvals[a] \in {None, current}

(* workflow.py:1310-1323, 1485-1491.  A contract is ready to sign, or out  *)
(* for signature, only while every office a person escalated it to has     *)
(* approved this version, whatever the routing rules ask for by then.      *)
EscalatedOfficesApproved ==
    state \in {"ready_to_sign", "out_for_signature"} =>
        \A o \in escalated : approvals[o] = current

(* ... and only while somebody has approved this version: a revision, a    *)
(* rejected or reopened contract and a cancelled envelope never leave it   *)
(* there on approvals that are gone.                                       *)
ReadyWasApproved ==
    state \in {"ready_to_sign", "out_for_signature"} =>
        \E a \in Approvers : approvals[a] = current

ReadyMeansApproved == EscalatedOfficesApproved /\ ReadyWasApproved

(* workflow.py:84-92.  An open request to the PI can always be answered:   *)
(* no sequence of actions and revisions takes the contract, with the       *)
(* request open, where pi_answered is not allowed.                         *)
PiRequestAnswerable == asked => state \in PiFrom

(* workflow.py:60-65, 245-252.  The board column says what the state is,   *)
(* through renewals, rejections, reopenings and revisions; and a contract  *)
(* that has been graded is not shown as still being read.                  *)
StageFollowsState ==
    /\ state \notin {"absent", "intake", "rejected", "signed", "active"} =>
           stage = StageOf[state]
    /\ state = "intake" => stage \in {"draft", "review"}
    /\ state = "intake" /\ reviewed # None => stage = "review"
    /\ state = "rejected" => stage \in {"draft", "review", "negotiation", "approval"}
    /\ state \in {"signed", "active"} => stage \in {StageOf[state], "renewal"}

Quiet == \A p \in Procs : pc[p] \notin {"write", "commit", "refresh", "save"}

(* workflow.py:1067-1079.  When nobody is changing them, the contract      *)
(* counts the items that are open: unless an item was written while a      *)
(* rescore was replacing them, or a run crashed halfway.                   *)
OpenItemsCounted == Quiet /\ ~torn => refs = OpenOf(items)

(* workflow.py:2336-2358.  Replacing Sonar's items keeps what people have  *)
(* closed: with the same proviso, only a person's edit opens it again.     *)
ClosedItemsKept ==
    [][\A i \in Items :
         items[i] = "closed" /\ items'[i] = "open" /\ ~torn' =>
             \E p \in Callers : pc[p] = "put" /\ ctx[p].item = i]_vars

(* workflow.py:2519-2521.  A signed contract stays signed until it is      *)
(* closed, whatever arrives for it.                                        *)
SignedStands ==
    [][(state \in {"signed", "active"}) =>
           state' \in {"signed", "active", "closed"}]_vars

(* govern_intake/handler.py:5-8.  Once the contract has gone over to a    *)
(* revised version, the document it was made for never becomes current     *)
(* again, however late its messages are delivered.                         *)
NeverBackToOriginal == [][current # Original => current' # Original]_vars

(* govern_intake/handler.py:16-20.  When no document waits, the grades     *)
(* stored are those of the current version.                                *)
CurrentIsGraded ==
    queue = {} /\ (\A p \in Procs : pc[p] = "idle") /\ reviewed # None =>
        reviewed.doc = current

(* govern_sweeper/handler.py:10, capture.py:1-12.  Every document that is  *)
(* analysed is graded in the end.                                          *)
GradedAtLast == \A d \in Docs : version[d] > 0 ~> d \in graded
=============================================================================
