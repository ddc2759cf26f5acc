------------------------ MODULE ContractReviewProofs ------------------------
(***************************************************************************)
(* Proofs about ContractReview, for any number of documents, offices, open *)
(* items, intake runs and requests: its types, and then the safety of the  *)
(* review, the approvals that count, the states reached on them, the       *)
(* request to the PI and the board column; and about Automations, which    *)
(* work on such contracts: no action is run twice, and complete means done.*)
(***************************************************************************)
EXTENDS ContractReview, Automations, FiniteSetTheorems, TLAPS

(* The records the handlers make have their type.                          *)
LEMMA ContextTypes ==
    /\ NoContext \in Contexts
    /\ \A d \in Docs, v \in Nat, why \in Reasons : Grading(d, v, why) \in Contexts
    /\ \A i \in Items, to \in Status : Editing(i, to) \in Contexts
BY DEF NoContext, Grading, Editing, Context, Contexts, NoItems, Status, Reasons

(* The initial state has the types.                                        *)
LEMMA TypeInit == Init => TypeOK
<1> SUFFICES ASSUME Init PROVE TypeOK
  OBVIOUS
<1>1. ContractShapes
  BY DEF Init, ContractShapes, Docs, Stages, NoApprovals, Approvers, Terms
<1>2. RunShapes
  BY ContextTypes DEF Init, RunShapes, NoItems, Status, Labels
<1>3. ASSUME NEW p \in Procs PROVE ContextOK(p)
  BY <1>3 DEF Init, ContextOK, NoContext, Context
<1> QED BY <1>1, <1>2, <1>3 DEF TypeOK

(* What an invocation goes by, field by field.                             *)
LEMMA ContextFields ==
    ASSUME TypeOK, NEW p \in Procs
    PROVE  /\ ctx[p].doc \in Docs \cup {None}
           /\ ctx[p].ver \in Nat
           /\ ctx[p].why \in Reasons
           /\ ctx[p].seen \in [Items -> Status]
           /\ ctx[p].todo \in SUBSET SonarItems
           /\ ctx[p].item \in Items \cup {None}
           /\ ctx[p].to \in Status
           /\ ctx[p].found \in SUBSET Items
           /\ pc[p] \in {"create", "scan", "write", "commit"} => ctx[p].doc \in Docs
           /\ ctx[p].why = "revision" => ctx[p].doc \in Revisions
<1>1. ctx[p] \in Contexts
  BY DEF TypeOK, RunShapes
<1>2. ContextOK(p)
  BY DEF TypeOK
<1> QED BY <1>1, <1>2 DEF Contexts, ContextOK

(* The states that are named are states.                                   *)
LEMMA StateTables ==
    /\ \A op \in DOMAIN AllowedFrom : AllowedFrom[op] \subseteq States
    /\ "absent" \notin States
BY DEF AllowedFrom, States, OpenStates, TerminalStates

(* _enter_state leads to a state and a column.                             *)
LEMMA EnterTypes ==
    ASSUME stage \in Stages, NEW s \in States, Enter(s)
    PROVE  state' \in States /\ stage' \in Stages
BY DEF Enter, StageFor, StageOf, Stages, States, OpenStates, TerminalStates

(* The offices asked for are offices.                                      *)
LEMMA RoutingTypes ==
    ASSUME NEW r, NEW value, NEW by_hand \in SUBSET Offices
    PROVE  /\ Routing(r, value, by_hand) \in SUBSET Offices
           /\ by_hand \subseteq Routing(r, value, by_hand)
BY OfficeAssumption DEF Routing, RuleFor

(* A write of the contract only sends other invocations back to read.      *)
LEMMA WrittenTypes ==
    ASSUME TypeOK, Written
    PROVE  /\ pc' \in [Procs -> Labels] /\ ctx' = ctx
           /\ \A p \in Procs : ContextOK(p)'
<1>1. pc \in [Procs -> Labels] /\ \A p \in Procs : ContextOK(p)
  BY DEF TypeOK, RunShapes
<1>2. pc' \in [Procs -> Labels] /\ ctx' = ctx
  BY <1>1 DEF Written, LostRace, Labels
<1>3. ASSUME NEW p \in Procs PROVE ContextOK(p)'
  BY <1>1, <1>3 DEF Written, LostRace, ContextOK
<1> QED BY <1>2, <1>3

(* The invocation that writes it is done.                                  *)
LEMMA WrittenByTypes ==
    ASSUME TypeOK, NEW p \in Procs, WrittenBy(p)
    PROVE  /\ pc' \in [Procs -> Labels] /\ ctx' \in [Procs -> Contexts]
           /\ \A q \in Procs : ContextOK(q)'
<1>1. /\ pc \in [Procs -> Labels] /\ ctx \in [Procs -> Contexts]
      /\ \A q \in Procs : ContextOK(q)
  BY DEF TypeOK, RunShapes
<1>2. pc' \in [Procs -> Labels]
  BY <1>1 DEF WrittenBy, LostRace, Labels
<1>3. ctx' \in [Procs -> Contexts]
  BY <1>1, ContextTypes DEF WrittenBy
<1>4. ASSUME NEW q \in Procs PROVE ContextOK(q)'
  <2>1. CASE q = p
    BY <1>1, <2>1 DEF WrittenBy, ContextOK, NoContext, Context
  <2>2. CASE q # p
    BY <1>1, <2>2 DEF WrittenBy, LostRace, ContextOK
  <2> QED BY <2>1, <2>2
<1> QED BY <1>2, <1>3, <1>4

(* A step that touches neither the invocations nor what they hold.         *)
LEMMA ContextUnchanged ==
    ASSUME TypeOK, UNCHANGED procVars
    PROVE  \A p \in Procs : ContextOK(p)'
BY DEF TypeOK, ContextOK, procVars

(* An approval keeps the types, whoever gives it.                          *)
LEMMA TypeApproval ==
    ASSUME TypeOK, NEW a \in Approvers, NEW op, Approval(a, op)
    PROVE  TypeOK'
<1>0. ContractShapes /\ RunShapes
  BY DEF TypeOK
<1>1. /\ pc' \in [Procs -> Labels] /\ ctx' = ctx
      /\ \A p \in Procs : ContextOK(p)'
  BY WrittenTypes DEF Approval
<1>2. state' \in States /\ stage' \in Stages
  <2>1. {"escalated", "ready_to_sign"} \subseteq States
    BY DEF States, OpenStates
  <2>2. PICK s \in {"escalated", "ready_to_sign"} : Enter(s)
    BY DEF Approval
  <2> QED BY <1>0, <2>1, <2>2, EnterTypes DEF ContractShapes
<1>3. approvals' \in [Approvers -> Docs \cup {None}]
  BY <1>0 DEF Approval, ContractShapes
<1>4. ContractShapes'
  BY <1>0, <1>2, <1>3 DEF Approval, Answered, ContractShapes, docVars
<1>5. RunShapes'
  BY <1>0, <1>1 DEF Approval, RunShapes, itemVars, inVars
<1> QED BY <1>1, <1>4, <1>5 DEF TypeOK

(* The other actions of people and the sweeper on the contract item.       *)
LEMMA TypeReviewing ==
    ASSUME TypeOK, Reviewing
    PROVE  TypeOK'
<1>0. ContractShapes /\ RunShapes
  BY DEF TypeOK
<1>a. ASSUME Written PROVE /\ pc' \in [Procs -> Labels] /\ ctx' = ctx
                           /\ \A p \in Procs : ContextOK(p)'
  BY <1>a, WrittenTypes
<1>b. ASSUME NEW s \in States, Enter(s) PROVE state' \in States /\ stage' \in Stages
  BY <1>0, <1>b, EnterTypes DEF ContractShapes
<1>c. /\ {"sent_back", "escalated", "rejected", "out_for_signature", "signed", "active",
          "closed", "in_review", "ready_to_sign", "intake"} \subseteq States
      /\ {"review", "draft", "renewal"} \subseteq Stages
  BY DEF States, OpenStates, TerminalStates, Stages
<1>1. CASE Approve
  BY <1>1, TypeApproval DEF Approve, Approvers
<1>2. CASE SendBack
  <2>1. state' \in States /\ stage' \in Stages
    BY <1>2, <1>b, <1>c DEF SendBack
  <2>2. ContractShapes'
    BY <1>0, <1>2, <2>1 DEF SendBack, Answered, NoApprovals, ContractShapes, docVars
  <2>3. RunShapes' /\ \A p \in Procs : ContextOK(p)'
    BY <1>0, <1>2, <1>a DEF SendBack, RunShapes, itemVars, inVars
  <2> QED BY <2>2, <2>3 DEF TypeOK
<1>3. ASSUME NEW op, NEW s \in States, Move(op, s) PROVE TypeOK'
  <2>1. state' \in States /\ stage' \in Stages
    BY <1>3, <1>b DEF Move
  <2>2. ContractShapes'
    BY <1>0, <1>3, <2>1 DEF Move, Answered, ContractShapes, docVars, routeVars
  <2>3. RunShapes' /\ \A p \in Procs : ContextOK(p)'
    BY <1>0, <1>3, <1>a DEF Move, OpenOf, RunShapes, inVars
  <2> QED BY <2>2, <2>3 DEF TypeOK
<1>4. CASE Reject \/ SendForSignature \/ MarkSigned \/ Activate \/ Close \/ Reopen
  BY <1>4, <1>3, <1>c DEF Reject, SendForSignature, MarkSigned, Activate, Close, Reopen
<1>5. CASE CancelEsign
  <2>1. state' \in States /\ stage' \in Stages
    BY <1>5, <1>b, <1>c DEF CancelEsign
  <2>2. ContractShapes'
    BY <1>0, <1>5, <2>1 DEF CancelEsign, ContractShapes, docVars, routeVars, personVars
  <2>3. RunShapes' /\ \A p \in Procs : ContextOK(p)'
    BY <1>0, <1>5, <1>a DEF CancelEsign, RunShapes, itemVars, inVars
  <2> QED BY <2>2, <2>3 DEF TypeOK
<1>6. CASE Assign
  <2>1. state' \in States \cup {"absent"} /\ stage' \in Stages
    BY <1>0, <1>6, <1>b, <1>c DEF Assign, ContractShapes, moveVars
  <2>2. ContractShapes'
    BY <1>0, <1>6, <2>1 DEF Assign, ContractShapes, docVars, routeVars
  <2>3. RunShapes' /\ \A p \in Procs : ContextOK(p)'
    BY <1>0, <1>6, <1>a DEF Assign, RunShapes, itemVars, inVars
  <2> QED BY <2>2, <2>3 DEF TypeOK
<1>7. ASSUME NEW op, PiRequest(op) PROVE TypeOK'
  <2>1. ContractShapes'
    BY <1>0, <1>7 DEF PiRequest, ContractShapes, docVars, routeVars, moveVars
  <2>2. RunShapes' /\ \A p \in Procs : ContextOK(p)'
    BY <1>0, <1>7, <1>a DEF PiRequest, RunShapes, itemVars, inVars
  <2> QED BY <2>1, <2>2 DEF TypeOK
<1>8. CASE AskPi \/ PiAnswered
  BY <1>7, <1>8 DEF AskPi, PiAnswered
<1>9. CASE Post
  <2>1. ContractShapes'
    <3>1. required' \subseteq Offices
      BY <1>0, <1>9, RoutingTypes DEF Post, Create, ContractShapes
    <3> QED BY <1>0, <1>9, <1>c, <3>1 DEF Post, Create, ContractShapes, docVars
  <2>2. RunShapes' /\ \A p \in Procs : ContextOK(p)'
    BY <1>0, <1>9, <1>a DEF Post, Create, RunShapes, itemVars, Docs
  <2> QED BY <2>1, <2>2 DEF TypeOK
<1>10. CASE TermNears
  <2>1. ContractShapes'
    BY <1>0, <1>10 DEF TermNears, ContractShapes, Terms, moveVars, docVars, routeVars, personVars
  <2>2. RunShapes' /\ \A p \in Procs : ContextOK(p)'
    BY <1>0, <1>10, ContextUnchanged DEF TermNears, RunShapes, itemVars, inVars, procVars
  <2> QED BY <2>1, <2>2 DEF TypeOK
<1>11. CASE AdvanceTerm
  <2>1. state' \in States \cup {"absent"} /\ stage' \in Stages
    BY <1>0, <1>11, <1>b, <1>c DEF AdvanceTerm, ContractShapes
  <2>2. ContractShapes'
    BY <1>0, <1>11, <2>1 DEF AdvanceTerm, ContractShapes, docVars, routeVars, personVars
  <2>3. RunShapes' /\ \A p \in Procs : ContextOK(p)'
    BY <1>0, <1>11, <1>a DEF AdvanceTerm, RunShapes, itemVars, inVars
  <2> QED BY <2>2, <2>3 DEF TypeOK
<1>12. ASSUME NEW o \in Offices, OfficeApprove(o) PROVE TypeOK'
  BY <1>12, TypeApproval DEF OfficeApprove, Approvers
<1>13. ASSUME NEW o \in Offices, Escalate(o) PROVE TypeOK'
  <2>1. state' \in States /\ stage' \in Stages
    BY <1>13, <1>b, <1>c DEF Escalate
  <2>2. escalated' \subseteq Offices /\ required' \subseteq Offices
    BY <1>0, <1>13, RoutingTypes DEF Escalate, ContractShapes
  <2>3. ContractShapes'
    BY <1>0, <1>13, <2>1, <2>2 DEF Escalate, Answered, ContractShapes, docVars
  <2>4. RunShapes' /\ \A p \in Procs : ContextOK(p)'
    BY <1>0, <1>13, <1>a DEF Escalate, RunShapes, itemVars, inVars
  <2> QED BY <2>3, <2>4 DEF TypeOK
<1>14. ASSUME NEW value \in BOOLEAN, NEW end \in Terms, Patch(value, end) PROVE TypeOK'
  <2>1. ContractShapes'
    <3>1. required' \subseteq Offices
      BY <1>0, <1>14, RoutingTypes DEF Patch, ContractShapes
    <3> QED BY <1>0, <1>14, <3>1 DEF Patch, ContractShapes, docVars, moveVars, personVars
  <2>2. RunShapes' /\ \A p \in Procs : ContextOK(p)'
    BY <1>0, <1>14, <1>a DEF Patch, RunShapes, itemVars, inVars
  <2> QED BY <2>1, <2>2 DEF TypeOK
<1> QED
  BY <1>1, <1>2, <1>4, <1>5, <1>6, <1>8, <1>9, <1>10, <1>11, <1>12, <1>13, <1>14 DEF Reviewing

(* Documents and messages.                                                 *)
LEMMA TypeArriving ==
    ASSUME TypeOK, Arriving
    PROVE  TypeOK'
<1> USE DEF moveVars, routeVars, personVars, docVars, itemVars, ContractShapes, RunShapes
<1>0. ContractShapes /\ RunShapes
  BY DEF TypeOK
<1>a. ASSUME UNCHANGED procVars PROVE \A p \in Procs : ContextOK(p)'
  BY <1>a, ContextUnchanged
<1>b. ASSUME NEW d \in Docs, Requeue(d), faults' \in Nat PROVE TypeOK'
  BY <1>0, <1>a, <1>b DEF Requeue, TypeOK, procVars
<1>1. ASSUME NEW d \in Docs, Analyse(d) PROVE TypeOK'
  BY <1>0, <1>1, <1>a DEF Analyse, TypeOK, procVars
<1>2. ASSUME NEW d \in Docs, Upload(d) PROVE TypeOK'
  BY <1>0, <1>2, WrittenTypes DEF Upload, TypeOK
<1>3. ASSUME NEW d \in Docs, Reconcile(d) PROVE TypeOK'
  BY <1>0, <1>3, <1>b DEF Reconcile
<1>4. ASSUME NEW d \in Docs, Redeliver(d) PROVE TypeOK'
  BY <1>0, <1>4, <1>b DEF Redeliver, Fault
<1>5. ASSUME NEW d \in Docs, Lose(d) PROVE TypeOK'
  BY <1>0, <1>5, <1>a DEF Lose, Fault, TypeOK, procVars
<1> QED BY <1>1, <1>2, <1>3, <1>4, <1>5 DEF Arriving

(* An invocation that starts holds what its first step goes by.            *)
LEMMA BeginTypes ==
    ASSUME TypeOK, NEW p \in Procs, NEW label \in Labels, NEW context \in Contexts,
           Begin(p, label, context),
           label \in {"create", "scan", "write", "commit"} => context.doc \in Docs,
           label = "put" => context.item \in Items,
           context.why = "revision" => context.doc \in Revisions,
           p \in Intakes => label \notin {"put", "refresh", "save"}
    PROVE  /\ pc' \in [Procs -> Labels] /\ ctx' \in [Procs -> Contexts]
           /\ \A q \in Procs : ContextOK(q)'
<1>1. /\ pc \in [Procs -> Labels] /\ ctx \in [Procs -> Contexts]
      /\ \A q \in Procs : ContextOK(q)
  BY DEF TypeOK, RunShapes
<1>2. pc' = [pc EXCEPT ![p] = label] /\ ctx' = [ctx EXCEPT ![p] = context]
  BY DEF Begin, Goto
<1>3. ASSUME NEW q \in Procs PROVE ContextOK(q)'
  <2>1. CASE q = p
    BY <1>1, <1>2, <2>1 DEF ContextOK
  <2>2. CASE q # p
    BY <1>1, <1>2, <2>2 DEF ContextOK
  <2> QED BY <2>1, <2>2
<1> QED BY <1>1, <1>2, <1>3

(* Messages received and requests.                                         *)
LEMMA TypeStarting ==
    ASSUME TypeOK, Starting
    PROVE  TypeOK'
<1> USE DEF moveVars, routeVars, personVars, docVars, itemVars, inVars, ContractShapes, RunShapes
<1>0. ContractShapes /\ RunShapes
  BY DEF TypeOK
<1>1. ASSUME NEW p \in Intakes, NEW d \in Docs, Receive(p, d) PROVE TypeOK'
  <2>1. CASE AlreadyReviewed(d)
    BY <1>0, <1>1, <2>1, ContextUnchanged DEF Receive, TypeOK, procVars
  <2>2. CASE ~AlreadyReviewed(d)
    <3> DEFINE c == Grading(d, version[d], ReasonFor(d))
               l == IF state = "absent" THEN "create" ELSE "scan"
    <3>1. version[d] \in Nat /\ ReasonFor(d) \in Reasons
      BY <1>0 DEF ReasonFor, Reasons
    <3>2. c \in Contexts
      BY <3>1, ContextTypes
    <3>3. c.doc = d /\ c.why = ReasonFor(d)
      BY DEF Grading, Context
    <3>4. c.why = "revision" => c.doc \in Revisions
      BY <3>3 DEF ReasonFor
    <3>5. l \in {"create", "scan"} /\ l \in Labels
      BY DEF Labels
    <3>6. Begin(p, l, c)
      BY <1>1, <2>2 DEF Receive
    <3>7. /\ pc' \in [Procs -> Labels] /\ ctx' \in [Procs -> Contexts]
          /\ \A q \in Procs : ContextOK(q)'
      <4> HIDE DEF c, l
      <4> QED BY <3>2, <3>3, <3>4, <3>5, <3>6, BeginTypes DEF Procs
    <3> QED BY <1>0, <1>1, <3>7 DEF Receive, TypeOK
  <2> QED BY <2>1, <2>2
<1>2. ASSUME NEW p \in Callers, Rescore(p) PROVE TypeOK'
  <2> DEFINE c == Grading(current, version[current], "manual")
  <2>1. c \in Contexts
    BY <1>0, ContextTypes DEF Reasons
  <2>2. c.doc = current /\ c.why = "manual"
    BY DEF Grading, Context
  <2>3. Begin(p, "scan", c)
    BY <1>2 DEF Rescore
  <2>4. /\ pc' \in [Procs -> Labels] /\ ctx' \in [Procs -> Contexts]
        /\ \A q \in Procs : ContextOK(q)'
    <3> HIDE DEF c
    <3> QED BY <1>0, <2>1, <2>2, <2>3, BeginTypes DEF Procs, Labels
  <2> QED BY <1>0, <1>2, <2>4 DEF Rescore, TypeOK
<1>3. ASSUME NEW p \in Callers, NEW i \in Items, NEW to \in Status,
             Begin(p, "put", Editing(i, to))
      PROVE  /\ pc' \in [Procs -> Labels] /\ ctx' \in [Procs -> Contexts]
             /\ \A q \in Procs : ContextOK(q)'
  <2> DEFINE c == Editing(i, to)
  <2>1. c \in Contexts
    BY ContextTypes
  <2>2. c.item = i /\ c.why = "manual"
    BY DEF Editing, Context
  <2> HIDE DEF c
  <2>3. Begin(p, "put", c)
    BY <1>3 DEF c
  <2> QED BY <2>1, <2>2, <2>3, BeginTypes, ProcsAssumption DEF Labels, Procs
<1>4. ASSUME NEW p \in Callers, NEW i \in Items, AddItem(p, i) PROVE TypeOK'
  <2>1. /\ pc' \in [Procs -> Labels] /\ ctx' \in [Procs -> Contexts]
        /\ \A q \in Procs : ContextOK(q)'
    <3>1. NoContext \in Contexts /\ NoContext.why = "manual"
      BY ContextTypes DEF NoContext, Context
    <3>2. Begin(p, "refresh", NoContext) /\ p \notin Intakes /\ p \in Procs
      BY <1>4, ProcsAssumption DEF AddItem, Procs
    <3> QED BY <1>0, <3>1, <3>2, BeginTypes DEF Labels
  <2> QED BY <1>0, <1>4, <2>1 DEF AddItem, Tear, Status, TypeOK
<1>5. ASSUME NEW p \in Callers, NEW i \in Items, NEW to \in {"open", "closed"},
             EditItem(p, i, to)
      PROVE  TypeOK'
  <2>1. /\ pc' \in [Procs -> Labels] /\ ctx' \in [Procs -> Contexts]
        /\ \A q \in Procs : ContextOK(q)'
    BY <1>3, <1>5 DEF EditItem, Status
  <2> QED BY <1>0, <1>5, <2>1 DEF EditItem, TypeOK
<1> QED BY <1>1, <1>2, <1>4, <1>5 DEF Starting

(* Sonar raises its own items only.                                        *)
LEMMA RaisedTypes == \A d \in Docs : Raised[d] \in SUBSET SonarItems
BY ItemsAssumption

(* Other invocations keep what they hold when p goes on.                   *)
LEMMA StepTypes ==
    ASSUME TypeOK, NEW p \in Procs, NEW label \in Labels, NEW context \in Contexts,
           pc' = [pc EXCEPT ![p] = label], ctx' = [ctx EXCEPT ![p] = context],
           label \in {"create", "scan", "write", "commit"} => context.doc \in Docs,
           label = "put" => context.item \in Items,
           context.why = "revision" => context.doc \in Revisions,
           p \in Intakes => label \notin {"put", "refresh", "save"}
    PROVE  /\ pc' \in [Procs -> Labels] /\ ctx' \in [Procs -> Contexts]
           /\ \A q \in Procs : ContextOK(q)'
<1>1. /\ pc \in [Procs -> Labels] /\ ctx \in [Procs -> Contexts]
      /\ \A q \in Procs : ContextOK(q)
  BY DEF TypeOK, RunShapes
<1>2. ASSUME NEW q \in Procs PROVE ContextOK(q)'
  <2>1. CASE q = p
    BY <1>1, <2>1 DEF ContextOK
  <2>2. CASE q # p
    BY <1>1, <2>2 DEF ContextOK
  <2> QED BY <2>1, <2>2
<1> QED BY <1>1, <1>2

(* The steps of intake runs and requests under way.                        *)
LEMMA TypeGoOn ==
    ASSUME TypeOK, NEW p \in Procs, GoOn(p) \/ Crash(p)
    PROVE  TypeOK'
<1> USE DEF moveVars, routeVars, personVars, docVars, itemVars, inVars
<1>0. ContractShapes /\ RunShapes /\ ContextOK(p) /\ ctx[p] \in Contexts
  BY DEF TypeOK, RunShapes
<1>a. UNCHANGED ctx => ctx' = [ctx EXCEPT ![p] = ctx[p]]
  BY <1>0 DEF RunShapes
<1>b. /\ ctx[p].why = "revision" => ctx[p].doc \in Revisions
      /\ pc[p] \in {"create", "scan", "write", "commit"} => ctx[p].doc \in Docs
      /\ pc[p] = "put" => ctx[p].item \in Items
      /\ pc[p] \in {"put", "refresh", "save"} => p \notin Intakes
  BY <1>0 DEF ContextOK
<1>1. CASE CreateContract(p)
  <2>1. /\ pc' \in [Procs -> Labels] /\ ctx' \in [Procs -> Contexts]
        /\ \A q \in Procs : ContextOK(q)'
    BY <1>0, <1>1, <1>a, <1>b, StepTypes DEF CreateContract, Goto, Labels
  <2>2. required' \subseteq Offices
    BY <1>0, <1>1, RoutingTypes DEF CreateContract, Create, ContractShapes
  <2>3. state' \in States \cup {"absent"} /\ stage' \in Stages /\ owned' \in BOOLEAN
    BY <1>0, <1>1
    DEF CreateContract, Create, ContractShapes, States, OpenStates, Stages
  <2>4. ContractShapes'
    BY <1>0, <1>1, <2>2, <2>3 DEF CreateContract, ContractShapes
  <2>5. RunShapes'
    BY <1>0, <1>1, <2>1 DEF CreateContract, Create, RunShapes, Docs
  <2> QED BY <2>1, <2>4, <2>5 DEF TypeOK
<1>2. CASE Scan(p)
  <2> DEFINE old == {i \in SonarItems : items[i] # "absent"}
             new == Raised[ctx[p].doc]
             c == [ctx[p] EXCEPT !.seen = items, !.todo = old \cup new]
  <2>1. new \in SUBSET SonarItems
    BY <1>b, <1>2, RaisedTypes DEF Scan
  <2>2. c \in Contexts /\ c.doc = ctx[p].doc /\ c.why = ctx[p].why
    <3>1. old \cup new \in SUBSET SonarItems /\ items \in [Items -> Status]
      BY <1>0, <2>1 DEF RunShapes
    <3> HIDE DEF old, new
    <3> QED BY <1>0, <3>1 DEF Contexts
  <2>3. pc' = [pc EXCEPT ![p] = IF old \cup new = {} THEN "commit" ELSE "write"]
    BY <1>2 DEF Scan, Goto
  <2>4. ctx' = [ctx EXCEPT ![p] = c]
    BY <1>0, <1>2 DEF Scan, RunShapes
  <2>5. /\ pc' \in [Procs -> Labels] /\ ctx' \in [Procs -> Contexts]
        /\ \A q \in Procs : ContextOK(q)'
    <3>1. ctx[p].doc \in Docs
      BY <1>2, <1>b DEF Scan
    <3>2. PICK l \in {"commit", "write"} : pc' = [pc EXCEPT ![p] = l]
      BY <2>3
    <3> HIDE DEF c
    <3> QED BY <1>b, <2>2, <2>4, <3>1, <3>2, StepTypes DEF Labels
  <2> QED BY <1>0, <1>2, <2>5 DEF Scan, TypeOK, ContractShapes, RunShapes
<1>3. ASSUME NEW i \in SonarItems, WriteItem(p, i) PROVE TypeOK'
  <2> DEFINE c == [ctx[p] EXCEPT !.todo = @ \ {i}]
  <2>1. c \in Contexts /\ c.doc = ctx[p].doc /\ c.why = ctx[p].why
    BY <1>0 DEF Contexts
  <2>2. PICK l \in {"commit", "write"} : pc' = [pc EXCEPT ![p] = l]
    BY <1>3 DEF WriteItem, Goto
  <2>3. ctx' = [ctx EXCEPT ![p] = c]
    BY <1>0, <1>3 DEF WriteItem, RunShapes
  <2>4. /\ pc' \in [Procs -> Labels] /\ ctx' \in [Procs -> Contexts]
        /\ \A q \in Procs : ContextOK(q)'
    <3>1. ctx[p].doc \in Docs
      BY <1>3, <1>b DEF WriteItem
    <3> HIDE DEF c
    <3> QED BY <1>b, <2>1, <2>2, <2>3, <3>1, StepTypes DEF Labels
  <2>5. items' \in [Items -> Status] /\ torn' \in BOOLEAN
    BY <1>0, <1>3 DEF WriteItem, Tear, Kept, Status, RunShapes
  <2> QED BY <1>0, <1>3, <2>4, <2>5 DEF WriteItem, TypeOK, ContractShapes, RunShapes
<1>4. CASE Commit(p)
  <2>1. /\ pc' \in [Procs -> Labels] /\ ctx' \in [Procs -> Contexts]
        /\ \A q \in Procs : ContextOK(q)'
    BY <1>4, WrittenByTypes DEF Commit
  <2>2. ctx[p].doc \in Docs /\ ctx[p].ver \in Nat /\ ctx[p].seen \in [Items -> Status]
    BY <1>0, <1>b, <1>4 DEF Commit, Contexts
  <2>3. refs' \subseteq Items
    BY <1>4, <2>2, RaisedTypes DEF Commit, GradedRefs, Items
  <2>4. required' \subseteq Offices
    BY <1>0, <1>4, RoutingTypes DEF Commit, ContractShapes
  <2>5. approvals' \in [Approvers -> Docs \cup {None}]
    BY <1>0, <1>4 DEF Commit, ApprovalsAfter, NoApprovals, ContractShapes
  <2>6. owned' \in BOOLEAN /\ state' \in States \cup {"absent"} /\ stage' \in Stages
    <3>1. owned' \in BOOLEAN
      BY <1>0, <1>4 DEF Commit, MoveGraded, ContractShapes
    <3>2. UNCHANGED <<state, stage>> \/ \E s \in {"in_review", "intake"} : Enter(s)
      BY <1>4 DEF Commit, MoveGraded
    <3>3. {"in_review", "intake"} \subseteq States
      BY DEF States, OpenStates
    <3> QED BY <1>0, <3>1, <3>2, <3>3, EnterTypes DEF ContractShapes
  <2>7. ContractShapes'
    <3>1. reviewed' \in Versions /\ graded' \subseteq Docs /\ current' \in Docs
      BY <1>0, <1>4, <2>2 DEF Commit, Versions, ContractShapes
    <3> QED BY <1>0, <1>4, <2>4, <2>5, <2>6, <3>1 DEF Commit, ContractShapes
  <2>8. RunShapes'
    BY <1>0, <1>4, <2>1, <2>2, <2>3 DEF Commit, RunShapes
  <2> QED BY <2>1, <2>7, <2>8 DEF TypeOK
<1>5. CASE PutItem(p)
  <2>1. /\ pc' \in [Procs -> Labels] /\ ctx' \in [Procs -> Contexts]
        /\ \A q \in Procs : ContextOK(q)'
    <3>1. NoContext \in Contexts /\ NoContext.why = "manual"
      BY ContextTypes DEF NoContext, Context
    <3>2. pc' = [pc EXCEPT ![p] = "refresh"] /\ ctx' = [ctx EXCEPT ![p] = NoContext]
      BY <1>5 DEF PutItem, Goto
    <3> QED BY <1>5, <1>b, <3>1, <3>2, StepTypes DEF PutItem, Labels
  <2>2. ctx[p].to \in Status
    BY <1>0 DEF Contexts
  <2> QED BY <1>0, <1>5, <2>1, <2>2 DEF PutItem, Tear, TypeOK, ContractShapes, RunShapes
<1>6. CASE Refresh(p)
  <2> DEFINE c == [ctx[p] EXCEPT !.found = Found(p)]
  <2>1. c \in Contexts /\ c.doc = ctx[p].doc /\ c.why = ctx[p].why
    BY <1>0 DEF Contexts, Found, OpenOf
  <2>2. ctx' = [ctx EXCEPT ![p] = c] /\ pc' = [pc EXCEPT ![p] = "save"]
    BY <1>0, <1>6 DEF Refresh, Goto, RunShapes
  <2>3. p \notin Intakes
    BY <1>6, <1>b DEF Refresh
  <2>4. /\ pc' \in [Procs -> Labels] /\ ctx' \in [Procs -> Contexts]
        /\ \A q \in Procs : ContextOK(q)'
    <3> HIDE DEF c
    <3> QED BY <1>b, <2>1, <2>2, <2>3, StepTypes DEF Labels
  <2> QED BY <1>0, <1>6, <2>4 DEF Refresh, TypeOK, ContractShapes, RunShapes
<1>7. CASE Save(p)
  <2>1. /\ pc' \in [Procs -> Labels] /\ ctx' \in [Procs -> Contexts]
        /\ \A q \in Procs : ContextOK(q)'
    BY <1>7, WrittenByTypes DEF Save
  <2>2. ctx[p].found \in SUBSET Items
    BY <1>0 DEF Contexts
  <2> QED BY <1>0, <1>7, <2>1, <2>2 DEF Save, TypeOK, ContractShapes, RunShapes
<1>8. CASE Crash(p)
  <2>1. NoContext \in Contexts /\ NoContext.why = "manual"
    BY ContextTypes DEF NoContext, Context
  <2>2. /\ pc' \in [Procs -> Labels] /\ ctx' \in [Procs -> Contexts]
        /\ \A q \in Procs : ContextOK(q)'
    <3>1. pc' = [pc EXCEPT ![p] = "idle"] /\ ctx' = [ctx EXCEPT ![p] = NoContext]
      BY <1>8 DEF Crash, Goto
    <3> QED BY <2>1, <3>1, StepTypes DEF Labels
  <2>3. queue' \subseteq Docs
    <3>1. p \in Intakes => ctx[p].doc \in Docs
      BY <1>0, <1>8, <1>b DEF Crash, RunShapes, Labels
    <3> QED BY <1>0, <1>8, <3>1 DEF Crash, RunShapes
  <2> QED BY <1>0, <1>8, <2>2, <2>3 DEF Crash, Fault, TypeOK, ContractShapes, RunShapes
<1> QED BY <1>1, <1>2, <1>3, <1>4, <1>5, <1>6, <1>7, <1>8 DEF GoOn

(* Every step keeps the types.                                             *)
LEMMA TypeStep == TypeOK /\ [Next]_vars => TypeOK'
<1> SUFFICES ASSUME TypeOK, [Next]_vars PROVE TypeOK'
  OBVIOUS
<1>1. CASE UNCHANGED vars
  BY <1>1 DEF TypeOK, ContractShapes, RunShapes, ContextOK, vars, moveVars, routeVars,
              personVars, docVars, itemVars, inVars, procVars
<1>2. CASE Next
  BY <1>2, TypeReviewing, TypeArriving, TypeStarting, TypeGoOn DEF Next
<1> QED BY <1>1, <1>2

(* Types are correct: what workflow.py, revisions.py and govern-intake     *)
(* store, and what their invocations go by, for any numbers of each.       *)
THEOREM TypeCorrect == Safe => []TypeOK
<1>1. Init => TypeOK
  BY TypeInit
<1>2. TypeOK /\ [Next]_vars => TypeOK'
  BY TypeStep
<1> QED BY <1>1, <1>2, PTL DEF Safe

(***************************************************************************)
(* Safety                                                                  *)
(***************************************************************************)

(* The offices a person escalated to are among those asked for: evaluation *)
(* of the rules (evaluate_routing) never drops one.                        *)
EscalatedRequired == escalated \subseteq required

(* What the approvals say of the state; inductive together with the types. *)
Approved == /\ ApprovalsOfCurrentVersion
            /\ EscalatedRequired
            /\ EscalatedOfficesApproved
            /\ ReadyWasApproved

reviewVars == <<state, stage, asked, current, reviewed, approvals, escalated, required>>

(* The steps that move a contract.                                         *)
Moving ==
    \/ Approve \/ SendBack \/ Assign \/ AskPi \/ PiAnswered
    \/ Reject \/ SendForSignature \/ MarkSigned \/ Activate \/ Close \/ Reopen
    \/ CancelEsign \/ Post \/ AdvanceTerm
    \/ \E o \in Offices : OfficeApprove(o) \/ Escalate(o)
    \/ \E value \in BOOLEAN, end \in Terms : Patch(value, end)
    \/ \E p \in Procs : CreateContract(p) \/ Commit(p)

(* Every other step leaves it as it is.                                    *)
LEMMA MovingSteps == [Next]_vars => Moving \/ UNCHANGED reviewVars
<1> USE DEF reviewVars, moveVars, routeVars, personVars, docVars
<1> SUFFICES ASSUME [Next]_vars, ~Moving PROVE UNCHANGED reviewVars
  OBVIOUS
<1>1. CASE UNCHANGED vars
  BY <1>1 DEF vars
<1>2. CASE Reviewing
  BY <1>2 DEF Reviewing, Moving, TermNears
<1>3. CASE Arriving
  BY <1>3 DEF Arriving, Analyse, Upload, Reconcile, Redeliver, Lose, Requeue
<1>4. CASE Starting
  BY <1>4 DEF Starting, Receive, Rescore, AddItem, EditItem
<1>5. ASSUME NEW p \in Procs, GoOn(p) \/ Crash(p) PROVE UNCHANGED reviewVars
  BY <1>5 DEF GoOn, Moving, Scan, WriteItem, PutItem, Refresh, Save, Crash
<1> QED BY <1>1, <1>2, <1>3, <1>4, <1>5 DEF Next

(* Once nothing is left pending, the offices asked for have approved.      *)
LEMMA NothingPending ==
    ASSUME NEW given, Pending(given) = {}
    PROVE  \A o \in required : given[o] # None
BY DEF Pending

(* An approval counts for the version that is current.                     *)
LEMMA ApprovalApproves ==
    ASSUME TypeOK, Approved, NEW a \in Approvers, NEW op, Approval(a, op)
    PROVE  Approved'
<1>1. /\ approvals' = [approvals EXCEPT ![a] = current]
      /\ approvals \in [Approvers -> Docs \cup {None}]
      /\ current \in Docs /\ Offices \subseteq Approvers /\ escalated \subseteq Offices
      /\ UNCHANGED <<current, escalated, required>>
  BY DEF Approval, TypeOK, ContractShapes, docVars, Approvers
<1>2. ApprovalsOfCurrentVersion' /\ EscalatedRequired'
  BY <1>1 DEF Approved, ApprovalsOfCurrentVersion, EscalatedRequired
<1>3. ReadyWasApproved'
  BY <1>1 DEF ReadyWasApproved
<1>4. EscalatedOfficesApproved'
  <2>1. state' = IF Pending(approvals') # {} THEN "escalated" ELSE "ready_to_sign"
    BY DEF Approval, Enter
  <2>2. CASE Pending(approvals') = {}
    <3>1. \A o \in escalated : approvals'[o] # None
      BY <2>2, NothingPending DEF Approved, EscalatedRequired
    <3> QED BY <1>1, <1>2, <3>1 DEF ApprovalsOfCurrentVersion, EscalatedOfficesApproved
  <2>3. CASE Pending(approvals') # {}
    BY <2>1, <2>3 DEF EscalatedOfficesApproved
  <2> QED BY <2>2, <2>3
<1> QED BY <1>2, <1>3, <1>4 DEF Approved

(* A step that changes neither what was approved nor what is asked for,    *)
(* and enters signature only from the state that is ready for it.          *)
LEMMA MoveApproves ==
    ASSUME Approved, UNCHANGED <<approvals, current, escalated>>,
           escalated' \subseteq required',
           \/ state' = state
           \/ state' \notin {"ready_to_sign", "out_for_signature"}
           \/ state \in {"ready_to_sign", "out_for_signature"}
    PROVE  Approved'
BY DEF Approved, ApprovalsOfCurrentVersion, EscalatedRequired, EscalatedOfficesApproved,
       ReadyWasApproved

(* Every step keeps what the approvals say.                                *)
LEMMA ApprovedStep == TypeOK /\ Approved /\ [Next]_vars => Approved'
<1> SUFFICES ASSUME TypeOK, Approved, [Next]_vars PROVE Approved'
  OBVIOUS
<1> USE DEF moveVars, routeVars, docVars, personVars
<1>0. EscalatedRequired /\ escalated \subseteq Offices
  BY DEF Approved, TypeOK, ContractShapes
<1>1. CASE UNCHANGED reviewVars
  BY <1>1, <1>0, MoveApproves DEF reviewVars, EscalatedRequired
<1>2. CASE Approve \/ \E o \in Offices : OfficeApprove(o)
  BY <1>2, ApprovalApproves DEF Approve, OfficeApprove, Approvers
<1>3. CASE SendBack
  BY <1>3 DEF SendBack, Enter, NoApprovals, Approved, ApprovalsOfCurrentVersion,
              EscalatedRequired, EscalatedOfficesApproved, ReadyWasApproved
<1>4. ASSUME NEW o \in Offices, Escalate(o) PROVE Approved'
  <2>1. approvals' = [approvals EXCEPT ![o] = None] /\ state' = "escalated" /\ current' = current
    BY <1>4 DEF Escalate, Enter
  <2>2. approvals \in [Approvers -> Docs \cup {None}]
    BY DEF TypeOK, ContractShapes
  <2>3. ApprovalsOfCurrentVersion'
    BY <2>1, <2>2 DEF Approved, ApprovalsOfCurrentVersion
  <2>4. escalated' \subseteq required'
    BY <1>0, <1>4, RoutingTypes DEF Escalate
  <2> QED BY <2>1, <2>3, <2>4
          DEF Approved, EscalatedRequired, EscalatedOfficesApproved, ReadyWasApproved
<1>5. CASE Reject \/ SendForSignature \/ MarkSigned \/ Activate \/ Close \/ Reopen
  BY <1>0, <1>5, MoveApproves
     DEF Reject, SendForSignature, MarkSigned, Activate, Close, Reopen, Move, May, Enter,
         AllowedFrom, EscalatedRequired
<1>6. CASE CancelEsign \/ Assign \/ AskPi \/ PiAnswered \/ AdvanceTerm
  BY <1>0, <1>6, MoveApproves
     DEF CancelEsign, Assign, AskPi, PiAnswered, PiRequest, AdvanceTerm, Enter, EscalatedRequired
<1>7. ASSUME NEW value \in BOOLEAN, NEW end \in Terms, Patch(value, end) PROVE Approved'
  <2>1. escalated' \subseteq required'
    BY <1>0, <1>7, RoutingTypes DEF Patch
  <2> QED BY <1>7, <2>1, MoveApproves DEF Patch
<1>8. ASSUME NEW ready, Create(ready), UNCHANGED <<approvals, escalated, current>>
      PROVE  Approved'
  <2>1. escalated' \subseteq required'
    BY <1>0, <1>8, RoutingTypes DEF Create
  <2>2. state' \in {"in_review", "intake"}
    BY <1>8 DEF Create
  <2> QED BY <1>8, <2>1, <2>2, MoveApproves
<1>9. CASE Post
  BY <1>8, <1>9 DEF Post
<1>10. ASSUME NEW p \in Procs, CreateContract(p) PROVE Approved'
  <2>1. CASE state = "absent"
    BY <1>8, <1>10, <2>1 DEF CreateContract
  <2>2. CASE state # "absent"
    BY <1>0, <1>10, <2>2, MoveApproves DEF CreateContract, EscalatedRequired
  <2> QED BY <2>1, <2>2
<1>11. ASSUME NEW p \in Procs, Commit(p) PROVE Approved'
  <2>1. escalated' = escalated /\ escalated' \subseteq required'
    BY <1>0, <1>11, RoutingTypes DEF Commit
  <2>2. CASE ctx[p].why = "revision"
    <3>1. approvals' = NoApprovals
      BY <1>11, <2>2 DEF Commit, ApprovalsAfter
    <3>2. state' \notin {"ready_to_sign", "out_for_signature"}
      BY <1>11, <2>2 DEF Commit, MoveGraded, Settled, Enter
    <3> QED BY <2>1, <3>1, <3>2
            DEF NoApprovals, Approved, ApprovalsOfCurrentVersion, EscalatedRequired,
                EscalatedOfficesApproved, ReadyWasApproved
  <2>3. CASE ctx[p].why # "revision"
    <3>1. UNCHANGED <<approvals, current>>
      BY <1>11, <2>3 DEF Commit, ApprovalsAfter
    <3>2. state' = state \/ state' \notin {"ready_to_sign", "out_for_signature"}
      BY <1>11, <2>3 DEF Commit, MoveGraded, Enter
    <3> QED BY <2>1, <3>1, <3>2, MoveApproves
  <2> QED BY <2>2, <2>3
<1> QED
  BY <1>1, <1>2, <1>3, <1>4, <1>5, <1>6, <1>7, <1>9, <1>10, <1>11, MovingSteps DEF Moving

(* workflow.py:1478, 2518.  No approval outlives the version it was given  *)
(* to, however many intake runs, rescores and people interleave.           *)
THEOREM ApprovalsAreCurrent == Safe => []ApprovalsOfCurrentVersion
<1>1. Init => Approved
  BY DEF Init, Approved, ApprovalsOfCurrentVersion, EscalatedRequired, EscalatedOfficesApproved,
         ReadyWasApproved, NoApprovals
<1>2. TypeOK /\ Approved /\ [Next]_vars => Approved'
  BY ApprovedStep
<1>3. Approved => ApprovalsOfCurrentVersion
  BY DEF Approved
<1> QED BY <1>1, <1>2, <1>3, TypeCorrect, PTL DEF Safe

(* workflow.py:1310-1323, 1485-1491.  A contract that is ready to sign or  *)
(* out for signature has the approval of somebody, and of every office it  *)
(* was escalated to, for the current version.                              *)
THEOREM ReadyIsApproved == Safe => []ReadyMeansApproved
<1>1. Init => Approved
  BY DEF Init, Approved, ApprovalsOfCurrentVersion, EscalatedRequired, EscalatedOfficesApproved,
         ReadyWasApproved, NoApprovals
<1>2. TypeOK /\ Approved /\ [Next]_vars => Approved'
  BY ApprovedStep
<1>3. Approved => ReadyMeansApproved
  BY DEF Approved, ReadyMeansApproved
<1> QED BY <1>1, <1>2, <1>3, TypeCorrect, PTL DEF Safe

(* workflow.py:84-92.  A request to the PI can be answered as long as it   *)
(* is open.                                                                *)
THEOREM RequestsAnswerable == Safe => []PiRequestAnswerable
<1>1. Init => PiRequestAnswerable
  BY DEF Init, PiRequestAnswerable
<1>2. TypeOK /\ PiRequestAnswerable /\ [Next]_vars => PiRequestAnswerable'
  <2> SUFFICES ASSUME TypeOK, PiRequestAnswerable, [Next]_vars PROVE PiRequestAnswerable'
    OBVIOUS
  <2> USE DEF PiRequestAnswerable, PiFrom, moveVars, personVars
  <2>1. CASE UNCHANGED reviewVars
    BY <2>1 DEF reviewVars
  <2>2. CASE Approve \/ \E o \in Offices : OfficeApprove(o)
    BY <2>2 DEF Approve, OfficeApprove, Approval, Answered, ClearsPiRequest
  <2>3. CASE SendBack \/ \E o \in Offices : Escalate(o)
    BY <2>3 DEF SendBack, Escalate, Answered, ClearsPiRequest
  <2>4. CASE Reject \/ SendForSignature \/ MarkSigned \/ Activate \/ Close \/ Reopen
    BY <2>4 DEF Reject, SendForSignature, MarkSigned, Activate, Close, Reopen, Move, May,
                Answered, ClearsPiRequest, AllowedFrom
  <2>5. CASE CancelEsign \/ Assign \/ AskPi \/ PiAnswered
    BY <2>5 DEF CancelEsign, Assign, AskPi, PiAnswered, PiRequest, Enter
  <2>6. CASE AdvanceTerm \/ Post
    BY <2>6 DEF AdvanceTerm, Post, Create
  <2>7. CASE \E value \in BOOLEAN, end \in Terms : Patch(value, end)
    BY <2>7 DEF Patch
  <2>8. CASE \E p \in Procs : CreateContract(p)
    BY <2>8 DEF CreateContract, Create
  <2>9. ASSUME NEW p \in Procs, Commit(p) PROVE PiRequestAnswerable'
    <3>1. state' = state \/ state' \in {"in_review", "intake"}
      BY <2>9 DEF Commit, MoveGraded, Enter
    <3> QED BY <2>9, <3>1 DEF Commit
  <2> QED
    BY <2>1, <2>2, <2>3, <2>4, <2>5, <2>6, <2>7, <2>8, <2>9, MovingSteps DEF Moving
<1> QED BY <1>1, <1>2, TypeCorrect, PTL DEF Safe

(* _enter_state shows a contract in the column of its state.               *)
LEMMA EnterFollows ==
    ASSUME TypeOK, StageFollowsState, NEW s \in States, Enter(s),
           s = "rejected" => state \in OpenStates
    PROVE  StageFollowsState'
<1>1. CASE s = "rejected"
  <2>1. state' = "rejected" /\ stage' = stage
    BY <1>1 DEF Enter, StageFor
  <2>2. stage \in {"draft", "review", "negotiation", "approval"}
    BY <1>1 DEF StageFollowsState, StageOf, OpenStates
  <2> QED BY <2>1, <2>2 DEF StageFollowsState
<1>2. CASE s # "rejected"
  <2>1. state' = s /\ stage' = StageOf[s]
    BY <1>2 DEF Enter, StageFor
  <2> QED BY <1>2, <2>1 DEF StageFollowsState, StageOf
<1> QED BY <1>1, <1>2

(* No run grades a contract before it is made.                             *)
NotBeforeItIsMade ==
    state = "absent" => /\ reviewed = None
                        /\ \A p \in Procs : pc[p] \notin {"scan", "write", "commit"}

(* A contract that is made stays.                                          *)
LEMMA NeverAbsent == TypeOK /\ [Next]_vars /\ state # "absent" => state' # "absent"
<1> SUFFICES ASSUME [Next]_vars, state # "absent" PROVE state' # "absent"
  OBVIOUS
<1> USE DEF Enter, moveVars
<1>1. CASE UNCHANGED reviewVars
  BY <1>1 DEF reviewVars
<1>2. CASE Approve \/ SendBack \/ \E o \in Offices : OfficeApprove(o) \/ Escalate(o)
  BY <1>2 DEF Approve, OfficeApprove, Approval, SendBack, Escalate
<1>3. CASE Reject \/ SendForSignature \/ MarkSigned \/ Activate \/ Close \/ Reopen
  BY <1>3 DEF Reject, SendForSignature, MarkSigned, Activate, Close, Reopen, Move
<1>4. CASE CancelEsign \/ Assign \/ AskPi \/ PiAnswered \/ AdvanceTerm \/ Post
  BY <1>4 DEF CancelEsign, Assign, AskPi, PiAnswered, PiRequest, AdvanceTerm, Post
<1>5. CASE \E value \in BOOLEAN, end \in Terms : Patch(value, end)
  BY <1>5 DEF Patch
<1>6. CASE \E p \in Procs : CreateContract(p) \/ Commit(p)
  BY <1>6 DEF CreateContract, Commit, MoveGraded
<1> QED BY <1>1, <1>2, <1>3, <1>4, <1>5, <1>6, MovingSteps DEF Moving

(* Every step keeps that.                                                  *)
LEMMA NotBeforeStep == TypeOK /\ NotBeforeItIsMade /\ [Next]_vars => NotBeforeItIsMade'
<1> SUFFICES ASSUME TypeOK, NotBeforeItIsMade, [Next]_vars, state' = "absent"
             PROVE  /\ reviewed' = None
                    /\ \A p \in Procs : pc'[p] \notin {"scan", "write", "commit"}
  BY DEF NotBeforeItIsMade
<1>0. /\ state = "absent" /\ reviewed = None
      /\ pc \in [Procs -> Labels]
      /\ \A p \in Procs : pc[p] \notin {"scan", "write", "commit"}
  BY NeverAbsent DEF NotBeforeItIsMade, TypeOK, RunShapes
<1> USE DEF moveVars, docVars, procVars
<1>1. CASE UNCHANGED vars
  BY <1>0, <1>1 DEF vars
<1>2. CASE Reviewing
  <2>1. TermNears \/ Post
    BY <1>0, <1>2
    DEF Reviewing, Approve, OfficeApprove, Approval, SendBack, Escalate, Reject,
        SendForSignature, MarkSigned, Activate, Close, Reopen, Move, May, AllowedFrom, OpenStates,
        CancelEsign, Assign, AskPi, PiAnswered, PiRequest, PiFrom, AdvanceTerm, Patch
  <2>2. ~Post
    BY DEF Post, Create
  <2> QED BY <1>0, <2>1, <2>2 DEF TermNears
<1>3. CASE Arriving
  BY <1>0, <1>3 DEF Arriving, Analyse, Upload, Reconcile, Redeliver, Lose, Requeue
<1>4. CASE Starting
  <2>1. UNCHANGED <<reviewed, pc>> \/
        \E p \in Procs, l \in {"create", "refresh", "put"} :
            reviewed' = reviewed /\ pc' = [pc EXCEPT ![p] = l]
    BY <1>0, <1>4 DEF Starting, Receive, Rescore, AddItem, EditItem, Begin, Goto, Procs
  <2> QED BY <1>0, <2>1
<1>5. ASSUME NEW p \in Procs, GoOn(p) \/ Crash(p)
      PROVE  /\ reviewed' = None
             /\ \A q \in Procs : pc'[q] \notin {"scan", "write", "commit"}
  <2>1. ~CreateContract(p)
    BY <1>0 DEF CreateContract, Create
  <2>2. PutItem(p) \/ Refresh(p) \/ Save(p) \/ Crash(p)
    BY <1>0, <1>5, <2>1 DEF GoOn, Scan, WriteItem, Commit
  <2> QED
    BY <1>0, <2>2 DEF PutItem, Refresh, Save, Crash, Goto, WrittenBy, LostRace
<1> QED BY <1>1, <1>2, <1>3, <1>4, <1>5 DEF Next

(* workflow.py:60-65, 245-252.  The board column says what the state is,   *)
(* and a graded contract is not shown as still being read.                 *)
THEOREM ColumnFollowsState == Safe => []StageFollowsState
<1>1. Init => StageFollowsState /\ NotBeforeItIsMade
  BY DEF Init, StageFollowsState, NotBeforeItIsMade
<1>2. TypeOK /\ NotBeforeItIsMade /\ StageFollowsState /\ [Next]_vars => StageFollowsState'
  <2> SUFFICES ASSUME TypeOK, NotBeforeItIsMade, StageFollowsState, [Next]_vars
               PROVE  StageFollowsState'
    OBVIOUS
  <2> USE DEF moveVars, docVars
  <2>a. {"sent_back", "escalated", "out_for_signature", "signed", "active", "closed",
         "in_review", "ready_to_sign", "intake", "rejected"} \subseteq States
    BY DEF States, OpenStates, TerminalStates
  <2>b. ASSUME UNCHANGED <<state, stage, reviewed>> PROVE StageFollowsState'
    BY <2>b DEF StageFollowsState
  <2>c. ASSUME NEW s \in States \ {"rejected"}, Enter(s) PROVE StageFollowsState'
    BY <2>c, EnterFollows
  <2>1. CASE UNCHANGED reviewVars
    BY <2>1, <2>b DEF reviewVars
  <2>2. CASE Approve \/ \E o \in Offices : OfficeApprove(o)
    BY <2>2, <2>a, <2>c DEF Approve, OfficeApprove, Approval
  <2>3. CASE SendBack \/ \E o \in Offices : Escalate(o)
    BY <2>3, <2>a, <2>c DEF SendBack, Escalate
  <2>4. CASE SendForSignature \/ MarkSigned \/ Activate \/ Close \/ Reopen
    BY <2>4, <2>a, <2>c DEF SendForSignature, MarkSigned, Activate, Close, Reopen, Move
  <2>5. CASE Reject
    BY <2>5, <2>a, EnterFollows DEF Reject, Move, May, AllowedFrom
  <2>6. CASE CancelEsign \/ Assign \/ AskPi \/ PiAnswered
    BY <2>6, <2>a, <2>b, <2>c DEF CancelEsign, Assign, AskPi, PiAnswered, PiRequest
  <2>7. CASE AdvanceTerm
    <3>1. CASE Enter("closed")
      BY <2>a, <2>c, <3>1
    <3>2. CASE stage' = "renewal" /\ UNCHANGED state
      BY <2>7, <3>2 DEF AdvanceTerm, StageFollowsState
    <3> QED BY <2>7, <3>1, <3>2 DEF AdvanceTerm
  <2>8. ASSUME NEW ready, Create(ready), state = "absent", UNCHANGED reviewed
        PROVE  StageFollowsState'
    BY <2>8 DEF Create, StageFollowsState, StageOf, NotBeforeItIsMade
  <2>9. CASE \E value \in BOOLEAN, end \in Terms : Patch(value, end)
    BY <2>9, <2>b DEF Patch
  <2>10. CASE Post
    BY <2>8, <2>10 DEF Post
  <2>11. ASSUME NEW p \in Procs, CreateContract(p) PROVE StageFollowsState'
    BY <2>b, <2>8, <2>11 DEF CreateContract
  <2>12. ASSUME NEW p \in Procs, Commit(p) PROVE StageFollowsState'
    <3>1. CASE \E s \in {"in_review", "intake"} : Enter(s)
      BY <2>a, <2>c, <3>1
    <3>2. CASE UNCHANGED moveVars /\ state # "intake"
      BY <3>2 DEF StageFollowsState
    <3>3. CASE UNCHANGED moveVars /\ state = "intake" /\ stage # "draft"
      BY <3>3 DEF StageFollowsState, StageOf
    <3>4. state \in Settled => state # "intake"
      BY DEF Settled
    <3> QED BY <2>12, <3>1, <3>2, <3>3, <3>4 DEF Commit, MoveGraded
  <2> QED
    BY <2>1, <2>2, <2>3, <2>4, <2>5, <2>6, <2>7, <2>9, <2>10, <2>11, <2>12, MovingSteps DEF Moving
<1>3. TypeOK /\ NotBeforeItIsMade /\ [Next]_vars => NotBeforeItIsMade'
  BY NotBeforeStep
<1> QED BY <1>1, <1>2, <1>3, TypeCorrect, PTL DEF Safe

(* workflow.py:2519-2521.  Whatever arrives for a signed contract, it      *)
(* stays signed until it is closed.                                        *)
THEOREM SignatureStands == Safe => SignedStands
<1> DEFINE Stands == state \in {"signed", "active"} => state' \in {"signed", "active", "closed"}
<1>1. TypeOK /\ [Next]_vars => Stands
  <2> SUFFICES ASSUME [Next]_vars, state \in {"signed", "active"}
               PROVE  state' \in {"signed", "active", "closed"}
    OBVIOUS
  <2> USE DEF moveVars
  <2>1. CASE UNCHANGED reviewVars
    BY <2>1 DEF reviewVars
  <2>2. CASE Approve \/ \E o \in Offices : OfficeApprove(o)
    BY <2>2 DEF Approve, OfficeApprove, Approval, AllowedFrom
  <2>3. CASE SendBack \/ \E o \in Offices : Escalate(o)
    BY <2>3 DEF SendBack, Escalate, May, AllowedFrom
  <2>4. CASE Reject \/ SendForSignature \/ MarkSigned \/ Activate \/ Close \/ Reopen
    BY <2>4 DEF Reject, SendForSignature, MarkSigned, Activate, Close, Reopen, Move, May,
                Enter, AllowedFrom, OpenStates
  <2>5. CASE CancelEsign \/ Assign \/ AskPi \/ PiAnswered
    BY <2>5 DEF CancelEsign, Assign, AskPi, PiAnswered, PiRequest
  <2>6. CASE AdvanceTerm \/ Post
    BY <2>6 DEF AdvanceTerm, Post, Enter
  <2>7. CASE \E value \in BOOLEAN, end \in Terms : Patch(value, end)
    BY <2>7 DEF Patch
  <2>8. CASE \E p \in Procs : CreateContract(p) \/ Commit(p)
    BY <2>8 DEF CreateContract, Commit, MoveGraded, Settled
  <2> QED BY <2>1, <2>2, <2>3, <2>4, <2>5, <2>6, <2>7, <2>8, MovingSteps DEF Moving
<1> QED BY <1>1, TypeCorrect, PTL DEF Safe, SignedStands

(* govern_intake/handler.py:5-8.  The document a contract was made for     *)
(* does not become current again once a revised version has.               *)
THEOREM RevisionsStand == Safe => NeverBackToOriginal
<1> DEFINE Forward == current # Original => current' # Original
<1>1. TypeOK /\ [Next]_vars => Forward
  <2> SUFFICES ASSUME TypeOK, [Next]_vars, current # Original PROVE current' # Original
    OBVIOUS
  <2> USE DEF docVars
  <2>1. CASE UNCHANGED reviewVars
    BY <2>1 DEF reviewVars
  <2>2. CASE Approve \/ \E o \in Offices : OfficeApprove(o)
    BY <2>2 DEF Approve, OfficeApprove, Approval
  <2>3. CASE SendBack \/ \E o \in Offices : Escalate(o)
    BY <2>3 DEF SendBack, Escalate
  <2>4. CASE Reject \/ SendForSignature \/ MarkSigned \/ Activate \/ Close \/ Reopen
    BY <2>4 DEF Reject, SendForSignature, MarkSigned, Activate, Close, Reopen, Move
  <2>5. CASE CancelEsign \/ Assign \/ AskPi \/ PiAnswered \/ AdvanceTerm \/ Post
    BY <2>5 DEF CancelEsign, Assign, AskPi, PiAnswered, PiRequest, AdvanceTerm, Post
  <2>6. CASE \E value \in BOOLEAN, end \in Terms : Patch(value, end)
    BY <2>6 DEF Patch
  <2>7. ASSUME NEW p \in Procs, CreateContract(p) \/ Commit(p) PROVE current' # Original
    <3>1. current' = current \/ (ctx[p].why = "revision" /\ current' = ctx[p].doc)
      BY <2>7 DEF CreateContract, Commit
    <3>2. ctx[p].why = "revision" => ctx[p].doc \in Revisions
      BY ContextFields
    <3> QED BY <3>1, <3>2, DocsAssumption
  <2> QED BY <2>1, <2>2, <2>3, <2>4, <2>5, <2>6, <2>7, MovingSteps DEF Moving
<1> QED BY <1>1, TypeCorrect, PTL DEF Safe, NeverBackToOriginal
-----------------------------------------------------------------------------
(* The open items and the contract's copy of them.                         *)

(* Unless it has been disturbed, a run that replaces Sonar's items finds   *)
(* those it has still to write as it read them, the others as it wrote     *)
(* them.                                                                   *)
Undisturbed(p) ==
    Grade(p) =>
        /\ \A n \in Notes : items[n] = ctx[p].seen[n]
        /\ \A i \in SonarItems :
               items[i] = IF i \in ctx[p].todo THEN ctx[p].seen[i]
                          ELSE IF i \in Raised[ctx[p].doc] THEN Kept(ctx[p].seen[i])
                          ELSE "absent"
        /\ pc[p] = "commit" => ctx[p].todo = {}

(* p will bring the copy up to date, or has read what it is to be.         *)
Renewing(p) ==
    \/ pc[p] \in {"write", "commit", "refresh"}
    \/ pc[p] = "save" /\ ctx[p].found = OpenOf(items)

(* The copy is right, and nobody is about to write another; or somebody    *)
(* will bring it up to date.                                               *)
Covered == \/ /\ refs = OpenOf(items)
              /\ \A p \in Procs : pc[p] = "save" => ctx[p].found = OpenOf(items)
           \/ \E p \in Procs : Renewing(p)

ItemsInv == ~torn => Covered /\ \A p \in Procs : Undisturbed(p)

(* A step that leaves the items, their copy and what the runs hold alone,  *)
(* but for sending writers back to read.                                   *)
LEMMA ItemsAside ==
    ASSUME TypeOK, ItemsInv, UNCHANGED <<items, refs, torn, ctx>>,
           pc' = pc \/ pc' = [q \in Procs |-> LostRace(q)]
    PROVE  ItemsInv'
<1>1. pc \in [Procs -> Labels]
  BY DEF TypeOK, RunShapes
<1> SUFFICES ASSUME ~torn, Covered, \A p \in Procs : Undisturbed(p)
             PROVE  Covered' /\ \A p \in Procs : Undisturbed(p)'
  BY DEF ItemsInv
<1>2. \A p \in Procs : Undisturbed(p)'
  BY <1>1 DEF Undisturbed, Grade, LostRace
<1>3. \A p \in Procs : Renewing(p) => Renewing(p)'
  BY <1>1 DEF Renewing, LostRace, OpenOf
<1>4. \A p \in Procs : pc'[p] = "save" => pc[p] = "save"
  BY <1>1 DEF LostRace
<1> QED BY <1>2, <1>3, <1>4 DEF Covered, OpenOf

(* A step of p, not among those that grade or write the copy before it or  *)
(* after it.                                                               *)
LEMMA ItemsBeside ==
    ASSUME TypeOK, ItemsInv, NEW p \in Procs, NEW label, NEW context,
           UNCHANGED <<items, refs>>, torn' \/ ~torn,
           pc' = [pc EXCEPT ![p] = label], ctx' = [ctx EXCEPT ![p] = context],
           pc[p] \notin {"write", "commit", "refresh", "save"},
           label \notin {"write", "commit", "refresh", "save"}
    PROVE  ItemsInv'
<1>1. pc \in [Procs -> Labels] /\ ctx \in [Procs -> Contexts]
  BY DEF TypeOK, RunShapes
<1> SUFFICES ASSUME ~torn, Covered, \A q \in Procs : Undisturbed(q)
             PROVE  Covered' /\ \A q \in Procs : Undisturbed(q)'
  BY DEF ItemsInv
<1>2. ASSUME NEW q \in Procs PROVE Undisturbed(q)'
  <2>1. CASE q = p
    BY <1>1, <2>1 DEF Undisturbed, Grade
  <2>2. CASE q # p
    BY <1>1, <2>2 DEF Undisturbed, Grade
  <2> QED BY <2>1, <2>2
<1>3. ASSUME NEW q \in Procs, Renewing(q) PROVE Renewing(q)'
  BY <1>1, <1>3 DEF Renewing, OpenOf
<1>4. ASSUME NEW q \in Procs, pc'[q] = "save" PROVE pc[q] = "save" /\ ctx'[q] = ctx[q]
  BY <1>1, <1>4
<1> QED BY <1>2, <1>3, <1>4 DEF Covered, OpenOf

(* An item is written by p: whoever is replacing items is disturbed, and p *)
(* brings the copy up to date.                                             *)
LEMMA ItemWritten ==
    ASSUME TypeOK, ItemsInv, NEW p \in Procs, pc[p] \in {"idle", "put"}, Tear(p),
           pc' = [pc EXCEPT ![p] = "refresh"]
    PROVE  ItemsInv'
<1>1. pc \in [Procs -> Labels]
  BY DEF TypeOK, RunShapes
<1>2. Renewing(p)' /\ ~Grade(p)'
  BY <1>1 DEF Renewing, Grade
<1> SUFFICES ASSUME ~torn' PROVE \A q \in Procs : Undisturbed(q)'
  BY <1>2 DEF ItemsInv, Covered
<1>3. \A q \in Procs \ {p} : ~Grade(q)'
  BY <1>1 DEF Tear, Grade
<1> QED BY <1>2, <1>3 DEF Undisturbed

(* The copy is written as the items are.                                   *)
LEMMA CopyWritten ==
    ASSUME TypeOK, ItemsInv, NEW p \in Procs, WrittenBy(p), UNCHANGED <<items, torn>>,
           ~torn => \/ refs' = OpenOf(items)
                    \/ \E q \in Procs \ {p} : Renewing(q)
    PROVE  ItemsInv'
<1>1. pc \in [Procs -> Labels] /\ ctx \in [Procs -> Contexts]
  BY DEF TypeOK, RunShapes
<1> SUFFICES ASSUME ~torn, \A q \in Procs : Undisturbed(q)
             PROVE  Covered' /\ \A q \in Procs : Undisturbed(q)'
  BY DEF ItemsInv
<1>2. ASSUME NEW q \in Procs PROVE Undisturbed(q)'
  <2>1. CASE q = p
    BY <1>1, <2>1 DEF Undisturbed, Grade, WrittenBy
  <2>2. CASE q # p
    BY <1>1, <2>2 DEF Undisturbed, Grade, WrittenBy, LostRace
  <2> QED BY <2>1, <2>2
<1>3. \A q \in Procs : pc'[q] # "save"
  BY <1>1 DEF WrittenBy, LostRace
<1>4. \A q \in Procs \ {p} : Renewing(q) => Renewing(q)'
  BY <1>1 DEF Renewing, WrittenBy, LostRace
<1>5. refs' = OpenOf(items) => refs' = OpenOf(items')
  BY DEF OpenOf
<1> QED BY <1>2, <1>3, <1>4, <1>5 DEF Covered, OpenOf

(* The items are read by a run that replaces them.                         *)
LEMMA ItemsScan ==
    ASSUME TypeOK, ItemsInv, NEW p \in Procs, Scan(p)
    PROVE  ItemsInv'
<1> DEFINE old == {i \in SonarItems : items[i] # "absent"}
           new == Raised[ctx[p].doc]
           c == [ctx[p] EXCEPT !.seen = items, !.todo = old \cup new]
<1>1. pc \in [Procs -> Labels] /\ ctx \in [Procs -> Contexts] /\ items \in [Items -> Status]
  BY DEF TypeOK, RunShapes
<1>2. /\ ctx' = [ctx EXCEPT ![p] = c] /\ UNCHANGED <<items, torn>>
      /\ pc' = [pc EXCEPT ![p] = IF old \cup new = {} THEN "commit" ELSE "write"]
  BY <1>1 DEF Scan, Goto, itemVars
<1>3. c.seen = items /\ c.todo = old \cup new /\ c.doc = ctx[p].doc
  <2>1. ctx[p] \in Contexts
    BY <1>1
  <2> HIDE DEF old, new
  <2> QED BY <2>1 DEF Contexts
<1> HIDE DEF c
<1> SUFFICES ASSUME ~torn, \A q \in Procs : Undisturbed(q)
             PROVE  Covered' /\ \A q \in Procs : Undisturbed(q)'
  BY <1>2 DEF ItemsInv
<1>4. Renewing(p)'
  BY <1>1, <1>2 DEF Renewing
<1>5. ASSUME NEW q \in Procs PROVE Undisturbed(q)'
  <2>1. CASE q = p
    <3>1. ctx'[p] = c
      BY <1>1, <1>2
    <3>2. \A i \in SonarItems : i \in old \/ items[i] = "absent"
      OBVIOUS
    <3>3. pc'[p] = "commit" => old \cup new = {}
      BY <1>1, <1>2
    <3> QED BY <1>2, <1>3, <2>1, <3>1, <3>2, <3>3 DEF Undisturbed
  <2>2. CASE q # p
    BY <1>1, <1>2, <2>2 DEF Undisturbed, Grade
  <2> QED BY <2>1, <2>2
<1> QED BY <1>4, <1>5 DEF Covered

(* Writing an item: what it has still to write is as it was.               *)
LEMMA ItemsWriteItem ==
    ASSUME TypeOK, ItemsInv, NEW p \in Procs, NEW j \in SonarItems, WriteItem(p, j)
    PROVE  ItemsInv'
<1> DEFINE c == [ctx[p] EXCEPT !.todo = @ \ {j}]
<1>1. /\ pc \in [Procs -> Labels] /\ ctx \in [Procs -> Contexts] /\ items \in [Items -> Status]
      /\ ctx[p] \in Contexts
  BY DEF TypeOK, RunShapes
<1>2. /\ ctx' = [ctx EXCEPT ![p] = c]
      /\ items' = [items EXCEPT ![j] = IF j \notin Raised[ctx[p].doc] THEN "absent"
                                       ELSE Kept(ctx[p].seen[j])]
      /\ pc' = [pc EXCEPT ![p] = IF ctx[p].todo = {j} THEN "commit" ELSE "write"]
      /\ torn' = (torn \/ \E q \in Procs \ {p} : Grade(q))
      /\ pc[p] = "write" /\ j \in ctx[p].todo
  BY <1>1 DEF WriteItem, Goto, Tear
<1>3. c.seen = ctx[p].seen /\ c.todo = ctx[p].todo \ {j} /\ c.doc = ctx[p].doc
  BY <1>1 DEF Contexts
<1> HIDE DEF c
<1>4. Renewing(p)'
  BY <1>1, <1>2 DEF Renewing
<1> SUFFICES ASSUME ~torn' PROVE \A q \in Procs : Undisturbed(q)'
  BY <1>4 DEF ItemsInv, Covered
<1>5. Undisturbed(p) /\ Grade(p) /\ \A q \in Procs \ {p} : ~Grade(q)
  BY <1>2 DEF ItemsInv, Grade
<1>6. \A q \in Procs \ {p} : ~Grade(q)'
  BY <1>1, <1>2, <1>5 DEF Grade
<1>7. Undisturbed(p)'
  <2>1. ctx'[p] = c
    BY <1>1, <1>2
  <2>2. \A n \in Notes : items'[n] = c.seen[n]
    <3>1. \A n \in Notes : n # j
      BY ItemsAssumption
    <3> QED BY <1>1, <1>2, <1>3, <1>5, <3>1 DEF Undisturbed, Items
  <2>3. ASSUME NEW i \in SonarItems
        PROVE  items'[i] = IF i \in c.todo THEN c.seen[i]
                           ELSE IF i \in Raised[c.doc] THEN Kept(c.seen[i]) ELSE "absent"
    <3>0. i \in Items
      BY DEF Items
    <3>1. CASE i = j
      BY <1>1, <1>2, <1>3, <3>0, <3>1
    <3>2. CASE i # j
      <4>1. items'[i] = items[i]
        BY <1>1, <1>2, <3>0, <3>2
      <4>2. items[i] = IF i \in ctx[p].todo THEN ctx[p].seen[i]
                       ELSE IF i \in Raised[ctx[p].doc] THEN Kept(ctx[p].seen[i]) ELSE "absent"
        BY <1>5 DEF Undisturbed
      <4> QED BY <1>3, <3>2, <4>1, <4>2
    <3> QED BY <3>1, <3>2
  <2>4. pc'[p] = "commit" => c.todo = {}
    BY <1>1, <1>2, <1>3
  <2> QED BY <2>1, <2>2, <2>3, <2>4 DEF Undisturbed
<1> QED BY <1>6, <1>7 DEF Undisturbed

(* The commit: the list it has made is what is open.                       *)
LEMMA ItemsCommit ==
    ASSUME TypeOK, ItemsInv, NEW p \in Procs, Commit(p)
    PROVE  ItemsInv'
<1>1. WrittenBy(p) /\ UNCHANGED <<items, torn>> /\ refs' = GradedRefs(ctx[p]) /\ pc[p] = "commit"
  BY DEF Commit
<1>2. ASSUME ~torn PROVE GradedRefs(ctx[p]) = OpenOf(items)
  <2>1. Undisturbed(p) /\ Grade(p)
    BY <1>1, <1>2 DEF ItemsInv, Grade
  <2>2. ctx[p].doc \in Docs /\ Raised[ctx[p].doc] \subseteq SonarItems
    BY <1>1, ContextFields, RaisedTypes
  <2>3. \A n \in Notes : items[n] = ctx[p].seen[n]
    BY <2>1 DEF Undisturbed
  <2>4. \A i \in SonarItems :
            items[i] = IF i \in Raised[ctx[p].doc] THEN Kept(ctx[p].seen[i]) ELSE "absent"
    BY <1>1, <2>1 DEF Undisturbed
  <2>5. \A n \in Notes : n \notin SonarItems
    BY ItemsAssumption
  <2>6. \A i \in SonarItems :
            items[i] = "open" <=> i \in Raised[ctx[p].doc] /\ ctx[p].seen[i] # "closed"
    BY <2>4 DEF Kept
  <2>7. \A i \in Items : i \in GradedRefs(ctx[p]) <=> items[i] = "open"
    BY <2>2, <2>3, <2>5, <2>6 DEF GradedRefs, Items
  <2>8. GradedRefs(ctx[p]) \subseteq Items
    BY <2>2 DEF GradedRefs, Items
  <2> QED BY <2>7, <2>8 DEF OpenOf
<1> QED BY <1>1, <1>2, CopyWritten

(* A copy is written that is right, or somebody else will correct it.      *)
LEMMA ItemsSave ==
    ASSUME TypeOK, ItemsInv, NEW p \in Procs, Save(p)
    PROVE  ItemsInv'
<1>1. WrittenBy(p) /\ UNCHANGED <<items, torn>> /\ refs' = ctx[p].found /\ pc[p] = "save"
  BY DEF Save
<1>2. ASSUME ~torn
      PROVE  refs' = OpenOf(items) \/ \E q \in Procs \ {p} : Renewing(q)
  BY <1>1, <1>2 DEF ItemsInv, Covered, Renewing
<1> QED BY <1>1, <1>2, CopyWritten

(* The open items are read to be copied.                                   *)
LEMMA ItemsRefresh ==
    ASSUME TypeOK, ItemsInv, NEW p \in Procs, Refresh(p)
    PROVE  ItemsInv'
<1> DEFINE c == [ctx[p] EXCEPT !.found = Found(p)]
<1>1. pc \in [Procs -> Labels] /\ ctx \in [Procs -> Contexts] /\ ctx[p] \in Contexts
  BY DEF TypeOK, RunShapes
<1>2. /\ ctx' = [ctx EXCEPT ![p] = c] /\ UNCHANGED <<items, torn>>
      /\ pc' = [pc EXCEPT ![p] = "save"]
  BY <1>1 DEF Refresh, Goto, itemVars
<1>3. c.found = OpenOf(items)
  BY <1>1 DEF Contexts, Found
<1> HIDE DEF c
<1>4. Renewing(p)'
  BY <1>1, <1>2, <1>3 DEF Renewing, OpenOf
<1>5. ASSUME NEW q \in Procs, Undisturbed(q) PROVE Undisturbed(q)'
  <2>1. CASE q = p
    BY <1>1, <1>2, <2>1 DEF Undisturbed, Grade
  <2>2. CASE q # p
    BY <1>1, <1>2, <1>5, <2>2 DEF Undisturbed, Grade
  <2> QED BY <2>1, <2>2
<1> QED BY <1>2, <1>4, <1>5 DEF ItemsInv, Covered

(* What people do to the contract item: mark_signed copies the items again.*)
LEMMA ItemsReviewing ==
    ASSUME TypeOK, ItemsInv, Reviewing
    PROVE  ItemsInv'
<1> USE DEF itemVars, inVars, procVars
<1>1. CASE MarkSigned
  <2>1. /\ pc' = [q \in Procs |-> LostRace(q)] /\ UNCHANGED <<items, torn, ctx>>
        /\ refs' = OpenOf(items)
    BY <1>1 DEF MarkSigned, Move, Written
  <2>2. pc \in [Procs -> Labels]
    BY DEF TypeOK, RunShapes
  <2>3. \A q \in Procs : pc'[q] # "save"
    BY <2>1, <2>2 DEF LostRace
  <2>4. \A q \in Procs : Undisturbed(q) => Undisturbed(q)'
    BY <2>1, <2>2 DEF Undisturbed, Grade, LostRace
  <2> QED BY <2>1, <2>3, <2>4 DEF ItemsInv, Covered, OpenOf
<1>2. CASE Reject \/ SendForSignature \/ Activate \/ Close \/ Reopen
  BY <1>2, ItemsAside DEF Reject, SendForSignature, Activate, Close, Reopen, Move, Written
<1>3. CASE Approve \/ SendBack \/ Assign \/ AskPi \/ PiAnswered
  BY <1>3, ItemsAside DEF Approve, Approval, SendBack, Assign, AskPi, PiAnswered, PiRequest, Written
<1>4. CASE CancelEsign \/ Post \/ TermNears \/ AdvanceTerm
  BY <1>4, ItemsAside DEF CancelEsign, Post, TermNears, AdvanceTerm, Written
<1>5. CASE \E o \in Offices : OfficeApprove(o) \/ Escalate(o)
  BY <1>5, ItemsAside DEF OfficeApprove, Approval, Escalate, Written
<1>6. CASE \E value \in BOOLEAN, end \in Terms : Patch(value, end)
  BY <1>6, ItemsAside DEF Patch, Written
<1> QED BY <1>1, <1>2, <1>3, <1>4, <1>5, <1>6 DEF Reviewing

(* Every step keeps it.                                                    *)
LEMMA ItemsStep == TypeOK /\ ItemsInv /\ [Next]_vars => ItemsInv'
<1> SUFFICES ASSUME TypeOK, ItemsInv, [Next]_vars PROVE ItemsInv'
  OBVIOUS
<1> USE DEF itemVars, inVars, procVars
<1>0. pc \in [Procs -> Labels] /\ ctx \in [Procs -> Contexts]
  BY DEF TypeOK, RunShapes
<1>1. CASE UNCHANGED vars
  BY <1>1, ItemsAside DEF vars
<1>2. CASE Reviewing
  BY <1>2, ItemsReviewing
<1>3. CASE Arriving
  BY <1>3, ItemsAside DEF Arriving, Analyse, Upload, Reconcile, Redeliver, Lose, Requeue, Written
<1>4. ASSUME NEW p \in Intakes, NEW d \in Docs, Receive(p, d) PROVE ItemsInv'
  <2>1. CASE AlreadyReviewed(d)
    BY <1>4, <2>1, ItemsAside DEF Receive
  <2>2. CASE ~AlreadyReviewed(d)
    <3>1. PICK l \in {"create", "scan"} : Begin(p, l, Grading(d, version[d], ReasonFor(d)))
      BY <1>4, <2>2 DEF Receive
    <3>2. p \in Procs /\ UNCHANGED <<items, refs, torn>>
      BY <1>4 DEF Receive, Procs
    <3> QED BY <3>1, <3>2, ItemsBeside DEF Begin, Goto
  <2> QED BY <2>1, <2>2
<1>5. ASSUME NEW p \in Callers, Rescore(p) PROVE ItemsInv'
  BY <1>5, ItemsBeside DEF Rescore, Begin, Goto, Procs
<1>6. ASSUME NEW p \in Callers, NEW i \in Items, AddItem(p, i) PROVE ItemsInv'
  BY <1>6, ItemWritten DEF AddItem, Begin, Goto, Procs
<1>7. ASSUME NEW p \in Callers, NEW i \in Items, NEW to, EditItem(p, i, to) PROVE ItemsInv'
  BY <1>7, ItemsBeside DEF EditItem, Begin, Goto, Procs
<1>8. CASE Starting
  BY <1>4, <1>5, <1>6, <1>7, <1>8 DEF Starting
<1>9. ASSUME NEW p \in Procs, CreateContract(p) PROVE ItemsInv'
  <2>1. ctx' = [ctx EXCEPT ![p] = ctx[p]]
    BY <1>0, <1>9 DEF CreateContract
  <2> QED BY <1>9, <2>1, ItemsBeside DEF CreateContract, Goto
<1>10. ASSUME NEW p \in Procs, PutItem(p) PROVE ItemsInv'
  BY <1>10, ItemWritten DEF PutItem, Goto
<1>11. ASSUME NEW p \in Procs, Crash(p) PROVE ItemsInv'
  <2>1. CASE torn'
    BY <2>1 DEF ItemsInv
  <2>2. CASE ~torn'
    <3>1. pc[p] \notin {"write", "commit", "refresh", "save"} /\ ~torn
      BY <1>11, <2>2 DEF Crash
    <3> QED BY <1>11, <3>1, ItemsBeside DEF Crash, Goto
  <2> QED BY <2>1, <2>2 DEF ItemsInv
<1>12. ASSUME NEW p \in Procs, GoOn(p) PROVE ItemsInv'
  BY <1>9, <1>10, <1>12, ItemsScan, ItemsWriteItem, ItemsCommit, ItemsSave, ItemsRefresh DEF GoOn
<1> QED BY <1>1, <1>2, <1>3, <1>8, <1>11, <1>12 DEF Next

(* Nothing is open, and nothing is copied, at the start.                   *)
LEMMA ItemsInit == Init => ItemsInv
BY DEF Init, ItemsInv, Covered, OpenOf, NoItems, Undisturbed, Grade

(* workflow.py:1067-1079.  When nobody is changing them the contract       *)
(* counts the items that are open, however edits and rescores interleave,  *)
(* unless an item was written under a rescore or a run crashed halfway.    *)
THEOREM ItemsAreCounted == Safe => []OpenItemsCounted
<1>1. ItemsInv => OpenItemsCounted
  BY DEF ItemsInv, Covered, Renewing, OpenItemsCounted, Quiet
<1> QED BY <1>1, ItemsInit, ItemsStep, TypeCorrect, PTL DEF Safe

(* workflow.py:2336-2358.  With the same proviso, an item somebody closed  *)
(* is only opened by a person.                                             *)
THEOREM ClosedItemsStay == Safe => ClosedItemsKept
<1> DEFINE Stays == \A i \in Items :
                        items[i] = "closed" /\ items'[i] = "open" /\ ~torn' =>
                            \E p \in Callers : pc[p] = "put" /\ ctx[p].item = i
<1>1. TypeOK /\ ItemsInv /\ [Next]_vars => Stays
  <2> SUFFICES ASSUME TypeOK, ItemsInv, [Next]_vars, NEW i \in Items,
                      items[i] = "closed", items'[i] = "open", ~torn'
               PROVE  \E p \in Callers : pc[p] = "put" /\ ctx[p].item = i
    OBVIOUS
  <2> USE DEF itemVars
  <2>0. items \in [Items -> Status] /\ items' # items
    BY DEF TypeOK, RunShapes
  <2>1. CASE UNCHANGED vars
    BY <2>0, <2>1 DEF vars
  <2>2. CASE Reviewing
    BY <2>0, <2>2
    DEF Reviewing, Approve, OfficeApprove, Approval, SendBack, Escalate, Reject,
        SendForSignature, MarkSigned, Activate, Close, Reopen, Move, CancelEsign, Assign, AskPi,
        PiAnswered, PiRequest, AdvanceTerm, Patch, Post, TermNears
  <2>3. CASE Arriving
    BY <2>0, <2>3 DEF Arriving, Analyse, Upload, Reconcile, Redeliver, Lose, Requeue
  <2>4. CASE Starting
    <3>1. \E p \in Callers, j \in Items : AddItem(p, j)
      BY <2>0, <2>4 DEF Starting, Receive, Rescore, EditItem
    <3> QED BY <2>0, <3>1 DEF AddItem
  <2>5. ASSUME NEW p \in Procs, NEW j \in SonarItems, WriteItem(p, j) PROVE FALSE
    <3>1. i = j /\ items'[j] = IF j \notin Raised[ctx[p].doc] THEN "absent"
                               ELSE Kept(ctx[p].seen[j])
      BY <2>0, <2>5 DEF WriteItem
    <3>2. Undisturbed(p) /\ Grade(p) /\ j \in ctx[p].todo
      BY <2>5 DEF WriteItem, Tear, ItemsInv, Grade
    <3>3. ctx[p].seen[j] = "closed"
      BY <3>1, <3>2 DEF Undisturbed
    <3> QED BY <3>1, <3>3 DEF Kept
  <2>6. ASSUME NEW p \in Procs, PutItem(p)
        PROVE  \E q \in Callers : pc[q] = "put" /\ ctx[q].item = i
    <3>1. p \in Callers
      BY <2>6 DEF PutItem, TypeOK, ContextOK, Procs
    <3> QED BY <2>0, <2>6, <3>1 DEF PutItem
  <2>7. ASSUME NEW p \in Procs, GoOn(p) \/ Crash(p)
        PROVE  PutItem(p) \/ \E j \in SonarItems : WriteItem(p, j)
    BY <2>0, <2>7 DEF GoOn, Crash, CreateContract, Scan, Commit, Refresh, Save
  <2> QED BY <2>1, <2>2, <2>3, <2>4, <2>5, <2>6, <2>7 DEF Next
<1> QED BY <1>1, ItemsInit, ItemsStep, TypeCorrect, PTL DEF Safe, ClosedItemsKept

(***************************************************************************)
(* The automations, for any rules, sweeps, administrators and bounds.      *)
(* What a rule says has at most MAX_ACTIONS actions; which faults may      *)
(* happen is part of each theorem.                                         *)
(***************************************************************************)

PCs == {"idle", "check", "claim", "act", "undo", "run", "count"}

WorkStates == [pc : PCs, todo : SUBSET Rules, key : Keys, rule : Rules \cup {NoWork.rule}, n : Nat, copy : Deals]

(* A firing is of a rule, and where it has an action under way, of one the *)
(* rule has.                                                               *)
SoundWork(w) ==
    /\ w \in WorkStates
    /\ w.pc \notin {"idle", "check"} => w.rule \in Rules /\ w.n >= 1
    /\ w.pc \in {"act", "undo"} => w.n <= Len(body[w.rule].actions)

WorkShapes ==
    /\ deal \in Deals
    /\ body \in [Rules -> Bodies]
    /\ posted \in 0 .. MaxEntries /\ handled \in 0 .. posted
    /\ DOMAIN proc = AutoProcs /\ \A p \in AutoProcs : SoundWork(proc[p])
    /\ ~(proc["stream"].pc = "idle") => handled < posted
    /\ ran \in [ActionMarks -> Nat]
    /\ marks \subseteq ActionMarks \cup RunMarks
    /\ skipped \subseteq ActionMarks

LEMMA KeysAre == 1 \in Keys /\ 1 .. MaxStays \subseteq Keys /\ 1 .. MaxEntries \subseteq Keys /\ Keys \subseteq Nat
BY AutoBounds DEF Keys

LEMMA FreshIs == Fresh \in Deals
BY AutoBounds DEF Fresh, Deals

LEMMA IdleIs == NoWork \in WorkStates /\ NoWork.pc = "idle" /\ SoundWork(NoWork)
<1>1. NoWork \in WorkStates
  BY KeysAre, FreshIs DEF NoWork, WorkStates, PCs
<1>2. NoWork.pc = "idle"
  BY DEF NoWork
<1> QED BY <1>1, <1>2 DEF SoundWork

LEMMA StreamIs == "stream" \in AutoProcs /\ "stream" \notin Sweeps
BY SweepsAssumption DEF AutoProcs

(* What a rule does is one of the kinds of action, and there are at most   *)
(* MAX_ACTIONS of them.                                                    *)
LEMMA RulesSay ==
    ASSUME body \in [Rules -> Bodies], NEW r \in Rules
    PROVE  /\ Len(body[r].actions) \in Nat /\ Len(body[r].actions) <= MaxActions
           /\ \A n \in 1 .. Len(body[r].actions) : body[r].actions[n] \in ActionTypes
<1>1. body[r] \in RuleBodies /\ Len(body[r].actions) <= 5
  BY BodiesAssumption
<1>2. body[r].actions \in Seq(ActionTypes)
  BY <1>1 DEF RuleBodies
<1> QED BY <1>1, <1>2 DEF MaxActions

LEMMA MarkIs ==
    ASSUME WorkShapes, NEW p \in AutoProcs, proc[p].pc \in {"claim", "act", "undo"},
           proc[p].n <= Len(body[proc[p].rule].actions)
    PROVE  Mark(p) \in ActionMarks /\ Mark(p) \notin RunMarks
<1>1. /\ proc[p] \in WorkStates /\ proc[p].rule \in Rules /\ proc[p].n >= 1
  BY DEF WorkShapes, SoundWork
<1>2. proc[p].n \in Nat /\ proc[p].key \in Keys
  BY <1>1 DEF WorkStates
<1>3. Len(body[proc[p].rule].actions) \in Nat /\ Len(body[proc[p].rule].actions) <= MaxActions
  BY <1>1, RulesSay DEF WorkShapes
<1>4. proc[p].n \in 1 .. MaxActions
  BY <1>1, <1>2, <1>3 DEF MaxActions
<1>5. proc[p].n # 0
  BY <1>1, <1>2
<1> QED BY <1>1, <1>2, <1>4, <1>5 DEF Mark, ActionMarks, RunMarks

(* One invocation has moved.                                               *)
LEMMA OneWorks ==
    ASSUME WorkShapes, NEW p \in AutoProcs, NEW w, proc' = [proc EXCEPT ![p] = w]
    PROVE  /\ proc'[p] = w /\ \A s \in AutoProcs \ {p} : proc'[s] = proc[s]
           /\ DOMAIN proc' = AutoProcs
BY DEF WorkShapes

(* What the steps of an invocation make of its state.                      *)
Begun(due, k, c) == [NoWork EXCEPT !.pc = "check", !.todo = due, !.key = k, !.copy = c]
Taken(w, r)      == [w EXCEPT !.todo = @ \ {r}, !.rule = r, !.n = 1]
Onward(w, c)     == [w EXCEPT !.pc = "claim", !.n = w.n + 1, !.copy = c]
At(w, at)        == [w EXCEPT !.pc = at]
Next1(w)         == [w EXCEPT !.n = w.n + 1]

LEMMA BegunIs ==
    ASSUME NEW due \in SUBSET Rules, NEW k \in Keys, NEW c \in Deals
    PROVE  Begun(due, k, c) \in WorkStates /\ Begun(due, k, c).pc = "check"
           /\ Begun(due, k, c).todo = due /\ Begun(due, k, c).key = k /\ Begun(due, k, c).copy = c
BY IdleIs DEF Begun, WorkStates, PCs

LEMMA TakenIs ==
    ASSUME NEW w \in WorkStates, NEW r \in Rules
    PROVE  /\ Taken(w, r) \in WorkStates /\ Taken(w, r).pc = w.pc /\ Taken(w, r).rule = r /\ Taken(w, r).n = 1
           /\ Taken(w, r).key = w.key /\ Taken(w, r).todo = w.todo \ {r} /\ Taken(w, r).copy = w.copy
BY DEF Taken, WorkStates, PCs

LEMMA OnwardIs ==
    ASSUME NEW w \in WorkStates, NEW c \in Deals
    PROVE  /\ Onward(w, c) \in WorkStates /\ Onward(w, c).pc = "claim" /\ Onward(w, c).n = w.n + 1
           /\ Onward(w, c).rule = w.rule /\ Onward(w, c).key = w.key /\ Onward(w, c).todo = w.todo
<1>1. PICK k \in Nat : k = w.n + 1
  BY DEF WorkStates
<1>2. Onward(w, c) = [w EXCEPT !.pc = "claim", !.n = k, !.copy = c]
  BY <1>1 DEF Onward
<1>3. /\ Onward(w, c) \in WorkStates /\ Onward(w, c).pc = "claim" /\ Onward(w, c).n = k
      /\ Onward(w, c).rule = w.rule /\ Onward(w, c).key = w.key /\ Onward(w, c).todo = w.todo
  BY <1>2 DEF WorkStates, PCs
<1> QED BY <1>1, <1>3

LEMMA AtIs ==
    ASSUME NEW w \in WorkStates, NEW at \in PCs
    PROVE  /\ At(w, at) \in WorkStates /\ At(w, at).pc = at /\ At(w, at).n = w.n /\ At(w, at).copy = w.copy
           /\ At(w, at).rule = w.rule /\ At(w, at).key = w.key /\ At(w, at).todo = w.todo
BY DEF At, WorkStates, PCs

LEMMA Next1Is ==
    ASSUME NEW w \in WorkStates
    PROVE  /\ Next1(w) \in WorkStates /\ Next1(w).pc = w.pc /\ Next1(w).n = w.n + 1
           /\ Next1(w).rule = w.rule /\ Next1(w).key = w.key /\ Next1(w).todo = w.todo
BY DEF Next1, WorkStates

(***************************************************************************)
(* The steps, as they change one invocation                                *)
(***************************************************************************)

(* An invocation that begins.                                              *)
LEMMA Beginning ==
    ASSUME WorkShapes, NEW p \in AutoProcs, (p = "stream" /\ BeginEntry) \/ BeginSweep(p)
    PROVE  /\ \A s \in AutoProcs \ {p} : proc'[s] = proc[s]
           /\ DOMAIN proc' = AutoProcs /\ SoundWork(proc'[p])
           /\ proc[p].pc = "idle" /\ proc'[p].pc = "check"
           /\ \A r \in proc'[p].todo : body[r].trigger = IF p = "stream" THEN "event" ELSE "time"
           /\ p = "stream" => handled < posted
           /\ UNCHANGED <<deal, body, rules, posted, handled, marks, edit, ran, skipped, autoFaults>>
<1>1. CASE p = "stream" /\ BeginEntry
  <2> DEFINE due == {r \in Rules : rules[r].on /\ body[r].trigger = "event"}
  <2>1. proc' = [proc EXCEPT !["stream"] = Begun(due, handled + 1, deal)] /\ handled < posted
    BY <1>1 DEF BeginEntry, Begun
  <2>2. handled + 1 \in Keys /\ deal \in Deals /\ due \in SUBSET Rules
    BY <2>1, KeysAre, AutoBounds DEF WorkShapes
  <2>3. \A r \in due : body[r].trigger = "event"
    OBVIOUS
  <2> HIDE DEF due
  <2>4. /\ Begun(due, handled + 1, deal) \in WorkStates /\ Begun(due, handled + 1, deal).pc = "check"
        /\ Begun(due, handled + 1, deal).todo = due
    BY <2>2, BegunIs
  <2>5. /\ proc'[p] = Begun(due, handled + 1, deal) /\ \A s \in AutoProcs \ {p} : proc'[s] = proc[s]
        /\ DOMAIN proc' = AutoProcs
    BY <1>1, <2>1, OneWorks
  <2>6. UNCHANGED <<deal, body, rules, posted, handled, marks, edit, ran, skipped, autoFaults>> /\ proc[p].pc = "idle"
    BY <1>1 DEF BeginEntry
  <2> QED BY <1>1, <2>1, <2>3, <2>4, <2>5, <2>6 DEF SoundWork
<1>2. CASE BeginSweep(p)
  <2> DEFINE due == {r \in Rules : rules[r].on /\ body[r].trigger = "time" /\ Qualifies(deal)}
  <2>1. proc' = [proc EXCEPT ![p] = Begun(due, deal.stay, deal)]
    BY <1>2 DEF BeginSweep, Begun
  <2>2. deal.stay \in Keys /\ deal \in Deals /\ due \in SUBSET Rules
    BY KeysAre DEF WorkShapes, Deals
  <2>3. \A r \in due : body[r].trigger = "time"
    OBVIOUS
  <2> HIDE DEF due
  <2>4. /\ Begun(due, deal.stay, deal) \in WorkStates /\ Begun(due, deal.stay, deal).pc = "check"
        /\ Begun(due, deal.stay, deal).todo = due
    BY <2>2, BegunIs
  <2>5. /\ proc'[p] = Begun(due, deal.stay, deal) /\ \A s \in AutoProcs \ {p} : proc'[s] = proc[s]
        /\ DOMAIN proc' = AutoProcs
    BY <2>1, OneWorks
  <2>6. /\ UNCHANGED <<deal, body, rules, posted, handled, marks, edit, ran, skipped, autoFaults>>
        /\ proc[p].pc = "idle" /\ p # "stream"
    BY <1>2, SweepsAssumption DEF BeginSweep
  <2> QED BY <2>3, <2>4, <2>5, <2>6 DEF SoundWork
<1> QED BY <1>1, <1>2

SameFiring(p) ==
    proc'[p].rule = proc[p].rule /\ proc'[p].key = proc[p].key /\ proc'[p].todo = proc[p].todo

OthersWork(p) == /\ \A s \in AutoProcs \ {p} : proc'[s] = proc[s]
                 /\ DOMAIN proc' = AutoProcs /\ SoundWork(proc'[p])
                 /\ proc'[p].todo \subseteq proc[p].todo

(* An invocation that fails is idle, or goes on with the next rule.        *)
LEMMA Failing ==
    ASSUME WorkShapes, NEW p \in AutoProcs, Fail(p)
    PROVE  OthersWork(p) /\ proc'[p].pc \in {"idle", "check"}
<1>1. proc' = [proc EXCEPT ![p] = NoWork] \/ proc' = [proc EXCEPT ![p] = At(proc[p], "check")]
  BY DEF Fail, AfterFailure, At
<1>2. proc[p] \in WorkStates
  BY DEF WorkShapes, SoundWork
<1>3. /\ At(proc[p], "check") \in WorkStates /\ At(proc[p], "check").pc = "check"
      /\ At(proc[p], "check").todo = proc[p].todo
  BY <1>2, AtIs DEF PCs
<1>4. CASE proc' = [proc EXCEPT ![p] = NoWork]
  BY <1>4, OneWorks, IdleIs DEF OthersWork, NoWork
<1>5. CASE proc' = [proc EXCEPT ![p] = At(proc[p], "check")]
  <2>1. /\ proc'[p] = At(proc[p], "check") /\ \A s \in AutoProcs \ {p} : proc'[s] = proc[s]
        /\ DOMAIN proc' = AutoProcs
    BY <1>5, OneWorks
  <2> QED BY <1>3, <2>1 DEF SoundWork, OthersWork
<1> QED BY <1>1, <1>4, <1>5

LEMMA TakingRules ==
    ASSUME WorkShapes, NEW p \in AutoProcs, NextRule(p)
    PROVE  /\ OthersWork(p) /\ proc[p].pc = "check" /\ proc'[p].pc \in {"check", "claim"}
           /\ proc'[p].rule \in proc[p].todo /\ proc'[p].n = 1 /\ proc'[p].key = proc[p].key
           /\ UNCHANGED <<deal, body, rules, posted, handled, marks, edit, ran, skipped, autoFaults>>
<1>1. PICK r \in proc[p].todo :
         proc' = [proc EXCEPT ![p] = IF ~ConditionsHold(r, proc[p].copy) \/ (p \in Sweeps /\ Complete(r, proc[p].key))
                                     THEN Taken(proc[p], r) ELSE At(Taken(proc[p], r), "claim")]
  BY DEF NextRule, Taken, At
<1>2. proc[p] \in WorkStates /\ r \in Rules
  BY DEF WorkShapes, SoundWork, WorkStates
<1>3. /\ Taken(proc[p], r) \in WorkStates /\ Taken(proc[p], r).pc = proc[p].pc /\ Taken(proc[p], r).rule = r
      /\ Taken(proc[p], r).n = 1 /\ Taken(proc[p], r).todo = proc[p].todo \ {r} /\ Taken(proc[p], r).key = proc[p].key
  BY <1>2, TakenIs
<1>4. /\ At(Taken(proc[p], r), "claim") \in WorkStates /\ At(Taken(proc[p], r), "claim").pc = "claim"
      /\ At(Taken(proc[p], r), "claim").rule = r /\ At(Taken(proc[p], r), "claim").n = 1
      /\ At(Taken(proc[p], r), "claim").todo = proc[p].todo \ {r}
      /\ At(Taken(proc[p], r), "claim").key = proc[p].key
  BY <1>3, AtIs DEF PCs
<1>5. proc[p].pc = "check" /\ UNCHANGED <<deal, body, rules, posted, handled, marks, edit, ran, skipped, autoFaults>>
  BY DEF NextRule
<1>6. CASE proc' = [proc EXCEPT ![p] = Taken(proc[p], r)]
  <2>1. /\ proc'[p] = Taken(proc[p], r) /\ \A s \in AutoProcs \ {p} : proc'[s] = proc[s]
        /\ DOMAIN proc' = AutoProcs
    BY <1>6, OneWorks
  <2> QED BY <1>2, <1>3, <1>5, <2>1 DEF SoundWork, OthersWork
<1>7. CASE proc' = [proc EXCEPT ![p] = At(Taken(proc[p], r), "claim")]
  <2>1. /\ proc'[p] = At(Taken(proc[p], r), "claim") /\ \A s \in AutoProcs \ {p} : proc'[s] = proc[s]
        /\ DOMAIN proc' = AutoProcs
    BY <1>7, OneWorks
  <2> QED BY <1>2, <1>4, <1>5, <2>1 DEF SoundWork, OthersWork
<1> QED BY <1>1, <1>6, <1>7

(* A step that takes a firing to at leaves it the same firing.             *)
LEMMA GoingOn ==
    ASSUME WorkShapes, NEW p \in AutoProcs, NEW at \in PCs,
           proc' = [proc EXCEPT ![p] = At(proc[p], at)], body' = body,
           at \notin {"idle", "check"} => proc[p].pc \notin {"idle", "check"},
           at \in {"act", "undo"} => proc[p].n <= Len(body[proc[p].rule].actions)
    PROVE  OthersWork(p) /\ SameFiring(p) /\ proc'[p].pc = at /\ proc'[p].n = proc[p].n
<1>1. proc[p] \in WorkStates
  BY DEF WorkShapes, SoundWork
<1>2. /\ At(proc[p], at) \in WorkStates /\ At(proc[p], at).pc = at /\ At(proc[p], at).n = proc[p].n
      /\ At(proc[p], at).rule = proc[p].rule /\ At(proc[p], at).key = proc[p].key /\ At(proc[p], at).todo = proc[p].todo
  BY <1>1, AtIs
<1>3. /\ proc'[p] = At(proc[p], at) /\ \A s \in AutoProcs \ {p} : proc'[s] = proc[s]
      /\ DOMAIN proc' = AutoProcs
  BY OneWorks
<1> QED BY <1>2, <1>3 DEF OthersWork, SoundWork, SameFiring, WorkShapes

LEMMA Claiming ==
    ASSUME WorkShapes, NEW p \in AutoProcs, ClaimAction(p)
    PROVE  /\ OthersWork(p) /\ proc[p].pc = "claim"
           /\ UNCHANGED <<deal, body, rules, posted, handled, edit, ran, skipped>>
           /\ \/ /\ SameFiring(p) /\ proc'[p].pc = "run" /\ proc'[p].n = proc[p].n
                 /\ proc[p].n > Len(body[proc[p].rule].actions) /\ marks' = marks
              \/ /\ SameFiring(p) /\ proc'[p].pc = "claim" /\ proc'[p].n = proc[p].n + 1
                 /\ proc[p].n <= Len(body[proc[p].rule].actions) /\ Mark(p) \in marks /\ marks' = marks
              \/ /\ SameFiring(p) /\ proc'[p].pc = "act" /\ proc'[p].n = proc[p].n
                 /\ proc[p].n <= Len(body[proc[p].rule].actions)
                 /\ Mark(p) \notin marks /\ marks' = marks \cup {Mark(p)}
              \/ proc'[p].pc \in {"idle", "check"} /\ marks' = marks /\ "error" \in AutoFaults
<1>1. /\ proc[p] \in WorkStates /\ proc[p].rule \in Rules /\ proc[p].n \in Nat /\ proc[p].n >= 1 /\ proc[p].pc = "claim"
      /\ UNCHANGED <<deal, body, rules, posted, handled, edit, ran, skipped>>
  BY DEF ClaimAction, WorkShapes, SoundWork, WorkStates
<1>2. Len(body[proc[p].rule].actions) \in Nat
  BY <1>1, RulesSay DEF WorkShapes
<1>3. CASE proc[p].n > Len(body[proc[p].rule].actions)
  <2>1. proc' = [proc EXCEPT ![p] = At(proc[p], "run")] /\ marks' = marks
    BY <1>3 DEF ClaimAction, At, WorkShapes
  <2> QED BY <1>1, <1>3, <2>1, GoingOn DEF PCs
<1>4. CASE ~(proc[p].n > Len(body[proc[p].rule].actions))
  <2>0. proc[p].n <= Len(body[proc[p].rule].actions)
    BY <1>1, <1>2, <1>4
  <2>1. CASE ~MayAct(Mark(p)) /\ proc' = [proc EXCEPT ![p] = Next1(proc[p])] /\ marks' = marks
    <3>1. /\ Next1(proc[p]) \in WorkStates /\ Next1(proc[p]).pc = proc[p].pc /\ Next1(proc[p]).n = proc[p].n + 1
          /\ Next1(proc[p]).rule = proc[p].rule /\ Next1(proc[p]).key = proc[p].key /\ Next1(proc[p]).todo = proc[p].todo
      BY <1>1, Next1Is
    <3>2. /\ proc'[p] = Next1(proc[p]) /\ \A s \in AutoProcs \ {p} : proc'[s] = proc[s]
          /\ DOMAIN proc' = AutoProcs
      BY <2>1, OneWorks
    <3> QED BY <1>1, <2>0, <2>1, <3>1, <3>2 DEF MayAct, OthersWork, SoundWork, SameFiring
  <2>2. CASE MayAct(Mark(p)) /\ proc' = [proc EXCEPT ![p] = At(proc[p], "act")] /\ marks' = marks \cup {Mark(p)}
    BY <1>1, <2>0, <2>2, GoingOn DEF PCs, MayAct
  <2>3. CASE Fail(p) /\ AutoFault("error") /\ marks' = marks
    BY <1>1, <2>3, Failing DEF AutoFault
  <2> QED BY <1>4, <2>1, <2>2, <2>3 DEF ClaimAction, At, Next1, WorkShapes
<1> QED BY <1>3, <1>4

LEMMA Acting ==
    ASSUME WorkShapes, NEW p \in AutoProcs, Act(p)
    PROVE  /\ OthersWork(p) /\ SameFiring(p) /\ proc[p].pc = "act" /\ deal' \in Deals
           /\ UNCHANGED <<body, rules, posted, handled, marks, edit>>
           /\ \/ /\ proc'[p].pc = "claim" /\ proc'[p].n = proc[p].n + 1
                 /\ \/ ran' = ran /\ skipped' = skipped \cup {Mark(p)}
                    \/ ran' = [ran EXCEPT ![Mark(p)] = ran[Mark(p)] + 1] /\ skipped' = skipped
                    \/ ran' = ran /\ skipped' = skipped /\ "unwritten" \in AutoFaults
              \/ /\ proc'[p].pc = "undo" /\ proc'[p].n = proc[p].n /\ skipped' = skipped
                 /\ \/ ran' = [ran EXCEPT ![Mark(p)] = ran[Mark(p)] + 1] /\ "lost_reply" \in AutoFaults
                    \/ ran' = ran /\ "error" \in AutoFaults
<1> DEFINE kind == body[proc[p].rule].actions[proc[p].n]
<1>1. /\ proc[p] \in WorkStates /\ proc[p].n \in Nat /\ proc[p].pc = "act"
      /\ proc[p].n <= Len(body[proc[p].rule].actions) /\ proc[p].copy \in Deals
      /\ UNCHANGED <<body, rules, posted, handled, marks, edit>>
  BY DEF Act, WorkShapes, SoundWork, WorkStates
<1>2. deal \in Deals /\ \A x \in Deals : [x EXCEPT !.state = "escalated"] \in Deals /\ [x EXCEPT !.owned = TRUE] \in Deals
  BY DEF WorkShapes, Deals
<1>3. Effect(kind) \in Deals
  <2> HIDE DEF kind
  <2> QED BY <1>2 DEF Effect
<1>4. \A c \in Deals : proc' = [proc EXCEPT ![p] = Onward(proc[p], c)] =>
                          OthersWork(p) /\ SameFiring(p) /\ proc'[p].pc = "claim" /\ proc'[p].n = proc[p].n + 1
  <2> SUFFICES ASSUME NEW c \in Deals, proc' = [proc EXCEPT ![p] = Onward(proc[p], c)]
               PROVE  OthersWork(p) /\ SameFiring(p) /\ proc'[p].pc = "claim" /\ proc'[p].n = proc[p].n + 1
    OBVIOUS
  <2>1. /\ Onward(proc[p], c) \in WorkStates /\ Onward(proc[p], c).pc = "claim" /\ Onward(proc[p], c).n = proc[p].n + 1
        /\ Onward(proc[p], c).rule = proc[p].rule /\ Onward(proc[p], c).key = proc[p].key
        /\ Onward(proc[p], c).todo = proc[p].todo
    BY <1>1, OnwardIs
  <2>2. /\ proc'[p] = Onward(proc[p], c) /\ \A s \in AutoProcs \ {p} : proc'[s] = proc[s]
        /\ DOMAIN proc' = AutoProcs
    BY OneWorks
  <2>3. proc[p].rule \in Rules /\ proc[p].n >= 1
    BY <1>1 DEF WorkShapes, SoundWork
  <2> QED BY <1>1, <2>1, <2>2, <2>3 DEF OthersWork, SoundWork, SameFiring
<1>5. proc' = [proc EXCEPT ![p] = At(proc[p], "undo")] =>
         OthersWork(p) /\ SameFiring(p) /\ proc'[p].pc = "undo" /\ proc'[p].n = proc[p].n
  BY <1>1, GoingOn DEF PCs
<1> HIDE DEF kind
<1>6. \/ /\ skipped' = skipped \cup {Mark(p)}
         /\ proc' = [proc EXCEPT ![p] = Onward(proc[p], proc[p].copy)] /\ UNCHANGED <<deal, ran>>
      \/ /\ deal' = Effect(kind) /\ ran' = [ran EXCEPT ![Mark(p)] = ran[Mark(p)] + 1] /\ skipped' = skipped
         /\ \/ proc' = [proc EXCEPT ![p] = Onward(proc[p], Effect(kind))]
            \/ proc' = [proc EXCEPT ![p] = Onward(proc[p], proc[p].copy)]
            \/ proc' = [proc EXCEPT ![p] = At(proc[p], "undo")] /\ "lost_reply" \in AutoFaults
      \/ /\ proc' = [proc EXCEPT ![p] = At(proc[p], "undo")] /\ "error" \in AutoFaults
         /\ UNCHANGED <<deal, ran, skipped>>
      \/ /\ proc' = [proc EXCEPT ![p] = Onward(proc[p], proc[p].copy)] /\ "unwritten" \in AutoFaults
         /\ UNCHANGED <<deal, ran, skipped>>
  BY DEF Act, AutoFault, Onward, At, kind, WorkShapes
<1> QED BY <1>1, <1>2, <1>3, <1>4, <1>5, <1>6

LEMMA Undoing ==
    ASSUME WorkShapes, NEW p \in AutoProcs, Undo(p)
    PROVE  /\ OthersWork(p) /\ proc[p].pc = "undo" /\ proc'[p].pc \in {"idle", "check"}
           /\ UNCHANGED <<deal, body, rules, posted, handled, edit, ran, skipped>>
           /\ \/ marks' = marks \ {Mark(p)}
              \/ marks' = marks /\ "undo" \in AutoFaults
BY Failing DEF Undo, AutoFault, MarksAfterError

LEMMA Completing ==
    ASSUME WorkShapes, NEW p \in AutoProcs, MarkRun(p)
    PROVE  /\ OthersWork(p) /\ proc[p].pc = "run" /\ proc'[p].pc \in {"idle", "check", "count"}
           /\ UNCHANGED <<deal, body, rules, posted, handled, edit, ran, skipped>>
           /\ \/ marks' = marks
              \/ marks' = marks \cup {<<proc[p].rule, proc[p].key, 0>>}
           /\ proc'[p].pc = "count" => SameFiring(p) /\ proc'[p].n = proc[p].n
           /\ proc[p].rule \in Rules /\ proc[p].key \in Keys
<1>1. proc[p] \in WorkStates /\ proc[p].pc = "run" /\ proc[p].rule \in Rules /\ proc[p].key \in Keys
      /\ UNCHANGED <<deal, body, rules, posted, handled, edit, ran, skipped>>
  BY DEF MarkRun, WorkShapes, SoundWork, WorkStates
<1>2. \A at \in {"check", "count"} : proc' = [proc EXCEPT ![p] = At(proc[p], at)] =>
         OthersWork(p) /\ SameFiring(p) /\ proc'[p].pc = at /\ proc'[p].n = proc[p].n
  BY <1>1, GoingOn DEF PCs
<1>3. \/ proc' = [proc EXCEPT ![p] = At(proc[p], "check")] /\ marks' = marks
      \/ /\ proc' = [proc EXCEPT ![p] = At(proc[p], "count")]
         /\ marks' = marks \cup {<<proc[p].rule, proc[p].key, 0>>}
      \/ Fail(p) /\ marks' = marks
  BY DEF MarkRun, At, WorkShapes
<1> QED BY <1>1, <1>2, <1>3, Failing

LEMMA Counting ==
    ASSUME WorkShapes, NEW p \in AutoProcs, CountRun(p)
    PROVE  /\ OthersWork(p) /\ proc[p].pc = "count" /\ proc'[p].pc \in {"idle", "check"}
           /\ UNCHANGED <<deal, body, posted, handled, marks, edit, ran, skipped>>
<1>1. proc[p].pc = "count" /\ UNCHANGED <<deal, body, posted, handled, marks, edit, ran, skipped>>
  BY DEF CountRun
<1>2. proc' = [proc EXCEPT ![p] = At(proc[p], "check")] => OthersWork(p) /\ proc'[p].pc = "check"
  BY <1>1, GoingOn DEF PCs
<1>3. proc' = [proc EXCEPT ![p] = At(proc[p], "check")] \/ Fail(p)
  BY DEF CountRun, At, WorkShapes
<1> QED BY <1>1, <1>2, <1>3, Failing

LEMMA Ending ==
    ASSUME WorkShapes, NEW p \in AutoProcs, Finish(p) \/ Killed(p)
    PROVE  /\ OthersWork(p) /\ proc[p].pc # "idle" /\ proc'[p].pc = "idle"
           /\ UNCHANGED <<deal, body, rules, posted, marks, edit, ran, skipped>>
           /\ \/ handled' = handled
              \/ p = "stream" /\ handled' = handled + 1
           /\ Killed(p) => handled' = handled /\ AutoFault(IF proc[p].pc \in {"act", "undo", "count"} THEN "killed_acting" ELSE "killed")
           /\ Finish(p) => proc[p].pc = "check"
<1>1. proc' = [proc EXCEPT ![p] = NoWork] /\ UNCHANGED <<deal, body, rules, posted, marks, edit, ran, skipped>>
  BY DEF Finish, Killed
<1>2. proc'[p] = NoWork /\ \A s \in AutoProcs \ {p} : proc'[s] = proc[s] /\ DOMAIN proc' = AutoProcs
  BY <1>1, OneWorks
<1>3. NoWork.pc = "idle" /\ NoWork \in WorkStates /\ NoWork.todo = {}
  BY IdleIs DEF NoWork
<1>4. OthersWork(p)
  BY <1>1, <1>2, <1>3, OneWorks DEF OthersWork, SoundWork
<1> QED BY <1>1, <1>2, <1>3, <1>4 DEF Finish, Killed

LEMMA ShapesInit == AutoInit => WorkShapes
<1> SUFFICES ASSUME AutoInit PROVE WorkShapes
  OBVIOUS
<1>1. DOMAIN proc = AutoProcs /\ \A p \in AutoProcs : proc[p] = NoWork
  BY DEF AutoInit
<1>2. \A p \in AutoProcs : SoundWork(proc[p]) /\ proc[p].pc = "idle"
  BY <1>1, IdleIs
<1>3. deal \in Deals /\ body \in [Rules -> Bodies] /\ posted = 0 /\ handled = 0 /\ marks = {} /\ skipped = {}
  BY FreshIs DEF AutoInit
<1>4. ran \in [ActionMarks -> Nat]
  BY DEF AutoInit
<1> QED BY <1>1, <1>2, <1>3, <1>4, StreamIs, AutoBounds DEF WorkShapes

(* One invocation moves, and the stream has something to hand over.        *)
LEMMA ShapesKeep ==
    ASSUME WorkShapes, NEW p \in AutoProcs, \A s \in AutoProcs \ {p} : proc'[s] = proc[s], DOMAIN proc' = AutoProcs,
           SoundWork(proc'[p]), body' = body, posted' = posted, deal' \in Deals,
           ran' \in [ActionMarks -> Nat], marks' \subseteq ActionMarks \cup RunMarks, skipped' \subseteq ActionMarks,
           \/ handled' = handled /\ ((p = "stream" /\ proc'[p].pc # "idle") => handled < posted)
           \/ p = "stream" /\ proc[p].pc # "idle" /\ proc'[p].pc = "idle" /\ handled' = handled + 1
    PROVE  WorkShapes'
<1>1. \A s \in AutoProcs : SoundWork(proc'[s])
  BY DEF WorkShapes
<1>2. \A s \in AutoProcs : SoundWork(proc[s])'
  BY <1>1 DEF SoundWork
<1>3. posted' \in 0 .. MaxEntries /\ handled' \in 0 .. posted'
  BY AutoBounds DEF WorkShapes
<1>4. ~(proc'["stream"].pc = "idle") => handled' < posted'
  BY StreamIs DEF WorkShapes
<1> QED BY <1>2, <1>3, <1>4 DEF WorkShapes

LEMMA ShapesNext == WorkShapes /\ [AutoNext]_autoVars => WorkShapes'
<1> SUFFICES ASSUME WorkShapes, [AutoNext]_autoVars PROVE WorkShapes'
  OBVIOUS
<1> USE DEF OthersWork
<1>1. ASSUME NEW p \in AutoProcs, (p = "stream" /\ BeginEntry) \/ BeginSweep(p) PROVE WorkShapes'
  BY <1>1, Beginning, ShapesKeep DEF WorkShapes
<1>2. ASSUME NEW p \in AutoProcs, NextRule(p) PROVE WorkShapes'
  BY <1>2, TakingRules, ShapesKeep DEF WorkShapes
<1>3. ASSUME NEW p \in AutoProcs, ClaimAction(p) PROVE WorkShapes'
  <2>1. Mark(p) \in marks' \ marks => Mark(p) \in ActionMarks
    BY <1>3, Claiming, MarkIs
  <2>2. marks' \subseteq marks \cup {Mark(p)}
    BY <1>3, Claiming
  <2>3. marks' \subseteq ActionMarks \cup RunMarks
    BY <2>1, <2>2 DEF WorkShapes
  <2>4. OthersWork(p) /\ proc[p].pc = "claim" /\ UNCHANGED <<deal, body, posted, handled, ran, skipped>>
    BY <1>3, Claiming
  <2> QED BY <2>3, <2>4, ShapesKeep DEF WorkShapes
<1>4. ASSUME NEW p \in AutoProcs, Act(p) PROVE WorkShapes'
  <2>1. Mark(p) \in ActionMarks
    BY <1>4, MarkIs DEF Act, WorkShapes, SoundWork
  <2>2. ran' = ran \/ ran' = [ran EXCEPT ![Mark(p)] = ran[Mark(p)] + 1]
    BY <1>4, Acting
  <2>3. ran' \in [ActionMarks -> Nat]
    BY <2>1, <2>2 DEF WorkShapes
  <2>4. skipped' \subseteq ActionMarks
    BY <1>4, <2>1, Acting DEF WorkShapes
  <2>5. OthersWork(p) /\ proc[p].pc = "act" /\ deal' \in Deals /\ UNCHANGED <<body, posted, handled, marks>>
    BY <1>4, Acting
  <2> QED BY <2>3, <2>4, <2>5, ShapesKeep DEF WorkShapes
<1>5. ASSUME NEW p \in AutoProcs, Undo(p) PROVE WorkShapes'
  <2>1. OthersWork(p) /\ proc[p].pc = "undo" /\ marks' \subseteq marks /\ UNCHANGED <<deal, body, posted, handled, ran, skipped>>
    BY <1>5, Undoing
  <2> QED BY <2>1, ShapesKeep DEF WorkShapes
<1>6. ASSUME NEW p \in AutoProcs, MarkRun(p) PROVE WorkShapes'
  <2>1. OthersWork(p) /\ proc[p].pc = "run" /\ UNCHANGED <<deal, body, posted, handled, ran, skipped>>
    BY <1>6, Completing
  <2>2. <<proc[p].rule, proc[p].key, 0>> \in RunMarks
    BY <1>6, Completing DEF RunMarks
  <2>3. marks' \subseteq ActionMarks \cup RunMarks
    BY <1>6, <2>2, Completing DEF WorkShapes
  <2> QED BY <2>1, <2>3, ShapesKeep DEF WorkShapes
<1>7. ASSUME NEW p \in AutoProcs, CountRun(p) PROVE WorkShapes'
  <2>1. OthersWork(p) /\ proc[p].pc = "count" /\ UNCHANGED <<deal, body, posted, handled, marks, ran, skipped>>
    BY <1>7, Counting
  <2> QED BY <2>1, ShapesKeep DEF WorkShapes
<1>8. ASSUME NEW p \in AutoProcs, Finish(p) \/ Killed(p) PROVE WorkShapes'
  BY <1>8, Ending, ShapesKeep DEF WorkShapes
<1>9. CASE AssignByHand \/ CloseByHand \/ ReopenByHand
  <2>1. deal' \in Deals
    <3>1. deal \in Deals /\ deal.stay \in 1 .. MaxStays
      BY DEF WorkShapes, Deals
    <3>2. CASE AssignByHand \/ CloseByHand
      BY <3>1, <3>2 DEF AssignByHand, CloseByHand, Person, Deals
    <3>3. CASE ReopenByHand
      <4> DEFINE back == [deal EXCEPT !.state = "in_review"]
      <4>1. deal' = [deal EXCEPT !.state = "in_review", !.stay = deal.stay + 1] /\ deal.stay < MaxStays
        BY <3>3 DEF ReopenByHand, Person
      <4>2. back \in Deals
        BY <3>1 DEF Deals
      <4>3. deal' = [back EXCEPT !.stay = deal.stay + 1]
        BY <3>1, <4>1 DEF Deals
      <4>4. deal.stay + 1 \in 1 .. MaxStays
        BY <3>1, <4>1, AutoBounds
      <4> HIDE DEF back
      <4> QED BY <4>2, <4>3, <4>4 DEF Deals
    <3> QED BY <1>9, <3>2, <3>3
  <2>2. UNCHANGED <<body, posted, handled, proc, marks, ran, skipped>>
    BY <1>9 DEF AssignByHand, CloseByHand, ReopenByHand, Person
  <2> QED BY <2>1, <2>2 DEF WorkShapes, SoundWork
<1>10. CASE PostEvent
  BY <1>10, AutoBounds DEF PostEvent, WorkShapes, SoundWork
<1>11. CASE UNCHANGED <<deal, body, posted, handled, proc, marks, ran, skipped>>
  BY <1>11 DEF WorkShapes, SoundWork
<1> QED BY <1>1, <1>2, <1>3, <1>4, <1>5, <1>6, <1>7, <1>8, <1>9, <1>10, <1>11, StreamIs
        DEF AutoNext, Work, EditRead, EditPut, autoVars
-----------------------------------------------------------------------------
Holds(p) == proc[p].pc \in {"act", "undo"}

(* An action under way is claimed, by one invocation, and has not been     *)
(* carried out; what has been carried out stays claimed.                   *)
Claims ==
    /\ \A p \in AutoProcs : Holds(p) => Mark(p) \in marks /\ ran[Mark(p)] = 0
    /\ \A p, q \in AutoProcs : p # q /\ Holds(p) /\ Holds(q) => Mark(p) # Mark(q)
    /\ \A m \in ActionMarks : ran[m] > 0 => m \in marks
    /\ ActsOnce

LEMMA ClaimsInit == AutoInit => Claims
<1> SUFFICES ASSUME AutoInit PROVE Claims
  OBVIOUS
<1>1. \A p \in AutoProcs : proc[p].pc = "idle"
  BY IdleIs DEF AutoInit
<1>2. \A m \in ActionMarks : ran[m] = 0
  BY DEF AutoInit
<1> QED BY <1>1, <1>2 DEF Claims, Holds, ActsOnce

(* A step that does not touch what was claimed or carried out, of an       *)
(* invocation that has no action under way after it.                       *)
LEMMA ClaimsStay ==
    ASSUME WorkShapes, Claims, NEW p \in AutoProcs, \A s \in AutoProcs \ {p} : proc'[s] = proc[s],
           ran' = ran, marks \subseteq marks', ~Holds(p)'
    PROVE  Claims'
<1>1. \A s \in AutoProcs : Holds(s)' => s # p /\ Holds(s) /\ Mark(s)' = Mark(s)
  BY DEF Holds, Mark
<1> QED BY <1>1 DEF Claims, ActsOnce

LEMMA ClaimsNext ==
    ASSUME "lost_reply" \notin AutoFaults
    PROVE  WorkShapes /\ Claims /\ [AutoNext]_autoVars => Claims'
<1> SUFFICES ASSUME WorkShapes, Claims, [AutoNext]_autoVars PROVE Claims'
  OBVIOUS
<1> USE DEF OthersWork
<1>1. ASSUME NEW p \in AutoProcs, (p = "stream" /\ BeginEntry) \/ BeginSweep(p) PROVE Claims'
  BY <1>1, Beginning, ClaimsStay DEF Holds
<1>2. ASSUME NEW p \in AutoProcs, NextRule(p) PROVE Claims'
  BY <1>2, TakingRules, ClaimsStay DEF Holds
<1>3. ASSUME NEW p \in AutoProcs, ClaimAction(p) PROVE Claims'
  <2>1. /\ \A s \in AutoProcs \ {p} : proc'[s] = proc[s]
        /\ proc[p].pc = "claim" /\ ran' = ran /\ marks \subseteq marks'
    BY <1>3, Claiming
  <2>2. CASE ~Holds(p)'
    BY <2>1, <2>2, ClaimsStay
  <2>3. CASE Holds(p)'
    <3>1. /\ SameFiring(p) /\ proc'[p].n = proc[p].n /\ proc[p].n <= Len(body[proc[p].rule].actions)
          /\ Mark(p) \notin marks /\ marks' = marks \cup {Mark(p)}
      BY <1>3, <2>3, Claiming DEF Holds
    <3>2. Mark(p)' = Mark(p)
      BY <3>1 DEF Mark, SameFiring
    <3>3. Mark(p) \in ActionMarks
      BY <2>1, <3>1, MarkIs
    <3>4. ran[Mark(p)] = 0
      BY <3>1, <3>3 DEF Claims, WorkShapes
    <3>5. \A s \in AutoProcs \ {p} : Holds(s)' => Holds(s) /\ Mark(s)' = Mark(s) /\ Mark(s) # Mark(p)
      BY <2>1, <3>1 DEF Holds, Mark, Claims
    <3>6. \A s \in AutoProcs : Holds(s)' => Mark(s)' \in marks' /\ ran'[Mark(s)'] = 0
      BY <2>1, <3>1, <3>2, <3>4, <3>5 DEF Claims
    <3>7. \A s, q \in AutoProcs : s # q /\ Holds(s)' /\ Holds(q)' => Mark(s)' # Mark(q)'
      BY <3>2, <3>5 DEF Claims
    <3> QED BY <2>1, <3>6, <3>7 DEF Claims, ActsOnce
  <2> QED BY <2>2, <2>3
<1>4. ASSUME NEW p \in AutoProcs, Act(p) PROVE Claims'
  <2>1. /\ \A s \in AutoProcs \ {p} : proc'[s] = proc[s]
        /\ SameFiring(p) /\ proc[p].pc = "act" /\ marks' = marks
    BY <1>4, Acting
  <2>2. Holds(p) /\ Mark(p) \in marks /\ ran[Mark(p)] = 0
    BY <2>1 DEF Holds, Claims
  <2>3. Mark(p) \in ActionMarks
    BY <2>1, MarkIs DEF WorkShapes, SoundWork
  <2>4. CASE ran' = ran
    <3>1. Holds(p)' => Mark(p)' = Mark(p)
      BY <1>4, <2>1, Acting DEF Holds, Mark, SameFiring
    <3>2. \A s \in AutoProcs : Holds(s)' => Holds(s) /\ Mark(s)' = Mark(s)
      BY <2>1, <2>2, <3>1 DEF Holds, Mark
    <3> QED BY <2>1, <2>4, <3>2 DEF Claims, ActsOnce
  <2>5. CASE ran' = [ran EXCEPT ![Mark(p)] = ran[Mark(p)] + 1] /\ proc'[p].pc = "claim"
    <3>1. ran'[Mark(p)] = 1 /\ \A m \in ActionMarks \ {Mark(p)} : ran'[m] = ran[m]
      BY <2>2, <2>3, <2>5 DEF WorkShapes
    <3>2. \A s \in AutoProcs : Holds(s)' => s # p /\ Holds(s) /\ Mark(s)' = Mark(s)
      BY <2>1, <2>5 DEF Holds, Mark
    <3>3. \A s \in AutoProcs : Holds(s)' => Mark(s) \in ActionMarks \ {Mark(p)}
      <4> SUFFICES ASSUME NEW s \in AutoProcs, Holds(s)' PROVE Mark(s) \in ActionMarks \ {Mark(p)}
        OBVIOUS
      <4>1. Holds(s) /\ Mark(s) # Mark(p)
        BY <2>2, <3>2 DEF Claims
      <4>2. Mark(s) \in ActionMarks
        BY <4>1, MarkIs DEF WorkShapes, SoundWork, Holds
      <4> QED BY <4>1, <4>2
    <3> QED BY <2>1, <2>2, <3>1, <3>2, <3>3 DEF Claims, ActsOnce
  <2> QED BY <1>4, <2>4, <2>5, Acting
<1>5. ASSUME NEW p \in AutoProcs, Undo(p) PROVE Claims'
  <2>1. /\ \A s \in AutoProcs \ {p} : proc'[s] = proc[s]
        /\ proc[p].pc = "undo" /\ proc'[p].pc \in {"idle", "check"} /\ ran' = ran
        /\ marks' = marks \/ marks' = marks \ {Mark(p)}
    BY <1>5, Undoing
  <2>2. Holds(p) /\ ran[Mark(p)] = 0
    BY <2>1 DEF Holds, Claims
  <2>3. \A s \in AutoProcs : Holds(s)' => s # p /\ Holds(s) /\ Mark(s)' = Mark(s) /\ Mark(s) # Mark(p)
    BY <2>1, <2>2 DEF Holds, Mark, Claims
  <2> QED BY <2>1, <2>2, <2>3 DEF Claims, ActsOnce
<1>6. ASSUME NEW p \in AutoProcs, MarkRun(p) PROVE Claims'
  <2>1. /\ \A s \in AutoProcs \ {p} : proc'[s] = proc[s]
        /\ proc'[p].pc \in {"idle", "check", "count"} /\ ran' = ran /\ marks \subseteq marks'
    BY <1>6, Completing
  <2> QED BY <2>1, ClaimsStay DEF Holds
<1>7. ASSUME NEW p \in AutoProcs, CountRun(p) PROVE Claims'
  BY <1>7, Counting, ClaimsStay DEF Holds
<1>8. ASSUME NEW p \in AutoProcs, Finish(p) \/ Killed(p) PROVE Claims'
  BY <1>8, Ending, ClaimsStay DEF Holds
<1>9. CASE UNCHANGED <<proc, marks, ran>>
  BY <1>9 DEF Claims, Holds, Mark, ActsOnce
<1> QED BY <1>1, <1>2, <1>3, <1>4, <1>5, <1>6, <1>7, <1>8, <1>9, StreamIs
        DEF AutoNext, Work, EditRead, EditPut, autoVars, AssignByHand, CloseByHand, ReopenByHand, Person, PostEvent

(* However often a firing is begun again, and whoever begins it, an action *)
(* is carried out at most once for an episode, unless a reply is lost:     *)
(* then its claim is released although it ran (_fire, run_action).         *)
THEOREM ActionsRunOnce ==
    ASSUME "lost_reply" \notin AutoFaults
    PROVE  AutoSafe => []ActsOnce
<1>1. Claims => ActsOnce
  BY DEF Claims
<1> QED BY ShapesInit, ShapesNext, ClaimsInit, ClaimsNext, <1>1, PTL DEF AutoSafe
-----------------------------------------------------------------------------
Done(m) == ran[m] > 0 \/ m \in skipped
Of(p)   == IF p = "stream" THEN "event" ELSE "time"

(* The stream fires event rules, sweeps time rules.                        *)
OwnRules ==
    \A p \in AutoProcs :
        /\ \A r \in proc[p].todo : body[r].trigger = Of(p)
        /\ proc[p].pc \notin {"idle", "check"} => body[proc[p].rule].trigger = Of(p)

(* A claim is of an action that is done, or under way; a firing leaves no  *)
(* action behind that is not done, and marks itself complete at its end.   *)
Thorough ==
    /\ OwnRules
    /\ \A m \in ActionMarks : m \in marks => Done(m) \/ \E p \in AutoProcs : Holds(p) /\ Mark(p) = m
    /\ \A p \in AutoProcs : proc[p].pc \notin {"idle", "check"} =>
          /\ \A n \in 1 .. Len(body[proc[p].rule].actions) :
                n < proc[p].n => Done(<<proc[p].rule, proc[p].key, n>>)
          /\ proc[p].pc = "run" => proc[p].n > Len(body[proc[p].rule].actions)
    /\ \A r \in Rules, k \in Keys : <<r, k, 0>> \in marks =>
          \A n \in 1 .. Len(body[r].actions) : Done(<<r, k, n>>)

LEMMA ThoroughInit == AutoInit => Thorough
<1> SUFFICES ASSUME AutoInit PROVE Thorough
  OBVIOUS
<1>1. \A p \in AutoProcs : proc[p].pc = "idle" /\ proc[p].todo = {}
  BY DEF AutoInit, NoWork
<1>2. marks = {}
  BY DEF AutoInit
<1> QED BY <1>1, <1>2 DEF Thorough, OwnRules

LEMMA ThoroughMeans == WorkShapes /\ Thorough => RunMeansDone
<1> SUFFICES ASSUME WorkShapes, Thorough, NEW m \in RunMarks \cap marks, NEW n \in 1 .. Len(body[m[1]].actions)
             PROVE  Done(<<m[1], m[2], n>>)
  BY DEF RunMeansDone, Done
<1>1. PICK r \in Rules, k \in Keys : m = <<r, k, 0>>
  BY DEF RunMarks
<1>2. m[1] = r /\ m[2] = k /\ <<r, k, 0>> \in marks
  BY <1>1
<1> QED BY <1>2 DEF Thorough

(* What is done remains done.                                              *)
LEMMA DoneStays ==
    ASSUME WorkShapes, NEW p \in AutoProcs,
           \/ ran' = ran
           \/ Mark(p) \in ActionMarks /\ ran' = [ran EXCEPT ![Mark(p)] = ran[Mark(p)] + 1],
           skipped \subseteq skipped'
    PROVE  \A m \in ActionMarks : Done(m) => Done(m)'
<1> SUFFICES ASSUME NEW m \in ActionMarks, Done(m) PROVE Done(m)'
  OBVIOUS
<1>1. CASE ran' = ran
  BY <1>1 DEF Done
<1>2. CASE Mark(p) \in ActionMarks /\ ran' = [ran EXCEPT ![Mark(p)] = ran[Mark(p)] + 1]
  <2>1. ran[m] \in Nat /\ ran[Mark(p)] \in Nat
    BY <1>2 DEF WorkShapes
  <2>2. ran'[m] = ran[m] \/ ran'[m] = ran[m] + 1
    BY <1>2 DEF WorkShapes
  <2> QED BY <2>1, <2>2 DEF Done
<1> QED BY <1>1, <1>2

LEMMA FiringMarks ==
    ASSUME WorkShapes, NEW r \in Rules, NEW k \in Keys, NEW n \in 1 .. Len(body[r].actions)
    PROVE  <<r, k, n>> \in ActionMarks
<1>1. Len(body[r].actions) \in Nat /\ Len(body[r].actions) <= MaxActions
  BY RulesSay DEF WorkShapes
<1>2. n \in 1 .. MaxActions
  BY <1>1 DEF MaxActions
<1> QED BY <1>2 DEF ActionMarks

(* A step of one invocation that ends its firing or begins the next one,   *)
(* releases its claim if it has one, and claims nothing.                   *)
LEMMA ThoroughStays ==
    ASSUME WorkShapes, Thorough, NEW p \in AutoProcs, \A s \in AutoProcs \ {p} : proc'[s] = proc[s],
           UNCHANGED <<body, ran, skipped>>,
           marks' \subseteq marks, Holds(p) => Mark(p) \notin marks',
           \A r \in proc'[p].todo : body[r].trigger = Of(p),
           \/ proc'[p].pc \in {"idle", "check"}
           \/ /\ proc'[p].pc = "count" /\ SameFiring(p) /\ proc'[p].n = proc[p].n
              /\ proc[p].pc \notin {"idle", "check"}
           \/ /\ proc'[p].pc = "claim" /\ proc'[p].n = 1 /\ body[proc'[p].rule].trigger = Of(p)
    PROVE  Thorough'
<1>1. OwnRules'
  BY DEF Thorough, OwnRules, Of, SameFiring
<1>2. \A m : Done(m)' = Done(m)
  BY DEF Done
<1>3. \A m \in ActionMarks : m \in marks' => Done(m)' \/ \E q \in AutoProcs : Holds(q)' /\ Mark(q)' = m
  <2> SUFFICES ASSUME NEW m \in ActionMarks, m \in marks', ~Done(m) PROVE \E q \in AutoProcs : Holds(q)' /\ Mark(q)' = m
    BY <1>2
  <2>1. PICK q \in AutoProcs : Holds(q) /\ Mark(q) = m
    BY DEF Thorough
  <2>2. q # p
    BY <2>1
  <2> QED BY <2>1, <2>2 DEF Holds, Mark
<1>4. ASSUME NEW s \in AutoProcs, proc'[s].pc \notin {"idle", "check"}
      PROVE  /\ \A n \in 1 .. Len(body[proc'[s].rule].actions) :
                  n < proc'[s].n => Done(<<proc'[s].rule, proc'[s].key, n>>)
             /\ proc'[s].pc = "run" => proc'[s].n > Len(body[proc'[s].rule].actions)
  <2>1. CASE s # p
    BY <1>4, <2>1 DEF Thorough
  <2>2. CASE s = p /\ proc'[p].pc = "count"
    BY <1>4, <2>2 DEF Thorough, SameFiring
  <2>3. CASE s = p /\ proc'[p].pc = "claim"
    BY <1>4, <2>3
  <2> QED BY <1>4, <2>1, <2>2, <2>3
<1>5. \A r \in Rules, k \in Keys : <<r, k, 0>> \in marks' => \A n \in 1 .. Len(body[r].actions) : Done(<<r, k, n>>)
  BY DEF Thorough
<1> QED BY <1>1, <1>2, <1>3, <1>4, <1>5 DEF Thorough

(* One sweep at a time, and no fault that a claim outlives.                *)
Orderly == /\ \A p, q \in Sweeps : p = q
           /\ {"unwritten", "undo", "killed_acting"} \cap AutoFaults = {}

LEMMA OneEach == ASSUME Orderly, NEW p \in AutoProcs, NEW q \in AutoProcs, Of(p) = Of(q) PROVE p = q
BY DEF Orderly, Of, AutoProcs

LEMMA ThoroughNext ==
    ASSUME Orderly
    PROVE  WorkShapes /\ Thorough /\ [AutoNext]_autoVars => Thorough'
<1> SUFFICES ASSUME WorkShapes, Thorough, [AutoNext]_autoVars PROVE Thorough'
  OBVIOUS
<1> USE DEF OthersWork
<1>0. \A p \in AutoProcs : \A r \in proc[p].todo : body[r].trigger = Of(p)
  BY DEF Thorough, OwnRules
<1>1. ASSUME NEW p \in AutoProcs, (p = "stream" /\ BeginEntry) \/ BeginSweep(p) PROVE Thorough'
  BY <1>1, Beginning, ThoroughStays DEF Holds, Of
<1>2. ASSUME NEW p \in AutoProcs, NextRule(p) PROVE Thorough'
  BY <1>0, <1>2, TakingRules, ThoroughStays DEF Holds
<1>3. ASSUME NEW p \in AutoProcs, ClaimAction(p) PROVE Thorough'
  <2>1. /\ \A s \in AutoProcs \ {p} : proc'[s] = proc[s]
        /\ proc[p].pc = "claim" /\ UNCHANGED <<body, ran, skipped>> /\ proc'[p].todo \subseteq proc[p].todo
        /\ ~Holds(p)
    BY <1>3, Claiming DEF Holds
  <2>2. CASE proc'[p].pc \in {"idle", "check"} /\ marks' = marks
    BY <1>0, <2>1, <2>2, ThoroughStays
  <2>3. CASE ~(proc'[p].pc \in {"idle", "check"} /\ marks' = marks)
    <3>1. /\ SameFiring(p)
          /\ \/ /\ proc'[p].pc = "run" /\ proc'[p].n = proc[p].n
                /\ proc[p].n > Len(body[proc[p].rule].actions) /\ marks' = marks
             \/ /\ proc'[p].pc = "claim" /\ proc'[p].n = proc[p].n + 1
                /\ proc[p].n <= Len(body[proc[p].rule].actions) /\ Mark(p) \in marks /\ marks' = marks
             \/ /\ proc'[p].pc = "act" /\ proc'[p].n = proc[p].n
                /\ proc[p].n <= Len(body[proc[p].rule].actions)
                /\ Mark(p) \notin marks /\ marks' = marks \cup {Mark(p)}
      BY <1>3, <2>3, Claiming
    <3>2. /\ proc[p].rule \in Rules /\ proc[p].n \in Nat /\ Len(body[proc[p].rule].actions) \in Nat
      BY <2>1, RulesSay DEF WorkShapes, SoundWork, WorkStates
    <3>3. OwnRules'
      BY <2>1, <3>1 DEF Thorough, OwnRules, Of, SameFiring
    <3>4. \A m : Done(m)' = Done(m)
      BY <2>1 DEF Done
    <3>5. Holds(p)' => Mark(p)' = Mark(p) /\ marks' = marks \cup {Mark(p)}
      BY <3>1 DEF Holds, Mark, SameFiring
    <3>6. \A s \in AutoProcs : Holds(s) => Holds(s)' /\ Mark(s)' = Mark(s)
      BY <2>1 DEF Holds, Mark
    <3>7. \A m \in ActionMarks : m \in marks' => Done(m)' \/ \E q \in AutoProcs : Holds(q)' /\ Mark(q)' = m
      <4> SUFFICES ASSUME NEW m \in ActionMarks, m \in marks', ~Done(m) PROVE \E q \in AutoProcs : Holds(q)' /\ Mark(q)' = m
        BY <3>4
      <4>1. CASE m \in marks
        BY <3>6, <4>1 DEF Thorough
      <4>2. CASE m \notin marks
        <5>1. m = Mark(p) /\ proc'[p].pc = "act"
          BY <3>1, <4>2
        <5> QED BY <3>5, <5>1 DEF Holds
      <4> QED BY <4>1, <4>2
    <3>8. \A n \in 1 .. Len(body[proc[p].rule].actions) : n < proc[p].n => Done(<<proc[p].rule, proc[p].key, n>>)
      BY <2>1 DEF Thorough
    <3>9. Mark(p) \in marks /\ proc[p].n <= Len(body[proc[p].rule].actions) => Done(Mark(p))
      <4> SUFFICES ASSUME Mark(p) \in marks, proc[p].n <= Len(body[proc[p].rule].actions), ~Done(Mark(p)) PROVE FALSE
        OBVIOUS
      <4>1. Mark(p) \in ActionMarks
        BY <2>1, MarkIs
      <4>2. PICK q \in AutoProcs : Holds(q) /\ Mark(q) = Mark(p)
        BY <4>1 DEF Thorough
      <4>3. proc[q].rule = proc[p].rule
        BY <4>2 DEF Mark
      <4>4. Of(q) = Of(p)
        BY <2>1, <4>2, <4>3 DEF Thorough, OwnRules, Holds
      <4> QED BY <2>1, <4>2, <4>4, OneEach
    <3>10. ASSUME NEW s \in AutoProcs, proc'[s].pc \notin {"idle", "check"}
           PROVE  /\ \A n \in 1 .. Len(body[proc'[s].rule].actions) :
                       n < proc'[s].n => Done(<<proc'[s].rule, proc'[s].key, n>>)
                  /\ proc'[s].pc = "run" => proc'[s].n > Len(body[proc'[s].rule].actions)
      <4>1. CASE s # p
        BY <2>1, <3>10, <4>1 DEF Thorough
      <4>2. CASE s = p /\ proc'[p].n = proc[p].n
        <5>1. proc'[p].rule = proc[p].rule /\ proc'[p].key = proc[p].key
          BY <3>1 DEF SameFiring
        <5>2. proc'[p].pc = "run" => proc[p].n > Len(body[proc[p].rule].actions)
          BY <3>1
        <5> QED BY <3>8, <4>2, <5>1, <5>2
      <4>3. CASE s = p /\ proc'[p].n # proc[p].n
        <5>1. /\ proc'[p].pc = "claim" /\ proc'[p].n = proc[p].n + 1 /\ Done(Mark(p))
          BY <3>1, <3>9, <4>3
        <5>2. proc'[p].rule = proc[p].rule /\ proc'[p].key = proc[p].key
          BY <3>1 DEF SameFiring
        <5>3. Done(<<proc[p].rule, proc[p].key, proc[p].n>>)
          BY <5>1 DEF Mark
        <5>4. \A n \in 1 .. Len(body[proc[p].rule].actions) : n < proc[p].n + 1 => n < proc[p].n \/ n = proc[p].n
          BY <3>2
        <5> QED BY <3>8, <4>3, <5>1, <5>2, <5>3, <5>4
      <4> QED BY <4>1, <4>2, <4>3
    <3>11. \A r \in Rules, k \in Keys : <<r, k, 0>> \in marks' => \A n \in 1 .. Len(body[r].actions) : Done(<<r, k, n>>)
      <4>1. Mark(p) \in marks' \ marks => Mark(p) \notin RunMarks
        BY <2>1, <3>1, MarkIs
      <4>2. \A r \in Rules, k \in Keys : <<r, k, 0>> \in marks' => <<r, k, 0>> \in marks
        BY <3>1, <4>1 DEF RunMarks
      <4> QED BY <4>2 DEF Thorough
    <3> QED BY <2>1, <3>3, <3>4, <3>7, <3>10, <3>11 DEF Thorough
  <2> QED BY <2>2, <2>3
<1>4. ASSUME NEW p \in AutoProcs, Act(p) PROVE Thorough'
  <2>1. /\ \A s \in AutoProcs \ {p} : proc'[s] = proc[s]
        /\ SameFiring(p) /\ proc[p].pc = "act" /\ UNCHANGED <<body, marks>> /\ skipped \subseteq skipped'
    BY <1>4, Acting
  <2>2. /\ Mark(p) \in ActionMarks /\ proc[p].rule \in Rules /\ proc[p].n \in Nat /\ proc[p].key \in Keys
        /\ Len(body[proc[p].rule].actions) \in Nat
    BY <2>1, MarkIs, RulesSay DEF WorkShapes, SoundWork, WorkStates
  <2>3. \A m \in ActionMarks : Done(m) => Done(m)'
    <3>1. ran' = ran \/ ran' = [ran EXCEPT ![Mark(p)] = ran[Mark(p)] + 1]
      BY <1>4, Acting
    <3> QED BY <2>1, <2>2, <3>1, DoneStays
  <2>4. PICK m \in ActionMarks : m = Mark(p)
    BY <2>2
  <2>5. m = <<proc[p].rule, proc[p].key, proc[p].n>>
    BY <2>4 DEF Mark
  <2>6. \/ proc'[p].pc = "claim" /\ proc'[p].n = proc[p].n + 1 /\ Done(m)'
        \/ proc'[p].pc = "undo" /\ proc'[p].n = proc[p].n
    <3>1. \/ proc'[p].pc = "undo" /\ proc'[p].n = proc[p].n
          \/ /\ proc'[p].pc = "claim" /\ proc'[p].n = proc[p].n + 1
             /\ \/ skipped' = skipped \cup {m}
                \/ ran' = [ran EXCEPT ![m] = ran[m] + 1]
      BY <1>4, <2>4, Acting DEF Orderly
    <3>2. ran' = [ran EXCEPT ![m] = ran[m] + 1] => ran'[m] > 0
      BY DEF WorkShapes
    <3> QED BY <3>1, <3>2 DEF Done
  <2>7. OwnRules'
    BY <2>1, <2>6 DEF Thorough, OwnRules, Of, SameFiring
  <2>8. \A c \in ActionMarks : c \in marks' => Done(c)' \/ \E q \in AutoProcs : Holds(q)' /\ Mark(q)' = c
    <3> SUFFICES ASSUME NEW c \in ActionMarks, c \in marks, ~Done(c)' PROVE \E q \in AutoProcs : Holds(q)' /\ Mark(q)' = c
      BY <2>1
    <3>1. PICK q \in AutoProcs : Holds(q) /\ Mark(q) = c
      BY <2>3 DEF Thorough
    <3>2. CASE q # p
      BY <2>1, <3>1, <3>2 DEF Holds, Mark
    <3>3. CASE q = p
      <4>1. c = m
        BY <2>4, <3>1, <3>3
      <4>2. proc'[p].pc = "undo" /\ proc'[p].n = proc[p].n
        BY <2>6, <4>1
      <4>3. Holds(p)' /\ Mark(p)' = m
        BY <2>1, <2>5, <4>2 DEF Holds, Mark, SameFiring
      <4> QED BY <4>1, <4>3
    <3> QED BY <3>2, <3>3
  <2>9. ASSUME NEW s \in AutoProcs, proc'[s].pc \notin {"idle", "check"}
        PROVE  /\ \A n \in 1 .. Len(body[proc'[s].rule].actions) :
                    n < proc'[s].n => Done(<<proc[s].rule, proc[s].key, n>>)'
               /\ proc'[s].pc = "run" => proc'[s].n > Len(body[proc'[s].rule].actions)
    <3>1. proc'[s].rule = proc[s].rule /\ proc'[s].key = proc[s].key
      BY <2>1 DEF SameFiring
    <3>2. proc[s].pc \notin {"idle", "check"} /\ proc[s].rule \in Rules /\ proc[s].key \in Keys /\ proc[s].n \in Nat
      BY <2>1, <2>9 DEF WorkShapes, SoundWork, WorkStates
    <3>3. PICK r \in Rules, k \in Keys : r = proc[s].rule /\ k = proc[s].key
      BY <3>2
    <3>4. \A n \in 1 .. Len(body[proc'[s].rule].actions) :
                    n < proc'[s].n => Done(<<proc[s].rule, proc[s].key, n>>)'
      <4> SUFFICES ASSUME NEW n \in 1 .. Len(body[r].actions), n < proc'[s].n
                   PROVE  Done(<<r, k, n>>)'
        BY <3>1, <3>3 DEF Done
      <4>0. PICK c \in ActionMarks : c = <<r, k, n>>
        BY FiringMarks
      <4>1. CASE n < proc[s].n
        <5>1. Done(c)
          BY <3>2, <3>3, <4>0, <4>1 DEF Thorough
        <5>2. Done(c)'
          BY <2>3, <5>1
        <5> QED BY <4>0, <5>2
      <4>2. CASE ~(n < proc[s].n)
        <5>1. s = p /\ proc'[p].pc = "claim" /\ proc'[p].n = proc[p].n + 1 /\ Done(m)'
          BY <2>1, <2>6, <4>2
        <5>2. n = proc[p].n
          BY <2>2, <4>2, <5>1
        <5>3. m = c
          BY <2>5, <3>3, <4>0, <5>1, <5>2
        <5>4. Done(c)'
          BY <5>1, <5>3
        <5> QED BY <4>0, <5>4
      <4> QED BY <4>1, <4>2
    <3>5. proc'[s].pc = "run" => s # p
      BY <2>6
    <3> QED BY <2>1, <3>4, <3>5 DEF Thorough
  <2>10. \A r \in Rules, k \in Keys : <<r, k, 0>> \in marks' => \A n \in 1 .. Len(body[r].actions) : Done(<<r, k, n>>)'
    <3> SUFFICES ASSUME NEW r \in Rules, NEW k \in Keys, <<r, k, 0>> \in marks, NEW n \in 1 .. Len(body[r].actions)
                 PROVE  Done(<<r, k, n>>)'
      BY <2>1
    <3>1. <<r, k, n>> \in ActionMarks /\ Done(<<r, k, n>>)
      BY FiringMarks DEF Thorough
    <3> QED BY <2>3, <3>1
  <2> QED BY <2>1, <2>7, <2>8, <2>9, <2>10 DEF Thorough
<1>5. ASSUME NEW p \in AutoProcs, Undo(p) PROVE Thorough'
  <2>1. /\ \A s \in AutoProcs \ {p} : proc'[s] = proc[s]
        /\ proc'[p].pc \in {"idle", "check"} /\ UNCHANGED <<body, ran, skipped>>
        /\ proc'[p].todo \subseteq proc[p].todo /\ marks' = marks \ {Mark(p)}
    BY <1>5, Undoing DEF Orderly
  <2> QED BY <1>0, <2>1, ThoroughStays
<1>6. ASSUME NEW p \in AutoProcs, MarkRun(p) PROVE Thorough'
  <2>1. /\ \A s \in AutoProcs \ {p} : proc'[s] = proc[s]
        /\ proc[p].pc = "run" /\ proc'[p].pc \in {"idle", "check", "count"} /\ UNCHANGED <<body, ran, skipped>>
        /\ proc'[p].todo \subseteq proc[p].todo /\ proc[p].rule \in Rules /\ proc[p].key \in Keys
        /\ proc'[p].pc = "count" => SameFiring(p) /\ proc'[p].n = proc[p].n
    BY <1>6, Completing
  <2>2. CASE marks' = marks
    BY <1>0, <2>1, <2>2, ThoroughStays DEF Holds
  <2>3. CASE marks' = marks \cup {<<proc[p].rule, proc[p].key, 0>>}
    <3>1. OwnRules'
      BY <1>0, <2>1 DEF Thorough, OwnRules, Of, SameFiring
    <3>2. \A m : Done(m)' = Done(m)
      BY <2>1 DEF Done
    <3>3. \A m \in ActionMarks : m \in marks' => Done(m)' \/ \E q \in AutoProcs : Holds(q)' /\ Mark(q)' = m
      <4> SUFFICES ASSUME NEW m \in ActionMarks, m \in marks', ~Done(m) PROVE \E q \in AutoProcs : Holds(q)' /\ Mark(q)' = m
        BY <3>2
      <4>1. m # <<proc[p].rule, proc[p].key, 0>>
        BY DEF ActionMarks
      <4>2. PICK q \in AutoProcs : Holds(q) /\ Mark(q) = m
        BY <2>3, <4>1 DEF Thorough
      <4>3. q # p
        BY <2>1, <4>2 DEF Holds
      <4> QED BY <2>1, <4>2, <4>3 DEF Holds, Mark
    <3>4. ASSUME NEW s \in AutoProcs, proc'[s].pc \notin {"idle", "check"}
          PROVE  /\ \A n \in 1 .. Len(body[proc'[s].rule].actions) :
                      n < proc'[s].n => Done(<<proc'[s].rule, proc'[s].key, n>>)
                 /\ proc'[s].pc = "run" => proc'[s].n > Len(body[proc'[s].rule].actions)
      <4>1. CASE s # p
        BY <2>1, <3>4, <4>1 DEF Thorough
      <4>2. CASE s = p
        BY <2>1, <3>4, <4>2 DEF Thorough, SameFiring
      <4> QED BY <4>1, <4>2
    <3>5. /\ proc[p].n > Len(body[proc[p].rule].actions) /\ proc[p].n \in Nat
          /\ Len(body[proc[p].rule].actions) \in Nat
      BY <2>1, RulesSay DEF Thorough, WorkShapes, SoundWork, WorkStates
    <3>6. \A n \in 1 .. Len(body[proc[p].rule].actions) : Done(<<proc[p].rule, proc[p].key, n>>)
      <4>1. \A n \in 1 .. Len(body[proc[p].rule].actions) : n < proc[p].n
        BY <3>5
      <4> QED BY <2>1, <4>1 DEF Thorough
    <3>7. \A r \in Rules, k \in Keys : <<r, k, 0>> \in marks' => \A n \in 1 .. Len(body[r].actions) : Done(<<r, k, n>>)
      <4> SUFFICES ASSUME NEW r \in Rules, NEW k \in Keys, <<r, k, 0>> \in marks'
                   PROVE  \A n \in 1 .. Len(body[r].actions) : Done(<<r, k, n>>)
        OBVIOUS
      <4>1. CASE <<r, k, 0>> \in marks
        BY <4>1 DEF Thorough
      <4>2. CASE <<r, k, 0>> \notin marks
        <5>1. r = proc[p].rule /\ k = proc[p].key
          BY <2>3, <4>2
        <5> QED BY <3>6, <5>1
      <4> QED BY <4>1, <4>2
    <3> QED BY <2>1, <3>1, <3>2, <3>3, <3>4, <3>7 DEF Thorough
  <2> QED BY <1>6, <2>2, <2>3, Completing
<1>7. ASSUME NEW p \in AutoProcs, CountRun(p) PROVE Thorough'
  <2>1. /\ \A s \in AutoProcs \ {p} : proc'[s] = proc[s]
        /\ proc[p].pc = "count" /\ proc'[p].pc \in {"idle", "check"} /\ UNCHANGED <<body, ran, skipped, marks>>
        /\ proc'[p].todo \subseteq proc[p].todo
    BY <1>7, Counting
  <2> QED BY <1>0, <2>1, ThoroughStays DEF Holds
<1>8. ASSUME NEW p \in AutoProcs, Finish(p) \/ Killed(p) PROVE Thorough'
  <2>1. /\ \A s \in AutoProcs \ {p} : proc'[s] = proc[s]
        /\ proc'[p].pc = "idle" /\ UNCHANGED <<body, ran, skipped, marks>> /\ proc'[p].todo \subseteq proc[p].todo
    BY <1>8, Ending
  <2>2. ~Holds(p)
    BY <1>8, Ending DEF Holds, Orderly, AutoFault
  <2> QED BY <1>0, <2>1, <2>2, ThoroughStays
<1>9. CASE UNCHANGED <<body, proc, marks, ran, skipped>>
  BY <1>9 DEF Thorough, OwnRules, Of, Holds, Mark, Done
<1> QED BY <1>1, <1>2, <1>3, <1>4, <1>5, <1>6, <1>7, <1>8, <1>9, StreamIs
        DEF AutoNext, Work, EditRead, EditPut, autoVars, AssignByHand, CloseByHand, ReopenByHand, Person, PostEvent

(* Behind the marker of a complete firing every action has been carried    *)
(* out or skipped (_fire), as long as sweeps do not overlap and no claim   *)
(* outlives the fault that kept its action from running.                   *)
THEOREM CompleteMeansDone ==
    ASSUME \A p, q \in Sweeps : p = q,
           {"unwritten", "undo", "killed_acting"} \cap AutoFaults = {}
    PROVE  AutoSafe => []RunMeansDone
<1>1. Orderly
  BY DEF Orderly
<1> QED BY <1>1, ShapesInit, ShapesNext, ThoroughInit, ThoroughNext, ThoroughMeans, PTL DEF AutoSafe
=============================================================================
