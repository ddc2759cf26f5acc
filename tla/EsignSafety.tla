---------------------------- MODULE EsignSafety ----------------------------
(***************************************************************************)
(* Proofs of what Govern e-signature guarantees, for any number of         *)
(* envelopes, signers, invocations and faults.                             *)
(*                                                                         *)
(* First the types, proved from the actions that can disturb them.  Then   *)
(* every step of the handlers is a step of EnvelopeLifecycle or leaves the *)
(* envelopes alone; the signing order and the signatures a seal needs      *)
(* follow from the steps of the lifecycle.  Last, classified by what a move *)
(* of one invocation does to the contract, to an envelope, its links, its  *)
(* message and its file: the seal queue and what a completed or a failed   *)
(* envelope says, and how contract and envelopes move together.            *)
(***************************************************************************)
EXTENDS Esign, TLAPS

(* The initial state has the types.                                        *)
LEMMA TypeInit == Init => TypeOK
BY NoneAssumption, BoundsAssumption
   DEF Init, TypeOK, Shapes, ContextOK, Fits, States, OpenStates, TerminalStates, Statuses, Labels, Contexts,
       NoContext, Request, AllowedFrom

(* What the handlers go by has its type.                                   *)
LEMMA ContextTypes ==
    /\ \A e \in Envelopes \cup {None} : Request(e) \in Contexts
    /\ \A e \in Envelopes, s \in Signers, d \in Drawings : Submission(e, s, d) \in Contexts
    /\ \A e \in Envelopes \cup {None}, due \in SUBSET Signers : Inviting(e, due) \in Contexts
    /\ \A op \in DOMAIN AllowedFrom, e, old \in Envelopes \cup {None} :
          Leaving(op, e, old) \in Contexts
    /\ \A e \in Envelopes \cup {None}, n \in 0 .. MaxReceive, tried \in Nat :
          Delivery(e, n, tried) \in Contexts
BY BoundsAssumption DEF Request, Submission, Inviting, Leaving, Delivery, Contexts

(* What a running invocation goes by, field by field.                      *)
LEMMA ContextFields ==
    ASSUME TypeOK, NEW p \in Procs
    PROVE  /\ ctx[p].env \in Envelopes \cup {None}
           /\ ctx[p].draw \in Drawings \cup {None}
           /\ ctx[p].due \in SUBSET Signers
           /\ ctx[p].old \in Envelopes \cup {None}
           /\ ctx[p].seen \in Nat
           /\ ctx[p].turn \in 0 .. MaxReceive
<1>1. ctx[p] \in Contexts
  BY DEF TypeOK, Shapes
<1> QED BY <1>1 DEF Contexts

(* The envelope a step is about.                                           *)
LEMMA ContextEnvelope ==
    ASSUME TypeOK, NEW p \in Procs, pc[p] # "idle",
           p \in Workers \/ pc[p] \notin LeaveLabels
    PROVE  ctx[p].env \in Envelopes
BY DEF TypeOK, ContextOK, Fits

(* The tables of ContractStates name contract states only.                 *)
LEMMA StateTables ==
    \A op \in DOMAIN AllowedFrom :
        AllowedFrom[op] \subseteq States /\ StatesAfter[op] \subseteq States
BY DEF AllowedFrom, StatesAfter, States, OpenStates, TerminalStates

(* The actions that leave signature are actions of the table.              *)
LEMMA LeaveOps == LeavesSignature \subseteq DOMAIN AllowedFrom
BY DEF LeavesSignature, AllowedFrom

(* Whoever is due is a signer.                                             *)
LEMMA DueTypes == \A done : DueAfter(done) \in SUBSET Signers
BY DEF DueAfter

(* Steps of govern-api on drafts.                                          *)
LEMMA TypeDrafts ==
    ASSUME TypeOK, NEW e \in Envelopes,
           CreateDraft(e) \/ UpdateDraft(e) \/ DeleteDraft(e) \/ Resend(e)
    PROVE  Shapes'
<1>1. CASE CreateDraft(e)
  BY <1>1 DEF CreateDraft, SetStatus, TypeOK, Shapes, Statuses, contractVars, storeVars, queueVars, procVars
<1>2. CASE UpdateDraft(e)
  BY <1>2 DEF UpdateDraft, TypeOK, Shapes, contractVars, storeVars, queueVars, procVars
<1>3. CASE DeleteDraft(e)
  BY <1>3 DEF DeleteDraft, SetStatus, TypeOK, Shapes, Statuses, contractVars, queueVars, procVars
<1>4. CASE Resend(e)
  BY <1>4 DEF Resend, TypeOK, Shapes, contractVars, storeVars, queueVars, procVars
<1> QED BY <1>1, <1>2, <1>3, <1>4

(* Steps that start an invocation.                                         *)
LEMMA TypeRequests ==
    ASSUME TypeOK, NEW p \in Callers, NEW e \in Envelopes,
           \/ SendCheck(p, e) \/ CompleteOpen(p, e) \/ SweepRead(p, e)
           \/ Decline(p, e) \/ Void(p, e)
    PROVE  Shapes'
<1> USE DEF TypeOK, Shapes, Start, Goto, Procs, Labels
<1>0. /\ Request(e) \in Contexts
      /\ \A s \in Signers, d \in Drawings : Submission(e, s, d) \in Contexts
  BY ContextTypes
<1>1. CASE SendCheck(p, e)
  BY <1>0, <1>1 DEF SendCheck, contractVars, envelopeVars, storeVars, queueVars
<1>2. CASE CompleteOpen(p, e)
  BY <1>0, <1>2 DEF CompleteOpen, Ready, Due, DueAfter, contractVars, envelopeVars, storeVars, queueVars
<1>3. CASE SweepRead(p, e)
  BY <1>0, <1>3 DEF SweepRead, contractVars, envelopeVars, storeVars, queueVars
<1>4. CASE Decline(p, e)
  BY <1>0, <1>4 DEF Decline, EndUnsigned, SetStatus, Statuses, contractVars, storeVars, queueVars
<1>5. CASE Void(p, e)
  BY <1>0, <1>5 DEF Void, EndUnsigned, SetStatus, Statuses, contractVars, storeVars, queueVars
<1> QED BY <1>1, <1>2, <1>3, <1>4, <1>5
(* Steps of running api, signing and sweeper invocations.                  *)
LEMMA TypeCallers ==
    ASSUME TypeOK, NEW p \in Callers,
           \/ SendMark(p)
           \/ SendContract(p)
           \/ SendRollback(p)
           \/ Invite(p)
           \/ CompletePutImage(p)
           \/ CompleteSign(p)
           \/ CompleteEnqueue(p)
           \/ SweepExpire(p)
           \/ RevokeLinks(p)
           \/ CancelEsign(p)
    PROVE  Shapes'
<1> USE DEF TypeOK, Shapes, Start, Stop, Goto, Return, SetStatus, Fault, Procs, Labels, Statuses,
    contractVars, envelopeVars, storeVars, queueVars, procVars
<1>0. NoContext \in Contexts
  BY ContextTypes DEF NoContext
<1>1. CASE SendMark(p)
  <2>1. Inviting(ctx[p].env, Due(ctx[p].env)) \in Contexts
    BY ContextTypes, ContextFields, DueTypes DEF Due
  <2>2. ctx' \in [Procs -> Contexts]
    BY <1>0, <1>1, <2>1 DEF SendMark
  <2>3. pc' \in [Procs -> Labels]
    BY <1>1 DEF SendMark
  <2>4. status' \in [Envelopes -> Statuses]
    BY <1>1 DEF SendMark
  <2> QED BY <1>1, <2>2, <2>3, <2>4 DEF SendMark
<1>2. CASE SendContract(p)
  <2>1. ctx[p].env \in Envelopes
    BY <1>2, ContextEnvelope DEF SendContract, LeaveLabels
  <2>2. state' \in States /\ sig' \in Envelopes \cup {Manual, None}
    BY <1>2, <2>1 DEF SendContract, States, OpenStates
  <2>3. faults' \in 0 .. MaxFaults
    BY <1>2, BoundsAssumption DEF SendContract
  <2>4. pc' \in [Procs -> Labels]
    BY <1>2 DEF SendContract
  <2> QED BY <1>2, <2>2, <2>3, <2>4 DEF SendContract
<1>3. CASE SendRollback(p)
  BY <1>0, <1>3 DEF SendRollback, StatusAfterRollback
<1>4. CASE Invite(p)
  BY <1>0, <1>4 DEF Invite, LinksAfterInvite, Contexts
<1>5. CASE CompletePutImage(p)
  BY <1>0, <1>5, ContextFields DEF CompletePutImage
<1>6. CASE CompleteSign(p)
  <2> DEFINE e == ctx[p].env
             done == signed'[e]
  <2>0. e \in Envelopes /\ ctx[p].who \in Signers
    BY <1>6 DEF CompleteSign, LeaveLabels, ContextOK, Fits
  <2>1. ToInvite(e, done) \in SUBSET Signers
    BY DueTypes DEF ToInvite
  <2>2. Inviting(e, ToInvite(e, done)) \in Contexts
    BY <2>1, ContextTypes, ContextFields
  <2>4. StatusAfterSigning(e, ctx[p].who) \in Statuses
    BY DEF StatusAfterSigning
  <2> HIDE DEF Statuses, Labels
  <2>5. ctx' \in [Procs -> Contexts]
    BY <1>0, <1>6, <2>2 DEF CompleteSign
  <2>6. pc' \in [Procs -> Labels]
    BY <1>6 DEF CompleteSign, Labels
  <2>7. signed' \in [Envelopes -> SUBSET Signers]
    BY <1>6, <2>0 DEF CompleteSign
  <2>8. adopted' \in [Envelopes -> [Signers -> Drawings \cup {None}]]
    <3>1. \/ adopted' = [adopted EXCEPT ![e][ctx[p].who] = ctx[p].draw]
          \/ adopted' = adopted
      BY <1>6 DEF CompleteSign
    <3>2. adopted \in [Envelopes -> [Signers -> Drawings \cup {None}]]
      OBVIOUS
    <3>3. [adopted[e] EXCEPT ![ctx[p].who] = ctx[p].draw] \in [Signers -> Drawings \cup {None}]
      BY <3>2, <2>0, ContextFields
    <3> HIDE DEF TypeOK, Shapes, e
    <3> QED BY <3>1, <3>2, <3>3, <2>0
  <2>9. status' \in [Envelopes -> Statuses]
    BY <1>6, <2>4 DEF CompleteSign
  <2> QED BY <1>6, <2>5, <2>6, <2>7, <2>8, <2>9 DEF CompleteSign
<1>7. CASE CompleteEnqueue(p)
  BY <1>0, <1>7 DEF CompleteEnqueue
<1>8. CASE SweepExpire(p)
  BY <1>0, <1>8 DEF SweepExpire
<1>9. CASE RevokeLinks(p)
  BY <1>0, <1>9 DEF RevokeLinks
<1>10. CASE CancelEsign(p)
  BY <1>0, <1>10 DEF CancelEsign, States, OpenStates
<1> QED BY <1>1, <1>2, <1>3, <1>4, <1>5, <1>6, <1>7, <1>8, <1>9, <1>10

(* Steps of running seal invocations.                                      *)
LEMMA TypeWorkers ==
    ASSUME TypeOK, NEW w \in Workers,
           \/ SealBuild(w)
           \/ SealNote(w)
           \/ SealPut(w)
           \/ SealDone(w)
           \/ MarkRead(w)
           \/ Ack(w)
    PROVE  Shapes'
<1> USE DEF TypeOK, Shapes, Start, Stop, Goto, Return, SetStatus, Fault, Procs, Labels, Statuses,
    contractVars, envelopeVars, storeVars, queueVars, procVars
<1>0. NoContext \in Contexts
  BY ContextTypes DEF NoContext
<1>1. CASE SealBuild(w)
  BY <1>0, <1>1 DEF SealBuild
<1>2. CASE SealNote(w)
  <2>1. AttemptsAfterFailure(w) \in Nat
    BY ContextFields DEF AttemptsAfterFailure
  <2>2. StatusAfterFailure(AttemptsAfterFailure(w)) \in Statuses
    BY DEF StatusAfterFailure
  <2>3. QueueAfterFailure(ctx[w].env) \in {"visible", queue[ctx[w].env]}
    BY DEF QueueAfterFailure
  <2>4. attempts' \in [Envelopes -> Nat]
    BY <1>2, <2>1 DEF SealNote
  <2>5. status' \in [Envelopes -> Statuses]
    BY <1>2, <2>2 DEF SealNote
  <2>6. queue' \in [Envelopes -> {"none", "visible", "inflight", "deleted", "dead"}]
    BY <1>2, <2>3 DEF SealNote
  <2>7. pc' \in [Procs -> Labels] /\ ctx' \in [Procs -> Contexts]
    BY <1>0, <1>2 DEF SealNote
  <2> QED BY <1>2, <2>4, <2>5, <2>6, <2>7 DEF SealNote
<1>3. CASE SealPut(w)
  BY <1>0, <1>3 DEF SealPut, Contexts
<1>4. CASE SealDone(w)
  <2>1. ctx[w].turn \in 0 .. MaxReceive
    BY ContextFields
  <2> QED BY <1>4, <2>1 DEF SealDone
<1>5. CASE MarkRead(w)
  <2>1. Leaving("mark_signed", ctx[w].env, EnvelopeOut) \in Contexts
    BY ContextTypes, ContextFields DEF EnvelopeOut, AllowedFrom
  <2>2. ctx' \in [Procs -> Contexts]
    BY <1>5, <2>1 DEF MarkRead
  <2>3. pc' \in [Procs -> Labels]
    BY <1>5 DEF MarkRead
  <2> QED BY <1>5, <2>2, <2>3 DEF MarkRead
<1>6. CASE Ack(w)
  BY <1>0, <1>6 DEF Ack
<1> QED BY <1>1, <1>2, <1>3, <1>4, <1>5, <1>6

(* The last steps of reopen, reject and mark_signed, and crashes.          *)
LEMMA TypeLeaving ==
    ASSUME TypeOK, NEW p \in Procs,
           \/ Commit(p)
           \/ Abandon(p)
           \/ AbandonRevoke(p)
           \/ Crash(p)
    PROVE  Shapes'
<1> USE DEF TypeOK, Shapes, Start, Stop, Goto, Return, SetStatus, Fault, Procs, Labels, Statuses,
    contractVars, envelopeVars, storeVars, queueVars, procVars
<1>0. NoContext \in Contexts
  BY ContextTypes DEF NoContext
<1>1. CASE Commit(p)
  <2> DEFINE op == ctx[p].op
  <2>1. SignatureAfter(op, ctx[p].env) \in Envelopes \cup {Manual, None}
    BY ContextFields DEF SignatureAfter
  <2>2. state \in AllowedFrom[op] => StatesAfter[op] \subseteq States
    BY <1>1, StateTables, LeaveOps DEF Commit, ContextOK, Fits
  <2>3. state' \in States /\ sig' \in Envelopes \cup {Manual, None}
    BY <1>1, <2>1, <2>2 DEF Commit
  <2>4. ctx' \in [Procs -> Contexts]
    BY <1>0, <1>1 DEF Commit
  <2>5. pc' \in [Procs -> Labels]
    BY <1>1 DEF Commit
  <2> QED BY <1>1, <2>3, <2>4, <2>5 DEF Commit
<1>2. CASE Abandon(p)
  BY <1>0, <1>2 DEF Abandon, StatusAfterAbandon
<1>3. CASE AbandonRevoke(p)
  BY <1>0, <1>3 DEF AbandonRevoke
<1>4. CASE Crash(p)
  <2>1. QueueAfterFailure(ctx[p].env) \in {"visible", queue[ctx[p].env]}
    BY DEF QueueAfterFailure
  <2>2. faults' \in 0 .. MaxFaults
    BY <1>4, BoundsAssumption DEF Crash
  <2>3. queue' \in [Envelopes -> {"none", "visible", "inflight", "deleted", "dead"}]
    BY <1>4, <2>1 DEF Crash
  <2>4. pc' \in [Procs -> Labels] /\ ctx' \in [Procs -> Contexts]
    BY <1>0, <1>4 DEF Crash
  <2> QED BY <1>4, <2>2, <2>3, <2>4 DEF Crash
<1> QED BY <1>1, <1>2, <1>3, <1>4

(* Messages of the seal queue.                                             *)
LEMMA TypeQueue ==
    ASSUME TypeOK, NEW w \in Workers, NEW e \in Envelopes,
           \/ Deliver(w, e)
           \/ DeliverAgain(w, e)
    PROVE  Shapes'
<1> USE DEF TypeOK, Shapes, Start, Goto, Procs, Labels, Fault,
    contractVars, envelopeVars, storeVars, queueVars, procVars
<1>1. CASE Deliver(w, e)
  <2>1. Delivery(e, receives[e] + 1, attempts[e]) \in Contexts
    BY <1>1, ContextTypes, BoundsAssumption DEF Deliver, Receive, MayReceive
  <2>2. ctx' \in [Procs -> Contexts]
    BY <1>1, <2>1 DEF Deliver, Receive
  <2>3. pc' \in [Procs -> Labels]
    BY <1>1 DEF Deliver, Receive, AfterReceive
  <2>4. receives' \in [Envelopes -> 0 .. MaxReceive]
    BY <1>1, BoundsAssumption DEF Deliver, Receive, MayReceive
  <2>5. faults' \in 0 .. MaxFaults
    BY <1>1, BoundsAssumption DEF Deliver
  <2>6. queue' \in [Envelopes -> {"none", "visible", "inflight", "deleted", "dead"}]
    BY <1>1 DEF Deliver
  <2> QED BY <1>1, <2>2, <2>3, <2>4, <2>5, <2>6 DEF Deliver, Receive
<1>2. CASE DeliverAgain(w, e)
  <2>1. Delivery(e, receives[e] + 1, attempts[e]) \in Contexts
    BY <1>2, ContextTypes, BoundsAssumption DEF DeliverAgain, Receive, MayReceive
  <2>2. ctx' \in [Procs -> Contexts]
    BY <1>2, <2>1 DEF DeliverAgain, Receive
  <2>3. pc' \in [Procs -> Labels]
    BY <1>2 DEF DeliverAgain, Receive, AfterReceive
  <2>4. receives' \in [Envelopes -> 0 .. MaxReceive]
    BY <1>2, BoundsAssumption DEF DeliverAgain, Receive, MayReceive
  <2>5. faults' \in 0 .. MaxFaults
    BY <1>2, BoundsAssumption DEF DeliverAgain
  <2>6. queue' \in [Envelopes -> {"none", "visible", "inflight", "deleted", "dead"}]
    BY <1>2 DEF DeliverAgain
  <2> QED BY <1>2, <2>2, <2>3, <2>4, <2>5, <2>6 DEF DeliverAgain, Receive
<1> QED BY <1>1, <1>2

(* Reviewer actions.                                                       *)
LEMMA TypeReview ==
    ASSUME TypeOK, NEW e, NEW op,
           \/ Act(op)
           \/ Revise
           \/ DeadLetter(e)
    PROVE  Shapes'
<1> USE DEF TypeOK, Shapes, Start, Goto, Procs, Labels, Fault,
    contractVars, envelopeVars, storeVars, queueVars, procVars
<1>1. CASE Act(op)
  <2>1. state' \in States
    BY <1>1, StateTables DEF Act
  <2> QED BY <1>1, <2>1 DEF Act
<1>2. CASE Revise
  BY <1>2 DEF Revise, States, OpenStates
<1>3. CASE DeadLetter(e)
  BY <1>3 DEF DeadLetter
<1> QED BY <1>1, <1>2, <1>3

(* The reads before the write of reopen, reject and mark_signed.           *)
LEMMA TypeLeaveRead ==
    ASSUME TypeOK, NEW p \in Callers, NEW op \in Ops, LeaveRead(p, op)
    PROVE  Shapes'
<1>1. Leaving(op, None, EnvelopeOut) \in Contexts
  BY ContextTypes, LeaveOps DEF LeaveRead, EnvelopeOut
<1> QED BY <1>1 DEF LeaveRead, TypeOK, Shapes, Start, Goto, Procs, Labels,
    contractVars, envelopeVars, storeVars, queueVars

(* ------------------------------------------------------------------------ *)
(* A step of one invocation leaves what the others are at and go by.       *)
LEMMA OneMoves ==
    ASSUME TypeOK, NEW p \in Procs, NEW e, NEW op,
           \/ NewRequest(p, e) \/ LeaveRead(p, op) \/ Deliver(p, e) \/ DeliverAgain(p, e)
           \/ CallerStep(p) \/ WorkerStep(p) \/ LeaveStep(p) \/ Crash(p)
    PROVE  \A q \in Procs \ {p} : pc'[q] = pc[q] /\ ctx'[q] = ctx[q]
<1> USE DEF Start, Stop, Return, Goto
<1>0. pc \in [Procs -> Labels] /\ ctx \in [Procs -> Contexts]
  BY DEF TypeOK, Shapes
<1>1. CASE NewRequest(p, e) \/ LeaveRead(p, op)
  BY <1>1, <1>0 DEF NewRequest, SendCheck, CompleteOpen, SweepRead, Decline, Void, EndUnsigned,
     LeaveRead
<1>2. CASE Deliver(p, e) \/ DeliverAgain(p, e)
  BY <1>2, <1>0 DEF Deliver, DeliverAgain, Receive
<1>3. CASE CallerStep(p)
  BY <1>3, <1>0 DEF CallerStep, SendMark, SendContract, SendRollback, Invite, CompletePutImage,
     CompleteSign, CompleteEnqueue, SweepExpire, RevokeLinks, CancelEsign
<1>4. CASE WorkerStep(p)
  BY <1>4, <1>0 DEF WorkerStep, SealBuild, SealNote, SealPut, SealDone, MarkRead, Ack
<1>5. CASE LeaveStep(p)
  BY <1>5, <1>0 DEF LeaveStep, Commit, Abandon, AbandonRevoke
<1>6. CASE Crash(p)
  BY <1>6, <1>0 DEF Crash
<1> QED BY <1>1, <1>2, <1>3, <1>4, <1>5, <1>6

(* Only the invocation that takes a step changes what it goes by.           *)
LEMMA ContextStep ==
    ASSUME TypeOK, NEW p \in Procs,
           \A q \in Procs \ {p} : pc'[q] = pc[q] /\ ctx'[q] = ctx[q],
           Fits(p, pc'[p], ctx'[p])
    PROVE  ContextOK'
<1> SUFFICES ASSUME NEW q \in Procs PROVE Fits(q, pc'[q], ctx'[q])
  BY DEF ContextOK
<1>1. CASE q = p
  BY <1>1
<1>2. CASE q # p
  BY <1>2 DEF TypeOK, ContextOK
<1> QED BY <1>1, <1>2

(* Steps that start an invocation.                                          *)
LEMMA ContextRequests ==
    ASSUME TypeOK, NEW p \in Callers, NEW e \in Envelopes,
           \/ SendCheck(p, e) \/ CompleteOpen(p, e) \/ SweepRead(p, e)
           \/ Decline(p, e) \/ Void(p, e)
    PROVE  ContextOK'
<1>0. p \in Procs /\ p \notin Workers
  BY RunsAssumption DEF Procs
<1>b. \A label \in {"send_mark", "expire", "revoke"} : Fits(p, label, Request(e))
  BY <1>0 DEF Fits, Request, LeaveLabels
<1>c. \A s \in Signers, d \in Drawings : Fits(p, "put_image", Submission(e, s, d))
  BY <1>0 DEF Fits, Submission, LeaveLabels
<1>1. PICK label, c : Start(p, label, c) /\ Fits(p, label, c)
  <2>1. CASE SendCheck(p, e)
    <3>1. Start(p, "send_mark", Request(e))
      BY <2>1 DEF SendCheck
    <3> QED BY <3>1, <1>b
  <2>2. CASE CompleteOpen(p, e)
    <3>1. \E s \in Signers, d \in Drawings : Start(p, "put_image", Submission(e, s, d))
      BY <2>2 DEF CompleteOpen, Ready, Due, DueAfter
    <3> QED BY <3>1, <1>c
  <2>3. CASE SweepRead(p, e)
    <3>1. Start(p, "expire", Request(e))
      BY <2>3 DEF SweepRead
    <3> QED BY <3>1, <1>b
  <2>4. CASE Decline(p, e) \/ Void(p, e)
    <3>1. Start(p, "revoke", Request(e))
      BY <2>4 DEF Decline, Void, EndUnsigned
    <3> QED BY <3>1, <1>b
  <2> QED BY <2>1, <2>2, <2>3, <2>4
<1>2. /\ pc'[p] = label /\ ctx'[p] = c
      /\ \A q \in Procs \ {p} : pc'[q] = pc[q] /\ ctx'[q] = ctx[q]
  BY <1>0, <1>1 DEF Start, Goto, TypeOK, Shapes
<1> QED BY <1>0, <1>1, <1>2, ContextStep

(* The reads before the write of reopen, reject and mark_signed.            *)
LEMMA ContextLeaveRead ==
    ASSUME TypeOK, NEW p \in Callers, NEW op \in Ops, LeaveRead(p, op)
    PROVE  ContextOK'
<1>1. p \in Procs /\ p \notin Workers
  BY RunsAssumption DEF Procs
<1>2. Fits(p, "commit", Leaving(op, None, EnvelopeOut))
  BY <1>1 DEF LeaveRead, Leaving, Fits, LeaveLabels
<1>3. /\ pc'[p] = "commit" /\ ctx'[p] = Leaving(op, None, EnvelopeOut)
      /\ \A q \in Procs \ {p} : pc'[q] = pc[q] /\ ctx'[q] = ctx[q]
  BY <1>1 DEF LeaveRead, Start, Goto, TypeOK, Shapes
<1> QED BY <1>1, <1>2, <1>3, ContextStep

(* Steps of running invocations.                                            *)
LEMMA ContextSteps ==
    ASSUME TypeOK, NEW p \in Procs,
           \/ p \in Callers /\ CallerStep(p)
           \/ p \in Workers /\ WorkerStep(p)
           \/ LeaveStep(p) \/ Crash(p)
    PROVE  ContextOK'
<1> USE DEF Start, Stop, Return, Goto, LeaveLabels
<1>0. pc \in [Procs -> Labels] /\ ctx \in [Procs -> Contexts] /\ Fits(p, pc[p], ctx[p])
  BY DEF TypeOK, Shapes, ContextOK
<1>a. p \in Workers => p \notin Callers
  BY RunsAssumption
<1>1. \A q \in Procs \ {p} : pc'[q] = pc[q] /\ ctx'[q] = ctx[q]
  BY OneMoves
<1>2. Fits(p, pc'[p], ctx'[p])
  <2> USE DEF Fits
  <2>1. CASE p \in Callers /\ (SendMark(p) \/ CompleteSign(p))
    BY <2>1, <1>0, <1>a DEF SendMark, CompleteSign, Inviting
  <2>2. CASE p \in Callers /\ CallerStep(p) /\ ~SendMark(p) /\ ~CompleteSign(p)
    BY <2>2, <1>0, <1>a DEF CallerStep, SendContract, SendRollback, Invite, CompletePutImage,
       CompleteEnqueue, SweepExpire, RevokeLinks, CancelEsign
  <2>3. CASE p \in Workers /\ MarkRead(p)
    BY <2>3, <1>0, <1>a DEF MarkRead, Leaving, LeavesSignature
  <2>4. CASE p \in Workers /\ WorkerStep(p) /\ ~MarkRead(p)
    BY <2>4, <1>0, <1>a DEF WorkerStep, SealBuild, SealNote, SealPut, SealDone, Ack
  <2>5. CASE LeaveStep(p)
    BY <2>5, <1>0, <1>a DEF LeaveStep, Commit, Abandon, AbandonRevoke, Contexts
  <2>6. CASE Crash(p)
    BY <2>6, <1>0, <1>a DEF Crash
  <2> QED BY <2>1, <2>2, <2>3, <2>4, <2>5, <2>6
<1> QED BY <1>1, <1>2, ContextStep

(* Messages of the seal queue.                                              *)
LEMMA ContextQueue ==
    ASSUME TypeOK, NEW w \in Workers, NEW e \in Envelopes,
           Deliver(w, e) \/ DeliverAgain(w, e)
    PROVE  ContextOK'
<1>1. Receive(w, e) /\ w \in Procs
  BY DEF Deliver, DeliverAgain, Procs
<1>2. AfterReceive(e) \in {"build", "ack"}
  BY DEF AfterReceive
<1>3. Fits(w, AfterReceive(e), Delivery(e, receives[e] + 1, attempts[e]))
  BY <1>2 DEF Fits, Delivery, LeaveLabels
<1>4. /\ pc'[w] = AfterReceive(e) /\ ctx'[w] = Delivery(e, receives[e] + 1, attempts[e])
      /\ \A q \in Procs \ {w} : pc'[q] = pc[q] /\ ctx'[q] = ctx[q]
  BY <1>1 DEF Receive, Start, Goto, TypeOK, Shapes
<1> QED BY <1>1, <1>3, <1>4, ContextStep

(* Steps that leave the invocations alone.                                  *)
LEMMA ContextUnchanged ==
    ASSUME TypeOK, UNCHANGED procVars
    PROVE  ContextOK'
BY DEF TypeOK, ContextOK, Fits, procVars

(* No step leaves the types.                                                *)
LEMMA TypeStep == TypeOK /\ [Next]_vars => TypeOK'
<1> SUFFICES ASSUME TypeOK, [Next]_vars PROVE TypeOK'
  OBVIOUS
<1>1. CASE UNCHANGED vars
  <2>1. Shapes'
    BY <1>1 DEF TypeOK, Shapes, vars, contractVars, envelopeVars, storeVars, queueVars, procVars
  <2> QED BY <1>1, <2>1, ContextUnchanged DEF TypeOK, vars
<1>2. ASSUME NEW e \in Envelopes,
             CreateDraft(e) \/ UpdateDraft(e) \/ DeleteDraft(e) \/ Resend(e)
      PROVE  TypeOK'
  <2>1. UNCHANGED procVars
    BY <1>2 DEF CreateDraft, UpdateDraft, DeleteDraft, Resend
  <2> QED BY <1>2, <2>1, TypeDrafts, ContextUnchanged DEF TypeOK
<1>3. ASSUME NEW p \in Callers, NEW e \in Envelopes,
             \/ SendCheck(p, e) \/ CompleteOpen(p, e) \/ SweepRead(p, e)
             \/ Decline(p, e) \/ Void(p, e)
      PROVE  TypeOK'
  <2>1. Shapes'
    BY <1>3, TypeRequests
  <2>2. ContextOK'
    BY <1>3, ContextRequests
  <2> QED BY <2>1, <2>2 DEF TypeOK
<1>4. ASSUME NEW op, NEW e, Act(op) \/ Revise \/ DeadLetter(e) PROVE TypeOK'
  <2>1. UNCHANGED procVars
    BY <1>4 DEF Act, Revise, DeadLetter
  <2> QED BY <1>4, <2>1, TypeReview, ContextUnchanged DEF TypeOK
<1>5. ASSUME NEW p \in Callers, NEW op \in Ops, LeaveRead(p, op) PROVE TypeOK'
  <2>1. Shapes'
    BY <1>5, TypeLeaveRead
  <2>2. ContextOK'
    BY <1>5, ContextLeaveRead
  <2> QED BY <2>1, <2>2 DEF TypeOK
<1>6. ASSUME NEW w \in Workers, NEW e \in Envelopes, Deliver(w, e) \/ DeliverAgain(w, e)
      PROVE  TypeOK'
  <2>1. Shapes'
    BY <1>6, TypeQueue
  <2>2. ContextOK'
    BY <1>6, ContextQueue
  <2> QED BY <2>1, <2>2 DEF TypeOK
<1>7. ASSUME NEW p \in Callers, CallerStep(p) PROVE TypeOK'
  <2>1. Shapes'
    BY <1>7, TypeCallers DEF CallerStep
  <2>2. ContextOK'
    BY <1>7, ContextSteps DEF Procs
  <2> QED BY <2>1, <2>2 DEF TypeOK
<1>8. ASSUME NEW w \in Workers, WorkerStep(w) PROVE TypeOK'
  <2>1. Shapes'
    BY <1>8, TypeWorkers DEF WorkerStep
  <2>2. ContextOK'
    BY <1>8, ContextSteps DEF Procs
  <2> QED BY <2>1, <2>2 DEF TypeOK
<1>9. ASSUME NEW p \in Procs, LeaveStep(p) \/ Crash(p) PROVE TypeOK'
  <2>1. Shapes'
    BY <1>9, TypeLeaving DEF LeaveStep
  <2>2. ContextOK'
    BY <1>9, ContextSteps
  <2> QED BY <2>1, <2>2 DEF TypeOK
<1> QED
  BY <1>1, <1>2, <1>3, <1>4, <1>5, <1>6, <1>7, <1>8, <1>9
  DEF Next, Prepare, NewRequest, Review, Queue, Step

(* Types are correct (esign.py and workflow.py never store or go by         *)
(* anything else), for every number of envelopes, signers and invocations.  *)
THEOREM TypeCorrect == Safe => []TypeOK
<1>1. Init => TypeOK
  BY TypeInit
<1>2. TypeOK /\ [Next]_vars => TypeOK'
  BY TypeStep
<1> QED BY <1>1, <1>2, PTL DEF Safe

(* Steps that change no status and no signature.                           *)
LEMMA QuietSteps ==
    ASSUME NEW p, NEW e, NEW op,
           \/ Resend(e) \/ SendCheck(p, e) \/ CompleteOpen(p, e) \/ SweepRead(p, e)
           \/ Act(op) \/ Revise \/ LeaveRead(p, op) \/ Deliver(p, e) \/ DeliverAgain(p, e)
           \/ DeadLetter(e) \/ SendContract(p) \/ Invite(p) \/ CompletePutImage(p)
           \/ CompleteEnqueue(p) \/ RevokeLinks(p) \/ CancelEsign(p) \/ SealBuild(p)
           \/ SealPut(p) \/ MarkRead(p) \/ Ack(p) \/ Commit(p) \/ AbandonRevoke(p) \/ Crash(p)
    PROVE  UNCHANGED <<status, signed>>
BY DEF Resend, SendCheck, CompleteOpen, SweepRead, Act, Revise, LeaveRead, Deliver, DeliverAgain,
   Receive, DeadLetter, SendContract, Invite, CompletePutImage, CompleteEnqueue, RevokeLinks,
   CancelEsign, SealBuild, SealPut, MarkRead, Ack, Commit, AbandonRevoke, Crash, envelopeVars

(* A step on a draft is one of the lifecycle.                              *)
LEMMA DraftSteps ==
    ASSUME TypeOK, NEW e \in Envelopes, CreateDraft(e) \/ UpdateDraft(e) \/ DeleteDraft(e)
    PROVE  Lifecycle!Next
<1>1. CASE CreateDraft(e)
  BY <1>1 DEF CreateDraft, SetStatus, Lifecycle!Next, Lifecycle!Prepare, Lifecycle!MoveTo
<1>2. CASE UpdateDraft(e)
  BY <1>2 DEF UpdateDraft, Lifecycle!Next, Lifecycle!Edit
<1>3. CASE DeleteDraft(e)
  BY <1>3 DEF DeleteDraft, SetStatus, Lifecycle!Next, Lifecycle!Discard, Lifecycle!MoveTo
<1> QED BY <1>1, <1>2, <1>3

(* So is the end of an envelope that is out.                               *)
LEMMA UnsignedEnds ==
    ASSUME NEW e \in Envelopes, NEW to \in {"declined", "voided", "expired"},
           status[e] = "sent", SetStatus(e, to), UNCHANGED signed
    PROVE  Lifecycle!Next
BY DEF SetStatus, Lifecycle!Next, Lifecycle!EndUnsigned, Lifecycle!MoveTo

(* And the write of a submission.                                          *)
LEMMA SigningSteps ==
    ASSUME TypeOK, NEW p \in Callers, CompleteSign(p)
    PROVE  Lifecycle!Next \/ UNCHANGED <<status, signed>>
<1> DEFINE e == ctx[p].env
           s == ctx[p].who
<1>1. e \in Envelopes /\ s \in Signers
  BY DEF CompleteSign, LeaveLabels, TypeOK, ContextOK, Fits, Procs
<1>2. CASE Ready(e, s) /\ signed' = [signed EXCEPT ![e] = @ \cup {s}]
           /\ SetStatus(e, StatusAfterSigning(e, s))
  <2>1. s \notin signed[e] /\ status[e] = "sent"
    BY <1>2 DEF Ready, Due, DueAfter
  <2>2. \A t \in Signers : Rank[t] < Rank[s] => t \in signed[e]
    BY <1>1, <1>2, SignersAssumption DEF Ready, Due, DueAfter
  <2>3. signed'[e] = signed[e] \cup {s}
    BY <1>1, <1>2 DEF TypeOK, Shapes
  <2>4. Lifecycle!Sign(e, s)
    BY <1>2, <2>1, <2>2, <2>3 DEF SetStatus, StatusAfterSigning, Lifecycle!Sign, Lifecycle!MoveTo
  <2> QED BY <1>1, <2>4 DEF Lifecycle!Next
<1>3. CASE UNCHANGED <<status, signed>>
  BY <1>3
<1> QED BY <1>2, <1>3 DEF CompleteSign

(* And what govern-seal stores of an envelope.                             *)
LEMMA SealingSteps ==
    ASSUME TypeOK, NEW w \in Workers, SealNote(w) \/ SealDone(w)
    PROVE  Lifecycle!Next \/ UNCHANGED <<status, signed>>
<1> DEFINE e == ctx[w].env
<1>1. e \in Envelopes /\ status \in [Envelopes -> Statuses]
  BY DEF SealNote, SealDone, TypeOK, Shapes, ContextOK, Fits, Procs
<1>2. UNCHANGED signed
  BY DEF SealNote, SealDone
<1>3. \/ UNCHANGED status
      \/ /\ status[e] = "sealing"
         /\ \E to \in {"sealing", "completed", "failed"} : status' = [status EXCEPT ![e] = to]
  BY DEF SealNote, SealDone, SetStatus, StatusAfterFailure
<1>4. CASE status[e] = "sealing" /\ status' = [status EXCEPT ![e] = "sealing"]
  BY <1>1, <1>2, <1>4
<1>5. CASE status[e] = "sealing"
           /\ \E to \in {"completed", "failed"} : status' = [status EXCEPT ![e] = to]
  BY <1>1, <1>2, <1>5 DEF Lifecycle!Next, Lifecycle!EndSealing, Lifecycle!MoveTo
<1> QED BY <1>2, <1>3, <1>4, <1>5

(* Every step of the handlers is a step of the lifecycle or leaves the     *)
(* envelopes alone.                                                        *)
LEMMA LifecycleStep == TypeOK /\ [Next]_vars => [Lifecycle!Next]_(Lifecycle!vars)
<1> SUFFICES ASSUME TypeOK, [Next]_vars
             PROVE  Lifecycle!Next \/ UNCHANGED <<status, signed>>
  BY DEF Lifecycle!vars
<1>1. CASE UNCHANGED vars
  BY <1>1 DEF vars, envelopeVars
<1>2. ASSUME NEW e \in Envelopes, Prepare(e)
      PROVE  Lifecycle!Next \/ UNCHANGED <<status, signed>>
  BY <1>2, DraftSteps, QuietSteps DEF Prepare
<1>3. ASSUME NEW p \in Callers, NEW e \in Envelopes, NewRequest(p, e)
      PROVE  Lifecycle!Next \/ UNCHANGED <<status, signed>>
  <2>1. CASE Decline(p, e)
    BY <2>1, UnsignedEnds DEF Decline, EndUnsigned
  <2>2. CASE Void(p, e)
    BY <2>2, UnsignedEnds DEF Void, EndUnsigned
  <2> QED BY <1>3, <2>1, <2>2, QuietSteps DEF NewRequest
<1>4. CASE Review
  BY <1>4, QuietSteps DEF Review
<1>5. CASE Queue
  BY <1>5, QuietSteps DEF Queue
<1>6. ASSUME NEW p \in Callers, CallerStep(p)
      PROVE  Lifecycle!Next \/ UNCHANGED <<status, signed>>
  <2> DEFINE e == ctx[p].env
  <2>0. p \in Procs /\ (pc[p] # "idle" /\ pc[p] \notin LeaveLabels => e \in Envelopes)
    BY ContextEnvelope DEF Procs
  <2>1. CASE SendMark(p)
    BY <2>0, <2>1 DEF SendMark, MayMarkSent, SetStatus, LeaveLabels,
       Lifecycle!Next, Lifecycle!Send, Lifecycle!MoveTo
  <2>2. CASE SendRollback(p)
    <3>1. e \in Envelopes /\ status \in [Envelopes -> Statuses]
      BY <2>0, <2>2 DEF SendRollback, LeaveLabels, TypeOK, Shapes
    <3>2. UNCHANGED signed
      BY <2>2 DEF SendRollback
    <3>3. CASE status[e] = "sent"
      BY <2>2, <3>1, <3>2, <3>3 DEF SendRollback, StatusAfterRollback, SetStatus,
         Lifecycle!Next, Lifecycle!PullBack, Lifecycle!MoveTo
    <3>4. CASE status[e] # "sent"
      BY <2>2, <3>1, <3>2, <3>4 DEF SendRollback, StatusAfterRollback, SetStatus
    <3> QED BY <3>3, <3>4
  <2>3. CASE CompleteSign(p)
    BY <2>3, SigningSteps
  <2>4. CASE SweepExpire(p)
    <3>1. e \in Envelopes /\ UNCHANGED signed
      BY <2>0, <2>4 DEF SweepExpire, LeaveLabels
    <3>2. UNCHANGED status \/ (status[e] = "sent" /\ SetStatus(e, "expired"))
      BY <2>4 DEF SweepExpire
    <3> QED BY <3>1, <3>2, UnsignedEnds
  <2> QED BY <1>6, <2>1, <2>2, <2>3, <2>4, QuietSteps DEF CallerStep
<1>7. ASSUME NEW w \in Workers, WorkerStep(w)
      PROVE  Lifecycle!Next \/ UNCHANGED <<status, signed>>
  BY <1>7, SealingSteps, QuietSteps DEF WorkerStep
<1>8. ASSUME NEW p \in Procs, LeaveStep(p) \/ Crash(p)
      PROVE  Lifecycle!Next \/ UNCHANGED <<status, signed>>
  <2> DEFINE e == ctx[p].old
  <2>1. CASE Abandon(p)
    <3>1. e \in Envelopes /\ status \in [Envelopes -> Statuses] /\ UNCHANGED signed
      BY <2>1 DEF Abandon, TypeOK, Shapes, ContextOK, Fits
    <3>2. CASE status[e] = "sent"
      BY <2>1, <3>1, <3>2, UnsignedEnds DEF Abandon, StatusAfterAbandon
    <3>3. CASE status[e] # "sent"
      BY <2>1, <3>1, <3>3 DEF Abandon, StatusAfterAbandon, SetStatus
    <3> QED BY <3>2, <3>3
  <2> QED BY <1>8, <2>1, QuietSteps DEF LeaveStep
<1> QED
  BY <1>1, <1>2, <1>3, <1>4, <1>5, <1>6, <1>7, <1>8 DEF Next, Step

(* The handlers implement the lifecycle: whatever requests race and        *)
(* whichever faults strike, an envelope only ever moves as promised.       *)
THEOREM ImplementsLifecycle == Safe => LifecycleHolds
<1>1. Init => Lifecycle!Init
  BY DEF Init, Lifecycle!Init
<1>2. TypeOK /\ [Next]_vars => [Lifecycle!Next]_(Lifecycle!vars)
  BY LifecycleStep
<1> QED BY <1>1, <1>2, TypeCorrect, PTL DEF Safe, LifecycleHolds, Lifecycle!Spec
-----------------------------------------------------------------------------
(* The signing order, step by step of the lifecycle.                       *)
LEMMA SigningOrderStep ==
    ASSUME TypeOK, SigningOrder, [Lifecycle!Next]_(Lifecycle!vars)
    PROVE  SigningOrder'
<1> USE DEF TypeOK, Shapes, SigningOrder
<1>1. CASE UNCHANGED signed
  BY <1>1
<1>2. ASSUME NEW e \in Envelopes, Lifecycle!Edit(e) PROVE SigningOrder'
  BY <1>2 DEF Lifecycle!Edit
<1>3. ASSUME NEW e \in Envelopes, NEW s \in Signers, Lifecycle!Sign(e, s) PROVE SigningOrder'
  BY <1>3 DEF Lifecycle!Sign
<1> QED
  BY <1>1, <1>2, <1>3
  DEF Lifecycle!Next, Lifecycle!vars, Lifecycle!Prepare, Lifecycle!Discard, Lifecycle!Send,
      Lifecycle!PullBack, Lifecycle!EndUnsigned, Lifecycle!EndSealing

(* Nobody has signed before someone ranked earlier.                        *)
THEOREM SigningOrderKept == Safe => []SigningOrder
<1>1. Init => SigningOrder
  BY DEF Init, SigningOrder
<1>2. TypeOK /\ SigningOrder /\ [Next]_vars => SigningOrder'
  BY LifecycleStep, SigningOrderStep
<1> QED BY <1>1, <1>2, TypeCorrect, PTL DEF Safe
-----------------------------------------------------------------------------
(* Sealing needs every signature.  Inductive: an envelope past signing has *)
(* them all, and only such an envelope is about to be, or was ever, put in *)
(* the seal queue.                                                         *)
PastSigning == {"sealing", "completed", "failed"}

AllSigned == \A e \in Envelopes : status[e] \in PastSigning => signed[e] = Signers

Queued == \A e \in Envelopes : queue[e] # "none" => status[e] \in PastSigning

Enqueuing == \A p \in Procs : pc[p] = "enqueue" => status[ctx[p].env] \in PastSigning

(* A status past signing stays past signing, and is reached fully signed.  *)
LEMMA PastSigningStep ==
    ASSUME TypeOK, AllSigned, [Lifecycle!Next]_(Lifecycle!vars)
    PROVE  /\ AllSigned'
           /\ \A e \in Envelopes : status[e] \in PastSigning => status'[e] \in PastSigning
<1> USE DEF TypeOK, Shapes, AllSigned, PastSigning, Lifecycle!MoveTo
<1>1. CASE UNCHANGED <<status, signed>>
  BY <1>1
<1>2. ASSUME NEW e \in Envelopes,
             \/ Lifecycle!Prepare(e) \/ Lifecycle!Discard(e) \/ Lifecycle!Send(e)
             \/ Lifecycle!PullBack(e) \/ Lifecycle!EndUnsigned(e) \/ Lifecycle!EndSealing(e)
      PROVE  /\ AllSigned'
             /\ \A d \in Envelopes : status[d] \in PastSigning => status'[d] \in PastSigning
  BY <1>2 DEF Lifecycle!Prepare, Lifecycle!Discard, Lifecycle!Send, Lifecycle!PullBack,
     Lifecycle!EndUnsigned, Lifecycle!EndSealing
<1>3. ASSUME NEW e \in Envelopes, Lifecycle!Edit(e)
      PROVE  /\ AllSigned'
             /\ \A d \in Envelopes : status[d] \in PastSigning => status'[d] \in PastSigning
  BY <1>3 DEF Lifecycle!Edit
<1>4. ASSUME NEW e \in Envelopes, NEW s \in Signers, Lifecycle!Sign(e, s)
      PROVE  /\ AllSigned'
             /\ \A d \in Envelopes : status[d] \in PastSigning => status'[d] \in PastSigning
  BY <1>4 DEF Lifecycle!Sign
<1> QED BY <1>1, <1>2, <1>3, <1>4 DEF Lifecycle!Next, Lifecycle!vars

(* A step that belongs to no invocation.                                   *)
Aside == \/ \E e \in Envelopes : Prepare(e) \/ DeadLetter(e)
         \/ \E op \in Ops : Act(op)
         \/ Revise

(* A step of invocation p.                                                 *)
Moves(p) ==
    \/ /\ p \in Callers
       /\ \/ \E e \in Envelopes : NewRequest(p, e)
          \/ \E op \in Ops : LeaveRead(p, op)
          \/ CallerStep(p)
    \/ /\ p \in Workers
       /\ \/ \E e \in Envelopes : Deliver(p, e) \/ DeliverAgain(p, e)
          \/ WorkerStep(p)
    \/ LeaveStep(p)
    \/ Crash(p)

(* Every step is set aside or a move of one invocation.                    *)
LEMMA StepCases == [Next]_vars => UNCHANGED vars \/ Aside \/ \E p \in Procs : Moves(p)
BY DEF Next, Review, Queue, Step, Aside, Moves, Procs

(* A move leaves what the other invocations are at and go by.              *)
LEMMA MovesAlone ==
    ASSUME TypeOK, NEW p \in Procs, Moves(p)
    PROVE  \A q \in Procs \ {p} : pc'[q] = pc[q] /\ ctx'[q] = ctx[q]
BY OneMoves DEF Moves

(* The steps set aside leave every invocation alone.                       *)
LEMMA AsideAlone == Aside => UNCHANGED procVars
BY DEF Aside, Prepare, CreateDraft, UpdateDraft, DeleteDraft, Resend, DeadLetter, Act, Revise

(* A worker that runs holds a message of the queue.                        *)
Held == \A w \in Workers : pc[w] # "idle" => queue[ctx[w].env] # "none"

(* What a step of invocation p writes to the queue.                        *)
QueueWrite(p) ==
    \/ UNCHANGED queue
    \/ /\ pc[p] = "enqueue" \/ (p \in Workers /\ pc[p] # "idle")
       /\ \E m \in {"visible", "deleted", queue[ctx[p].env]} :
             queue' = [queue EXCEPT ![ctx[p].env] = m]
    \/ \E e \in Envelopes : queue[e] # "none" /\ queue' = [queue EXCEPT ![e] = "inflight"]

(* No other write to the queue happens.                                    *)
LEMMA QueueWrites ==
    ASSUME TypeOK, NEW p \in Procs, Moves(p)
    PROVE  QueueWrite(p)
<1> USE DEF QueueWrite
<1>1. CASE p \in Callers /\ CallerStep(p)
  BY <1>1 DEF CallerStep, SendMark, SendContract, SendRollback, Invite, CompletePutImage,
     CompleteSign, CompleteEnqueue, SweepExpire, RevokeLinks, CancelEsign, queueVars
<1>2. CASE p \in Workers /\ WorkerStep(p)
  BY <1>2 DEF WorkerStep, SealBuild, SealNote, SealPut, SealDone, MarkRead, Ack, queueVars,
     QueueAfterFailure
<1>3. CASE LeaveStep(p)
  BY <1>3 DEF LeaveStep, Commit, Abandon, AbandonRevoke, queueVars
<1>4. CASE Crash(p)
  BY <1>4 DEF Crash, QueueAfterFailure
<1>5. ASSUME NEW e \in Envelopes, Deliver(p, e) \/ DeliverAgain(p, e), p \in Workers
      PROVE  QueueWrite(p)
  BY <1>5 DEF Deliver, DeliverAgain
<1>6. CASE \/ \E e \in Envelopes : NewRequest(p, e)
           \/ \E op \in Ops : LeaveRead(p, op)
  BY <1>6 DEF NewRequest, SendCheck, CompleteOpen, SweepRead, Decline, Void, EndUnsigned,
     LeaveRead, queueVars
<1> QED BY <1>1, <1>2, <1>3, <1>4, <1>5, <1>6 DEF Moves

(* A message enters the queue from "enqueue" or from a worker that holds   *)
(* it; none leaves it unseen.                                              *)
LEMMA QueueMoves ==
    ASSUME TypeOK, NEW p \in Procs, Moves(p), NEW e \in Envelopes
    PROVE  /\ queue'[e] # "none" =>
                  \/ queue[e] # "none"
                  \/ /\ pc[p] = "enqueue" \/ (p \in Workers /\ pc[p] # "idle")
                     /\ ctx[p].env = e
           /\ queue[e] # "none" => queue'[e] # "none"
<1>1. queue \in [Envelopes -> {"none", "visible", "inflight", "deleted", "dead"}]
  BY DEF TypeOK, Shapes
<1>2. QueueWrite(p)
  BY QueueWrites
<1>3. CASE UNCHANGED queue
  BY <1>3
<1>4. ASSUME pc[p] = "enqueue" \/ (p \in Workers /\ pc[p] # "idle"),
             NEW m \in {"visible", "deleted", queue[ctx[p].env]},
             queue' = [queue EXCEPT ![ctx[p].env] = m]
      PROVE  /\ queue'[e] # "none" =>
                    \/ queue[e] # "none"
                    \/ /\ pc[p] = "enqueue" \/ (p \in Workers /\ pc[p] # "idle")
                       /\ ctx[p].env = e
             /\ queue[e] # "none" => queue'[e] # "none"
  <2>1. CASE ctx[p].env = e
    BY <1>1, <1>4, <2>1
  <2>2. CASE ctx[p].env # e
    BY <1>1, <1>4, <2>2
  <2> QED BY <2>1, <2>2
<1>5. ASSUME NEW d \in Envelopes, queue[d] # "none", queue' = [queue EXCEPT ![d] = "inflight"]
      PROVE  queue'[e] # "none" <=> queue[e] # "none"
  BY <1>1, <1>5
<1> QED BY <1>2, <1>3, <1>4, <1>5 DEF QueueWrite

(* An invocation is about to enqueue an envelope it has just found fully   *)
(* signed.                                                                 *)
LEMMA EnqueueMoves ==
    ASSUME TypeOK, NEW p \in Procs, Moves(p), pc'[p] = "enqueue"
    PROVE  status'[ctx'[p].env] = "sealing"
<1> USE DEF Start, Stop, Return, Goto
<1>0. pc \in [Procs -> Labels] /\ ctx \in [Procs -> Contexts]
  BY DEF TypeOK, Shapes
<1>1. CASE CompleteSign(p)
  BY <1>0, <1>1 DEF CompleteSign
<1>2. CASE CallerStep(p) /\ ~CompleteSign(p)
  BY <1>0, <1>2 DEF CallerStep, SendMark, SendContract, SendRollback, Invite, CompletePutImage,
     CompleteEnqueue, SweepExpire, RevokeLinks, CancelEsign
<1>3. CASE WorkerStep(p)
  BY <1>0, <1>3 DEF WorkerStep, SealBuild, SealNote, SealPut, SealDone, MarkRead, Ack
<1>4. CASE LeaveStep(p) \/ Crash(p)
  BY <1>0, <1>4 DEF LeaveStep, Commit, Abandon, AbandonRevoke, Crash
<1>5. ASSUME NEW e, Deliver(p, e) \/ DeliverAgain(p, e) PROVE FALSE
  BY <1>0, <1>5 DEF Deliver, DeliverAgain, Receive, AfterReceive
<1>6. ASSUME NEW e, NEW op, NewRequest(p, e) \/ LeaveRead(p, op) PROVE FALSE
  BY <1>0, <1>6 DEF NewRequest, SendCheck, CompleteOpen, SweepRead, Decline, Void, EndUnsigned,
     LeaveRead
<1> QED BY <1>1, <1>2, <1>3, <1>4, <1>5, <1>6 DEF Moves

(* A worker works on the message it has received.                          *)
LEMMA WorkerMoves ==
    ASSUME TypeOK, NEW w \in Workers, Moves(w), pc'[w] # "idle"
    PROVE  \/ pc[w] # "idle" /\ ctx'[w].env = ctx[w].env
           \/ \E e \in Envelopes : queue[e] # "none" /\ ctx'[w].env = e
<1> USE DEF Start, Stop, Return, Goto
<1>0. /\ pc \in [Procs -> Labels] /\ ctx \in [Procs -> Contexts]
      /\ w \in Procs /\ w \notin Callers
  BY RunsAssumption DEF TypeOK, Shapes, Procs
<1>1. CASE MarkRead(w)
  BY <1>0, <1>1 DEF MarkRead, Leaving
<1>2. CASE WorkerStep(w) /\ ~MarkRead(w)
  BY <1>0, <1>2 DEF WorkerStep, SealBuild, SealNote, SealPut, SealDone, Ack
<1>3. CASE LeaveStep(w)
  BY <1>0, <1>3 DEF LeaveStep, Commit, Abandon, AbandonRevoke
<1>4. CASE Crash(w)
  BY <1>0, <1>4 DEF Crash
<1>5. ASSUME NEW e \in Envelopes, Deliver(w, e) \/ DeliverAgain(w, e)
      PROVE  queue[e] # "none" /\ ctx'[w].env = e
  BY <1>0, <1>5 DEF Deliver, DeliverAgain, Receive, Delivery
<1> QED BY <1>0, <1>1, <1>2, <1>3, <1>4, <1>5 DEF Moves

(* Whoever did not move still finds what it found.                         *)
LEMMA StillFinds ==
    ASSUME TypeOK, Enqueuing, Held, NEW q \in Procs, pc'[q] = pc[q], ctx'[q] = ctx[q],
           \A e \in Envelopes : status[e] \in PastSigning => status'[e] \in PastSigning,
           \A e \in Envelopes : queue[e] # "none" => queue'[e] # "none"
    PROVE  /\ pc'[q] = "enqueue" => status'[ctx'[q].env] \in PastSigning
           /\ q \in Workers /\ pc'[q] # "idle" => queue'[ctx'[q].env] # "none"
<1> DEFINE e == ctx[q].env
<1>1. ctx'[q].env = e
  OBVIOUS
<1>2. ASSUME pc'[q] = "enqueue" PROVE status'[ctx'[q].env] \in PastSigning
  <2>1. e \in Envelopes
    BY <1>2, ContextEnvelope DEF LeaveLabels
  <2>2. status[e] \in PastSigning
    BY <1>2 DEF Enqueuing
  <2> HIDE DEF e
  <2> QED BY <1>1, <2>1, <2>2
<1>3. ASSUME q \in Workers, pc'[q] # "idle" PROVE queue'[ctx'[q].env] # "none"
  <2>1. e \in Envelopes
    BY <1>3, ContextEnvelope
  <2>2. queue[e] # "none"
    BY <1>3 DEF Held
  <2> HIDE DEF e
  <2> QED BY <1>1, <2>1, <2>2
<1> QED BY <1>2, <1>3

(* The queue, and those who fill and empty it, from step to step.          *)
LEMMA QueueStep ==
    ASSUME TypeOK, Queued, Enqueuing, Held, [Next]_vars,
           \A e \in Envelopes : status[e] \in PastSigning => status'[e] \in PastSigning
    PROVE  Queued' /\ Enqueuing' /\ Held'
<1>0. queue \in [Envelopes -> {"none", "visible", "inflight", "deleted", "dead"}]
  BY DEF TypeOK, Shapes
<1>1. Workers \subseteq Procs
  BY DEF Procs
<1>2. CASE UNCHANGED vars \/ Aside
  <2>1. pc' = pc /\ ctx' = ctx
    BY <1>2, AsideAlone DEF vars, procVars
  <2>2. \/ UNCHANGED queue
        \/ \E e \in Envelopes : queue[e] # "none" /\ queue' = [queue EXCEPT ![e] = "dead"]
    BY <1>2 DEF Aside, Prepare, CreateDraft, UpdateDraft, DeleteDraft, Resend, DeadLetter, Act,
       Revise, vars, queueVars
  <2>3. \A e \in Envelopes : queue'[e] # "none" <=> queue[e] # "none"
    BY <1>0, <2>2
  <2>4. ASSUME NEW q \in Procs
        PROVE  /\ pc'[q] = "enqueue" => status'[ctx'[q].env] \in PastSigning
               /\ q \in Workers /\ pc'[q] # "idle" => queue'[ctx'[q].env] # "none"
    BY <2>1, <2>3, StillFinds
  <2>5. Queued'
    BY <2>3 DEF Queued
  <2>6. Enqueuing'
    BY <2>4 DEF Enqueuing
  <2>7. Held'
    BY <1>1, <2>4 DEF Held
  <2> QED BY <2>5, <2>6, <2>7
<1>3. ASSUME NEW p \in Procs, Moves(p) PROVE Queued' /\ Enqueuing' /\ Held'
  <2>1. \A e \in Envelopes : queue[e] # "none" => queue'[e] # "none"
    BY <1>3, QueueMoves
  <2>2. \A q \in Procs \ {p} :
            /\ pc'[q] = "enqueue" => status'[ctx'[q].env] \in PastSigning
            /\ q \in Workers /\ pc'[q] # "idle" => queue'[ctx'[q].env] # "none"
    BY <1>3, <2>1, MovesAlone, StillFinds
  <2>3. ASSUME NEW e \in Envelopes, queue'[e] # "none" PROVE status'[e] \in PastSigning
    BY <1>3, <2>3, QueueMoves DEF Queued, Enqueuing, Held
  <2>4. pc'[p] = "enqueue" => status'[ctx'[p].env] \in PastSigning
    BY <1>3, EnqueueMoves DEF PastSigning
  <2>5. ASSUME p \in Workers, pc'[p] # "idle" PROVE queue'[ctx'[p].env] # "none"
    <3>1. CASE pc[p] # "idle" /\ ctx'[p].env = ctx[p].env
      <4> DEFINE e == ctx[p].env
      <4>1. e \in Envelopes
        BY <2>5, <3>1, ContextEnvelope
      <4>2. queue[e] # "none"
        BY <2>5, <3>1 DEF Held
      <4>3. ctx'[p].env = e
        BY <3>1
      <4> HIDE DEF e
      <4> QED BY <2>1, <4>1, <4>2, <4>3
    <3>2. CASE \E e \in Envelopes : queue[e] # "none" /\ ctx'[p].env = e
      BY <2>1, <3>2
    <3> QED BY <1>3, <2>5, <3>1, <3>2, WorkerMoves
  <2> QED BY <1>1, <2>2, <2>3, <2>4, <2>5 DEF Queued, Enqueuing, Held
<1> QED BY <1>2, <1>3, StepCases

(* An envelope is sealed, fails to be, or enters the seal queue only with  *)
(* every signature.                                                        *)
THEOREM SealsFullySigned == Safe => []SealsOnlyFullySigned
<1> DEFINE Inv == AllSigned /\ Queued /\ Enqueuing /\ Held
<1>1. Init => Inv
  BY DEF Init, AllSigned, PastSigning, Queued, Enqueuing, Held, Procs
<1>2. TypeOK /\ Inv /\ [Next]_vars => Inv'
  BY LifecycleStep, PastSigningStep, QueueStep
<1>3. Inv => SealsOnlyFullySigned
  BY DEF SealsOnlyFullySigned, AllSigned, Queued, PastSigning
<1> QED BY <1>1, <1>2, <1>3, TypeCorrect, PTL DEF Safe
-----------------------------------------------------------------------------
(* A contract out for signature names a real envelope, unless a contract   *)
(* write is stored and its reply lost.  Inductive: at most one invocation  *)
(* is between the writes of sending an envelope; meanwhile the envelope is *)
(* out and the contract is not, and only that invocation pulls it back.    *)
Unsent == {"absent", "draft", "deleted"}

SendLabels == {"send_contract", "send_rollback"}

(* The envelope p works on.                                                *)
EnvOf(p) == ctx[p].env

OneSender == \A p, q \in Procs :
    pc[p] \in SendLabels /\ pc[q] \in SendLabels /\ EnvOf(p) = EnvOf(q) => p = q

SentNotOut == \A p \in Procs :
    pc[p] \in SendLabels => status[EnvOf(p)] \notin Unsent /\ ~OutWith(EnvOf(p))

NamesSent == \A e \in Envelopes : OutWith(e) => status[e] \notin Unsent

(* Only the rollback of send takes an envelope back.                       *)
LEMMA UnsentMoves ==
    ASSUME TypeOK, [Next]_vars, NEW e \in Envelopes,
           status[e] \notin Unsent, status'[e] \in Unsent
    PROVE  \E p \in Procs : pc[p] = "send_rollback" /\ EnvOf(p) = e /\ pc'[p] = "idle"
<1> USE DEF TypeOK, Shapes, Unsent, SetStatus
<1>1. status' # status
  OBVIOUS
<1>2. ASSUME NEW d \in Envelopes, Prepare(d) PROVE FALSE
  BY <1>1, <1>2 DEF Prepare, CreateDraft, UpdateDraft, DeleteDraft, Resend, envelopeVars
<1>3. ASSUME NEW p, NEW d \in Envelopes, Decline(p, d) \/ Void(p, d) PROVE FALSE
  BY <1>3 DEF Decline, Void, EndUnsigned
<1>4. ASSUME NEW p, SendMark(p) \/ CompleteSign(p) \/ SweepExpire(p) PROVE FALSE
  BY <1>4 DEF SendMark, CompleteSign, SweepExpire, StatusAfterSigning
<1>5. ASSUME NEW p, SealNote(p) \/ SealDone(p) \/ Abandon(p) PROVE FALSE
  BY <1>5 DEF SealNote, SealDone, StatusAfterFailure, Abandon, StatusAfterAbandon
<1>6. ASSUME NEW p \in Procs, SendRollback(p)
      PROVE  pc[p] = "send_rollback" /\ EnvOf(p) = e /\ pc'[p] = "idle"
  BY <1>6 DEF SendRollback, StatusAfterRollback, EnvOf, Stop, Goto
<1>7. CASE UNCHANGED vars
  BY <1>1, <1>7 DEF vars, envelopeVars
<1> HIDE DEF TypeOK, Shapes, Unsent, SetStatus
<1> QED
  BY <1>1, <1>2, <1>3, <1>4, <1>5, <1>6, <1>7, QuietSteps
  DEF Next, NewRequest, Review, Queue, Step, CallerStep, WorkerStep, LeaveStep, Procs, Prepare

(* Only send takes the contract out with an envelope.                      *)
LEMMA OutMoves ==
    ASSUME TypeOK, "lost_reply" \notin Faults, [Next]_vars, NEW e \in Envelopes,
           ~OutWith(e), OutWith(e)'
    PROVE  \E p \in Procs : pc[p] = "send_contract" /\ EnvOf(p) = e /\ pc'[p] = "invite"
<1> USE DEF OutWith
<1>0. ~UNCHANGED contractVars
  BY DEF contractVars
<1>1. ASSUME NEW p \in Procs, SendContract(p)
      PROVE  pc[p] = "send_contract" /\ EnvOf(p) = e /\ pc'[p] = "invite"
  BY <1>0, <1>1 DEF SendContract, Fault, Goto, EnvOf, TypeOK, Shapes
<1>2. ASSUME NEW p, CancelEsign(p) PROVE FALSE
  BY <1>0, <1>2 DEF CancelEsign
<1>3. ASSUME NEW op, Act(op) PROVE FALSE
  <2>1. op \in DOMAIN AllowedFrom /\ state' \in StatesAfter[op]
    BY <1>3 DEF Act
  <2>2. op # "send_for_signature" => "out_for_signature" \notin StatesAfter[op]
    BY <2>1 DEF StatesAfter, AllowedFrom
  <2>3. op = "send_for_signature"
    BY <2>1, <2>2
  <2> QED BY <1>3, <2>3, NoneAssumption DEF Act
<1>4. CASE Revise
  BY <1>4 DEF Revise
<1>5. ASSUME NEW p \in Procs, Commit(p) PROVE FALSE
  <2>1. ctx[p].op \in LeavesSignature /\ state' \in StatesAfter[ctx[p].op]
    BY <1>0, <1>5 DEF Commit, TypeOK, ContextOK, Fits
  <2>2. \A op \in LeavesSignature : "out_for_signature" \notin StatesAfter[op]
    BY DEF LeavesSignature, StatesAfter
  <2> QED BY <2>1, <2>2
<1>6. CASE UNCHANGED vars
  BY <1>0, <1>6 DEF vars
<1>7. ASSUME NEW p, NEW d, NEW op,
             Prepare(d) \/ NewRequest(p, d) \/ DeadLetter(d) \/ Deliver(p, d)
             \/ DeliverAgain(p, d) \/ LeaveRead(p, op)
      PROVE  FALSE
  BY <1>0, <1>7 DEF Prepare, CreateDraft, UpdateDraft, DeleteDraft, Resend, NewRequest, SendCheck,
     CompleteOpen, SweepRead, Decline, Void, EndUnsigned, DeadLetter, Deliver, DeliverAgain,
     Receive, LeaveRead
<1>8. ASSUME NEW p,
             \/ WorkerStep(p) \/ Abandon(p) \/ AbandonRevoke(p) \/ Crash(p)
             \/ (CallerStep(p) /\ ~SendContract(p) /\ ~CancelEsign(p))
      PROVE  FALSE
  BY <1>0, <1>8 DEF WorkerStep, SealBuild, SealNote, SealPut, SealDone, MarkRead, Ack, Abandon,
     AbandonRevoke, Crash, CallerStep, SendMark, SendRollback, Invite, CompletePutImage,
     CompleteSign, CompleteEnqueue, SweepExpire, RevokeLinks
<1> QED
  BY <1>1, <1>2, <1>3, <1>4, <1>5, <1>6, <1>7, <1>8
  DEF Next, Review, Queue, Step, LeaveStep, Procs, CallerStep

(* How an invocation comes to be between the writes of sending.            *)
LEMMA SenderMoves ==
    ASSUME TypeOK, "lost_reply" \notin Faults, NEW p \in Procs, Moves(p),
           pc'[p] \in SendLabels
    PROVE  /\ EnvOf(p) \in Envelopes /\ EnvOf(p)' = EnvOf(p)
           /\ UNCHANGED contractVars
           /\ \/ status[EnvOf(p)] = "draft" /\ status'[EnvOf(p)] = "sent"
              \/ pc[p] \in SendLabels /\ UNCHANGED status
<1> USE DEF Start, Stop, Return, Goto, SendLabels, EnvOf, TypeOK, Shapes
<1>1. CASE SendMark(p)
  <2>1. ctx[p].env \in Envelopes
    BY <1>1, ContextEnvelope DEF SendMark, LeaveLabels
  <2>2. MayMarkSent(ctx[p].env) /\ SetStatus(ctx[p].env, "sent") /\ UNCHANGED contractVars
    BY <1>1 DEF SendMark
  <2>3. ctx'[p] = Inviting(ctx[p].env, Due(ctx[p].env))
    BY <1>1 DEF SendMark
  <2> QED BY <2>1, <2>2, <2>3 DEF MayMarkSent, SetStatus, Inviting
<1>2. CASE SendContract(p)
  <2>1. pc'[p] # "invite" /\ UNCHANGED <<status, ctx>>
    BY <1>2 DEF SendContract, envelopeVars
  <2>2. UNCHANGED contractVars
    BY <1>2, <2>1 DEF SendContract, Fault
  <2>3. pc[p] = "send_contract" /\ ctx[p].env \in Envelopes
    BY <1>2, ContextEnvelope DEF SendContract, LeaveLabels
  <2> QED BY <2>1, <2>2, <2>3
<1>3. CASE CallerStep(p) /\ ~SendMark(p) /\ ~SendContract(p)
  BY <1>3 DEF CallerStep, SendRollback, Invite, CompletePutImage, CompleteSign, CompleteEnqueue,
     SweepExpire, RevokeLinks, CancelEsign
<1>4. CASE WorkerStep(p)
  BY <1>4 DEF WorkerStep, SealBuild, SealNote, SealPut, SealDone, MarkRead, Ack
<1>5. CASE LeaveStep(p) \/ Crash(p)
  BY <1>5 DEF LeaveStep, Commit, Abandon, AbandonRevoke, Crash
<1>6. ASSUME NEW e, NEW op,
             NewRequest(p, e) \/ LeaveRead(p, op) \/ Deliver(p, e) \/ DeliverAgain(p, e)
      PROVE  FALSE
  BY <1>6 DEF NewRequest, SendCheck, CompleteOpen, SweepRead, Decline, Void, EndUnsigned,
     LeaveRead, Deliver, DeliverAgain, Receive, AfterReceive
<1> HIDE DEF Start, Stop, Return, Goto, EnvOf, TypeOK, Shapes
<1> QED BY <1>1, <1>2, <1>3, <1>4, <1>5, <1>6 DEF Moves

(* Whoever sends an envelope works on one.                                 *)
LEMMA SenderEnvelope ==
    ASSUME TypeOK, NEW p \in Procs, pc[p] \in SendLabels
    PROVE  EnvOf(p) \in Envelopes
BY ContextEnvelope DEF SendLabels, EnvOf, LeaveLabels

(* The invariant from step to step.                                        *)
LEMMA SendStep ==
    ASSUME TypeOK, "lost_reply" \notin Faults, OneSender, SentNotOut, NamesSent, [Next]_vars
    PROVE  OneSender' /\ SentNotOut' /\ NamesSent'
<1>1. ASSUME NEW e \in Envelopes, OutWith(e)' PROVE status'[e] \notin Unsent
  <2> SUFFICES ASSUME status'[e] \in Unsent PROVE FALSE
    OBVIOUS
  <2>1. CASE OutWith(e)
    <3>1. PICK p \in Procs : pc[p] = "send_rollback" /\ EnvOf(p) = e
      BY <2>1, UnsentMoves DEF NamesSent
    <3> QED BY <2>1, <3>1 DEF SentNotOut, SendLabels
  <2>2. CASE ~OutWith(e)
    <3>1. PICK p \in Procs : pc[p] = "send_contract" /\ EnvOf(p) = e
      BY <1>1, <2>2, OutMoves
    <3>2. PICK q \in Procs : pc[q] = "send_rollback" /\ EnvOf(q) = e
      BY <3>1, UnsentMoves DEF SentNotOut, SendLabels
    <3> QED BY <3>1, <3>2 DEF OneSender, SendLabels
  <2> QED BY <2>1, <2>2
<1>2. ASSUME NEW q \in Procs, pc[q] \in SendLabels, pc'[q] = pc[q],
             NEW e \in Envelopes, EnvOf(q) = e
      PROVE  status'[e] \notin Unsent /\ ~OutWith(e)'
  <2>1. status[e] \notin Unsent /\ ~OutWith(e)
    BY <1>2 DEF SentNotOut
  <2>2. ASSUME status'[e] \in Unsent PROVE FALSE
    <3>1. PICK p \in Procs : pc[p] = "send_rollback" /\ EnvOf(p) = e /\ pc'[p] = "idle"
      BY <2>1, <2>2, UnsentMoves
    <3>2. p = q
      BY <1>2, <3>1 DEF OneSender, SendLabels
    <3> QED BY <1>2, <3>1, <3>2 DEF OneSender, SendLabels
  <2>3. ASSUME OutWith(e)' PROVE FALSE
    <3>1. PICK p \in Procs : pc[p] = "send_contract" /\ EnvOf(p) = e /\ pc'[p] = "invite"
      BY <2>1, <2>3, OutMoves
    <3>2. p = q
      BY <1>2, <3>1 DEF OneSender, SendLabels
    <3> QED BY <1>2, <3>1, <3>2
  <2> QED BY <2>2, <2>3
<1>3. NamesSent'
  BY <1>1 DEF NamesSent
<1>4. CASE UNCHANGED vars \/ Aside
  <2>1. pc' = pc /\ ctx' = ctx
    BY <1>4, AsideAlone DEF vars, procVars
  <2>2. \A q \in Procs : EnvOf(q)' = EnvOf(q)
    BY <2>1 DEF EnvOf
  <2>3. OneSender'
    BY <2>1, <2>2 DEF OneSender
  <2>4. ASSUME NEW q \in Procs, pc'[q] \in SendLabels
        PROVE  status'[EnvOf(q)'] \notin Unsent /\ ~OutWith(EnvOf(q))'
    <3>1. EnvOf(q) \in Envelopes
      BY <2>1, <2>4, SenderEnvelope
    <3>2. PICK e \in Envelopes : EnvOf(q) = e /\ EnvOf(q)' = e
      BY <2>2, <3>1
    <3>3. status'[e] \notin Unsent /\ ~OutWith(e)'
      BY <1>2, <2>1, <2>4, <3>2
    <3> QED BY <3>2, <3>3 DEF OutWith
  <2> QED BY <1>3, <2>3, <2>4 DEF SentNotOut
<1>5. ASSUME NEW p \in Procs, Moves(p) PROVE OneSender' /\ SentNotOut'
  <2>1. \A q \in Procs \ {p} : pc'[q] = pc[q] /\ EnvOf(q)' = EnvOf(q)
    BY <1>5, MovesAlone DEF EnvOf
  <2>2. ASSUME NEW q \in Procs \ {p}, pc'[q] \in SendLabels
        PROVE  status'[EnvOf(q)'] \notin Unsent /\ ~OutWith(EnvOf(q))'
    <3>1. EnvOf(q) \in Envelopes
      BY <2>1, <2>2, SenderEnvelope
    <3>2. PICK e \in Envelopes : EnvOf(q) = e /\ EnvOf(q)' = e
      BY <2>1, <3>1
    <3>3. status'[e] \notin Unsent /\ ~OutWith(e)'
      BY <1>2, <2>1, <2>2, <3>2
    <3> QED BY <3>2, <3>3 DEF OutWith
  <2>3. ASSUME pc'[p] \in SendLabels
        PROVE  /\ status'[EnvOf(p)'] \notin Unsent /\ ~OutWith(EnvOf(p))'
               /\ \A q \in Procs \ {p} : pc'[q] \in SendLabels => EnvOf(q)' # EnvOf(p)'
    <3>1. PICK e \in Envelopes : EnvOf(p) = e /\ EnvOf(p)' = e
      BY <1>5, <2>3, SenderMoves
    <3>2. UNCHANGED contractVars
      BY <1>5, <2>3, SenderMoves
    <3>3. CASE status[e] = "draft" /\ status'[e] = "sent"
      <4>1. ~OutWith(e)
        BY <3>3 DEF NamesSent, Unsent
      <4>2. \A q \in Procs \ {p} : pc[q] \in SendLabels => EnvOf(q) # e
        BY <3>3 DEF SentNotOut, Unsent
      <4> QED BY <2>1, <3>1, <3>2, <3>3, <4>1, <4>2 DEF OutWith, contractVars, Unsent
    <3>4. CASE pc[p] \in SendLabels /\ UNCHANGED status
      <4>1. status[e] \notin Unsent /\ ~OutWith(e)
        BY <3>1, <3>4 DEF SentNotOut
      <4>2. \A q \in Procs \ {p} : pc[q] \in SendLabels => EnvOf(q) # e
        BY <3>1, <3>4 DEF OneSender
      <4> QED BY <2>1, <3>1, <3>2, <3>4, <4>1, <4>2 DEF OutWith, contractVars
    <3> QED BY <1>5, <2>3, <3>1, <3>3, <3>4, SenderMoves
  <2>4. SentNotOut'
    BY <2>2, <2>3 DEF SentNotOut
  <2>5. OneSender'
    BY <2>1, <2>3 DEF OneSender
  <2> QED BY <2>4, <2>5
<1> QED BY <1>3, <1>4, <1>5, StepCases

(* Who sends and what the contract names, with no reply lost.              *)
LEMMA SendersKept ==
    ASSUME "lost_reply" \notin Faults
    PROVE  Safe => [](OneSender /\ SentNotOut /\ NamesSent)
<1> DEFINE Inv == OneSender /\ SentNotOut /\ NamesSent
<1>1. Init => Inv
  BY DEF Init, OneSender, SentNotOut, NamesSent, SendLabels, OutWith
<1>2. TypeOK /\ Inv /\ [Next]_vars => Inv'
  BY SendStep
<1> QED BY <1>1, <1>2, TypeCorrect, PTL DEF Safe

(* With no reply lost, a contract out for signature with Govern names an   *)
(* envelope that was sent and never pulled back: the promise of            *)
(* workflow.send_for_esign.                                                *)
THEOREM NamesRealEnvelope ==
    ASSUME "lost_reply" \notin Faults
    PROVE  Safe => []GovernNamesRealEnvelope
<1>1. NamesSent => GovernNamesRealEnvelope
  BY DEF GovernNamesRealEnvelope, NamesSent, OutWith, Unsent
<1> QED BY <1>1, SendersKept, PTL
-----------------------------------------------------------------------------
(* What a step does to the status of an envelope, and who does it.         *)
Ended == {"declined", "voided", "expired"}

(* The changes of the status of e that a step of p can make.               *)
StatusMove(p, e) ==
    \/ /\ p \in Callers /\ pc[p] = "send_mark" /\ EnvOf(p) = e
       /\ status[e] = "draft" /\ status'[e] = "sent" /\ pc'[p] = "send_contract"
    \/ /\ p \in Callers /\ pc[p] = "send_rollback" /\ EnvOf(p) = e
       /\ status[e] = "sent" /\ status'[e] = "draft" /\ pc'[p] = "idle"
    \/ /\ p \in Callers /\ pc[p] = "sign" /\ EnvOf(p) = e
       /\ status[e] = "sent" /\ status'[e] = "sealing" /\ pc'[p] = "enqueue"
    \/ /\ p \in Callers /\ status[e] = "sent" /\ status'[e] \in Ended
       /\ pc'[p] = "revoke" /\ EnvOf(p)' = e
    \/ /\ p \in Workers /\ pc[p] = "note" /\ EnvOf(p) = e
       /\ status[e] = "sealing" /\ status'[e] = "failed" /\ pc'[p] = "idle"
    \/ /\ p \in Workers /\ pc[p] = "done" /\ EnvOf(p) = e
       /\ status[e] = "sealing" /\ status'[e] = "completed"
       /\ pc'[p] = "mark_read" /\ EnvOf(p)' = e
    \/ /\ pc[p] = "abandon" /\ ctx[p].old = e
       /\ status[e] = "sent" /\ status'[e] = "voided"

(* A caller's step that changes a status.                                  *)
LEMMA CallerStatus ==
    ASSUME TypeOK, NEW p \in Callers, CallerStep(p), NEW e \in Envelopes, status'[e] # status[e]
    PROVE  StatusMove(p, e)
<1> USE DEF StatusMove, SetStatus, Stop, Goto, EnvOf, Ended
<1>0. /\ pc \in [Procs -> Labels] /\ ctx \in [Procs -> Contexts] /\ p \in Procs
      /\ status \in [Envelopes -> Statuses]
  BY DEF TypeOK, Shapes, Procs
<1>1. CASE SendMark(p)
  BY <1>0, <1>1 DEF SendMark, MayMarkSent, Inviting
<1>2. CASE SendRollback(p)
  BY <1>0, <1>2 DEF SendRollback, StatusAfterRollback
<1>3. CASE CompleteSign(p)
  BY <1>0, <1>3 DEF CompleteSign, Ready, StatusAfterSigning
<1>4. CASE SweepExpire(p)
  BY <1>0, <1>4 DEF SweepExpire
<1> HIDE DEF StatusMove, SetStatus, Stop, Goto, EnvOf, Ended
<1> QED BY <1>1, <1>2, <1>3, <1>4, QuietSteps DEF CallerStep

(* A step of govern-seal that changes a status.                            *)
LEMMA WorkerStatus ==
    ASSUME TypeOK, NEW p \in Workers, WorkerStep(p), NEW e \in Envelopes, status'[e] # status[e]
    PROVE  StatusMove(p, e)
<1> USE DEF StatusMove, SetStatus, Stop, Goto, EnvOf
<1>0. /\ pc \in [Procs -> Labels] /\ ctx \in [Procs -> Contexts] /\ p \in Procs
      /\ status \in [Envelopes -> Statuses]
  BY DEF TypeOK, Shapes, Procs
<1>1. CASE SealNote(p)
  BY <1>0, <1>1 DEF SealNote, StatusAfterFailure
<1>2. CASE SealDone(p)
  BY <1>0, <1>2 DEF SealDone
<1> HIDE DEF StatusMove, SetStatus, Stop, Goto, EnvOf
<1> QED BY <1>1, <1>2, QuietSteps DEF WorkerStep

(* No step changes a status in any other way.                              *)
LEMMA StatusMoves ==
    ASSUME TypeOK, NEW p \in Procs, Moves(p), NEW e \in Envelopes, status'[e] # status[e]
    PROVE  StatusMove(p, e)
<1>1. ASSUME NEW d \in Envelopes, p \in Callers, Decline(p, d) \/ Void(p, d)
      PROVE  StatusMove(p, e)
  BY <1>1 DEF Decline, Void, EndUnsigned, SetStatus, Start, Goto, Request, StatusMove, Ended,
     EnvOf, TypeOK, Shapes
<1>2. CASE Abandon(p)
  BY <1>2 DEF Abandon, SetStatus, StatusAfterAbandon, StatusMove, TypeOK, Shapes
<1> QED
  BY <1>1, <1>2, CallerStatus, WorkerStatus, QuietSteps DEF Moves, NewRequest, LeaveStep

(* What the steps set aside do to it.                                      *)
LEMMA AsideStatus ==
    ASSUME TypeOK, Aside, NEW e \in Envelopes, status'[e] # status[e]
    PROVE  /\ status[e] \in {"absent", "draft"} /\ status'[e] \in {"draft", "deleted"}
BY DEF Aside, Prepare, CreateDraft, UpdateDraft, DeleteDraft, Resend, DeadLetter, Act, Revise,
   SetStatus, TypeOK, Shapes, envelopeVars
-----------------------------------------------------------------------------
(* What a completed envelope says of its file.  Inductive, as long as the  *)
(* queue delivers no message twice at a time: a worker that runs has the   *)
(* message of its envelope to itself, the message is sent once, and the    *)
(* envelope stays "sealing" until that worker has stored its file.         *)
SealLabels == {"build", "note", "put_sealed", "done"}

AfterSeal == {"mark_read", "ack"} \cup LeaveLabels

WorkersAt == \A w \in Workers : pc[w] \in {"idle"} \cup SealLabels \cup AfterSeal

Alone == \A w \in Workers : pc[w] # "idle" =>
    /\ queue[EnvOf(w)] = "inflight"
    /\ \A v \in Workers : pc[v] # "idle" /\ EnvOf(v) = EnvOf(w) => v = w

(* Who puts an envelope in the queue is the first to do so.                *)
First == \A p \in Procs : pc[p] = "enqueue" =>
    /\ queue[EnvOf(p)] = "none" /\ status[EnvOf(p)] = "sealing"
    /\ \A q \in Procs : pc[q] = "enqueue" /\ EnvOf(q) = EnvOf(p) => q = p

AtSealing == \A w \in Workers :
    /\ pc[w] \in SealLabels => status[EnvOf(w)] = "sealing"
    /\ pc[w] \in AfterSeal => status[EnvOf(w)] # "sealing"
    /\ pc[w] = "done" => file[EnvOf(w)] = ctx[w].turn

SealQueue == WorkersAt /\ Alone /\ First /\ AtSealing

(* Whoever runs works on an envelope.                                      *)
LEMMA RunnerEnvelope ==
    ASSUME TypeOK, NEW p \in Procs, pc[p] # "idle", p \in Workers \/ pc[p] \notin LeaveLabels
    PROVE  EnvOf(p) \in Envelopes
BY ContextEnvelope DEF EnvOf

(* The changes of the message of e that a step of p can make.              *)
QueueMove(p, e) ==
    \/ /\ p \in Callers /\ pc[p] = "enqueue" /\ EnvOf(p) = e
       /\ pc'[p] = "idle" /\ queue'[e] = "visible" /\ UNCHANGED <<status, receives>>
    \/ /\ p \in Workers /\ pc[p] # "idle" /\ EnvOf(p) = e
       /\ pc'[p] = "idle" /\ UNCHANGED receives
       /\ \/ pc[p] = "note" /\ queue'[e] = "visible"
          \/ pc[p] = "ack" /\ queue'[e] = "deleted" /\ UNCHANGED <<status, attempts>>
          \/ "crash" \in Faults
    \/ p \in Workers /\ Deliver(p, e) /\ queue'[e] = "inflight"

(* No other step touches the queue while nothing is delivered twice.       *)
LEMMA OnceDelivered ==
    ASSUME TypeOK, "duplicate" \notin Faults, NEW p \in Procs, Moves(p),
           NEW e \in Envelopes, queue'[e] # queue[e]
    PROVE  QueueMove(p, e)
<1> USE DEF QueueMove, EnvOf, Stop, Goto
<1>0. /\ pc \in [Procs -> Labels] /\ ctx \in [Procs -> Contexts]
      /\ queue \in [Envelopes -> {"none", "visible", "inflight", "deleted", "dead"}]
  BY DEF TypeOK, Shapes
<1>1. CASE p \in Callers /\ CallerStep(p)
  BY <1>0, <1>1 DEF CallerStep, SendMark, SendContract, SendRollback, Invite, CompletePutImage,
     CompleteSign, CompleteEnqueue, SweepExpire, RevokeLinks, CancelEsign, queueVars, envelopeVars
<1>2. CASE p \in Workers /\ WorkerStep(p)
  <2>1. CASE SealNote(p)
    BY <1>0, <1>2, <2>1 DEF SealNote, QueueAfterFailure
  <2>2. CASE Ack(p)
    BY <1>0, <1>2, <2>2 DEF Ack, envelopeVars
  <2> QED
    BY <1>2, <2>1, <2>2 DEF WorkerStep, SealBuild, SealPut, SealDone, MarkRead, queueVars
<1>3. CASE LeaveStep(p)
  BY <1>3 DEF LeaveStep, Commit, Abandon, AbandonRevoke, queueVars
<1>4. CASE Crash(p)
  BY <1>0, <1>4 DEF Crash, Fault
<1>5. ASSUME NEW d \in Envelopes, Deliver(p, d), p \in Workers
      PROVE  QueueMove(p, e)
  BY <1>0, <1>5 DEF Deliver
<1>6. ASSUME NEW d \in Envelopes, DeliverAgain(p, d)
      PROVE  FALSE
  BY <1>6 DEF DeliverAgain, Fault
<1>7. CASE \/ \E d \in Envelopes : NewRequest(p, d)
           \/ \E op \in Ops : LeaveRead(p, op)
  BY <1>7 DEF NewRequest, SendCheck, CompleteOpen, SweepRead, Decline, Void, EndUnsigned,
     LeaveRead, queueVars
<1> QED BY <1>1, <1>2, <1>3, <1>4, <1>5, <1>6, <1>7 DEF Moves

(* Only a worker that has sealed an envelope stores its file.              *)
LEMMA FileMoves ==
    ASSUME TypeOK, NEW p \in Procs, Moves(p), NEW e \in Envelopes, file'[e] # file[e]
    PROVE  p \in Workers /\ pc[p] = "put_sealed" /\ EnvOf(p) = e
<1>1. CASE p \in Workers /\ SealPut(p)
  BY <1>1 DEF SealPut, EnvOf, TypeOK, Shapes
<1>2. CASE p \in Callers /\ CallerStep(p)
  BY <1>2 DEF CallerStep, SendMark, SendContract, SendRollback, Invite, CompletePutImage,
     CompleteSign, CompleteEnqueue, SweepExpire, RevokeLinks, CancelEsign, storeVars
<1>3. CASE p \in Workers /\ WorkerStep(p) /\ ~SealPut(p)
  BY <1>3 DEF WorkerStep, SealBuild, SealNote, SealDone, MarkRead, Ack, storeVars
<1>4. CASE LeaveStep(p) \/ Crash(p)
  BY <1>4 DEF LeaveStep, Commit, Abandon, AbandonRevoke, Crash, storeVars
<1>5. CASE \/ \E d \in Envelopes : NewRequest(p, d) \/ Deliver(p, d) \/ DeliverAgain(p, d)
           \/ \E op \in Ops : LeaveRead(p, op)
  BY <1>5 DEF NewRequest, SendCheck, CompleteOpen, SweepRead, Decline, Void, EndUnsigned,
     LeaveRead, Deliver, DeliverAgain, Receive, storeVars
<1> QED BY <1>1, <1>2, <1>3, <1>4, <1>5 DEF Moves

(* The last signature takes a submission to the seal queue.                *)
LEMMA EnqueueComes ==
    ASSUME TypeOK, NEW p \in Procs, Moves(p), pc'[p] = "enqueue"
    PROVE  /\ EnvOf(p) \in Envelopes /\ EnvOf(p)' = EnvOf(p)
           /\ status[EnvOf(p)] = "sent" /\ status'[EnvOf(p)] = "sealing" /\ UNCHANGED queue
<1> USE DEF Start, Stop, Return, Goto
<1>0. pc \in [Procs -> Labels] /\ ctx \in [Procs -> Contexts]
  BY DEF TypeOK, Shapes
<1>1. CASE p \in Callers /\ CompleteSign(p)
  <2>1. ctx[p].env \in Envelopes
    BY <1>1, ContextEnvelope DEF CompleteSign, LeaveLabels
  <2>2. ctx'[p] = ctx[p] /\ status'[ctx[p].env] = "sealing" /\ status[ctx[p].env] = "sent"
    BY <1>0, <1>1 DEF CompleteSign, Ready
  <2> QED BY <1>1, <2>1, <2>2 DEF EnvOf, CompleteSign, queueVars
<1>2. CASE CallerStep(p) /\ ~CompleteSign(p)
  BY <1>0, <1>2 DEF CallerStep, SendMark, SendContract, SendRollback, Invite, CompletePutImage,
     CompleteEnqueue, SweepExpire, RevokeLinks, CancelEsign
<1>3. CASE WorkerStep(p)
  BY <1>0, <1>3 DEF WorkerStep, SealBuild, SealNote, SealPut, SealDone, MarkRead, Ack
<1>4. CASE LeaveStep(p) \/ Crash(p)
  BY <1>0, <1>4 DEF LeaveStep, Commit, Abandon, AbandonRevoke, Crash
<1>5. ASSUME NEW e, Deliver(p, e) \/ DeliverAgain(p, e) PROVE FALSE
  BY <1>0, <1>5 DEF Deliver, DeliverAgain, Receive, AfterReceive
<1>6. ASSUME NEW e, NEW op, NewRequest(p, e) \/ LeaveRead(p, op) PROVE FALSE
  BY <1>0, <1>6 DEF NewRequest, SendCheck, CompleteOpen, SweepRead, Decline, Void, EndUnsigned,
     LeaveRead
<1> QED BY <1>1, <1>2, <1>3, <1>4, <1>5, <1>6 DEF Moves

(* How a worker that runs goes on.                                         *)
Works(w) ==
    \/ pc[w] = "build" /\ pc'[w] \in {"put_sealed", "note"} /\ UNCHANGED <<status, file, ctx>>
    \/ /\ pc[w] = "put_sealed" /\ pc'[w] = "done"
       /\ UNCHANGED <<status, ctx>> /\ file'[EnvOf(w)] = ctx[w].turn
    \/ /\ pc[w] = "done" /\ pc'[w] \in {"mark_read", "ack"}
       /\ status'[EnvOf(w)] # "sealing" /\ UNCHANGED <<file, ctx>>
    \/ pc[w] \in AfterSeal /\ pc'[w] \in AfterSeal

(* How a worker comes to where it is.                                      *)
LEMMA WorkerSteps ==
    ASSUME TypeOK, "duplicate" \notin Faults, NEW w \in Workers, Moves(w), pc'[w] # "idle"
    PROVE  \/ \E e \in Envelopes :
                 /\ pc[w] = "idle" /\ queue[e] = "visible" /\ queue'[e] = "inflight"
                 /\ EnvOf(w)' = e /\ pc'[w] = AfterReceive(e) /\ UNCHANGED status
           \/ /\ pc[w] # "idle" /\ EnvOf(w) \in Envelopes /\ EnvOf(w)' = EnvOf(w) /\ UNCHANGED queue
              /\ Works(w)
<1> USE DEF Start, Stop, Return, Goto, EnvOf
<1>0. /\ pc \in [Procs -> Labels] /\ ctx \in [Procs -> Contexts]
      /\ w \in Procs /\ w \notin Callers
      /\ queue \in [Envelopes -> {"none", "visible", "inflight", "deleted", "dead"}]
      /\ file \in [Envelopes -> 0 .. MaxReceive]
      /\ status \in [Envelopes -> Statuses]
  BY RunsAssumption DEF TypeOK, Shapes, Procs
<1>1. pc[w] # "idle" => EnvOf(w) \in Envelopes
  BY <1>0, RunnerEnvelope
<1>2. CASE MarkRead(w)
  BY <1>0, <1>1, <1>2 DEF MarkRead, Leaving, Works, AfterSeal, LeaveLabels, queueVars
<1>3. CASE SealBuild(w) \/ SealPut(w)
  BY <1>0, <1>1, <1>3 DEF SealBuild, SealPut, Works, queueVars, envelopeVars, storeVars
<1>4. CASE SealDone(w)
  BY <1>0, <1>1, <1>4 DEF SealDone, SetStatus, Works, queueVars, storeVars
<1>5. CASE SealNote(w) \/ Ack(w) \/ Crash(w)
  BY <1>0, <1>5 DEF SealNote, Ack, Crash
<1>6. CASE LeaveStep(w)
  BY <1>0, <1>1, <1>6 DEF LeaveStep, Commit, Abandon, AbandonRevoke, Works, AfterSeal, LeaveLabels,
     queueVars
<1>7. ASSUME NEW e \in Envelopes, Deliver(w, e)
      PROVE  /\ pc[w] = "idle" /\ queue[e] = "visible" /\ queue'[e] = "inflight"
             /\ EnvOf(w)' = e /\ pc'[w] = AfterReceive(e) /\ UNCHANGED status
  BY <1>0, <1>7 DEF Deliver, Receive, Delivery, envelopeVars
<1>8. ASSUME NEW e \in Envelopes, DeliverAgain(w, e) PROVE FALSE
  BY <1>8 DEF DeliverAgain, Fault
<1> QED BY <1>0, <1>2, <1>3, <1>4, <1>5, <1>6, <1>7, <1>8 DEF Moves, WorkerStep

(* An idle worker starts with a message.                                   *)
LEMMA WorkerDelivers ==
    ASSUME TypeOK, "duplicate" \notin Faults, NEW w \in Workers, Moves(w), pc[w] = "idle"
    PROVE  \E e \in Envelopes : Deliver(w, e)
<1>1. w \notin Callers
  BY RunsAssumption
<1>2. ~WorkerStep(w) /\ ~LeaveStep(w) /\ ~Crash(w)
  BY DEF WorkerStep, SealBuild, SealNote, SealPut, SealDone, MarkRead, Ack, LeaveStep, Commit,
     Abandon, AbandonRevoke, Crash
<1>3. ASSUME NEW e \in Envelopes, DeliverAgain(w, e) PROVE FALSE
  BY <1>3 DEF DeliverAgain, Fault
<1> QED BY <1>1, <1>2, <1>3 DEF Moves

(* Nobody else disturbs an invocation of the queue.                        *)
LEMMA SealFrame ==
    ASSUME TypeOK, Queued, SealQueue, "duplicate" \notin Faults, NEW p \in Procs, Moves(p)
    PROVE  /\ \A w \in Workers \ {p} : pc[w] # "idle" =>
                 /\ queue'[EnvOf(w)] = "inflight" /\ file'[EnvOf(w)] = file[EnvOf(w)]
                 /\ status'[EnvOf(w)] = "sealing" <=> status[EnvOf(w)] = "sealing"
           /\ \A q \in Procs \ {p} : pc[q] = "enqueue" =>
                 /\ queue'[EnvOf(q)] = "none" /\ status'[EnvOf(q)] = "sealing"
<1> USE DEF SealQueue
<1>1. ASSUME NEW w \in Workers \ {p}, pc[w] # "idle", NEW e \in Envelopes, EnvOf(w) = e
      PROVE  /\ queue'[e] = "inflight" /\ file'[e] = file[e]
             /\ status'[e] = "sealing" <=> status[e] = "sealing"
  <2>1. queue[e] = "inflight"
    BY <1>1 DEF Alone
  <2>2. ~(p \in Workers /\ pc[p] # "idle" /\ EnvOf(p) = e)
    BY <1>1 DEF Alone
  <2>3. ~(pc[p] = "enqueue" /\ EnvOf(p) = e)
    BY <2>1 DEF First
  <2>4. queue'[e] = queue[e]
    BY <2>1, <2>2, <2>3, OnceDelivered DEF QueueMove, Deliver
  <2>5. file'[e] = file[e]
    BY <2>2, FileMoves
  <2>6. status[e] \in PastSigning
    BY <1>1, <2>1 DEF Queued
  <2>7. status'[e] = status[e]
    BY <2>2, <2>6, StatusMoves DEF StatusMove, PastSigning
  <2> QED BY <2>1, <2>4, <2>5, <2>7
<1>2. ASSUME NEW q \in Procs \ {p}, pc[q] = "enqueue", NEW e \in Envelopes, EnvOf(q) = e
      PROVE  queue'[e] = "none" /\ status'[e] = "sealing"
  <2>1. queue[e] = "none" /\ status[e] = "sealing"
    BY <1>2 DEF First
  <2>2. ~(p \in Workers /\ pc[p] # "idle" /\ EnvOf(p) = e)
    BY <2>1 DEF Alone
  <2>3. ~(pc[p] = "enqueue" /\ EnvOf(p) = e)
    BY <1>2 DEF First
  <2>4. queue'[e] = queue[e]
    BY <2>1, <2>2, <2>3, OnceDelivered DEF QueueMove, Deliver
  <2>5. status'[e] = status[e]
    BY <2>1, <2>2, StatusMoves DEF StatusMove
  <2> QED BY <2>1, <2>4, <2>5
<1>3. Workers \subseteq Procs
  BY DEF Procs
<1>4. ASSUME NEW w \in Workers \ {p}, pc[w] # "idle" PROVE EnvOf(w) \in Envelopes
  BY <1>3, <1>4, RunnerEnvelope
<1>5. ASSUME NEW q \in Procs \ {p}, pc[q] = "enqueue" PROVE EnvOf(q) \in Envelopes
  BY <1>5, RunnerEnvelope DEF LeaveLabels
<1> QED BY <1>1, <1>2, <1>4, <1>5

(* What a worker that takes a step comes to.                               *)
LEMMA MoverSeals ==
    ASSUME TypeOK, Queued, SealQueue, "duplicate" \notin Faults, NEW p \in Workers, Moves(p),
           pc'[p] # "idle"
    PROVE  /\ pc'[p] \in SealLabels \cup AfterSeal
           /\ queue'[EnvOf(p)'] = "inflight"
           /\ \A w \in Workers \ {p} : pc[w] # "idle" => EnvOf(w) # EnvOf(p)'
           /\ pc'[p] \in SealLabels => status'[EnvOf(p)'] = "sealing"
           /\ pc'[p] \in AfterSeal => status'[EnvOf(p)'] # "sealing"
           /\ pc'[p] = "done" => file'[EnvOf(p)'] = ctx'[p].turn
<1> USE DEF SealQueue, SealLabels, AfterSeal, LeaveLabels
<1>0. p \in Procs
  BY DEF Procs
<1>1. ASSUME NEW e \in Envelopes, pc[p] = "idle", queue[e] = "visible", queue'[e] = "inflight",
             EnvOf(p)' = e, pc'[p] = AfterReceive(e), UNCHANGED status
      PROVE  /\ pc'[p] \in {"build", "ack"} /\ queue'[EnvOf(p)'] = "inflight"
             /\ \A w \in Workers \ {p} : pc[w] # "idle" => EnvOf(w) # EnvOf(p)'
             /\ pc'[p] = "build" => status'[EnvOf(p)'] = "sealing"
             /\ pc'[p] = "ack" => status'[EnvOf(p)'] # "sealing"
  BY <1>1 DEF AfterReceive, Alone
<1>2. ASSUME pc[p] # "idle", NEW e \in Envelopes, EnvOf(p) = e, EnvOf(p)' = e,
             UNCHANGED queue, Works(p)
      PROVE  /\ pc'[p] \in SealLabels \cup AfterSeal
             /\ queue'[e] = "inflight"
             /\ \A w \in Workers \ {p} : pc[w] # "idle" => EnvOf(w) # e
             /\ pc'[p] \in SealLabels => status'[e] = "sealing"
             /\ pc'[p] \in AfterSeal => status'[e] # "sealing"
             /\ pc'[p] = "done" => file'[e] = ctx'[p].turn
  <2>1. queue'[e] = "inflight" /\ \A w \in Workers \ {p} : pc[w] # "idle" => EnvOf(w) # e
    BY <1>2 DEF Alone
  <2>2. CASE pc[p] \in AfterSeal /\ pc'[p] \in AfterSeal
    <3>1. status[e] # "sealing" /\ status[e] \in PastSigning
      BY <1>2, <2>2 DEF AtSealing, Queued, Alone
    <3>2. status'[e] # "sealing"
      BY <1>0, <3>1, StatusMoves DEF StatusMove, PastSigning
    <3> QED BY <2>1, <2>2, <3>2
  <2>3. CASE pc[p] \in SealLabels
    BY <1>2, <2>1, <2>3 DEF Works, AtSealing
  <2> QED BY <1>2, <2>2, <2>3 DEF Works
<1> QED BY <1>1, <1>2, WorkerSteps

(* The invariant from step to step: the steps of no invocation ...         *)
LEMMA SealAside ==
    ASSUME TypeOK, SealQueue, UNCHANGED vars \/ Aside
    PROVE  SealQueue'
<1> USE DEF SealQueue
<1>0. /\ pc' = pc /\ ctx' = ctx /\ \A p \in Procs : EnvOf(p)' = EnvOf(p)
      /\ Workers \subseteq Procs
  BY AsideAlone DEF vars, procVars, EnvOf, Procs
<1>1. ASSUME NEW e \in Envelopes
      PROVE  /\ queue'[e] # queue[e] => queue[e] = "visible" /\ queue'[e] = "dead"
             /\ status'[e] = "sealing" <=> status[e] = "sealing"
             /\ file'[e] = file[e]
  <2>1. CASE UNCHANGED vars
    BY <2>1 DEF vars, queueVars, envelopeVars, storeVars
  <2>2. CASE Aside
    <3>1. status'[e] = "sealing" <=> status[e] = "sealing"
      BY <2>2, AsideStatus
    <3>2. /\ UNCHANGED file
          /\ \/ UNCHANGED queue
             \/ \E d \in Envelopes : queue[d] = "visible" /\ queue' = [queue EXCEPT ![d] = "dead"]
      BY <2>2 DEF Aside, Prepare, CreateDraft, UpdateDraft, DeleteDraft, Resend, DeadLetter, Act,
         Revise, storeVars, queueVars
    <3> QED BY <3>1, <3>2 DEF TypeOK, Shapes
  <2> QED BY <2>1, <2>2
<1>2. ASSUME NEW w \in Workers, pc[w] # "idle" PROVE EnvOf(w) \in Envelopes
  BY <1>0, <1>2, RunnerEnvelope
<1>3. ASSUME NEW p \in Procs, pc[p] = "enqueue" PROVE EnvOf(p) \in Envelopes
  BY <1>3, RunnerEnvelope DEF LeaveLabels
<1>4. WorkersAt'
  BY <1>0 DEF WorkersAt
<1>5. Alone'
  BY <1>0, <1>1, <1>2 DEF Alone
<1>6. First'
  BY <1>0, <1>1, <1>3 DEF First
<1>7. AtSealing'
  BY <1>0, <1>1, <1>2 DEF AtSealing, SealLabels, AfterSeal, LeaveLabels
<1> QED BY <1>4, <1>5, <1>6, <1>7

(* ... and the moves of one.                                               *)
LEMMA SealMoves ==
    ASSUME TypeOK, Queued, SealQueue, "duplicate" \notin Faults, NEW p \in Procs, Moves(p)
    PROVE  SealQueue'
<1> USE DEF SealQueue
<1>0. /\ \A q \in Procs \ {p} : pc'[q] = pc[q] /\ ctx'[q] = ctx[q] /\ EnvOf(q)' = EnvOf(q)
      /\ Workers \subseteq Procs
  BY MovesAlone DEF EnvOf, Procs
<1>1. WorkersAt'
  BY <1>0, MoverSeals DEF WorkersAt
<1>2. Alone'
  <2>1. ASSUME NEW w \in Workers, pc'[w] # "idle" PROVE queue'[EnvOf(w)'] = "inflight"
    <3>1. CASE w = p
      BY <2>1, <3>1, MoverSeals
    <3>2. CASE w # p
      BY <1>0, <2>1, <3>2, SealFrame
    <3> QED BY <3>1, <3>2
  <2>2. ASSUME NEW w \in Workers, NEW v \in Workers, pc'[w] # "idle", pc'[v] # "idle",
               EnvOf(v)' = EnvOf(w)'
        PROVE  v = w
    <3>1. CASE w = p /\ v # p
      BY <1>0, <2>2, <3>1, MoverSeals
    <3>2. CASE v = p /\ w # p
      BY <1>0, <2>2, <3>2, MoverSeals
    <3>3. CASE w # p /\ v # p
      BY <1>0, <2>2, <3>3 DEF Alone
    <3> QED BY <3>1, <3>2, <3>3
  <2> QED BY <2>1, <2>2 DEF Alone
<1>3. First'
  <2>1. ASSUME pc'[p] = "enqueue"
        PROVE  /\ queue'[EnvOf(p)'] = "none" /\ status'[EnvOf(p)'] = "sealing"
               /\ \A q \in Procs \ {p} : pc'[q] = "enqueue" => EnvOf(q)' # EnvOf(p)'
    <3>1. PICK e \in Envelopes : /\ EnvOf(p) = e /\ EnvOf(p)' = e /\ status[e] = "sent"
                                 /\ status'[e] = "sealing" /\ UNCHANGED queue
      BY <2>1, EnqueueComes
    <3>2. queue[e] = "none"
      BY <3>1 DEF Queued, PastSigning
    <3>3. \A q \in Procs \ {p} : pc[q] = "enqueue" => EnvOf(q) # e
      BY <3>1 DEF First
    <3> QED BY <1>0, <3>1, <3>2, <3>3
  <2>2. ASSUME NEW q \in Procs \ {p}, pc'[q] = "enqueue"
        PROVE  queue'[EnvOf(q)'] = "none" /\ status'[EnvOf(q)'] = "sealing"
    BY <1>0, <2>2, SealFrame
  <2>3. ASSUME NEW q \in Procs \ {p}, NEW r \in Procs \ {p}, pc'[q] = "enqueue",
               pc'[r] = "enqueue", EnvOf(q)' = EnvOf(r)'
        PROVE  q = r
    BY <1>0, <2>3 DEF First
  <2> QED BY <2>1, <2>2, <2>3 DEF First
<1>4. AtSealing'
  <2>1. ASSUME NEW w \in Workers \ {p}, pc'[w] # "idle"
        PROVE  /\ pc'[w] \in SealLabels => status'[EnvOf(w)'] = "sealing"
               /\ pc'[w] \in AfterSeal => status'[EnvOf(w)'] # "sealing"
               /\ pc'[w] = "done" => file'[EnvOf(w)'] = ctx'[w].turn
    BY <1>0, <2>1, SealFrame DEF AtSealing
  <2>2. ASSUME p \in Workers, pc'[p] # "idle"
        PROVE  /\ pc'[p] \in SealLabels => status'[EnvOf(p)'] = "sealing"
               /\ pc'[p] \in AfterSeal => status'[EnvOf(p)'] # "sealing"
               /\ pc'[p] = "done" => file'[EnvOf(p)'] = ctx'[p].turn
    BY <2>2, MoverSeals
  <2> QED BY <2>1, <2>2 DEF AtSealing, SealLabels, AfterSeal, LeaveLabels
<1> QED BY <1>1, <1>2, <1>3, <1>4

(* A hash is stored with the status it belongs to.                         *)
LEMMA HashMoves ==
    ASSUME TypeOK, NEW p \in Procs, Moves(p), NEW e \in Envelopes,
           hash'[e] # hash[e] \/ (status'[e] = "completed" /\ status[e] # "completed")
    PROVE  /\ p \in Workers /\ pc[p] = "done" /\ EnvOf(p) = e
           /\ status'[e] = "completed" /\ hash'[e] = ctx[p].turn /\ UNCHANGED file
<1> USE DEF TypeOK, Shapes
<1>1. CASE p \in Workers /\ SealDone(p)
  BY <1>1 DEF SealDone, SetStatus, EnvOf, storeVars
<1>2. hash'[e] = hash[e] \/ (p \in Workers /\ SealDone(p))
  <2>1. CASE p \in Callers /\ CallerStep(p)
    BY <2>1 DEF CallerStep, SendMark, SendContract, SendRollback, Invite, CompletePutImage,
       CompleteSign, CompleteEnqueue, SweepExpire, RevokeLinks, CancelEsign, envelopeVars
  <2>2. CASE p \in Workers /\ WorkerStep(p)
    BY <2>2 DEF WorkerStep, SealBuild, SealNote, SealPut, MarkRead, Ack, envelopeVars
  <2>3. CASE LeaveStep(p) \/ Crash(p)
    BY <2>3 DEF LeaveStep, Commit, Abandon, AbandonRevoke, Crash, envelopeVars
  <2>4. CASE \/ \E d \in Envelopes : NewRequest(p, d) \/ Deliver(p, d) \/ DeliverAgain(p, d)
             \/ \E op \in Ops : LeaveRead(p, op)
    BY <2>4 DEF NewRequest, SendCheck, CompleteOpen, SweepRead, Decline, Void, EndUnsigned,
       LeaveRead, Deliver, DeliverAgain, Receive, envelopeVars
  <2> QED BY <2>1, <2>2, <2>3, <2>4 DEF Moves
<1>3. ASSUME status'[e] = "completed", status[e] # "completed"
      PROVE  p \in Workers /\ SealDone(p)
  <2>1. p \in Workers /\ p \notin Callers /\ pc[p] = "done" /\ pc'[p] = "mark_read"
    BY <1>3, StatusMoves, RunsAssumption DEF StatusMove, Ended
  <2>2. ~\E d \in Envelopes : Deliver(p, d) \/ DeliverAgain(p, d)
    BY <2>1 DEF Deliver, DeliverAgain, Receive, Start
  <2>3. ~LeaveStep(p)
    BY <2>1 DEF LeaveStep, Commit, Abandon, AbandonRevoke
  <2>4. ~Crash(p)
    BY <2>1 DEF Crash, Stop, Goto
  <2> QED
    BY <2>1, <2>2, <2>3, <2>4 DEF Moves, WorkerStep, SealBuild, SealNote, SealPut, MarkRead, Ack
<1>4. p \in Workers /\ SealDone(p)
  BY <1>2, <1>3
<1> QED BY <1>1, <1>4

(* What a completed envelope says of its file, from step to step.          *)
LEMMA SealedStep ==
    ASSUME TypeOK, Queued, SealQueue, SealedHashMatches, "duplicate" \notin Faults, [Next]_vars
    PROVE  SealedHashMatches'
<1>1. CASE UNCHANGED vars \/ Aside
  <2>1. hash' = hash /\ file' = file
    BY <1>1 DEF Aside, Prepare, CreateDraft, UpdateDraft, DeleteDraft, Resend, DeadLetter, Act,
       Revise, vars, envelopeVars, storeVars
  <2>2. ASSUME NEW e \in Envelopes, status'[e] = "completed" PROVE status[e] = "completed"
    BY <1>1, <2>2, AsideStatus DEF vars, envelopeVars
  <2> QED BY <2>1, <2>2 DEF SealedHashMatches
<1>2. ASSUME NEW p \in Procs, Moves(p), NEW e \in Envelopes, status'[e] = "completed"
      PROVE  file'[e] = hash'[e]
  <2>1. CASE hash'[e] = hash[e] /\ status[e] = "completed"
    <3>1. ~(p \in Workers /\ pc[p] = "put_sealed" /\ EnvOf(p) = e)
      BY <2>1 DEF SealQueue, AtSealing, SealLabels
    <3>2. file'[e] = file[e]
      BY <1>2, <3>1, FileMoves
    <3> QED BY <2>1, <3>2 DEF SealedHashMatches
  <2>2. CASE hash'[e] # hash[e] \/ status[e] # "completed"
    <3>1. /\ p \in Workers /\ pc[p] = "done" /\ EnvOf(p) = e
          /\ hash'[e] = ctx[p].turn /\ UNCHANGED file
      BY <1>2, <2>2, HashMoves
    <3> QED BY <3>1 DEF SealQueue, AtSealing
  <2> QED BY <2>1, <2>2
<1> QED BY <1>1, <1>2, StepCases DEF SealedHashMatches

(* The queue of seals, as long as no message is delivered twice.           *)
LEMMA SealQueueKept ==
    ASSUME "duplicate" \notin Faults
    PROVE  Safe => [](SealQueue /\ Queued)
<1> DEFINE Inv == AllSigned /\ Queued /\ Enqueuing /\ Held /\ SealQueue
<1>1. Init => Inv
  <2> SUFFICES ASSUME Init PROVE Inv
    OBVIOUS
  <2>1. AllSigned /\ Queued /\ Enqueuing /\ Held
    BY DEF Init, AllSigned, PastSigning, Queued, Enqueuing, Held, Procs
  <2>2. \A p \in Procs : pc[p] = "idle"
    BY DEF Init
  <2>3. SealQueue
    BY <2>2 DEF SealQueue, WorkersAt, Alone, First, AtSealing, SealLabels, AfterSeal, LeaveLabels,
       Procs
  <2> QED BY <2>1, <2>3
<1>2. TypeOK /\ Inv /\ [Next]_vars => Inv'
  BY LifecycleStep, PastSigningStep, QueueStep, SealAside, SealMoves, StepCases
<1> QED BY <1>1, <1>2, TypeCorrect, PTL DEF Safe

(* The sha256 a completed envelope records is that of the file stored for  *)
(* it, however often it was tried and whichever runs stopped half way, as  *)
(* long as the queue delivers no message to two runs at a time.            *)
THEOREM SealedFilesMatch ==
    ASSUME "duplicate" \notin Faults
    PROVE  Safe => []SealedHashMatches
<1>1. Init => SealedHashMatches
  BY DEF Init, SealedHashMatches
<1>2. TypeOK /\ SealQueue /\ Queued /\ SealedHashMatches /\ [Next]_vars => SealedHashMatches'
  BY SealedStep
<1> QED BY <1>1, <1>2, SealQueueKept, TypeCorrect, PTL DEF Safe
-----------------------------------------------------------------------------
(* When a seal message is given up.  Inductive, as long as no run stops    *)
(* half way: every receive of the message is an attempt on the envelope,   *)
(* but for the one going on.                                               *)
CountsOf(e) ==
    /\ queue[e] = "none" \/ (status[e] = "sealing" /\ queue[e] = "visible") => attempts[e] = receives[e]
    /\ queue[e] = "none" \/ status[e] = "sealing" => attempts[e] < MaxSealAttempts
    /\ queue[e] \in {"deleted", "dead"} => status[e] # "sealing"

Counted == /\ \A e \in Envelopes : CountsOf(e)
           /\ \A w \in Workers : pc[w] \in SealLabels =>
                 /\ ctx[w].seen = attempts[EnvOf(w)]
                 /\ receives[EnvOf(w)] = attempts[EnvOf(w)] + 1

(* Who counts attempts and receives.                                       *)
LEMMA CountMoves ==
    ASSUME TypeOK, "duplicate" \notin Faults, NEW p \in Procs, Moves(p), NEW e \in Envelopes
    PROVE  \/ attempts'[e] = attempts[e] /\ receives'[e] = receives[e]
           \/ /\ p \in Workers /\ SealNote(p) /\ EnvOf(p) = e /\ pc[p] = "note" /\ pc'[p] = "idle"
              /\ receives'[e] = receives[e]
           \/ /\ p \in Workers /\ Deliver(p, e) /\ pc[p] = "idle"
              /\ attempts'[e] = attempts[e] /\ receives'[e] = receives[e] + 1
<1> USE DEF TypeOK, Shapes
<1>1. CASE p \in Callers /\ CallerStep(p)
  BY <1>1 DEF CallerStep, SendMark, SendContract, SendRollback, Invite, CompletePutImage,
     CompleteSign, CompleteEnqueue, SweepExpire, RevokeLinks, CancelEsign, envelopeVars, queueVars
<1>2. CASE p \in Workers /\ WorkerStep(p)
  <2>1. CASE SealNote(p)
    BY <1>2, <2>1 DEF SealNote, Stop, Goto, EnvOf, queueVars
  <2> QED BY <1>2, <2>1 DEF WorkerStep, SealBuild, SealPut, SealDone, MarkRead, Ack, envelopeVars,
    queueVars
<1>3. CASE LeaveStep(p) \/ Crash(p)
  BY <1>3 DEF LeaveStep, Commit, Abandon, AbandonRevoke, Crash, envelopeVars, queueVars
<1>4. ASSUME NEW d \in Envelopes, p \in Workers, Deliver(p, d)
      PROVE  \/ attempts'[e] = attempts[e] /\ receives'[e] = receives[e]
             \/ /\ d = e /\ pc[p] = "idle"
                /\ attempts'[e] = attempts[e] /\ receives'[e] = receives[e] + 1
  BY <1>4 DEF Deliver, Receive, Start, envelopeVars
<1>5. ASSUME NEW d \in Envelopes, DeliverAgain(p, d) PROVE FALSE
  BY <1>5 DEF DeliverAgain, Fault
<1>6. CASE \/ \E d \in Envelopes : NewRequest(p, d)
           \/ \E op \in Ops : LeaveRead(p, op)
  BY <1>6 DEF NewRequest, SendCheck, CompleteOpen, SweepRead, Decline, Void, EndUnsigned,
     LeaveRead, envelopeVars, queueVars
<1> QED BY <1>1, <1>2, <1>3, <1>4, <1>5, <1>6 DEF Moves

(* A noted attempt is the last receive.                                    *)
LEMMA NoteCounts ==
    ASSUME TypeOK, SealQueue, Counted, NEW p \in Workers, SealNote(p), NEW e \in Envelopes,
           EnvOf(p) = e
    PROVE  CountsOf(e)'
<1>0. /\ queue \in [Envelopes -> {"none", "visible", "inflight", "deleted", "dead"}]
      /\ status \in [Envelopes -> Statuses] /\ attempts \in [Envelopes -> Nat]
      /\ receives \in [Envelopes -> 0 .. MaxReceive]
  BY DEF TypeOK, Shapes
<1>1. queue[e] = "inflight" /\ status[e] = "sealing"
  BY DEF SealQueue, Alone, AtSealing, SealLabels, SealNote
<1>2. ctx[p].seen = attempts[e] /\ receives[e] = attempts[e] + 1
  BY DEF Counted, SealLabels, SealNote
<1>3. queue'[e] = "visible" /\ receives' = receives
  BY <1>0, <1>1 DEF SealNote, QueueAfterFailure, EnvOf
<1>4. attempts'[e] = attempts[e] + 1 /\ status'[e] = StatusAfterFailure(attempts[e] + 1)
  BY <1>0, <1>1, <1>2 DEF SealNote, SetStatus, AttemptsAfterFailure, EnvOf
<1>5. status'[e] = "sealing" => attempts'[e] < MaxSealAttempts
  BY <1>0, <1>4, BoundsAssumption DEF StatusAfterFailure
<1>6. attempts'[e] = receives'[e]
  BY <1>2, <1>3, <1>4
<1> QED BY <1>3, <1>5, <1>6 DEF CountsOf

(* The counts of an envelope from step to step: the moves of a run ...     *)
LEMMA CountsMove ==
    ASSUME TypeOK, Queued, SealQueue, Counted, "duplicate" \notin Faults, "crash" \notin Faults,
           NEW p \in Procs, Moves(p), NEW e \in Envelopes
    PROVE  CountsOf(e)'
<1>0. CountsOf(e)
  BY DEF Counted
<1>1. CASE p \in Workers /\ SealNote(p) /\ EnvOf(p) = e
  BY <1>1, NoteCounts
<1>2. CASE p \in Workers /\ Deliver(p, e)
  <2>1. queue'[e] = "inflight" /\ status' = status /\ attempts' = attempts
    BY <1>2 DEF Deliver, Receive, envelopeVars, TypeOK, Shapes
  <2> QED BY <1>0, <2>1 DEF CountsOf
<1>3. CASE ~(p \in Workers /\ SealNote(p) /\ EnvOf(p) = e) /\ ~(p \in Workers /\ Deliver(p, e))
  <2>1. attempts'[e] = attempts[e] /\ receives'[e] = receives[e]
    BY <1>3, CountMoves
  <2>2. CASE queue'[e] # queue[e]
    <3>1. QueueMove(p, e)
      BY <2>2, OnceDelivered
    <3>2. CASE pc[p] = "enqueue" /\ EnvOf(p) = e /\ queue'[e] = "visible" /\ UNCHANGED status
      <4>1. queue[e] = "none"
        BY <3>2 DEF SealQueue, First
      <4> QED BY <1>0, <2>1, <3>2, <4>1 DEF CountsOf
    <3>3. CASE p \in Workers /\ pc[p] = "ack" /\ EnvOf(p) = e /\ queue'[e] = "deleted"
               /\ UNCHANGED status
      <4>1. status'[e] # "sealing"
        BY <3>3 DEF SealQueue, AtSealing, AfterSeal
      <4> QED BY <3>3, <4>1 DEF CountsOf
    <3>4. CASE p \in Workers /\ pc[p] = "note" /\ EnvOf(p) = e
      <4>1. p \notin Callers
        BY <3>4, RunsAssumption
      <4>2. pc'[p] = "idle"
        BY <3>1, <3>4 DEF QueueMove, Deliver, Receive, Start
      <4>3. SealNote(p)
        BY <3>4, <4>1, <2>2
        DEF Moves, WorkerStep, SealBuild, SealPut, SealDone, MarkRead, Ack, LeaveStep, Commit,
            Abandon, AbandonRevoke, Crash, Fault, Deliver, DeliverAgain, Receive, Start
      <4> QED BY <1>3, <3>4, <4>3
    <3> QED BY <1>3, <3>1, <3>2, <3>3, <3>4 DEF QueueMove
  <2>3. CASE queue'[e] = queue[e] /\ status'[e] = "sealing" /\ status[e] # "sealing"
    <3>1. status[e] = "sent"
      BY <2>3, StatusMoves DEF StatusMove, Ended
    <3>2. queue[e] = "none"
      BY <3>1 DEF Queued, PastSigning
    <3> QED BY <1>0, <2>1, <2>3, <3>2 DEF CountsOf
  <2>4. CASE queue'[e] = queue[e] /\ (status'[e] = "sealing" => status[e] = "sealing")
    BY <1>0, <2>1, <2>4 DEF CountsOf
  <2> QED BY <2>2, <2>3, <2>4
<1> QED BY <1>1, <1>2, <1>3

(* ... and the steps of none: a message whose attempts were all counted    *)
(* is not given up before the envelope has failed.                         *)
LEMMA CountsAside ==
    ASSUME TypeOK, Queued, Counted, MaxSealAttempts <= MaxReceive, UNCHANGED vars \/ Aside,
           NEW e \in Envelopes
    PROVE  CountsOf(e)'
<1>0. CountsOf(e)
  BY DEF Counted
<1>1. CASE UNCHANGED vars
  BY <1>0, <1>1 DEF vars, envelopeVars, queueVars, CountsOf
<1>2. ASSUME NEW d \in Envelopes, DeadLetter(d) PROVE CountsOf(e)'
  <2>1. UNCHANGED <<status, attempts, receives>>
    BY <1>2 DEF DeadLetter, envelopeVars
  <2>2. CASE d = e
    <3>1. queue[e] = "visible" /\ receives[e] = MaxReceive /\ queue'[e] = "dead"
      BY <1>2, <2>2 DEF DeadLetter, TypeOK, Shapes
    <3>2. ASSUME status[e] = "sealing" PROVE FALSE
      <4>1. attempts[e] = receives[e]
        BY <1>0, <3>1, <3>2 DEF CountsOf
      <4>2. attempts[e] < MaxSealAttempts /\ attempts[e] \in Nat
        BY <1>0, <3>2 DEF CountsOf, TypeOK, Shapes
      <4> QED BY <3>1, <4>1, <4>2, BoundsAssumption
    <3> QED BY <2>1, <3>1, <3>2 DEF CountsOf
  <2>3. CASE d # e
    <3>1. queue'[e] = queue[e]
      BY <1>2, <2>3 DEF DeadLetter, TypeOK, Shapes
    <3> QED BY <1>0, <2>1, <3>1 DEF CountsOf
  <2> QED BY <2>2, <2>3
<1>3. CASE Aside /\ ~\E d \in Envelopes : DeadLetter(d)
  <2>1. UNCHANGED <<attempts, receives, queue>>
    BY <1>3 DEF Aside, Prepare, CreateDraft, UpdateDraft, DeleteDraft, Resend, Act, Revise,
       envelopeVars, queueVars
  <2>2. status'[e] = "sealing" => status[e] = "sealing"
    BY <1>3, AsideStatus
  <2> QED BY <1>0, <2>1, <2>2 DEF CountsOf
<1> QED BY <1>1, <1>2, <1>3

(* The counts and those who go by them, from step to step.                 *)
LEMMA CountedStep ==
    ASSUME TypeOK, Queued, SealQueue, Counted, "duplicate" \notin Faults, "crash" \notin Faults,
           MaxSealAttempts <= MaxReceive, [Next]_vars
    PROVE  Counted'
<1>0. Workers \subseteq Procs
  BY DEF Procs
<1>1. CASE UNCHANGED vars \/ Aside
  <2>1. pc' = pc /\ ctx' = ctx /\ \A w \in Workers : EnvOf(w)' = EnvOf(w)
    BY <1>1, AsideAlone DEF vars, procVars, EnvOf
  <2>2. attempts' = attempts /\ receives' = receives
    BY <1>1 DEF Aside, Prepare, CreateDraft, UpdateDraft, DeleteDraft, Resend, DeadLetter, Act,
       Revise, vars, envelopeVars, queueVars
  <2> QED BY <1>1, <2>1, <2>2, CountsAside DEF Counted
<1>2. ASSUME NEW p \in Procs, Moves(p) PROVE Counted'
  <2>1. \A e \in Envelopes : CountsOf(e)'
    BY <1>2, CountsMove
  <2>2. ASSUME NEW w \in Workers \ {p}, pc'[w] \in SealLabels
        PROVE  /\ ctx'[w].seen = attempts'[EnvOf(w)']
               /\ receives'[EnvOf(w)'] = attempts'[EnvOf(w)'] + 1
    <3>1. pc'[w] = pc[w] /\ ctx'[w] = ctx[w] /\ EnvOf(w)' = EnvOf(w)
      BY <1>0, <1>2, MovesAlone DEF EnvOf
    <3>2. EnvOf(w) \in Envelopes
      BY <1>0, <2>2, <3>1, RunnerEnvelope DEF SealLabels
    <3>3. PICK e \in Envelopes : EnvOf(w) = e /\ EnvOf(w)' = e
      BY <3>1, <3>2
    <3>4. /\ queue[e] = "inflight"
          /\ ~(p \in Workers /\ pc[p] = "note" /\ EnvOf(p) = e)
      BY <2>2, <3>1, <3>3 DEF SealQueue, Alone, SealLabels
    <3>5. attempts'[e] = attempts[e] /\ receives'[e] = receives[e]
      BY <1>2, <3>4, CountMoves DEF Deliver
    <3>6. ctx[w].seen = attempts[e] /\ receives[e] = attempts[e] + 1
      BY <2>2, <3>1, <3>3 DEF Counted
    <3> QED BY <3>1, <3>3, <3>5, <3>6
  <2>3. ASSUME p \in Workers, pc'[p] \in SealLabels
        PROVE  /\ ctx'[p].seen = attempts'[EnvOf(p)']
               /\ receives'[EnvOf(p)'] = attempts'[EnvOf(p)'] + 1
    <3>1. CASE \E e \in Envelopes : Deliver(p, e)
      <4>1. PICK e \in Envelopes : Deliver(p, e)
        BY <3>1
      <4>2. /\ pc'[p] = AfterReceive(e) /\ queue[e] = "visible"
            /\ ctx'[p] = Delivery(e, receives[e] + 1, attempts[e])
            /\ attempts' = attempts /\ receives'[e] = receives[e] + 1
        BY <1>0, <4>1 DEF Deliver, Receive, Start, Goto, envelopeVars, TypeOK, Shapes
      <4>3. status[e] = "sealing"
        BY <2>3, <4>2 DEF AfterReceive, SealLabels
      <4>4. attempts[e] = receives[e]
        BY <4>2, <4>3 DEF Counted, CountsOf
      <4>5. EnvOf(p)' = e /\ ctx'[p].seen = attempts[e]
        BY <4>2 DEF EnvOf, Delivery
      <4> QED BY <4>2, <4>4, <4>5
    <3>2. CASE ~\E e \in Envelopes : Deliver(p, e)
      <4>1. /\ pc[p] # "idle" /\ EnvOf(p) \in Envelopes /\ EnvOf(p)' = EnvOf(p) /\ Works(p)
        BY <1>2, <2>3, <3>2, WorkerSteps, WorkerDelivers DEF SealLabels
      <4>2. pc[p] \in SealLabels /\ ctx'[p] = ctx[p]
        BY <1>0, <2>3, <4>1 DEF Works, SealLabels, AfterSeal, LeaveLabels
      <4>3. PICK e \in Envelopes : EnvOf(p) = e /\ EnvOf(p)' = e
        BY <4>1
      <4>4. attempts'[e] = attempts[e] /\ receives'[e] = receives[e]
        BY <1>2, <2>3, <3>2, CountMoves DEF SealLabels
      <4>5. ctx[p].seen = attempts[e] /\ receives[e] = attempts[e] + 1
        BY <2>3, <4>2, <4>3 DEF Counted
      <4> QED BY <4>2, <4>3, <4>4, <4>5
    <3> QED BY <3>1, <3>2
  <2> QED BY <2>1, <2>2, <2>3 DEF Counted
<1> QED BY <1>1, <1>2, StepCases

(* A seal message is given up only after the envelope has failed, when no  *)
(* run stops half way and the queue delivers the message at least as often *)
(* as seal tries: maxReceiveCount of the queue is MAX_SEAL_ATTEMPTS.       *)
THEOREM DeadLettersFailed ==
    ASSUME "duplicate" \notin Faults, "crash" \notin Faults, MaxSealAttempts <= MaxReceive
    PROVE  Safe => []DeadLetterMeansFailed
<1>1. Init => Counted
  BY BoundsAssumption DEF Init, Counted, CountsOf, SealLabels, Procs
<1>2. TypeOK /\ SealQueue /\ Queued /\ Counted /\ [Next]_vars => Counted'
  BY CountedStep
<1>3. Counted => DeadLetterMeansFailed
  BY DEF Counted, CountsOf, DeadLetterMeansFailed
<1> QED BY <1>1, <1>2, <1>3, SealQueueKept, TypeCorrect, PTL DEF Safe
-----------------------------------------------------------------------------
(* The envelope and the contract move together.  What a step does to the   *)
(* contract, to the links, and what an invocation is about to do.          *)

(* The changes of the contract that a step of p can make.                  *)
ContractMove(p) ==
    \/ /\ pc[p] = "send_contract" /\ state = "ready_to_sign" /\ EnvOf(p) \in Envelopes
       /\ \A e \in Envelopes : OutWith(e)' <=> EnvOf(p) = e
       /\ pc'[p] = "invite" \/ "lost_reply" \in Faults
    \/ /\ pc[p] = "cancel" /\ state' = "ready_to_sign"
       /\ EnvOf(p) \in Envelopes /\ OutWith(EnvOf(p)) /\ pc'[p] = "idle"
    \/ /\ pc[p] = "commit" /\ ctx[p].op \in LeavesSignature
       /\ state \in AllowedFrom[ctx[p].op] /\ state' \in StatesAfter[ctx[p].op]

(* No step of an invocation changes the contract in any other way, and     *)
(* one that does leaves the envelopes alone.                               *)
LEMMA ContractMoves ==
    ASSUME TypeOK, NEW p \in Procs, Moves(p), ~UNCHANGED contractVars
    PROVE  ContractMove(p) /\ UNCHANGED <<status, links>>
<1> USE DEF ContractMove, EnvOf
<1>0. pc \in [Procs -> Labels]
  BY DEF TypeOK, Shapes
<1>1. CASE p \in Callers /\ SendContract(p)
  <2>1. EnvOf(p) \in Envelopes
    BY <1>1, RunnerEnvelope DEF SendContract, LeaveLabels
  <2>2. state \in AllowedFrom.send_for_signature /\ state' = "out_for_signature" /\ sig' = EnvOf(p)
    BY <1>1 DEF SendContract
  <2>3. state = "ready_to_sign"
    BY <2>2 DEF AllowedFrom
  <2>4. pc'[p] = "invite" \/ "lost_reply" \in Faults
    BY <1>0, <1>1 DEF SendContract, Goto, Fault
  <2> QED BY <1>1, <2>1, <2>2, <2>3, <2>4 DEF SendContract, OutWith, envelopeVars
<1>2. CASE p \in Callers /\ CancelEsign(p)
  <2>1. EnvOf(p) \in Envelopes
    BY <1>2, RunnerEnvelope DEF CancelEsign, LeaveLabels
  <2> QED BY <1>0, <1>2, <2>1 DEF CancelEsign, StillOutWith, OutWith, Stop, Goto, envelopeVars
<1>3. CASE Commit(p)
  BY <1>3 DEF Commit, TypeOK, ContextOK, Fits, envelopeVars
<1>4. CASE p \in Callers /\ CallerStep(p) /\ ~SendContract(p) /\ ~CancelEsign(p)
  BY <1>4 DEF CallerStep, SendMark, SendRollback, Invite, CompletePutImage, CompleteSign,
     CompleteEnqueue, SweepExpire, RevokeLinks
<1>5. CASE WorkerStep(p) \/ Abandon(p) \/ AbandonRevoke(p) \/ Crash(p)
  BY <1>5 DEF WorkerStep, SealBuild, SealNote, SealPut, SealDone, MarkRead, Ack, Abandon,
     AbandonRevoke, Crash
<1>6. CASE \/ \E d \in Envelopes : NewRequest(p, d) \/ Deliver(p, d) \/ DeliverAgain(p, d)
           \/ \E op \in Ops : LeaveRead(p, op)
  BY <1>6 DEF NewRequest, SendCheck, CompleteOpen, SweepRead, Decline, Void, EndUnsigned,
     LeaveRead, Deliver, DeliverAgain, Receive
<1> QED BY <1>1, <1>2, <1>3, <1>4, <1>5, <1>6 DEF Moves, LeaveStep

(* Only an invitation adds links.                                          *)
LEMMA LinkMoves ==
    ASSUME TypeOK, NEW p \in Procs, Moves(p), NEW e \in Envelopes, links'[e] # links[e]
    PROVE  links'[e] = {} \/ (pc[p] = "invite" /\ EnvOf(p) = e)
<1> USE DEF TypeOK, Shapes, EnvOf
<1>1. CASE p \in Callers /\ CallerStep(p)
  BY <1>1 DEF CallerStep, SendMark, SendContract, SendRollback, Invite, CompletePutImage,
     CompleteSign, CompleteEnqueue, SweepExpire, RevokeLinks, CancelEsign, envelopeVars
<1>2. CASE WorkerStep(p)
  BY <1>2 DEF WorkerStep, SealBuild, SealNote, SealPut, SealDone, MarkRead, Ack, envelopeVars
<1>3. CASE LeaveStep(p) \/ Crash(p)
  BY <1>3 DEF LeaveStep, Commit, Abandon, AbandonRevoke, Crash, envelopeVars
<1>4. CASE \/ \E d \in Envelopes : NewRequest(p, d) \/ Deliver(p, d) \/ DeliverAgain(p, d)
           \/ \E op \in Ops : LeaveRead(p, op)
  BY <1>4 DEF NewRequest, SendCheck, CompleteOpen, SweepRead, Decline, Void, EndUnsigned,
     LeaveRead, Deliver, DeliverAgain, Receive, envelopeVars
<1> QED BY <1>1, <1>2, <1>3, <1>4 DEF Moves

Sends(p, e) == pc[p] \in SendLabels /\ EnvOf(p) = e

(* Between finding the turn of a signer and sending links.                 *)
Collects(p, e) == pc[p] \in {"invite", "put_image", "sign"} /\ EnvOf(p) = e

(* An invocation collects for an envelope that has links, or that the      *)
(* contract has just gone out with.                                        *)
LEMMA CollectMoves ==
    ASSUME TypeOK, NEW p \in Procs, Moves(p), NEW e \in Envelopes, Collects(p, e)'
    PROVE  \/ Collects(p, e) \/ links[e] # {}
           \/ pc[p] = "send_contract" /\ EnvOf(p) = e /\ OutWith(e)' /\ UNCHANGED status
<1> USE DEF Start, Stop, Return, Goto, Collects, EnvOf
<1>0. pc \in [Procs -> Labels] /\ ctx \in [Procs -> Contexts]
  BY DEF TypeOK, Shapes
<1>1. CASE p \in Callers /\ SendContract(p)
  BY <1>0, <1>1 DEF SendContract, OutWith, envelopeVars
<1>2. CASE p \in Callers /\ (CompletePutImage(p) \/ CompleteSign(p))
  BY <1>0, <1>2 DEF CompletePutImage, CompleteSign, Inviting
<1>3. CASE CallerStep(p) /\ ~SendContract(p) /\ ~CompletePutImage(p) /\ ~CompleteSign(p)
  BY <1>0, <1>3 DEF CallerStep, SendMark, SendRollback, Invite, CompleteEnqueue, SweepExpire,
     RevokeLinks, CancelEsign
<1>4. CASE WorkerStep(p)
  BY <1>0, <1>4 DEF WorkerStep, SealBuild, SealNote, SealPut, SealDone, MarkRead, Ack
<1>5. CASE LeaveStep(p) \/ Crash(p)
  BY <1>0, <1>5 DEF LeaveStep, Commit, Abandon, AbandonRevoke, Crash
<1>6. ASSUME NEW d, Deliver(p, d) \/ DeliverAgain(p, d) PROVE FALSE
  BY <1>0, <1>6 DEF Deliver, DeliverAgain, Receive, AfterReceive
<1>7. ASSUME NEW d, CompleteOpen(p, d) PROVE links[e] # {}
  BY <1>0, <1>7 DEF CompleteOpen, Submission
<1>8. ASSUME NEW d, NEW op, SendCheck(p, d) \/ SweepRead(p, d) \/ Decline(p, d) \/ Void(p, d)
             \/ LeaveRead(p, op)
      PROVE  FALSE
  BY <1>0, <1>8 DEF SendCheck, SweepRead, Decline, Void, EndUnsigned, LeaveRead
<1> QED BY <1>1, <1>2, <1>3, <1>4, <1>5, <1>6, <1>7, <1>8 DEF Moves, NewRequest

(* An invocation sends the draft it has just marked, or went on sending.   *)
LEMMA SendMoves ==
    ASSUME TypeOK, NEW p \in Procs, Moves(p), NEW e \in Envelopes, Sends(p, e)'
    PROVE  \/ pc[p] = "send_mark" /\ status[e] = "draft" /\ status'[e] = "sent"
           \/ Sends(p, e) /\ pc'[p] = "send_rollback" /\ UNCHANGED status
<1> USE DEF Start, Stop, Return, Goto, Sends, SendLabels, EnvOf
<1>0. pc \in [Procs -> Labels] /\ ctx \in [Procs -> Contexts] /\ status \in [Envelopes -> Statuses]
  BY DEF TypeOK, Shapes
<1>1. CASE p \in Callers /\ SendMark(p)
  BY <1>0, <1>1 DEF SendMark, MayMarkSent, SetStatus, Inviting
<1>2. CASE p \in Callers /\ SendContract(p)
  BY <1>0, <1>2 DEF SendContract, envelopeVars
<1>3. CASE CallerStep(p) /\ ~SendMark(p) /\ ~SendContract(p)
  BY <1>0, <1>3 DEF CallerStep, SendRollback, Invite, CompletePutImage, CompleteSign,
     CompleteEnqueue, SweepExpire, RevokeLinks, CancelEsign
<1>4. CASE WorkerStep(p)
  BY <1>0, <1>4 DEF WorkerStep, SealBuild, SealNote, SealPut, SealDone, MarkRead, Ack
<1>5. CASE LeaveStep(p) \/ Crash(p)
  BY <1>0, <1>5 DEF LeaveStep, Commit, Abandon, AbandonRevoke, Crash
<1>6. ASSUME NEW d, NEW op,
             NewRequest(p, d) \/ LeaveRead(p, op) \/ Deliver(p, d) \/ DeliverAgain(p, d)
      PROVE  FALSE
  BY <1>0, <1>6 DEF NewRequest, SendCheck, CompleteOpen, SweepRead, Decline, Void, EndUnsigned,
     LeaveRead, Deliver, DeliverAgain, Receive, AfterReceive
<1> QED BY <1>1, <1>2, <1>3, <1>4, <1>5, <1>6 DEF Moves

(* Who stops sending an envelope took it back or the contract out with it. *)
LEMMA SendEnds ==
    ASSUME TypeOK, "crash" \notin Faults, NEW p \in Procs, Moves(p), NEW e \in Envelopes,
           Sends(p, e), ~Sends(p, e)'
    PROVE  OutWith(e)' \/ status'[e] # "sent"
<1> USE DEF Sends, SendLabels, EnvOf, Goto
<1>0. pc \in [Procs -> Labels] /\ status \in [Envelopes -> Statuses]
  BY DEF TypeOK, Shapes
<1>1. CASE SendContract(p)
  BY <1>0, <1>1 DEF SendContract, OutWith
<1>2. CASE SendRollback(p)
  BY <1>0, <1>2 DEF SendRollback, SetStatus, StatusAfterRollback
<1>3. CASE CallerStep(p)
  BY <1>1, <1>2, <1>3 DEF CallerStep, SendMark, Invite, CompletePutImage, CompleteSign,
     CompleteEnqueue, SweepExpire, RevokeLinks, CancelEsign
<1>4. ~WorkerStep(p) /\ ~LeaveStep(p) /\ ~Crash(p)
  BY DEF WorkerStep, SealBuild, SealNote, SealPut, SealDone, MarkRead, Ack, LeaveStep, Commit,
     Abandon, AbandonRevoke, Crash, Fault
<1>5. ASSUME NEW d, NEW op,
             NewRequest(p, d) \/ LeaveRead(p, op) \/ Deliver(p, d) \/ DeliverAgain(p, d)
      PROVE  FALSE
  BY <1>5 DEF NewRequest, SendCheck, CompleteOpen, SweepRead, Decline, Void, EndUnsigned,
     LeaveRead, Deliver, DeliverAgain, Receive, Start
<1> QED BY <1>3, <1>4, <1>5 DEF Moves

(* Whoever takes the contract back has found the envelope ended.           *)
Cancels(p, e) == pc[p] \in {"revoke", "cancel"} /\ EnvOf(p) = e

LEMMA CancelMoves ==
    ASSUME TypeOK, NEW p \in Procs, Moves(p), NEW e \in Envelopes, Cancels(p, e)'
    PROVE  status'[e] \in Ended \/ (Cancels(p, e) /\ UNCHANGED status)
<1> USE DEF Start, Stop, Return, Goto, Cancels, EnvOf, Ended, SetStatus
<1>0. pc \in [Procs -> Labels] /\ ctx \in [Procs -> Contexts] /\ status \in [Envelopes -> Statuses]
  BY DEF TypeOK, Shapes
<1>1. CASE p \in Callers /\ SweepExpire(p)
  BY <1>0, <1>1 DEF SweepExpire
<1>2. CASE p \in Callers /\ RevokeLinks(p)
  BY <1>0, <1>2 DEF RevokeLinks
<1>3. CASE CallerStep(p) /\ ~SweepExpire(p) /\ ~RevokeLinks(p)
  BY <1>0, <1>3 DEF CallerStep, SendMark, SendContract, SendRollback, Invite, CompletePutImage,
     CompleteSign, CompleteEnqueue, CancelEsign
<1>4. CASE WorkerStep(p)
  BY <1>0, <1>4 DEF WorkerStep, SealBuild, SealNote, SealPut, SealDone, MarkRead, Ack
<1>5. CASE LeaveStep(p) \/ Crash(p)
  BY <1>0, <1>5 DEF LeaveStep, Commit, Abandon, AbandonRevoke, Crash
<1>6. ASSUME NEW d, NEW op,
             SendCheck(p, d) \/ CompleteOpen(p, d) \/ SweepRead(p, d)
             \/ LeaveRead(p, op) \/ Deliver(p, d) \/ DeliverAgain(p, d)
      PROVE  FALSE
  BY <1>0, <1>6 DEF SendCheck, CompleteOpen, SweepRead, LeaveRead, Deliver, DeliverAgain, Receive,
     AfterReceive
<1>7. ASSUME NEW d, Decline(p, d) \/ Void(p, d) PROVE status'[e] \in Ended
  BY <1>0, <1>7 DEF Decline, Void, EndUnsigned, Request
<1> QED BY <1>1, <1>2, <1>3, <1>4, <1>5, <1>6, <1>7 DEF Moves, NewRequest

(* And govern-seal marks the contract signed for an envelope that is       *)
(* completed.                                                              *)
Marks(w, e) == pc[w] \in {"mark_read", "commit"} /\ EnvOf(w) = e

LEMMA MarkMoves ==
    ASSUME TypeOK, NEW w \in Workers, Moves(w), NEW e \in Envelopes, Marks(w, e)'
    PROVE  /\ status'[e] = "completed" \/ (Marks(w, e) /\ UNCHANGED status)
           /\ pc'[w] = "commit" =>
                 /\ ctx'[w].op = "mark_signed"
                 /\ pc[w] = "mark_read" /\ ctx'[w].old = EnvelopeOut
<1> USE DEF Start, Stop, Return, Goto, Marks, EnvOf, SetStatus
<1>0. /\ pc \in [Procs -> Labels] /\ ctx \in [Procs -> Contexts] /\ w \in Procs /\ w \notin Callers
      /\ status \in [Envelopes -> Statuses]
  BY RunsAssumption DEF TypeOK, Shapes, Procs
<1>1. CASE SealDone(w)
  BY <1>0, <1>1 DEF SealDone
<1>2. CASE MarkRead(w)
  BY <1>0, <1>2 DEF MarkRead, Leaving, envelopeVars
<1>3. CASE SealBuild(w) \/ SealNote(w) \/ SealPut(w) \/ Ack(w)
  BY <1>0, <1>3 DEF SealBuild, SealNote, SealPut, Ack
<1>4. CASE LeaveStep(w) \/ Crash(w)
  BY <1>0, <1>4 DEF LeaveStep, Commit, Abandon, AbandonRevoke, Crash
<1>5. ASSUME NEW d, Deliver(w, d) \/ DeliverAgain(w, d) PROVE FALSE
  BY <1>0, <1>5 DEF Deliver, DeliverAgain, Receive, AfterReceive
<1> QED BY <1>0, <1>1, <1>2, <1>3, <1>4, <1>5 DEF Moves, WorkerStep

(* The mark of a send is kept by the one who sends.                        *)
LEMMA MarkedSends ==
    ASSUME TypeOK, NEW p \in Procs, Moves(p), pc[p] = "send_mark", pc'[p] = "send_contract",
           NEW e \in Envelopes, EnvOf(p) = e
    PROVE  Sends(p, e)'
<1>0. ctx \in [Procs -> Contexts]
  BY DEF TypeOK, Shapes
<1>1. SendMark(p)
  BY DEF Moves, NewRequest, SendCheck, CompleteOpen, SweepRead, Decline, Void, EndUnsigned, LeaveRead,
     Deliver, DeliverAgain, Receive, Start, CallerStep, SendContract, SendRollback, Invite,
     CompletePutImage, CompleteSign, CompleteEnqueue, SweepExpire, RevokeLinks, CancelEsign,
     WorkerStep, SealBuild, SealNote, SealPut, SealDone, MarkRead, Ack, LeaveStep, Commit, Abandon,
     AbandonRevoke, Crash, Stop, Goto, TypeOK, Shapes
<1>2. ctx'[p] = Inviting(e, Due(e))
  BY <1>0, <1>1 DEF SendMark, Stop, Goto, EnvOf, TypeOK, Shapes
<1> QED BY <1>2 DEF Sends, SendLabels, EnvOf, Inviting

(* Whoever is about to mark the contract signed has an envelope.           *)
LEMMA CommitEnvelope ==
    ASSUME TypeOK, NEW w \in Workers, Moves(w), pc'[w] = "commit"
    PROVE  EnvOf(w)' \in Envelopes
<1>1. \/ pc[w] # "idle" /\ ctx'[w].env = ctx[w].env
      \/ \E e \in Envelopes : ctx'[w].env = e
  BY WorkerMoves DEF Procs
<1> QED BY <1>1, RunnerEnvelope DEF EnvOf, Procs

-----------------------------------------------------------------------------
(* An envelope that collects signatures belongs to the contract.           *)
(* Inductive, as long as no request takes the contract out of signature,   *)
(* links are not sent again and no run stops half way: links of an         *)
(* envelope, and requests that found one, exist only once the contract is  *)
(* out with it.                                                            *)
Finished == {"signed", "active", "closed"}

OutKept(e) ==
    /\ status[e] = "sent" => OutWith(e) \/ \E p \in Procs : Sends(p, e)
    /\ links[e] # {} \/ (\E p \in Procs : Collects(p, e)) =>
          status[e] \notin Unsent /\ (status[e] = "sent" => OutWith(e))
    /\ status[e] \in PastSigning => OutWith(e) \/ state \in Finished
    /\ \A p, q \in Procs : Sends(p, e) /\ Sends(q, e) => p = q
    /\ (\E p \in Procs : Sends(p, e)) =>
          status[e] \notin Unsent /\ links[e] = {} /\ ~\E p \in Procs : Collects(p, e)
    /\ (\E p \in Procs : Cancels(p, e)) => status[e] \in Ended
    /\ (\E w \in Workers : Marks(w, e)) => status[e] = "completed"

MarksOnly == /\ \A p \in Callers : pc[p] \notin LeaveLabels
             /\ \A w \in Workers : pc[w] = "commit" => ctx[w].op = "mark_signed"

KeptOut == MarksOnly /\ \A e \in Envelopes : OutKept(e)

(* A caller comes to leave signature by asking for it.                     *)
LEMMA LeaveMoves ==
    ASSUME TypeOK, NEW p \in Callers, Moves(p), pc'[p] \in LeaveLabels, pc[p] \notin LeaveLabels
    PROVE  \E op \in Ops : LeaveRead(p, op)
<1> USE DEF Start, Stop, Return, Goto, LeaveLabels
<1>0. /\ pc \in [Procs -> Labels] /\ p \in Procs /\ p \notin Workers
  BY RunsAssumption DEF TypeOK, Shapes, Procs
<1>1. CASE CallerStep(p)
  BY <1>0, <1>1 DEF CallerStep, SendMark, SendContract, SendRollback, Invite, CompletePutImage,
     CompleteSign, CompleteEnqueue, SweepExpire, RevokeLinks, CancelEsign
<1>2. CASE LeaveStep(p) \/ Crash(p)
  BY <1>0, <1>2 DEF LeaveStep, Commit, Abandon, AbandonRevoke, Crash
<1>3. ASSUME NEW d, NewRequest(p, d) PROVE FALSE
  BY <1>0, <1>3 DEF NewRequest, SendCheck, CompleteOpen, SweepRead, Decline, Void, EndUnsigned
<1> QED BY <1>0, <1>1, <1>2, <1>3 DEF Moves

(* The steps of no invocation leave the contract out as it is.             *)
LEMMA KeptAside ==
    ASSUME TypeOK, KeptOut, Ops \cap (LeavesSignature \cup OtherOps) = {},
           UNCHANGED vars \/ Aside, NEW e \in Envelopes
    PROVE  OutKept(e)'
<1>0. OutKept(e)
  BY DEF KeptOut
<1>1. /\ \A p \in Procs : Sends(p, e)' <=> Sends(p, e)
      /\ \A p \in Procs : Collects(p, e)' <=> Collects(p, e)
      /\ \A p \in Procs : Cancels(p, e)' <=> Cancels(p, e)
      /\ \A w \in Workers : Marks(w, e)' <=> Marks(w, e)
  BY AsideAlone DEF vars, procVars, Sends, Collects, Cancels, Marks, EnvOf
<1>2. links'[e] = {} \/ links'[e] = links[e]
  BY DEF Aside, Prepare, CreateDraft, UpdateDraft, DeleteDraft, Resend, DeadLetter, Act, Revise,
     OtherOps, vars, envelopeVars, TypeOK, Shapes
<1>3. (OutWith(e)' <=> OutWith(e)) /\ (state \in Finished => state' \in Finished)
  <2>1. CASE UNCHANGED contractVars
    BY <2>1 DEF contractVars, OutWith
  <2>2. ASSUME NEW op, Act(op)
        PROVE  (OutWith(e)' <=> OutWith(e)) /\ (state \in Finished => state' \in Finished)
    <3>1. /\ op \in DOMAIN AllowedFrom /\ op \notin LeavesSignature
          /\ state \in AllowedFrom[op] /\ state' \in StatesAfter[op]
      BY <2>2 DEF Act
    <3>2. state # "out_for_signature" /\ (state \in Finished => state' \in Finished)
      BY <3>1 DEF AllowedFrom, StatesAfter, LeavesSignature, Finished
    <3>3. op # "send_for_signature" => state' # "out_for_signature"
      BY <3>1 DEF AllowedFrom, StatesAfter
    <3>4. op = "send_for_signature" => sig' # e
      BY <2>2, NoneAssumption DEF Act
    <3> QED BY <3>2, <3>3, <3>4 DEF OutWith
  <2>3. ~Revise
    BY DEF Revise, OtherOps
  <2>4. UNCHANGED contractVars \/ (\E op \in Ops : Act(op)) \/ Revise
    BY DEF Aside, Prepare, CreateDraft, UpdateDraft, DeleteDraft, Resend, DeadLetter, vars
  <2> QED BY <2>1, <2>2, <2>3, <2>4
<1>4. \/ status'[e] = status[e]
      \/ status[e] \in Unsent /\ status'[e] \in {"draft", "deleted"}
  BY AsideStatus DEF vars, envelopeVars, Unsent
<1>5. CASE status'[e] = status[e]
  BY <1>0, <1>1, <1>2, <1>3, <1>5 DEF OutKept
<1>6. CASE status[e] \in Unsent /\ status'[e] \in {"draft", "deleted"}
  BY <1>0, <1>1, <1>2, <1>6 DEF OutKept, Unsent, Ended, PastSigning
<1> QED BY <1>4, <1>5, <1>6

(* The contract stays out with an envelope that waits for signatures, and  *)
(* with one past that until it is signed.                                  *)
LEMMA OutStays ==
    ASSUME TypeOK, KeptOut, NEW p \in Procs, Moves(p), NEW e \in Envelopes
    PROVE  /\ OutWith(e) /\ status[e] = "sent" => OutWith(e)'
           /\ status[e] \in PastSigning => OutWith(e)' \/ state' \in Finished
<1> SUFFICES ASSUME ~UNCHANGED contractVars PROVE
              /\ OutWith(e) /\ status[e] = "sent" => OutWith(e)'
              /\ status[e] \in PastSigning => OutWith(e)' \/ state' \in Finished
  BY DEF contractVars, OutWith, KeptOut, OutKept
<1>0. OutKept(e)
  BY DEF KeptOut
<1>1. ContractMove(p)
  BY ContractMoves
<1>2. CASE pc[p] = "send_contract" /\ state = "ready_to_sign"
  BY <1>0, <1>2 DEF OutWith, OutKept, Finished
<1>3. CASE /\ pc[p] = "cancel" /\ EnvOf(p) \in Envelopes /\ OutWith(EnvOf(p))
  <2>1. PICK f \in Envelopes : EnvOf(p) = f
    BY <1>3
  <2>2. status[f] \in Ended /\ OutWith(f)
    BY <1>3, <2>1 DEF KeptOut, OutKept, Cancels
  <2>3. OutWith(e) => e = f
    BY <2>2 DEF OutWith
  <2> QED BY <1>0, <2>2, <2>3 DEF OutKept, OutWith, Ended, PastSigning, Finished
<1>4. CASE /\ pc[p] = "commit" /\ state \in AllowedFrom[ctx[p].op] /\ state' \in StatesAfter[ctx[p].op]
  <2>1. p \in Workers /\ ctx[p].op = "mark_signed"
    BY <1>4 DEF KeptOut, MarksOnly, LeaveLabels, Procs
  <2>2. EnvOf(p) \in Envelopes
    BY <1>4, <2>1, RunnerEnvelope
  <2>3. PICK f \in Envelopes : EnvOf(p) = f
    BY <2>2
  <2>4. status[f] = "completed"
    BY <1>4, <2>1, <2>3 DEF KeptOut, OutKept, Marks
  <2>5. state \notin Finished /\ state' \in Finished
    BY <1>4, <2>1 DEF AllowedFrom, StatesAfter, Finished
  <2>6. OutWith(f)
    BY <2>4, <2>5 DEF KeptOut, OutKept, PastSigning
  <2>7. OutWith(e) => e = f
    BY <2>6 DEF OutWith
  <2> QED BY <2>4, <2>5, <2>7
<1> QED BY <1>1, <1>2, <1>3, <1>4 DEF ContractMove

(* The others are where they were.                                         *)
LEMMA OthersAt ==
    ASSUME TypeOK, NEW p \in Procs, Moves(p), NEW q \in Procs \ {p}, NEW e \in Envelopes
    PROVE  /\ Sends(q, e)' <=> Sends(q, e)
           /\ Collects(q, e)' <=> Collects(q, e)
           /\ Cancels(q, e)' <=> Cancels(q, e)
           /\ Marks(q, e)' <=> Marks(q, e)
BY MovesAlone DEF Sends, Collects, Cancels, Marks, EnvOf

(* An invocation that moves keeps an envelope with its contract: those who *)
(* collect signatures,                                                     *)
LEMMA KeptCollects ==
    ASSUME TypeOK, KeptOut, NEW p \in Procs, Moves(p), NEW e \in Envelopes,
           links'[e] # {} \/ \E q \in Procs : Collects(q, e)'
    PROVE  status'[e] \notin Unsent /\ (status'[e] = "sent" => OutWith(e)')
<1>0. OutKept(e)
  BY DEF KeptOut
<1>1. CASE links[e] # {} \/ \E q \in Procs : Collects(q, e)
  <2>1. /\ status[e] \notin Unsent /\ (status[e] = "sent" => OutWith(e))
        /\ ~Sends(p, e)
    BY <1>0, <1>1 DEF OutKept
  <2>2. CASE status'[e] = status[e]
    BY <2>1, <2>2, OutStays
  <2>3. CASE status'[e] # status[e]
    BY <2>1, <2>3, StatusMoves DEF StatusMove, Sends, SendLabels, Unsent, Ended
  <2> QED BY <2>2, <2>3
<1>2. CASE pc[p] = "send_contract" /\ EnvOf(p) = e /\ OutWith(e)' /\ UNCHANGED status
  BY <1>0, <1>2 DEF OutKept, Sends, SendLabels
<1>3. links'[e] # {} => links[e] # {} \/ Collects(p, e)
  BY LinkMoves DEF Collects
<1>4. ASSUME NEW q \in Procs, Collects(q, e)'
      PROVE  \/ Collects(q, e) \/ links[e] # {}
             \/ pc[p] = "send_contract" /\ EnvOf(p) = e /\ OutWith(e)' /\ UNCHANGED status
  <2>1. CASE q = p
    BY <1>4, <2>1, CollectMoves
  <2>2. CASE q # p
    BY <1>4, <2>2, OthersAt
  <2> QED BY <2>1, <2>2
<1> QED BY <1>1, <1>2, <1>3, <1>4

(* those who send it,                                                      *)
LEMMA KeptSends ==
    ASSUME TypeOK, KeptOut, NEW p \in Procs, Moves(p), NEW e \in Envelopes,
           NEW q \in Procs, Sends(q, e)'
    PROVE  /\ status'[e] \notin Unsent /\ links'[e] = {}
           /\ \A r \in Procs : ~Collects(r, e)' /\ (Sends(r, e)' => r = q)
<1>0. OutKept(e)
  BY DEF KeptOut
<1>1. ASSUME NEW r \in Procs, Sends(r, e)'
      PROVE  Sends(r, e) \/ (r = p /\ status[e] = "draft" /\ status'[e] = "sent")
  <2>1. CASE r = p
    BY <1>1, <2>1, SendMoves
  <2>2. CASE r # p
    BY <1>1, <2>2, OthersAt
  <2> QED BY <2>1, <2>2
<1>2. links[e] = {} /\ ~\E r \in Procs : Collects(r, e)
  BY <1>0, <1>1 DEF OutKept, Unsent
<1>3. links'[e] = {}
  BY <1>2, LinkMoves DEF Collects
<1>4. ASSUME NEW r \in Procs, NEW t \in Procs, Sends(r, e)', Sends(t, e)' PROVE r = t
  BY <1>0, <1>1, <1>4 DEF OutKept, Unsent
<1>5. ASSUME NEW r \in Procs, Collects(r, e)' PROVE FALSE
  <2>1. r = p
    BY <1>2, <1>5, OthersAt
  <2>2. pc[p] = "send_contract" /\ EnvOf(p) = e /\ UNCHANGED status
    BY <1>2, <1>5, <2>1, CollectMoves
  <2>3. Sends(q, e)
    BY <1>1, <2>2
  <2>4. q = p
    BY <1>0, <2>2, <2>3 DEF OutKept, Sends, SendLabels
  <2> QED BY <1>5, <2>1, <2>4 DEF Sends, Collects, SendLabels
<1>6. status'[e] \notin Unsent
  <2>1. CASE Sends(q, e)
    <3>1. status[e] \notin Unsent
      BY <1>0, <2>1 DEF OutKept
    <3>2. ASSUME pc[p] = "send_rollback", EnvOf(p) = e, pc'[p] = "idle" PROVE FALSE
      <4>1. q = p
        BY <1>0, <2>1, <3>2 DEF OutKept, Sends, SendLabels
      <4> QED BY <3>2, <4>1 DEF Sends, SendLabels
    <3> QED BY <3>1, <3>2, StatusMoves DEF StatusMove, Unsent, Ended
  <2>2. CASE status[e] = "draft" /\ status'[e] = "sent"
    BY <2>2 DEF Unsent
  <2> QED BY <1>1, <2>1, <2>2
<1> QED BY <1>3, <1>4, <1>5, <1>6

(* and those who settle what became of it.                                 *)
LEMMA KeptSettles ==
    ASSUME TypeOK, KeptOut, NEW p \in Procs, Moves(p), NEW e \in Envelopes
    PROVE  /\ (\E q \in Procs : Cancels(q, e)') => status'[e] \in Ended
           /\ (\E w \in Workers : Marks(w, e)') => status'[e] = "completed"
<1>0. OutKept(e) /\ Workers \subseteq Procs
  BY DEF KeptOut, Procs
<1>1. status[e] \in Ended \cup {"completed"} => status'[e] = status[e]
  BY StatusMoves DEF StatusMove, Ended
<1>2. ASSUME NEW q \in Procs, Cancels(q, e)' PROVE status'[e] \in Ended
  <2>1. Cancels(q, e) => status'[e] \in Ended
    BY <1>0, <1>1 DEF OutKept
  <2>2. CASE q = p
    BY <1>2, <2>1, <2>2, CancelMoves
  <2>3. CASE q # p
    BY <1>2, <2>1, <2>3, OthersAt
  <2> QED BY <2>2, <2>3
<1>3. ASSUME NEW w \in Workers, Marks(w, e)' PROVE status'[e] = "completed"
  <2>1. Marks(w, e) => status'[e] = "completed"
    BY <1>0, <1>1 DEF OutKept
  <2>2. CASE w = p
    BY <1>3, <2>1, <2>2, MarkMoves
  <2>3. CASE w # p
    BY <1>0, <1>3, <2>1, <2>3, OthersAt
  <2> QED BY <2>2, <2>3
<1> QED BY <1>2, <1>3

(* The moves of an invocation.                                             *)
LEMMA KeptMoves ==
    ASSUME TypeOK, KeptOut, Ops \cap (LeavesSignature \cup OtherOps) = {}, "crash" \notin Faults,
           NEW p \in Procs, Moves(p)
    PROVE  KeptOut'
<1>1. MarksOnly'
  <2>1. ASSUME NEW q \in Callers PROVE pc'[q] \notin LeaveLabels
    <3>1. CASE q = p
      BY <3>1, LeaveMoves DEF KeptOut, MarksOnly, LeaveRead
    <3>2. CASE q # p
      BY <3>2, MovesAlone DEF KeptOut, MarksOnly, Procs
    <3> QED BY <3>1, <3>2
  <2>2. ASSUME NEW w \in Workers, pc'[w] = "commit" PROVE ctx'[w].op = "mark_signed"
    <3>1. CASE w = p
      <4>1. EnvOf(p)' \in Envelopes
        BY <2>2, <3>1, CommitEnvelope
      <4> QED BY <2>2, <3>1, <4>1, MarkMoves DEF Marks
    <3>2. CASE w # p
      BY <2>2, <3>2, MovesAlone DEF KeptOut, MarksOnly, Procs
    <3> QED BY <3>1, <3>2
  <2> QED BY <2>1, <2>2 DEF MarksOnly
<1>2. ASSUME NEW e \in Envelopes PROVE OutKept(e)'
  <2>0. OutKept(e)
    BY DEF KeptOut
  <2>1. ASSUME status'[e] = "sent" PROVE OutWith(e)' \/ \E q \in Procs : Sends(q, e)'
    <3>1. CASE status[e] = "sent" /\ OutWith(e)
      BY <3>1, OutStays
    <3>2. ASSUME NEW q \in Procs, Sends(q, e)
          PROVE  OutWith(e)' \/ \E r \in Procs : Sends(r, e)'
      <4>1. CASE q = p
        BY <2>1, <3>2, <4>1, SendEnds
      <4>2. CASE q # p
        BY <3>2, <4>2, OthersAt
      <4> QED BY <4>1, <4>2
    <3>3. CASE status[e] # "sent"
      <4>1. /\ pc'[p] = "send_contract" /\ pc[p] = "send_mark" /\ EnvOf(p) = e
        BY <2>1, <3>3, StatusMoves DEF StatusMove, Ended
      <4>2. Sends(p, e)'
        BY <4>1, MarkedSends
      <4> QED BY <4>2
    <3> QED BY <2>0, <3>1, <3>2, <3>3 DEF OutKept
  <2>2. ASSUME status'[e] \in PastSigning PROVE OutWith(e)' \/ state' \in Finished
    <3>1. CASE status[e] \in PastSigning
      BY <3>1, OutStays
    <3>2. CASE status[e] \notin PastSigning
      <4>1. status[e] = "sent" /\ Collects(p, e)
        BY <2>2, <3>2, StatusMoves DEF StatusMove, PastSigning, Ended, Collects
      <4> QED BY <2>0, <4>1, OutStays DEF OutKept
    <3> QED BY <3>1, <3>2
  <2>3. links'[e] # {} \/ (\E q \in Procs : Collects(q, e)') =>
          status'[e] \notin Unsent /\ (status'[e] = "sent" => OutWith(e)')
    BY KeptCollects
  <2>4. \A q, r \in Procs : Sends(q, e)' /\ Sends(r, e)' => q = r
    BY KeptSends
  <2>5. (\E q \in Procs : Sends(q, e)') =>
          status'[e] \notin Unsent /\ links'[e] = {} /\ ~\E q \in Procs : Collects(q, e)'
    BY KeptSends
  <2> QED BY <2>1, <2>2, <2>3, <2>4, <2>5, KeptSettles DEF OutKept
<1> QED BY <1>1, <1>2 DEF KeptOut

(* As long as no request takes the contract out of signature.              *)
LEMMA KeptOutAlways ==
    ASSUME Ops \cap (LeavesSignature \cup OtherOps) = {}, "crash" \notin Faults
    PROVE  Safe => []KeptOut
<1>1. Init => KeptOut
  <2> SUFFICES ASSUME Init PROVE KeptOut
    OBVIOUS
  <2>1. \A p \in Procs : pc[p] = "idle"
    BY DEF Init
  <2>2. \A e \in Envelopes : status[e] = "absent" /\ links[e] = {}
    BY DEF Init
  <2> QED BY <2>1, <2>2 DEF KeptOut, MarksOnly, OutKept, Sends, Collects, Cancels, Marks, SendLabels,
    LeaveLabels, PastSigning, Procs
<1>2. TypeOK /\ KeptOut /\ [Next]_vars => KeptOut'
  <2> SUFFICES ASSUME TypeOK, KeptOut, [Next]_vars PROVE KeptOut'
    OBVIOUS
  <2>1. CASE UNCHANGED vars \/ Aside
    <3>1. pc' = pc /\ ctx' = ctx
      BY <2>1, AsideAlone DEF vars, procVars
    <3>2. MarksOnly'
      BY <3>1 DEF KeptOut, MarksOnly
    <3> QED BY <2>1, <3>2, KeptAside DEF KeptOut
  <2> QED BY <2>1, KeptMoves, StepCases
<1> QED BY <1>1, <1>2, TypeCorrect, PTL DEF Safe

(* An envelope collects signatures only while the contract is out with it, *)
(* once no request is under way: those that take the contract out of       *)
(* signature apart, whichever requests race.                               *)
THEOREM CollectsForTheContract ==
    ASSUME Ops \cap (LeavesSignature \cup OtherOps) = {}, "crash" \notin Faults
    PROVE  Safe => []OpenMeansOut
<1>1. KeptOut => OpenMeansOut
  BY DEF KeptOut, OutKept, OpenMeansOut, Idle, Sends, SendLabels
<1> QED BY <1>1, KeptOutAlways, PTL
-----------------------------------------------------------------------------
(* A signed contract names the envelope that was sealed.  Inductive, as    *)
(* long as nobody marks it signed by hand: whoever is about to mark it     *)
(* signed goes by an envelope that is completed.                           *)
MarksSealed ==
    \A p \in Procs : pc[p] = "commit" /\ (p \in Workers \/ ctx[p].op = "mark_signed") =>
        EnvOf(p) \in Envelopes /\ status[EnvOf(p)] = "completed"

(* A worker that is to look at the contract has completed its envelope,    *)
ReadsSealed == \A w \in Workers : pc[w] = "mark_read" => status[EnvOf(w)] = "completed"

SealedSigns == SignedNamesSealed /\ MarksSealed /\ ReadsSealed

(* and a completed envelope stays so.                                      *)
LEMMA CompletedStays ==
    ASSUME TypeOK, [Next]_vars, NEW e \in Envelopes, status[e] = "completed"
    PROVE  status'[e] = "completed"
<1>1. CASE UNCHANGED vars
  BY <1>1 DEF vars, envelopeVars
<1>2. CASE Aside
  BY <1>2, AsideStatus
<1>3. ASSUME NEW p \in Procs, Moves(p) PROVE status'[e] = "completed"
  BY <1>3, StatusMoves DEF StatusMove, Ended
<1> QED BY <1>1, <1>2, <1>3, StepCases

(* A worker comes to look at the contract when its envelope is completed.  *)
LEMMA ReadMoves ==
    ASSUME TypeOK, NEW w \in Workers, Moves(w), pc'[w] = "mark_read"
    PROVE  status'[EnvOf(w)'] = "completed"
<1> USE DEF Start, Stop, Return, Goto, EnvOf, SetStatus
<1>0. /\ pc \in [Procs -> Labels] /\ w \in Procs /\ w \notin Callers
      /\ status \in [Envelopes -> Statuses]
  BY RunsAssumption DEF TypeOK, Shapes, Procs
<1>1. CASE SealDone(w)
  <2>1. ctx[w].env \in Envelopes
    BY <1>0, <1>1, RunnerEnvelope DEF SealDone, LeaveLabels
  <2> QED BY <1>0, <1>1, <2>1 DEF SealDone
<1>2. CASE SealBuild(w) \/ SealNote(w) \/ SealPut(w) \/ MarkRead(w) \/ Ack(w)
  BY <1>0, <1>2 DEF SealBuild, SealNote, SealPut, MarkRead, Ack
<1>3. CASE LeaveStep(w) \/ Crash(w)
  BY <1>0, <1>3 DEF LeaveStep, Commit, Abandon, AbandonRevoke, Crash
<1>4. ASSUME NEW d, Deliver(w, d) \/ DeliverAgain(w, d) PROVE FALSE
  BY <1>0, <1>4 DEF Deliver, DeliverAgain, Receive, AfterReceive
<1> QED BY <1>0, <1>1, <1>2, <1>3, <1>4 DEF Moves, WorkerStep

(* The contract becomes signed by the write of mark_signed.                *)
LEMMA CommitWrites ==
    ASSUME TypeOK, NEW p \in Procs, Moves(p), ~ UNCHANGED contractVars, state' \in {"signed", "active"}
    PROVE  Commit(p)
<1>1. pc[p] = "commit"
  BY ContractMoves DEF ContractMove, OutWith
<1>2. LeaveStep(p) \/ Crash(p)
  BY <1>1 DEF Moves, NewRequest, SendCheck, CompleteOpen, SweepRead, Decline, Void, EndUnsigned, LeaveRead,
     Deliver, DeliverAgain, Receive, Start, CallerStep, SendMark, SendContract, SendRollback, Invite,
     CompletePutImage, CompleteSign, CompleteEnqueue, SweepExpire, RevokeLinks, CancelEsign,
     WorkerStep, SealBuild, SealNote, SealPut, SealDone, MarkRead, Ack
<1> QED BY <1>1, <1>2 DEF LeaveStep, Abandon, AbandonRevoke, Crash

(* A request that is about to mark it signed has been made for that.       *)
LEMMA NobodyByHand ==
    ASSUME TypeOK, MarksSealed, "mark_signed" \notin Ops, NEW p \in Callers, Moves(p),
           pc'[p] = "commit", ctx'[p].op = "mark_signed"
    PROVE  pc[p] = "commit" /\ ctx'[p] = ctx[p]
<1>0. /\ p \in Procs /\ p \notin Workers /\ pc \in [Procs -> Labels] /\ ctx \in [Procs -> Contexts]
  BY RunsAssumption DEF TypeOK, Shapes, Procs
<1>1. ASSUME NEW op \in Ops, LeaveRead(p, op) PROVE FALSE
  BY <1>0, <1>1 DEF LeaveRead, Start, Leaving
<1>2. CASE pc[p] \in LeaveLabels
  <2>1. LeaveStep(p) \/ Crash(p)
    BY <1>0, <1>1, <1>2 DEF Moves, NewRequest, SendCheck, CompleteOpen, SweepRead, Decline, Void, EndUnsigned,
       Start, CallerStep, SendMark, SendContract, SendRollback, Invite, CompletePutImage, CompleteSign,
       CompleteEnqueue, SweepExpire, RevokeLinks, CancelEsign, LeaveLabels
  <2> QED BY <1>0, <2>1 DEF LeaveStep, Commit, Abandon, AbandonRevoke, Crash, Stop, Return, Goto
<1> QED BY <1>1, <1>2, LeaveMoves DEF LeaveLabels

(* What a step does to the contract that matters here.                     *)
LEMMA SignedArises ==
    ASSUME TypeOK, MarksSealed, SignedNamesSealed, [Next]_vars, (state \in {"signed", "active"})'
    PROVE  (sig \in Envelopes)' /\ status[sig'] = "completed"
<1>1. CASE UNCHANGED contractVars
  BY <1>1 DEF contractVars, SignedNamesSealed
<1>2. ASSUME NEW op \in Ops, Act(op) PROVE sig' \in Envelopes /\ status[sig'] = "completed"
  <2>1. /\ op \in DOMAIN AllowedFrom /\ state \in AllowedFrom[op] /\ state' \in StatesAfter[op]
        /\ op \notin LeavesSignature /\ sig' = IF op = "send_for_signature" THEN Manual ELSE sig
    BY <1>2 DEF Act
  <2>2. op = "activate"
    BY <2>1 DEF AllowedFrom, StatesAfter, LeavesSignature
  <2> QED BY <2>1, <2>2 DEF AllowedFrom, SignedNamesSealed
<1>3. CASE Aside /\ ~ UNCHANGED contractVars
  <2>1. ~ Revise
    BY DEF Revise
  <2> QED BY <1>2, <1>3, <2>1 DEF Aside, Prepare, CreateDraft, UpdateDraft, DeleteDraft, Resend, DeadLetter
<1>4. ASSUME NEW p \in Procs, Moves(p), ~ UNCHANGED contractVars
      PROVE  sig' \in Envelopes /\ status[sig'] = "completed"
  <2>1. Commit(p)
    BY <1>4, CommitWrites
  <2>2. /\ pc[p] = "commit" /\ ctx[p].op \in LeavesSignature /\ state' \in StatesAfter[ctx[p].op]
        /\ sig' = SignatureAfter(ctx[p].op, EnvOf(p))
    BY <1>4, <2>1 DEF Commit, TypeOK, ContextOK, Fits, EnvOf, contractVars
  <2>3. ctx[p].op = "mark_signed"
    BY <2>2 DEF LeavesSignature, StatesAfter
  <2>4. EnvOf(p) \in Envelopes /\ status[EnvOf(p)] = "completed"
    BY <2>2, <2>3 DEF MarksSealed
  <2> QED BY <2>2, <2>3, <2>4, NoneAssumption DEF SignatureAfter
<1> QED BY <1>1, <1>3, <1>4, StepCases DEF vars

(* The contract becomes signed or active by no other move.                 *)
LEMMA SealedSignsStep ==
    ASSUME TypeOK, SealedSigns, [Next]_vars, "mark_signed" \notin Ops
    PROVE  SealedSigns'
<1>0. SignedNamesSealed /\ MarksSealed /\ ReadsSealed
  BY DEF SealedSigns
<1>1. SignedNamesSealed'
  BY <1>0, SignedArises, CompletedStays DEF SignedNamesSealed
<1>2. CASE UNCHANGED vars \/ Aside
  <2>1. pc' = pc /\ ctx' = ctx
    BY <1>2, AsideAlone DEF vars, procVars
  <2>2. MarksSealed'
    BY <1>0, <2>1, CompletedStays DEF MarksSealed, EnvOf
  <2>3. ReadsSealed'
    <3> SUFFICES ASSUME NEW w \in Workers, pc[w] = "mark_read" PROVE status'[EnvOf(w)] = "completed"
      BY <2>1 DEF ReadsSealed, EnvOf
    <3>1. EnvOf(w) \in Envelopes
      BY RunnerEnvelope DEF LeaveLabels, Procs
    <3> QED BY <1>0, <3>1, CompletedStays DEF ReadsSealed
  <2> QED BY <1>1, <2>2, <2>3 DEF SealedSigns
<1>3. ASSUME NEW p \in Procs, Moves(p) PROVE SealedSigns'
  <2>1. ASSUME NEW q \in Procs, pc'[q] = "commit", q \in Workers \/ ctx'[q].op = "mark_signed"
        PROVE  EnvOf(q)' \in Envelopes /\ status'[EnvOf(q)'] = "completed"
    <3>1. CASE pc[q] = "commit" /\ ctx'[q] = ctx[q]
      BY <1>0, <2>1, <3>1, CompletedStays DEF MarksSealed, EnvOf
    <3>2. CASE q # p
      BY <1>3, <2>1, <3>1, <3>2, MovesAlone
    <3>3. CASE q = p /\ q \in Callers
      BY <1>0, <1>3, <2>1, <3>1, <3>3, NobodyByHand, RunsAssumption
    <3>4. CASE q = p /\ q \in Workers
      <4>1. EnvOf(q)' \in Envelopes
        BY <1>3, <2>1, <3>4, CommitEnvelope
      <4>2. PICK e \in Envelopes : e = ctx'[q].env
        BY <4>1 DEF EnvOf
      <4>3. Marks(q, e)'
        BY <2>1, <3>4, <4>2 DEF Marks, EnvOf
      <4>4. status'[e] = "completed" \/ (Marks(q, e) /\ UNCHANGED status)
        BY <1>3, <3>4, <4>3, MarkMoves
      <4>5. Marks(q, e) => status[e] = "completed"
        BY <1>0, <3>4 DEF Marks, MarksSealed, ReadsSealed, Procs
      <4> QED BY <4>2, <4>4, <4>5 DEF EnvOf
    <3> QED BY <3>2, <3>3, <3>4 DEF Procs
  <2>2. ASSUME NEW w \in Workers, pc'[w] = "mark_read" PROVE status'[EnvOf(w)'] = "completed"
    <3>1. w \in Procs
      BY DEF Procs
    <3>2. CASE w # p
      <4>1. pc[w] = "mark_read" /\ ctx'[w] = ctx[w]
        BY <1>3, <2>2, <3>1, <3>2, MovesAlone
      <4>2. EnvOf(w) \in Envelopes
        BY <3>1, <4>1, RunnerEnvelope DEF LeaveLabels
      <4> QED BY <1>0, <4>1, <4>2, CompletedStays DEF ReadsSealed, EnvOf
    <3>3. CASE w = p
      BY <1>3, <2>2, <3>3, ReadMoves
    <3> QED BY <3>2, <3>3
  <2> QED BY <1>1, <2>1, <2>2 DEF SealedSigns, MarksSealed, ReadsSealed
<1> QED BY <1>2, <1>3, StepCases

(* A contract shown as signed names an envelope that was sealed, whatever  *)
(* requests race and whatever fails: also when it was reopened, approved   *)
(* and sent with another one while the first was being sealed.             *)
THEOREM SignsWhatWasSealed ==
    ASSUME "mark_signed" \notin Ops
    PROVE  Safe => []SignedNamesSealed
<1>1. Init => SealedSigns
  BY DEF Init, SealedSigns, SignedNamesSealed, MarksSealed, ReadsSealed, Procs
<1>2. TypeOK /\ SealedSigns /\ [Next]_vars => SealedSigns'
  BY SealedSignsStep
<1>3. SealedSigns => SignedNamesSealed
  BY DEF SealedSigns
<1> QED BY <1>1, <1>2, <1>3, TypeCorrect, PTL DEF Safe
-----------------------------------------------------------------------------
(* A contract that is out waits for something.  Inductive, for one request *)
(* at a time that does not stop half way: whatever the envelope came to,   *)
(* either it can still be signed or sealed, or an invocation is on its way *)
(* to move the contract on.                                                *)
Releases(e) ==
    \/ status[e] \in Open \cup {"failed"}
    \/ status[e] \in Ended /\ \E p \in Procs : Cancels(p, e)
    \/ status[e] = "completed" /\ \E w \in Workers : Marks(w, e)

(* p leaves signature, and is to abandon e.                                *)
Leaves(p, e) == pc[p] \in {"commit", "abandon"} /\ ctx[p].old = e

OutOpen(e) ==
    /\ \A p \in Procs : pc[p] = "send_contract" /\ EnvOf(p) = e => status[e] = "sent"
    /\ \A p \in Procs : Leaves(p, e) =>
          /\ status[e] \notin Unsent
          /\ \A q \in Procs : ~Sends(q, e)
          /\ pc[p] = "abandon" => ~OutWith(e)
    /\ OutWith(e) => Releases(e)

OutOpens == WorkersAt /\ \A e \in Envelopes : OutOpen(e)

(* Nothing else leads a worker anywhere.                                   *)
LEMMA WorkersStay ==
    ASSUME TypeOK, WorkersAt, NEW w \in Workers, Moves(w)
    PROVE  pc'[w] \in {"idle"} \cup SealLabels \cup AfterSeal
<1> USE DEF Start, Stop, Return, Goto, SealLabels, AfterSeal, LeaveLabels
<1>0. pc \in [Procs -> Labels] /\ w \in Procs /\ w \notin Callers
  BY RunsAssumption DEF TypeOK, Shapes, Procs
<1>1. CASE WorkerStep(w)
  BY <1>0, <1>1 DEF WorkerStep, SealBuild, SealNote, SealPut, SealDone, MarkRead, Ack
<1>2. CASE LeaveStep(w) \/ Crash(w)
  BY <1>0, <1>2 DEF LeaveStep, Commit, Abandon, AbandonRevoke, Crash
<1>3. ASSUME NEW e, Deliver(w, e) \/ DeliverAgain(w, e)
      PROVE  pc'[w] \in {"idle"} \cup SealLabels \cup AfterSeal
  BY <1>0, <1>3 DEF Deliver, DeliverAgain, Receive, AfterReceive
<1> QED BY <1>0, <1>1, <1>2, <1>3 DEF Moves

(* The actions that leave signature take the contract out of it.           *)
LEMMA LeavesTheState ==
    \A op \in LeavesSignature :
        "out_for_signature" \in AllowedFrom[op] /\ "out_for_signature" \notin StatesAfter[op]
BY DEF LeavesSignature, AllowedFrom, StatesAfter, OpenStates

(* Who leaves signature goes by the envelope the contract is out with.     *)
LEMMA LeaveGoes ==
    ASSUME TypeOK, NEW p \in Procs, Moves(p), NEW e \in Envelopes, Leaves(p, e)'
    PROVE  \/ pc'[p] = "commit" /\ OutWith(e) /\ UNCHANGED status
           \/ pc'[p] = "abandon" /\ Leaves(p, e) /\ ~OutWith(e)' /\ UNCHANGED status
<1> USE DEF Start, Stop, Return, Goto, Leaves
<1>0. /\ pc \in [Procs -> Labels] /\ ctx \in [Procs -> Contexts] /\ e # None
  BY NoneAssumption DEF TypeOK, Shapes
<1>1. CASE Commit(p)
  <2>1. ctx[p].op \in LeavesSignature /\ pc[p] = "commit"
    BY <1>1 DEF Commit, TypeOK, ContextOK, Fits
  <2>2. state' \in StatesAfter[ctx[p].op] /\ pc'[p] = "abandon" /\ ctx' = ctx
    BY <1>0, <1>1 DEF Commit
  <2> QED BY <1>1, <2>1, <2>2, LeavesTheState DEF Commit, OutWith, envelopeVars
<1>2. CASE MarkRead(p)
  BY <1>0, <1>2 DEF MarkRead, Leaving, EnvelopeOut, OutWith, envelopeVars
<1>3. ASSUME NEW op, LeaveRead(p, op)
      PROVE  pc'[p] = "commit" /\ OutWith(e) /\ UNCHANGED status
  BY <1>0, <1>3 DEF LeaveRead, Leaving, EnvelopeOut, OutWith, envelopeVars
<1>4. CASE CallerStep(p)
  BY <1>0, <1>4 DEF CallerStep, SendMark, SendContract, SendRollback, Invite, CompletePutImage,
     CompleteSign, CompleteEnqueue, SweepExpire, RevokeLinks, CancelEsign
<1>5. CASE SealBuild(p) \/ SealNote(p) \/ SealPut(p) \/ SealDone(p) \/ Ack(p)
  BY <1>0, <1>5 DEF SealBuild, SealNote, SealPut, SealDone, Ack
<1>6. CASE Abandon(p) \/ AbandonRevoke(p) \/ Crash(p)
  BY <1>0, <1>6 DEF Abandon, AbandonRevoke, Crash
<1>7. ASSUME NEW d, NewRequest(p, d) \/ Deliver(p, d) \/ DeliverAgain(p, d) PROVE FALSE
  BY <1>0, <1>7 DEF NewRequest, SendCheck, CompleteOpen, SweepRead, Decline, Void, EndUnsigned,
     Deliver, DeliverAgain, Receive, AfterReceive
<1> QED BY <1>1, <1>2, <1>3, <1>4, <1>5, <1>6, <1>7 DEF Moves, WorkerStep, LeaveStep

(* Who is on its way to move the contract on gets there.                   *)
LEMMA CancelGoes ==
    ASSUME TypeOK, "crash" \notin Faults, NEW p \in Procs, Moves(p), NEW e \in Envelopes,
           Cancels(p, e), ~Cancels(p, e)'
    PROVE  ~OutWith(e)'
<1> USE DEF Cancels, EnvOf, Goto
<1>0. pc \in [Procs -> Labels]
  BY DEF TypeOK, Shapes
<1>1. CASE CallerStep(p)
  BY <1>0, <1>1 DEF CallerStep, SendMark, SendContract, SendRollback, Invite, CompletePutImage,
     CompleteSign, CompleteEnqueue, SweepExpire, RevokeLinks, CancelEsign, StillOutWith, OutWith,
     contractVars
<1>2. ~WorkerStep(p) /\ ~LeaveStep(p) /\ ~Crash(p)
  BY DEF WorkerStep, SealBuild, SealNote, SealPut, SealDone, MarkRead, Ack, LeaveStep, Commit,
     Abandon, AbandonRevoke, Crash, Fault
<1>3. ASSUME NEW d, NEW op,
             NewRequest(p, d) \/ LeaveRead(p, op) \/ Deliver(p, d) \/ DeliverAgain(p, d)
      PROVE  FALSE
  BY <1>3 DEF NewRequest, SendCheck, CompleteOpen, SweepRead, Decline, Void, EndUnsigned,
     LeaveRead, Deliver, DeliverAgain, Receive, Start
<1> QED BY <1>1, <1>2, <1>3 DEF Moves

LEMMA MarkGoes ==
    ASSUME TypeOK, "crash" \notin Faults, NEW w \in Workers, Moves(w), NEW e \in Envelopes,
           Marks(w, e), ~Marks(w, e)'
    PROVE  ~OutWith(e)'
<1> USE DEF Marks, EnvOf, Goto
<1>0. pc \in [Procs -> Labels] /\ ctx \in [Procs -> Contexts] /\ w \in Procs /\ w \notin Callers
  BY RunsAssumption DEF TypeOK, Shapes, Procs
<1>1. CASE MarkRead(w)
  <2>1. "out_for_signature" \in AllowedFrom.mark_signed
    BY DEF AllowedFrom
  <2> QED BY <1>0, <1>1, <2>1 DEF MarkRead, AlreadySigned, Leaving, OutWith, contractVars
<1>2. CASE Commit(w)
  <2>1. ctx[w].op \in LeavesSignature
    BY <1>0, <1>2 DEF Commit, TypeOK, ContextOK, Fits
  <2> QED BY <1>2, <2>1, LeavesTheState DEF Commit, OutWith, contractVars
<1>3. ~(WorkerStep(w) /\ ~MarkRead(w)) /\ ~Abandon(w) /\ ~AbandonRevoke(w) /\ ~Crash(w)
  BY DEF WorkerStep, SealBuild, SealNote, SealPut, SealDone, Ack, Abandon, AbandonRevoke, Crash,
     Fault
<1>4. ASSUME NEW d, Deliver(w, d) \/ DeliverAgain(w, d) PROVE FALSE
  BY <1>4 DEF Deliver, DeliverAgain, Receive, Start
<1> QED BY <1>0, <1>1, <1>2, <1>3, <1>4 DEF Moves, LeaveStep

(* A contract that is out with an envelope stays out with it or moves on,  *)
(* and goes out only with one that is being sent.                          *)
LEMMA OutArises ==
    ASSUME TypeOK, NEW p \in Procs, Moves(p), NEW e \in Envelopes, ~OutWith(e), OutWith(e)'
    PROVE  pc[p] = "send_contract" /\ EnvOf(p) = e /\ UNCHANGED status
<1>1. ~UNCHANGED contractVars
  BY DEF contractVars, OutWith
<1>2. ContractMove(p) /\ UNCHANGED status
  BY <1>1, ContractMoves
<1> QED BY <1>2, LeavesTheState DEF ContractMove, OutWith

(* What the invocation that moves makes of an envelope: who sends it,      *)
LEMMA OpenSends ==
    ASSUME TypeOK, OneSender, OutOpens, \A p, q \in Callers : p = q, NEW p \in Procs, Moves(p),
           NEW e \in Envelopes, NEW q \in Procs, pc'[q] = "send_contract", EnvOf(q)' = e
    PROVE  status'[e] = "sent"
<1>1. CASE q = p
  BY <1>1, SendMoves DEF Sends, SendLabels
<1>2. CASE q # p
  <2>1. pc[q] = "send_contract" /\ EnvOf(q) = e /\ Sends(q, e)
    BY <1>2, MovesAlone DEF EnvOf, Sends, SendLabels
  <2>2. status[e] = "sent" /\ ~Leaves(p, e)
    BY <2>1 DEF OutOpens, OutOpen
  <2>3. q \in Callers
    BY <2>1 DEF OutOpens, WorkersAt, SealLabels, AfterSeal, LeaveLabels, Procs
  <2>4. p \notin Callers
    BY <1>2, <2>3
  <2> QED BY <2>2, <2>4, StatusMoves DEF StatusMove, Leaves
<1> QED BY <1>1, <1>2

(* who leaves it,                                                          *)
LEMMA OpenLeaves ==
    ASSUME TypeOK, SentNotOut, NamesSent, OutOpens, NEW p \in Procs, Moves(p),
           NEW e \in Envelopes, NEW q \in Procs, Leaves(q, e)'
    PROVE  /\ status'[e] \notin Unsent
           /\ \A r \in Procs : ~Sends(r, e)'
           /\ pc'[q] = "abandon" => ~OutWith(e)'
<1>1. ASSUME status[e] \notin Unsent, \A r \in Procs : ~Sends(r, e)
      PROVE  status'[e] \notin Unsent /\ \A r \in Procs : ~Sends(r, e)'
  <2>1. status'[e] \notin Unsent
    BY <1>1, StatusMoves DEF StatusMove, Sends, SendLabels, Unsent, Ended
  <2>2. ASSUME NEW r \in Procs, Sends(r, e)' PROVE FALSE
    <3>1. CASE r = p
      BY <1>1, <2>2, <3>1, SendMoves DEF Unsent
    <3>2. CASE r # p
      BY <1>1, <2>2, <3>2, OthersAt
    <3> QED BY <3>1, <3>2
  <2> QED BY <2>1, <2>2
<1>2. CASE q # p
  <2>1. Leaves(q, e) /\ pc'[q] = pc[q]
    BY <1>2, MovesAlone DEF Leaves
  <2>2. /\ status[e] \notin Unsent /\ \A r \in Procs : ~Sends(r, e)
        /\ pc[q] = "abandon" => ~OutWith(e)
    BY <2>1 DEF OutOpens, OutOpen
  <2>3. ~OutWith(e) => ~OutWith(e)'
    BY <2>2, OutArises DEF Sends, SendLabels
  <2> QED BY <1>1, <2>1, <2>2, <2>3
<1>3. CASE q = p
  <2>1. CASE pc'[p] = "commit" /\ OutWith(e)
    <3>1. status[e] \notin Unsent /\ \A r \in Procs : ~Sends(r, e)
      BY <2>1 DEF NamesSent, SentNotOut, Sends
    <3> QED BY <1>1, <1>3, <2>1, <3>1
  <2>2. CASE pc'[p] = "abandon" /\ Leaves(p, e) /\ ~OutWith(e)'
    <3>1. status[e] \notin Unsent /\ \A r \in Procs : ~Sends(r, e)
      BY <2>2 DEF OutOpens, OutOpen
    <3> QED BY <1>1, <1>3, <2>2, <3>1
  <2> QED BY <1>3, <2>1, <2>2, LeaveGoes
<1> QED BY <1>2, <1>3

(* and what the contract that is out with it waits for.                    *)
LEMMA OpenReleases ==
    ASSUME TypeOK, SentNotOut, OutOpens, "crash" \notin Faults, NEW p \in Procs, Moves(p),
           NEW e \in Envelopes, OutWith(e)'
    PROVE  Releases(e)'
<1>1. CASE ~OutWith(e)
  <2>1. pc[p] = "send_contract" /\ EnvOf(p) = e /\ UNCHANGED status
    BY <1>1, OutArises
  <2> QED BY <2>1 DEF OutOpens, OutOpen, Releases, Open
<1>2. CASE OutWith(e)
  <2>1. Releases(e)
    BY <1>2 DEF OutOpens, OutOpen
  <2>2. Workers \subseteq Procs
    BY DEF Procs
  <2>3. CASE status'[e] = status[e]
    <3>1. ASSUME NEW q \in Procs, Cancels(q, e) PROVE Cancels(q, e)'
      BY <3>1, CancelGoes, OthersAt
    <3>2. ASSUME NEW w \in Workers, Marks(w, e) PROVE Marks(w, e)'
      BY <2>2, <3>2, MarkGoes, OthersAt
    <3> QED BY <2>1, <2>3, <3>1, <3>2 DEF Releases
  <2>4. CASE status'[e] # status[e]
    <3>1. ~Sends(p, e) /\ ~(pc[p] = "abandon" /\ ctx[p].old = e)
      BY <1>2 DEF SentNotOut, Sends, OutOpens, OutOpen, Leaves
    <3>2. StatusMove(p, e)
      BY <2>4, StatusMoves
    <3>3. CASE status'[e] \in Ended /\ pc'[p] = "revoke" /\ EnvOf(p)' = e
      BY <3>3 DEF Releases, Cancels
    <3>4. CASE p \in Workers /\ status'[e] = "completed" /\ pc'[p] = "mark_read" /\ EnvOf(p)' = e
      BY <3>4 DEF Releases, Marks
    <3>5. CASE status'[e] \in {"sealing", "failed"}
      BY <3>5 DEF Releases, Open
    <3>6. CASE status[e] = "draft"
      BY <2>1, <3>6 DEF Releases, Open, Ended
    <3> QED BY <3>1, <3>2, <3>3, <3>4, <3>5, <3>6 DEF StatusMove, Sends, SendLabels
  <2> QED BY <2>3, <2>4
<1> QED BY <1>1, <1>2

(* The steps of no invocation.                                             *)
LEMMA OpenAside ==
    ASSUME TypeOK, OutOpens, UNCHANGED vars \/ Aside, NEW e \in Envelopes
    PROVE  OutOpen(e)'
<1>0. OutOpen(e)
  BY DEF OutOpens
<1>1. /\ pc' = pc /\ ctx' = ctx
      /\ \A p \in Procs : Sends(p, e)' <=> Sends(p, e)
      /\ \A p \in Procs : Leaves(p, e)' <=> Leaves(p, e)
      /\ \A p \in Procs : Cancels(p, e)' <=> Cancels(p, e)
      /\ \A w \in Workers : Marks(w, e)' <=> Marks(w, e)
      /\ \A p \in Procs : EnvOf(p)' = EnvOf(p)
  BY AsideAlone DEF vars, procVars, Sends, Leaves, Cancels, Marks, EnvOf
<1>2. OutWith(e)' => OutWith(e)
  <2>1. CASE UNCHANGED contractVars
    BY <2>1 DEF contractVars, OutWith
  <2>2. ASSUME NEW op, Act(op) PROVE ~OutWith(e)'
    <3>1. op \in DOMAIN AllowedFrom /\ state' \in StatesAfter[op]
      BY <2>2 DEF Act
    <3>2. op # "send_for_signature" => state' # "out_for_signature"
      BY <3>1 DEF AllowedFrom, StatesAfter
    <3>3. op = "send_for_signature" => sig' # e
      BY <2>2, NoneAssumption DEF Act
    <3> QED BY <3>2, <3>3 DEF OutWith
  <2>3. Revise => ~OutWith(e)'
    BY DEF Revise, OutWith
  <2>4. UNCHANGED contractVars \/ (\E op \in Ops : Act(op)) \/ Revise
    BY DEF Aside, Prepare, CreateDraft, UpdateDraft, DeleteDraft, Resend, DeadLetter, vars
  <2> QED BY <2>1, <2>2, <2>3, <2>4
<1>3. \/ status'[e] = status[e]
      \/ status[e] \in {"absent", "draft"}
  BY AsideStatus DEF vars, envelopeVars
<1>4. CASE status'[e] = status[e]
  BY <1>0, <1>1, <1>2, <1>4 DEF OutOpen, Releases
<1>5. CASE status[e] \in {"absent", "draft"}
  BY <1>0, <1>1, <1>2, <1>5 DEF OutOpen, Releases, Unsent, Open, Ended
<1> QED BY <1>3, <1>4, <1>5

(* A contract that is out for signature with an envelope waits for it:     *)
(* once no invocation is under way the envelope is open or could not be    *)
(* sealed, whatever was declined, voided, expired, reopened or sealed      *)
(* before, with one request at a time and govern-seal beside it.           *)
THEOREM OutIsOpen ==
    ASSUME \A p, q \in Callers : p = q, "crash" \notin Faults, "lost_reply" \notin Faults
    PROVE  Safe => []OutMeansOpen
<1>1. Init => OutOpens
  <2> SUFFICES ASSUME Init PROVE OutOpens
    OBVIOUS
  <2>1. \A p \in Procs : pc[p] = "idle"
    BY DEF Init
  <2>2. \A e \in Envelopes : ~OutWith(e)
    BY DEF Init, OutWith
  <2> QED BY <2>1, <2>2 DEF OutOpens, OutOpen, WorkersAt, Leaves, Procs
<1>2. TypeOK /\ OneSender /\ SentNotOut /\ NamesSent /\ OutOpens /\ [Next]_vars => OutOpens'
  <2> SUFFICES ASSUME TypeOK, OneSender, SentNotOut, NamesSent, OutOpens, [Next]_vars
               PROVE  OutOpens'
    OBVIOUS
  <2>1. CASE UNCHANGED vars \/ Aside
    <3>1. pc' = pc
      BY <2>1, AsideAlone DEF vars, procVars
    <3>2. WorkersAt'
      BY <3>1 DEF OutOpens, WorkersAt
    <3> QED BY <2>1, <3>2, OpenAside DEF OutOpens
  <2>2. ASSUME NEW p \in Procs, Moves(p) PROVE OutOpens'
    <3>1. ASSUME NEW w \in Workers PROVE pc'[w] \in {"idle"} \cup SealLabels \cup AfterSeal
      <4>1. CASE w = p
        BY <2>2, <4>1, WorkersStay DEF OutOpens
      <4>2. CASE w # p
        BY <2>2, <4>2, MovesAlone DEF OutOpens, WorkersAt, Procs
      <4> QED BY <4>1, <4>2
    <3>2. ASSUME NEW e \in Envelopes PROVE OutOpen(e)'
      <4>1. \A q \in Procs : pc'[q] = "send_contract" /\ EnvOf(q)' = e => status'[e] = "sent"
        BY <2>2, OpenSends
      <4>2. \A q \in Procs : Leaves(q, e)' =>
              /\ status'[e] \notin Unsent
              /\ \A r \in Procs : ~Sends(r, e)'
              /\ pc'[q] = "abandon" => ~OutWith(e)'
        BY <2>2, OpenLeaves
      <4>3. OutWith(e)' => Releases(e)'
        BY <2>2, OpenReleases
      <4> QED BY <4>1, <4>2, <4>3 DEF OutOpen
    <3> QED BY <3>1, <3>2 DEF OutOpens, WorkersAt
  <2> QED BY <2>1, <2>2, StepCases
<1>3. OutOpens => OutMeansOpen
  BY DEF OutOpens, OutOpen, OutMeansOpen, OutWith, Releases, Idle, Cancels, Marks, Procs
<1> QED BY <1>1, <1>2, <1>3, TypeCorrect, SendersKept, PTL DEF Safe
=============================================================================
