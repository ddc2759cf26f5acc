------------------------------- MODULE Esign -------------------------------
(***************************************************************************)
(* Govern e-signature (lambdas/shared/govern/esign.py) together with the   *)
(* part of the contract workflow (workflow.py) it moves.                   *)
(*                                                                         *)
(* One contract and its envelopes.  Each handler runs in a Lambda          *)
(* invocation of its own and touches several stores one call at a time:    *)
(* the envelope item and the contract item (DynamoDB, each written under   *)
(* an optimistic lock on rev), the signature images and the sealed file    *)
(* (S3) and the seal queue (SQS).  A step here is the code between two     *)
(* such calls; steps of different invocations interleave, and an           *)
(* invocation can stop between any two of them.  A read-modify-write under *)
(* the lock (_mutate, ContractStore.mutate) is one step: it is applied to  *)
(* the item as it is when the write succeeds.                              *)
(***************************************************************************)
EXTENDS Naturals, ContractStates

CONSTANTS
    Envelopes,        \* envelopes that can be prepared for the contract
    Signers,          \* the signers of every envelope
    Rank,             \* Rank[s]: place in the signing order (equal: any order)
    Drawings,         \* signatures a signer can draw
    Callers,          \* concurrent govern-api, govern-signing, govern-sweeper runs
    Workers,          \* concurrent govern-seal runs
    Ops,              \* what else happens: names of AllowedFrom, OtherOps
    Faults,           \* which of FaultKinds may happen
    MaxFaults,        \* bound: how many of them do
    MaxReceive,       \* maxReceiveCount of the seal queue
    MaxSealAttempts,  \* esign.MAX_SEAL_ATTEMPTS
    Manual,           \* contract.signature names no Govern envelope
    None              \* nothing

FaultKinds == {"crash",        \* an invocation stops (timeout, exception, exit)
               "conflict",     \* five lost races on the contract item
               "lost_reply",   \* a contract write is stored, its reply is lost
               "duplicate"}    \* SQS delivers a message that it has delivered

OtherOps == {"resend",         \* a reviewer sends a signer a new link
             "revision"}       \* a new version of the document arrives

ASSUME SignersAssumption == Signers # {} /\ Rank \in [Signers -> Nat]
ASSUME RunsAssumption    == Callers \cap Workers = {}
ASSUME NoneAssumption    == /\ None \notin Envelopes \cup Signers \cup Drawings \cup {Manual}
                            /\ Manual \notin Envelopes
ASSUME OpsAssumption     == /\ Ops \subseteq DOMAIN AllowedFrom \cup OtherOps
                            /\ Faults \subseteq FaultKinds
ASSUME BoundsAssumption  == /\ MaxReceive \in Nat /\ MaxReceive > 0
                            /\ MaxSealAttempts \in Nat /\ MaxSealAttempts > 0
                            /\ MaxFaults \in Nat

Procs == Callers \cup Workers

VARIABLES
    state,      \* the contract's state
    sig,        \* what contract.signature names: an envelope, Manual or None
    status,     \* status[e]: envelope status; "absent" before, "deleted" after
    signed,     \* signed[e]: signers whose status is "signed"
    links,      \* links[e]: signers holding a live link (its hash on the envelope)
    attempts,   \* attempts[e]: sealAttempts
    hash,       \* hash[e]: which sealing the stored sha256 is of (0: none)
    image,      \* image[e][s]: the drawing sig/<s>-signature.png holds
    adopted,    \* adopted[e][s]: the drawing of the accepted submission (history)
    file,       \* file[e]: which sealing sealed.pdf is of (0: no file)
    queue,      \* queue[e]: the seal message of e
    receives,   \* receives[e]: how often it has been received
    pc,         \* pc[p]: the next step of invocation p
    ctx,        \* ctx[p]: what p has read and goes by
    faults      \* faults so far

contractVars == <<state, sig>>
envelopeVars == <<status, signed, links, attempts, hash>>
storeVars    == <<image, adopted, file>>
queueVars    == <<queue, receives>>
procVars     == <<pc, ctx>>
vars == <<contractVars, envelopeVars, storeVars, queueVars, procVars, faults>>

Statuses == {"absent", "draft", "sent", "sealing", "completed", "failed",
             "declined", "voided", "expired", "deleted"}

Labels == {"idle", "send_mark", "send_contract", "send_rollback", "invite",
           "put_image", "sign", "enqueue", "expire", "revoke", "cancel",
           "commit", "abandon", "abandon_revoke",
           "build", "note", "put_sealed", "done", "mark_read", "ack"}

LeaveLabels == {"commit", "abandon", "abandon_revoke"}

Contexts == [env  : Envelopes \cup {None},      \* the envelope worked on
             who  : Signers \cup {None},        \* the signer
             draw : Drawings \cup {None},       \* the signature submitted
             due  : SUBSET Signers,             \* signers to invite
             op   : DOMAIN AllowedFrom \cup {"none"},
             old  : Envelopes \cup {None},      \* before_sig: the envelope read
             seen : Nat,                        \* sealAttempts as read
             turn : 0 .. MaxReceive]            \* number of this delivery

(* A request about e; signer s submitting drawing d for e; invitations to send for e; op leaving    *)
(* envelope old (e is sealed, if it is); delivery n of the message of e.   *)
Request(e) == [env |-> e, who |-> None, draw |-> None, due |-> {}, op |-> "none",
               old |-> None, seen |-> 0, turn |-> 0]
Submission(e, s, d) == [env |-> e, who |-> s, draw |-> d, due |-> {}, op |-> "none",
                        old |-> None, seen |-> 0, turn |-> 0]
Inviting(e, due) == [env |-> e, who |-> None, draw |-> None, due |-> due, op |-> "none",
                     old |-> None, seen |-> 0, turn |-> 0]
Leaving(op, e, old) == [env |-> e, who |-> None, draw |-> None, due |-> {}, op |-> op,
                        old |-> old, seen |-> 0, turn |-> 0]
Delivery(e, n, tried) == [env |-> e, who |-> None, draw |-> None, due |-> {}, op |-> "none",
                          old |-> None, seen |-> tried, turn |-> n]

NoContext == Request(None)

(* OPEN of esign.py: an envelope that still waits for signatures or seal.  *)
Open == {"sent", "sealing"}

-----------------------------------------------------------------------------
(* Helpers.                                                                *)

(* Mutant: the signing order does not matter.                              *)
DueAfter_AnyOrder(done) == Signers \ done

(* _due_signers once those in done have signed: the rest with the lowest   *)
(* order; in parallel order every rank is equal.                           *)
DueAfter(done) == {s \in Signers \ done : \A t \in Signers \ done : Rank[s] <= Rank[t]}

Due(e) == DueAfter(signed[e])

(* _signer_status is "ready".                                              *)
Ready(e, s) == status[e] = "sent" /\ s \in Due(e)

(* Mutant: the last signer due now is taken for the last signer.           *)
StatusAfterSigning_LastDue(e, s) == IF Due(e) = {s} THEN "sealing" ELSE "sent"

(* The status _mutate stores with the signature of s.                      *)
StatusAfterSigning(e, s) == IF signed[e] \cup {s} = Signers THEN "sealing" ELSE "sent"

Goto(p, label) == pc' = [pc EXCEPT ![p] = label]

Start(p, label, context) ==
    /\ pc[p] = "idle"
    /\ Goto(p, label)
    /\ ctx' = [ctx EXCEPT ![p] = context]

Stop(p) == /\ Goto(p, "idle")
           /\ ctx' = [ctx EXCEPT ![p] = NoContext]

(* The handler is over: a seal worker still acknowledges its message.      *)
Return(p) == IF p \in Workers THEN Goto(p, "ack") /\ UNCHANGED ctx
                              ELSE Stop(p)

SetStatus(e, new) == status' = [status EXCEPT ![e] = new]

Fault(kind) == /\ kind \in Faults
               /\ faults < MaxFaults
               /\ faults' = faults + 1
-----------------------------------------------------------------------------
Init ==
    /\ state = "ready_to_sign" /\ sig = None
    /\ status   = [e \in Envelopes |-> "absent"]
    /\ signed   = [e \in Envelopes |-> {}]
    /\ links    = [e \in Envelopes |-> {}]
    /\ attempts = [e \in Envelopes |-> 0]
    /\ hash     = [e \in Envelopes |-> 0]
    /\ image    = [e \in Envelopes |-> [s \in Signers |-> None]]
    /\ adopted  = [e \in Envelopes |-> [s \in Signers |-> None]]
    /\ file     = [e \in Envelopes |-> 0]
    /\ queue    = [e \in Envelopes |-> "none"]
    /\ receives = [e \in Envelopes |-> 0]
    /\ pc       = [p \in Procs |-> "idle"]
    /\ ctx      = [p \in Procs |-> NoContext]
    /\ faults   = 0
-----------------------------------------------------------------------------
(* Drafts (govern-api).                                                    *)

CreateDraft(e) ==
    /\ status[e] = "absent"
    /\ state \notin TerminalStates \cup {"signed", "active"}
    /\ SetStatus(e, "draft")
    /\ UNCHANGED <<contractVars, signed, links, attempts, hash, storeVars,
                   queueVars, procVars, faults>>

(* update_draft with recipients: every recipient is pending again and the  *)
(* hashes of the links they were sent are gone.                            *)
UpdateDraft(e) ==
    /\ status[e] = "draft"
    /\ signed' = [signed EXCEPT ![e] = {}]
    /\ links'  = [links EXCEPT ![e] = {}]
    /\ UNCHANGED <<contractVars, status, attempts, hash, storeVars, queueVars,
                   procVars, faults>>

(* delete_draft: the item, then the files under its prefix.                *)
DeleteDraft(e) ==
    /\ status[e] = "draft"
    /\ SetStatus(e, "deleted")
    /\ image' = [image EXCEPT ![e] = [s \in Signers |-> None]]
    /\ UNCHANGED <<contractVars, signed, links, attempts, hash, adopted, file,
                   queueVars, procVars, faults>>
-----------------------------------------------------------------------------
(* send (govern-api): envelope, then contract, then links.                 *)

(* The contract and the other envelopes as read when the request arrives.  *)
MaySend(e) == /\ state = "ready_to_sign"
              /\ \A o \in Envelopes \ {e} : status[o] \notin Open

SendCheck(p, e) ==
    /\ MaySend(e)
    /\ Start(p, "send_mark", Request(e))
    /\ UNCHANGED <<contractVars, envelopeVars, storeVars, queueVars, faults>>

(* Mutant: an envelope that is out can be sent again.                      *)
MayMarkSent_Again(e) == status[e] \in {"draft", "sent"}

MayMarkSent(e) == status[e] = "draft"

SendMark(p) ==
    LET e == ctx[p].env
    IN  /\ pc[p] = "send_mark"
        /\ \/ /\ MayMarkSent(e)
              /\ SetStatus(e, "sent")
              /\ Goto(p, "send_contract")
              /\ ctx' = [ctx EXCEPT ![p] = Inviting(e, Due(e))]
           \/ ~MayMarkSent(e) /\ Stop(p) /\ UNCHANGED status
        /\ UNCHANGED <<contractVars, signed, links, attempts, hash, storeVars,
                       queueVars, faults>>

(* workflow.send_for_esign.  A refusal and any exception, the one after a  *)
(* stored write whose reply was lost included, lead to the rollback.       *)
SendContract(p) ==
    LET e == ctx[p].env
        allowed == state \in AllowedFrom.send_for_signature
        store == state' = "out_for_signature" /\ sig' = e
    IN  /\ pc[p] = "send_contract"
        /\ \/ allowed /\ store /\ Goto(p, "invite") /\ UNCHANGED faults
           \/ allowed /\ store /\ Fault("lost_reply") /\ Goto(p, "send_rollback")
           \/ Fault("conflict") /\ Goto(p, "send_rollback") /\ UNCHANGED contractVars
           \/ ~allowed /\ Goto(p, "send_rollback") /\ UNCHANGED <<contractVars, faults>>
        /\ UNCHANGED <<envelopeVars, storeVars, queueVars, ctx>>

(* Mutant: whatever became of the envelope, it is a draft.                 *)
StatusAfterRollback_Always(e) == "draft"

(* The exception handler of send: a sent envelope becomes a draft again.   *)
StatusAfterRollback(e) == IF status[e] = "sent" THEN "draft" ELSE status[e]

SendRollback(p) ==
    /\ pc[p] = "send_rollback"
    /\ SetStatus(ctx[p].env, StatusAfterRollback(ctx[p].env))
    /\ Stop(p)
    /\ UNCHANGED <<contractVars, signed, links, attempts, hash, storeVars,
                   queueVars, faults>>

(* The write of _invite: the new links count only on a sent envelope; else *)
(* they are revoked.                                                       *)
LinksAfterInvite(e, due) == IF status[e] = "sent" THEN links[e] \cup due ELSE links[e]

Invite(p) ==
    LET e == ctx[p].env
    IN  /\ pc[p] = "invite"
        /\ links' = [links EXCEPT ![e] = LinksAfterInvite(e, ctx[p].due)]
        /\ Stop(p)
        /\ UNCHANGED <<contractVars, status, signed, attempts, hash, storeVars,
                       queueVars, faults>>

(* resend: a fresh link for a signer whose turn it is.                     *)
Resend(e) ==
    /\ "resend" \in Ops
    /\ \E s \in Signers :
        /\ Ready(e, s)
        /\ links' = [links EXCEPT ![e] = @ \cup {s}]
    /\ UNCHANGED <<contractVars, status, signed, attempts, hash, storeVars,
                   queueVars, procVars, faults>>
-----------------------------------------------------------------------------
(* complete (govern-signing): drawing, envelope, then seal queue or links. *)

CompleteOpen(p, e) ==
    /\ \E s \in links[e], d \in Drawings :
        /\ Ready(e, s)
        /\ Start(p, "put_image", Submission(e, s, d))
    /\ UNCHANGED <<contractVars, envelopeVars, storeVars, queueVars, faults>>

CompletePutImage(p) ==
    /\ pc[p] = "put_image"
    /\ image' = [image EXCEPT ![ctx[p].env][ctx[p].who] = ctx[p].draw]
    /\ Goto(p, "sign")
    /\ UNCHANGED <<contractVars, envelopeVars, adopted, file, queueVars, ctx, faults>>

(* Mutant: the signers due before this signature, not after it.            *)
ToInvite_Before(e, done) == Due(e) \ links[e]

(* The next signers: those who have not been sent a link yet.              *)
ToInvite(e, done) == DueAfter(done) \ links[e]

(* The turn is checked again, on the envelope as it is written.            *)
CompleteSign(p) ==
    LET e == ctx[p].env
        s == ctx[p].who
    IN  /\ pc[p] = "sign"
        /\ \/ /\ Ready(e, s)
              /\ signed'  = [signed EXCEPT ![e] = @ \cup {s}]
              /\ adopted' = [adopted EXCEPT ![e][s] = ctx[p].draw]
              /\ SetStatus(e, StatusAfterSigning(e, s))
              /\ \/ status'[e] = "sealing" /\ Goto(p, "enqueue") /\ UNCHANGED ctx
                 \/ /\ status'[e] = "sent"
                    /\ Goto(p, "invite")
                    /\ ctx' = [ctx EXCEPT ![p] = Inviting(e, ToInvite(e, signed'[e]))]
           \/ ~Ready(e, s) /\ Stop(p) /\ UNCHANGED <<signed, adopted, status>>
        /\ UNCHANGED <<contractVars, links, attempts, hash, image, file, queueVars, faults>>

CompleteEnqueue(p) ==
    /\ pc[p] = "enqueue"
    /\ queue' = [queue EXCEPT ![ctx[p].env] = "visible"]
    /\ Stop(p)
    /\ UNCHANGED <<contractVars, envelopeVars, storeVars, receives, faults>>
-----------------------------------------------------------------------------
(* Ways an envelope ends without being signed: declined by a signer,       *)
(* voided by a reviewer, expired by the sweeper.  All three close the      *)
(* envelope, revoke its links and then take the contract back.             *)

EndUnsigned(p, e, outcome) ==
    /\ SetStatus(e, outcome)
    /\ Start(p, "revoke", Request(e))
    /\ UNCHANGED <<contractVars, signed, links, attempts, hash, storeVars,
                   queueVars, faults>>

Decline(p, e) == /\ status[e] = "sent"
                 /\ links[e] \ signed[e] # {}
                 /\ EndUnsigned(p, e, "declined")

Void(p, e) == status[e] = "sent" /\ EndUnsigned(p, e, "voided")

(* sweep_tenant lists the contracts long before sweep_contract reads the   *)
(* envelope, finds it past its date and closes it; when another run has    *)
(* just done so it follows up as well.                                     *)
SweepRead(p, e) ==
    /\ state = "out_for_signature" /\ sig = e
    /\ Start(p, "expire", Request(e))
    /\ UNCHANGED <<contractVars, envelopeVars, storeVars, queueVars, faults>>

SweepExpire(p) ==
    LET e == ctx[p].env
    IN  /\ pc[p] = "expire"
        /\ \/ /\ status[e] = "sent"
              /\ SetStatus(e, "expired")
              /\ Goto(p, "revoke")
              /\ UNCHANGED ctx
           \/ status[e] = "expired" /\ Goto(p, "revoke") /\ UNCHANGED <<status, ctx>>
           \/ Stop(p) /\ UNCHANGED status         \* not due, or not sent any more
        /\ UNCHANGED <<contractVars, signed, links, attempts, hash, storeVars,
                       queueVars, faults>>

(* Mutant: the contract is forgotten.                                      *)
RevokeLinks_Only(p) ==
    /\ pc[p] = "revoke"
    /\ links' = [links EXCEPT ![ctx[p].env] = {}]
    /\ Stop(p)
    /\ UNCHANGED <<contractVars, status, signed, attempts, hash, storeVars,
                   queueVars, faults>>

RevokeLinks(p) ==
    /\ pc[p] = "revoke"
    /\ links' = [links EXCEPT ![ctx[p].env] = {}]
    /\ Goto(p, "cancel")
    /\ UNCHANGED <<contractVars, status, signed, attempts, hash, storeVars,
                   queueVars, ctx, faults>>

(* Mutant: out with whichever envelope.                                    *)
StillOutWith_Any(e) == state = "out_for_signature"

(* workflow.cancel_esign: a contract that has moved on is left alone.      *)
StillOutWith(e) == state = "out_for_signature" /\ sig = e

CancelEsign(p) ==
    LET e == ctx[p].env
    IN  /\ pc[p] = "cancel"
        /\ \/ StillOutWith(e) /\ state' = "ready_to_sign" /\ sig' = None
           \/ ~StillOutWith(e) /\ UNCHANGED contractVars
        /\ Stop(p)
        /\ UNCHANGED <<envelopeVars, storeVars, queueVars, faults>>
-----------------------------------------------------------------------------
(* Reviewer actions on the contract: workflow.perform_action.              *)

(* Actions that keep no track of an envelope: one locked write.            *)
Act(op) ==
    /\ op \in (Ops \cap DOMAIN AllowedFrom) \ LeavesSignature
    /\ state \in AllowedFrom[op]
    /\ state' \in StatesAfter[op]
    /\ sig' = IF op = "send_for_signature" THEN Manual ELSE sig
    /\ UNCHANGED <<envelopeVars, storeVars, queueVars, procVars, faults>>

(* workflow.rescore with reason "revision": a new version of the document  *)
(* arrived, the contract is back in review.                                *)
Revise ==
    /\ "revision" \in Ops
    /\ state \notin {"signed", "active", "closed"}
    /\ state' \in {"in_review", "intake"}
    /\ UNCHANGED <<sig, envelopeVars, storeVars, queueVars, procVars, faults>>

(* before_sig: the envelope of a contract that is out when it is read.     *)
EnvelopeOut == IF state = "out_for_signature" /\ sig \in Envelopes THEN sig ELSE None

(* The reads before the write of reopen, reject and mark_signed.  Only     *)
(* mark_signed checks the state it reads.                                  *)
LeaveRead(p, op) ==
    /\ op \in Ops \cap LeavesSignature
    /\ op = "mark_signed" => state \in AllowedFrom[op]
    /\ Start(p, "commit", Leaving(op, None, EnvelopeOut))
    /\ UNCHANGED <<contractVars, envelopeVars, storeVars, queueVars, faults>>

(* Mutant: the envelope the contract is out with now is kept.              *)
SignatureAfter_Current(op, e) ==
    IF op = "mark_signed" THEN IF sig # None THEN sig ELSE IF e # None THEN e ELSE Manual
    ELSE IF op = "reopen" /\ state = "out_for_signature" THEN None
    ELSE sig

(* What contract.signature names: of mark_signed the envelope reported.    *)
SignatureAfter(op, e) ==
    IF op = "mark_signed" THEN IF e # None THEN e ELSE IF sig = None THEN Manual ELSE sig
    ELSE IF op = "reopen" /\ state = "out_for_signature" THEN None
    ELSE sig

(* The locked write.  A refusal ends the request; govern-seal swallows it. *)
Commit(p) ==
    LET op == ctx[p].op
    IN  /\ pc[p] = "commit"
        /\ \/ /\ state \in AllowedFrom[op]
              /\ state' \in StatesAfter[op]
              /\ sig' = SignatureAfter(op, ctx[p].env)
              /\ IF ctx[p].old # None THEN Goto(p, "abandon") /\ UNCHANGED ctx
                                      ELSE Return(p)
           \/ state \notin AllowedFrom[op] /\ UNCHANGED contractVars /\ Return(p)
        /\ UNCHANGED <<envelopeVars, storeVars, queueVars, faults>>

(* esign.abandon: void the envelope if it is still out.                    *)
StatusAfterAbandon(e) == IF status[e] = "sent" THEN "voided" ELSE status[e]

Abandon(p) ==
    LET e == ctx[p].old
    IN  /\ pc[p] = "abandon"
        /\ SetStatus(e, StatusAfterAbandon(e))
        /\ IF status[e] = "sent" THEN Goto(p, "abandon_revoke") /\ UNCHANGED ctx
                                 ELSE Return(p)
        /\ UNCHANGED <<contractVars, signed, links, attempts, hash, storeVars,
                       queueVars, faults>>

AbandonRevoke(p) ==
    /\ pc[p] = "abandon_revoke"
    /\ links' = [links EXCEPT ![ctx[p].old] = {}]
    /\ Return(p)
    /\ UNCHANGED <<contractVars, status, signed, attempts, hash, storeVars,
                   queueVars, faults>>
-----------------------------------------------------------------------------
(* The seal queue and govern-seal.                                         *)

MayReceive(e) == receives[e] < MaxReceive

(* Mutant: an envelope that is already completed is sealed again.          *)
AfterReceive_Always(e) == "build"

(* seal reads the envelope and skips one that is not waiting for it.       *)
AfterReceive(e) == IF status[e] = "sealing" THEN "build" ELSE "ack"

(* Lambda receives the message of e.                                       *)
Receive(w, e) ==
    /\ MayReceive(e)
    /\ receives' = [receives EXCEPT ![e] = @ + 1]
    /\ Start(w, AfterReceive(e), Delivery(e, receives[e] + 1, attempts[e]))
    /\ UNCHANGED <<contractVars, envelopeVars, storeVars>>

Deliver(w, e) == /\ queue[e] = "visible"
                 /\ queue' = [queue EXCEPT ![e] = "inflight"]
                 /\ Receive(w, e)
                 /\ UNCHANGED faults

(* A standard queue may deliver a message again while it is in flight or   *)
(* after it was deleted.                                                   *)
DeliverAgain(w, e) == /\ queue[e] \in {"inflight", "deleted"}
                      /\ Fault("duplicate")
                      /\ Receive(w, e)
                      /\ UNCHANGED queue

(* The redrive policy: after MaxReceive receives, the dead-letter queue.   *)
DeadLetter(e) == /\ queue[e] = "visible"
                 /\ receives[e] = MaxReceive
                 /\ queue' = [queue EXCEPT ![e] = "dead"]
                 /\ UNCHANGED <<contractVars, envelopeVars, storeVars, receives,
                                procVars, faults>>

(* The message of a failed run becomes visible again.                      *)
QueueAfterFailure(e) == IF queue[e] = "inflight" THEN "visible" ELSE queue[e]

(* Read the source and the drawings, build the file and seal it; any of    *)
(* these can raise.                                                        *)
SealBuild(w) ==
    /\ pc[w] = "build"
    /\ \E next \in {"put_sealed", "note"} : Goto(w, next)
    /\ UNCHANGED <<contractVars, envelopeVars, storeVars, queueVars, ctx, faults>>

(* Mutant: the attempt is not counted.                                     *)
AttemptsAfterFailure_Same(w) == ctx[w].seen

(* The attempt is counted from the count read at the start.                *)
AttemptsAfterFailure(w) == ctx[w].seen + 1

(* Mutant: one attempt too many is allowed.                                *)
StatusAfterFailure_OneMore(n) == IF n > MaxSealAttempts THEN "failed" ELSE "sealing"

StatusAfterFailure(n) == IF n >= MaxSealAttempts THEN "failed" ELSE "sealing"

(* Note the failed attempt and raise.                                      *)
SealNote(w) ==
    LET e == ctx[w].env
        n == AttemptsAfterFailure(w)
    IN  /\ pc[w] = "note"
        /\ \/ /\ status[e] = "sealing"
              /\ attempts' = [attempts EXCEPT ![e] = n]
              /\ SetStatus(e, StatusAfterFailure(n))
           \/ status[e] # "sealing" /\ UNCHANGED <<attempts, status>>
        /\ queue' = [queue EXCEPT ![e] = QueueAfterFailure(e)]
        /\ Stop(w)
        /\ UNCHANGED <<contractVars, signed, links, hash, storeVars, receives, faults>>

SealPut(w) ==
    /\ pc[w] = "put_sealed"
    /\ file' = [file EXCEPT ![ctx[w].env] = ctx[w].turn]
    /\ Goto(w, "done")
    /\ UNCHANGED <<contractVars, envelopeVars, image, adopted, queueVars, ctx, faults>>

(* An envelope another run has completed goes on to mark_signed too.       *)
SealDone(w) ==
    LET e == ctx[w].env
    IN  /\ pc[w] = "done"
        /\ \/ /\ status[e] = "sealing"
              /\ SetStatus(e, "completed")
              /\ hash' = [hash EXCEPT ![e] = ctx[w].turn]
              /\ Goto(w, "mark_read")
           \/ /\ status[e] # "sealing"
              /\ Goto(w, IF status[e] = "completed" THEN "mark_read" ELSE "ack")
              /\ UNCHANGED <<status, hash>>
        /\ UNCHANGED <<contractVars, signed, links, attempts, storeVars, queueVars,
                       ctx, faults>>

(* perform_action("mark_signed") for govern-seal, up to its write.         *)
AlreadySigned(e) == state \in {"signed", "active"} /\ sig = e

MarkRead(w) ==
    /\ pc[w] = "mark_read"
    /\ \/ /\ ~AlreadySigned(ctx[w].env)
          /\ state \in AllowedFrom.mark_signed
          /\ Goto(w, "commit")
          /\ ctx' = [ctx EXCEPT ![w] = Leaving("mark_signed", @.env, EnvelopeOut)]
       \/ /\ AlreadySigned(ctx[w].env) \/ state \notin AllowedFrom.mark_signed
          /\ Goto(w, "ack")
          /\ UNCHANGED ctx
    /\ UNCHANGED <<contractVars, envelopeVars, storeVars, queueVars, faults>>

(* The message is deleted, unless it is already in the dead-letter queue.  *)
Ack(w) ==
    LET e == ctx[w].env
    IN  /\ pc[w] = "ack"
        /\ queue' = [queue EXCEPT ![e] = IF @ = "dead" THEN @ ELSE "deleted"]
        /\ Stop(w)
        /\ UNCHANGED <<contractVars, envelopeVars, storeVars, receives, faults>>
-----------------------------------------------------------------------------
(* An invocation stops between two of its steps.                           *)
Crash(p) ==
    /\ pc[p] # "idle"
    /\ Fault("crash")
    /\ Stop(p)
    /\ IF p \in Workers
         THEN queue' = [queue EXCEPT ![ctx[p].env] = QueueAfterFailure(ctx[p].env)]
         ELSE UNCHANGED queue
    /\ UNCHANGED <<contractVars, envelopeVars, storeVars, receives>>

(* What a running invocation does next.                                    *)
CallerStep(p) ==
    \/ SendMark(p) \/ SendContract(p) \/ SendRollback(p) \/ Invite(p)
    \/ CompletePutImage(p) \/ CompleteSign(p) \/ CompleteEnqueue(p)
    \/ SweepExpire(p) \/ RevokeLinks(p) \/ CancelEsign(p)

WorkerStep(w) ==
    \/ SealBuild(w) \/ SealNote(w) \/ SealPut(w) \/ SealDone(w)
    \/ MarkRead(w) \/ Ack(w)

LeaveStep(p) == Commit(p) \/ Abandon(p) \/ AbandonRevoke(p)

Step(p) == \/ p \in Callers /\ CallerStep(p)
           \/ p \in Workers /\ WorkerStep(p)
           \/ LeaveStep(p)

(* Requests that start an invocation, and those that are a single step.    *)
NewRequest(p, e) == \/ SendCheck(p, e) \/ CompleteOpen(p, e)
                    \/ Decline(p, e) \/ Void(p, e) \/ SweepRead(p, e)

Prepare(e) == CreateDraft(e) \/ UpdateDraft(e) \/ DeleteDraft(e) \/ Resend(e)

Review == \/ \E op \in Ops : Act(op)
          \/ Revise
          \/ \E p \in Callers, op \in Ops : LeaveRead(p, op)

Queue == \E e \in Envelopes :
    \/ \E w \in Workers : Deliver(w, e) \/ DeliverAgain(w, e)
    \/ DeadLetter(e)

Next ==
    \/ \E e \in Envelopes : Prepare(e)
    \/ \E p \in Callers, e \in Envelopes : NewRequest(p, e)
    \/ Review
    \/ Queue
    \/ \E p \in Procs : Step(p) \/ Crash(p)

(* A running Lambda invocation goes on unless it crashes, and SQS delivers *)
(* a visible message while a worker is free.  Nobody has to make a request.*)
Fairness ==
    /\ \A p \in Procs : WF_vars(Step(p))
    /\ \A e \in Envelopes : WF_vars(\E w \in Workers : Deliver(w, e))
    /\ \A e \in Envelopes : WF_vars(DeadLetter(e))

Safe == Init /\ [][Next]_vars

Spec == Safe /\ Fairness
-----------------------------------------------------------------------------
(* Properties.                                                             *)

(* What an invocation goes by fits the step it is at: the envelope and the *)
(* signer its request names, the action it performs, the envelope it saw.  *)
Fits(p, label, c) ==
    /\ label # "idle" /\ (p \in Workers \/ label \notin LeaveLabels) => c.env \in Envelopes
    /\ label \in {"put_image", "sign"} => c.who \in Signers
    /\ label = "commit" => c.op \in LeavesSignature
    /\ label \in {"abandon", "abandon_revoke"} => c.old \in Envelopes

ContextOK == \A p \in Procs : Fits(p, pc[p], ctx[p])

(* The shapes of the stored items, files, messages and invocations.        *)
Shapes ==
    /\ state \in States /\ sig \in Envelopes \cup {Manual, None}
    /\ status \in [Envelopes -> Statuses]
    /\ signed \in [Envelopes -> SUBSET Signers]
    /\ links \in [Envelopes -> SUBSET Signers]
    /\ attempts \in [Envelopes -> Nat]
    /\ hash \in [Envelopes -> 0 .. MaxReceive]
    /\ image \in [Envelopes -> [Signers -> Drawings \cup {None}]]
    /\ adopted \in [Envelopes -> [Signers -> Drawings \cup {None}]]
    /\ file \in [Envelopes -> 0 .. MaxReceive]
    /\ queue \in [Envelopes -> {"none", "visible", "inflight", "deleted", "dead"}]
    /\ receives \in [Envelopes -> 0 .. MaxReceive]
    /\ pc \in [Procs -> Labels]
    /\ ctx \in [Procs -> Contexts]
    /\ faults \in 0 .. MaxFaults

(* Every variable has its type and every invocation what its step needs.   *)
TypeOK == Shapes /\ ContextOK

(* Nobody has signed before someone ranked earlier, whatever requests race *)
(* on the envelope (complete re-checks the turn under the lock).           *)
SigningOrder ==
    \A e \in Envelopes : \A s \in signed[e], t \in Signers :
        Rank[t] < Rank[s] => t \in signed[e]

(* An envelope is sealed, and can fail to be, only with every signature;   *)
(* the message in the seal queue always finds a fully signed envelope.     *)
SealsOnlyFullySigned ==
    \A e \in Envelopes :
        status[e] \in {"sealing", "completed", "failed"} \/ queue[e] # "none"
            => signed[e] = Signers

(* A contract out for signature with Govern names an envelope that was     *)
(* sent and never pulled back (docstring of workflow.send_for_esign).      *)
GovernNamesRealEnvelope ==
    state = "out_for_signature" /\ sig \in Envelopes
        => status[sig] \notin {"absent", "draft", "deleted"}

(* An invocation is between the writes of sending e.                       *)
Sending(e) == \E p \in Procs : ctx[p].env = e /\ pc[p] \in {"send_contract", "send_rollback"}

Idle == \A p \in Procs : pc[p] = "idle"

(* The contract is out for signature with e.                               *)
OutWith(e) == state = "out_for_signature" /\ sig = e

(* An envelope that collects signatures belongs to the contract: the       *)
(* contract is out with it, or an invocation is about to settle that       *)
(* (comment above the abandon call of perform_action).                     *)
OpenMeansOut ==
    Idle => \A e \in Envelopes :
        status[e] = "sent" => OutWith(e)

(* A contract out with an envelope waits for something: when no invocation *)
(* is half done, the envelope is open or has failed to be sealed.          *)
OutMeansOpen ==
    Idle /\ state = "out_for_signature" /\ sig \in Envelopes
        => status[sig] \in Open \cup {"failed"}

(* The sha256 a completed envelope records is that of the file stored.     *)
SealedHashMatches ==
    \A e \in Envelopes : status[e] = "completed" => file[e] = hash[e]

(* A draft has no live link: pulling an envelope back revokes its links.   *)
DraftHasNoLinks == \A e \in Envelopes :
    status[e] = "draft" /\ ~Sending(e) => links[e] = {}

(* A seal message is given up only when the envelope shows it.             *)
DeadLetterMeansFailed ==
    \A e \in Envelopes : queue[e] = "dead" => status[e] # "sealing"

(* A fully signed envelope does not stay sealing: it ends sealed or failed.*)
SealingEnds ==
    \A e \in Envelopes : status[e] = "sealing" ~> status[e] \in {"completed", "failed"}

(* Completion moves the contract on, and an envelope that ended unsigned   *)
(* gives it back: the contract does not stay out with either.              *)
EndedReleasesContract ==
    \A e \in Envelopes :
        status[e] \in {"completed", "declined", "voided", "expired"}
            ~> ~OutWith(e)

(* Whoever is due is eventually invited, unless the envelope ends first.   *)
DueAreInvited ==
    \A e \in Envelopes :
        status[e] = "sent" /\ OutWith(e)
            ~> status[e] # "sent" \/ Due(e) \subseteq links[e]

(* The lifecycle an envelope promises, whatever the handlers do.           *)
Lifecycle == INSTANCE EnvelopeLifecycle WITH Envelopes <- Envelopes, Signers <- Signers,
                                             Rank <- Rank, status <- status, signed <- signed
LifecycleHolds == Lifecycle!Spec

(* A contract shown as signed names the envelope that was sealed for it:   *)
(* also when it was reopened, approved and sent with another envelope      *)
(* while the first was being sealed, whose seal signs it all the same      *)
(* (comment in seal: the sealed copy still stands).                        *)
SignedNamesSealed ==
    state \in {"signed", "active"} => sig \in Envelopes /\ status[sig] = "completed"
=============================================================================
