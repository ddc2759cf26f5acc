------------------------- MODULE EnvelopeLifecycle -------------------------
(***************************************************************************)
(* What Govern e-signature promises about an envelope, without the         *)
(* handlers, links, files and queues that keep the promise: an envelope    *)
(* is prepared as a draft, collects signatures one at a time and in the    *)
(* signing order only while it is out, is sealed only after everyone has   *)
(* signed, and once it has ended never changes again.                      *)
(***************************************************************************)
EXTENDS Naturals

CONSTANTS Envelopes,    \* the envelopes of one contract
          Signers,      \* who must sign each of them
          Rank          \* Rank[s]: the place of s in the signing order

VARIABLES status,       \* status[e]: where envelope e is in its life
          signed        \* signed[e]: who has signed e

vars == <<status, signed>>

Init == /\ status = [e \in Envelopes |-> "absent"]
        /\ signed = [e \in Envelopes |-> {}]

MoveTo(e, from, to) == /\ status[e] = from
                       /\ status' = [status EXCEPT ![e] = to]

Prepare(e) == MoveTo(e, "absent", "draft") /\ UNCHANGED signed

(* Editing the recipients of a draft forgets what they did.                *)
Edit(e) == /\ status[e] = "draft"
           /\ signed' = [signed EXCEPT ![e] = {}]
           /\ UNCHANGED status

Discard(e) == MoveTo(e, "draft", "deleted") /\ UNCHANGED signed

Send(e) == MoveTo(e, "draft", "sent") /\ UNCHANGED signed

(* The contract could not follow: the envelope is a draft again.           *)
PullBack(e) == MoveTo(e, "sent", "draft") /\ UNCHANGED signed

(* A signer signs once everyone ranked before has; the last one closes the *)
(* envelope to further signing.                                            *)
Sign(e, s) ==
    /\ s \notin signed[e]
    /\ \A t \in Signers : Rank[t] < Rank[s] => t \in signed[e]
    /\ signed' = [signed EXCEPT ![e] = @ \cup {s}]
    /\ MoveTo(e, "sent", IF signed'[e] = Signers THEN "sealing" ELSE "sent")

EndUnsigned(e) == /\ \E to \in {"declined", "voided", "expired"} : MoveTo(e, "sent", to)
                  /\ UNCHANGED signed

EndSealing(e) == /\ \E to \in {"completed", "failed"} : MoveTo(e, "sealing", to)
                 /\ UNCHANGED signed

Next == \E e \in Envelopes :
    \/ Prepare(e)
    \/ Edit(e)
    \/ Discard(e)
    \/ Send(e)
    \/ PullBack(e)
    \/ \E s \in Signers : Sign(e, s)
    \/ EndUnsigned(e)
    \/ EndSealing(e)

Spec == Init /\ [][Next]_vars
=============================================================================
