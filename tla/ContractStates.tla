--------------------------- MODULE ContractStates ---------------------------
(***************************************************************************)
(* The contract states of shared/govern/workflow.py and the table of the   *)
(* states each reviewer action may start from.  Constant definitions only: *)
(* every module that reads or moves a contract uses them.                  *)
(***************************************************************************)

OpenStates == {"intake", "in_review", "sent_back", "escalated",
               "ready_to_sign", "out_for_signature"}

TerminalStates == {"rejected", "closed"}

States == OpenStates \cup TerminalStates \cup {"signed", "active"}

AllowedFrom ==
    [approve            |-> {"intake", "in_review", "sent_back", "escalated"},
     send_back          |-> {"intake", "in_review", "escalated", "ready_to_sign"},
     escalate           |-> {"intake", "in_review", "sent_back", "escalated",
                             "ready_to_sign"},
     reject             |-> OpenStates,
     send_for_signature |-> {"ready_to_sign"},
     mark_signed        |-> {"ready_to_sign", "out_for_signature"},
     activate           |-> {"signed"},
     close              |-> {"signed", "active"},
     reopen             |-> {"rejected", "closed", "sent_back", "escalated",
                             "ready_to_sign", "out_for_signature"}]

(* The states an action may leave the contract in.  An approval goes to    *)
(* the next office whose approval is missing, else it is ready to sign.    *)
StatesAfter ==
    [approve            |-> {"ready_to_sign", "escalated"},
     send_back          |-> {"sent_back"},
     escalate           |-> {"escalated"},
     reject             |-> {"rejected"},
     send_for_signature |-> {"out_for_signature"},
     mark_signed        |-> {"signed"},
     activate           |-> {"active"},
     close              |-> {"closed"},
     reopen             |-> {"in_review"}]

(* Actions that can take a contract out of out_for_signature around an     *)
(* envelope; after them the envelope the contract named is abandoned.      *)
LeavesSignature == {"reopen", "reject", "mark_signed"}
=============================================================================
