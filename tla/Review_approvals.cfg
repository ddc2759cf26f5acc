\* The whole review, one intake run at a time: everything people do to a
\* contract, a revised version whose terms make a rule ask for an office, a
\* message delivered again or a run that crashes.
SPECIFICATION Spec
CONSTANTS
    Original = d1
    Revisions = {d2}
    Flawed = {d2}
    RuleOffices = {legal}
    Offices = {legal, export}
    Raised <- RaisedOnOriginal
    SonarItems = {}
    Notes = {}
    Intakes = {i1}
    Callers = {}
    Ops = {"approve", "send_back", "escalate", "reject",
           "send_for_signature", "mark_signed", "activate", "close",
           "reopen", "post", "assign", "office_approve", "ask_pi",
           "pi_answered", "cancel_esign", "patch", "term"}
    Faults = {"duplicate", "crash"}
    MaxFaults = 1
    MaxAnalyses = 1
    None = None
INVARIANTS ApprovalsOfCurrentVersion ReadyMeansApproved PiRequestAnswerable
PROPERTIES SignedStands NeverBackToOriginal GradedAtLast
CHECK_DEADLOCK FALSE
