\* One request at a time, a revised document and links sent again among them, and
\* no faults: what has to happen does.
SPECIFICATION Spec
CONSTANTS
    s1 = s1
    Envelopes = {e1, e2}
    Signers = {s1, s2}
    Rank <- FirstThenRest
    Drawings = {d1}
    Callers = {c1}
    Workers = {w1}
    Ops = {"approve", "send_back", "reopen", "revision", "resend"}
    Faults = {}
    MaxFaults = 0
    MaxReceive = 3
    MaxSealAttempts = 3
    Manual = Manual
    None = None
INVARIANTS DeadLetterMeansFailed OutMeansOpen
PROPERTIES SealingEnds EndedReleasesContract DueAreInvited
CHECK_DEADLOCK FALSE
