\* One envelope, a first signer and then two in any order, two requests and
\* two seal workers at a time, and two faults of any kind.
SPECIFICATION Safe
CONSTANTS
    s1 = s1
    Envelopes = {e1}
    Signers = {s1, s2, s3}
    Rank <- FirstThenRest
    Drawings = {d1}
    Callers = {c1, c2}
    Workers = {w1, w2}
    Ops = {"resend"}
    Faults = {"crash", "conflict", "lost_reply", "duplicate"}
    MaxFaults = 2
    MaxReceive = 3
    MaxSealAttempts = 3
    Manual = Manual
    None = None
SYMMETRY Symmetry
INVARIANTS SigningOrder SealsOnlyFullySigned
PROPERTIES LifecycleHolds
CHECK_DEADLOCK FALSE
