\* Two envelopes sent, voided, declined, expired and sealed by two requests and a
\* seal worker at a time while the contract is reopened and approved again, with
\* up to two crashes and lost races on the contract.
SPECIFICATION Safe
CONSTANTS
    s1 = s1
    Envelopes = {e1, e2}
    Signers = {s1}
    Rank <- FirstThenRest
    Drawings = {d1}
    Callers = {c1, c2}
    Workers = {w1}
    Ops = {"approve", "reopen"}
    Faults = {"crash", "conflict"}
    MaxFaults = 2
    MaxReceive = 3
    MaxSealAttempts = 3
    Manual = Manual
    None = None
SYMMETRY Symmetry
INVARIANTS GovernNamesRealEnvelope SealedHashMatches SignedNamesSealed
CHECK_DEADLOCK FALSE
