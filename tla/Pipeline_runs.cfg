\* Two runs and one request at a time: the document is uploaded again,
\* re-analyzed and edited, and any one fault happens.
SPECIFICATION Spec
CONSTANTS
    Runs = {r1, r2}
    Callers = {c1}
    Artefacts = {"classification"}
    Ops = {"upload_again", "reprocess", "edit"}
    Faults = {"error", "transient", "crash", "service", "search", "old_read",
           "duplicate", "late", "copy", "lost_reply"}
    MaxFaults = 1
    MaxRetries = 1
    MaxVersions = 3
    None = None
INVARIANTS MetaHasItsVersion OneRun
PROPERTIES Settles
CHECK_DEADLOCK FALSE
