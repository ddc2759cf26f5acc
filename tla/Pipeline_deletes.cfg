\* Three runs and two requests that re-analyze the document, delete a
\* version of it or all of it, at any moment of a run.
SPECIFICATION Safe
CONSTANTS
    Runs = {r1, r2, r3}
    Callers = {c1, c2}
    Artefacts = {"classification"}
    Ops = {"reprocess", "delete_version", "delete_document"}
    Faults = {"stop"}
    MaxFaults = 1
    MaxRetries = 1
    MaxVersions = 3
    None = None
SYMMETRY BothSymmetry
INVARIANTS Served NoneSuperseded DeletedLeavesNothing
CHECK_DEADLOCK FALSE
