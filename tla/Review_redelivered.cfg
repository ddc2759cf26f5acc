\* The event of the first document is delivered again once a revised
\* version has been graded.
SPECIFICATION Safe
CONSTANTS
    Original = d1
    Revisions = {d2}
    Flawed = {}
    RuleOffices = {}
    Offices = {legal}
    Raised <- RaisedOnOriginal
    SonarItems = {}
    Notes = {}
    Intakes = {i1}
    Callers = {}
    Ops = {}
    Faults = {"duplicate"}
    MaxFaults = 1
    MaxAnalyses = 1
    None = None
INVARIANTS CurrentIsGraded
CHECK_DEADLOCK FALSE
