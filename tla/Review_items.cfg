\* Open items: two requests that edit them or rescore the contract, beside
\* an intake run that replaces Sonar's item and then removes it with the
\* revised version.
SPECIFICATION Safe
CONSTANTS
    Original = d1
    Revisions = {d2}
    Flawed = {}
    RuleOffices = {}
    Offices = {legal}
    Raised <- RaisedOnOriginal
    SonarItems = {b1}
    Notes = {n1}
    Intakes = {i1}
    Callers = {c1, c2}
    Ops = {"rescore", "item"}
    Faults = {"lost"}
    MaxFaults = 1
    MaxAnalyses = 1
    None = None
SYMMETRY Symmetry
INVARIANTS OpenItemsCounted
PROPERTIES ClosedItemsKept
CHECK_DEADLOCK FALSE
