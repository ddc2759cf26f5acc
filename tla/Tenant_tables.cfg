\* Two requests or invocations at a time in each of the components with tables of
\* their own, and a fault that stops one of them.
SPECIFICATION Tenant
CONSTANTS
    \* portal links
    Links = {x1, x2}
    Reviewers = {q1, q2}
    Guests = {q1, q2}
    MAX_ACTIVE_LINKS = 1
    MAX_OPENS = 2
    MAX_UPLOADS = 1
    LastDay = 1
    Term = 1
    Midnight = FALSE
    \* matrix versions
    MatrixRequests = {q1, q2}
    MAX_WRITE_RETRIES = 2
    MAX_READS = 3
    MaxVersion = 4
    MaxBuiltin = 1
    MaxStops = 1
    \* organization
    People = {y1, y2, y3}
    OrgRequests = {q1, q2}
    MAX_ADMINS = 2
    ORG_WRITE_RETRIES = 2
    MaxRev = 3
    MaxOrgStops = 1
    \* obligations
    Duties = {y1, y2}
    Recurring = {y1}
    DutyRequests = {q1, q2}
    WRITE_RETRIES = 2
    WINDOW = 1
    Period = 1
    TermEnd = 2
    MaxDay = 2
    MaxEdits = 2
    MaxHalts = 1
    \* connectors
    Records = {x1, x2}
    Runners = {q1, q2}
    MAX_RECORDS = 1
    MaxClock = 5
    MaxLosses = 1
    \* views
    ViewIds = {x1, x2}
    Owners = {o1}
    Audiences = {none, someone}
    NoOne = none
    ViewTabs = {q1, q2}
    MAX_VIEWS_PER_MODULE = 1
    VIEW_WRITE_RETRIES = 2
    MaxPatches = 1
    \* projects
    Users = {a, b, c}
    Founder = a
    Guest = b
    NoUser = nobody
    Projects = {x1, x2}
    Documents = {d1}
    AccessRequests = {q1, q2}
    MaxAsks = 2
    MaxOutages = 1
    \* activity stream
    Contracts = {c1}
    Days = {1, 2}
    ChangeKinds = {"escalated"}
    Writers = {w1}
    Removers = {r1}
    Notifiers = {q1, q2}
    Channels = {"email", "teams"}
    EventFaults = {"error", "killed", "duplicate"}
    MaxEventFaults = 3
    MaxChanges = 1
    MaxAttempts = 2
    Nobody = Nobody
    \* sheets imported
    Agreements = {"license", "nda"}
    RowTypes = {"Payment", "Warranty"}
    Importers = {q1}
    MAX_CLAUSES = 2
    MaxRows = 2
    MaxSaves = 2
INVARIANTS LinksHold ReviewMatrixHolds AdminsHold SweepsHold AudiencesHold StreamHolds
PROPERTIES NothingReturns
CHECK_DEADLOCK FALSE
