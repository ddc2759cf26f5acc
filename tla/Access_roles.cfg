\* Two requests at a time, none of which stops.
SPECIFICATION Small
CONSTANTS
    Users = {a, b}
    Founder = a
    Guest = b
    NoUser = nobody
    Projects = {p1, p2}
    Documents = {d1}
    AccessRequests = {q1, q2}
    MaxAsks = 2
    MaxOutages = 0
INVARIANT StrongestRole
CHECK_DEADLOCK FALSE
