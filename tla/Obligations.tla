---------------------------- MODULE Obligations ----------------------------
(***************************************************************************)
(* The obligations of one contract: items of their own, written whole and  *)
(* without a lock (store.put_obligation), and obligationDueDates on the    *)
(* contract, a copy of the due dates of the open ones that whoever changes *)
(* an item refreshes under the contract's lock afterwards                  *)
(* (workflow.add_obligation, edit_obligation, mark_signed).  The hourly    *)
(* sweep announces what is due or overdue and marks the items it listed.   *)
(*                                                                         *)
(* Every step is one call to a table.  The contract's rev is kept as what  *)
(* it decides: whether another write came after this request's read.       *)
(***************************************************************************)
EXTENDS Integers, FiniteSets

CONSTANTS
    Duties,            \* ids of obligations
    Recurring,         \* those whose title or kind says they come round again
    DutyRequests,      \* requests that may be under way at a time
    WRITE_RETRIES,     \* tries of a change of the contract
    WINDOW,            \* days ahead the sweep looks
    Period, TermEnd,   \* days between occurrences; last day of the term
    MaxDay,            \* bound: days
    MaxEdits,          \* bound: requests
    MaxHalts           \* bound: invocations that stop

ASSUME DutyBounds == /\ IsFiniteSet(Duties) /\ Recurring \subseteq Duties /\ Recurring # {}
                     /\ {WRITE_RETRIES, Period, MaxDay} \subseteq Nat \ {0}
                     /\ {WINDOW, TermEnd, MaxEdits, MaxHalts} \subseteq Nat

VARIABLES
    duty,      \* duty[d]: the item of obligation d
    dues,      \* obligationDueDates: how many open obligations are due on day k
    signed,    \* the contract is signed
    day,       \* today
    doing,     \* doing[q]: what request q is doing
    sweep,     \* what the sweep is doing
    edits,     \* requests so far
    halts,     \* invocations that stopped
    said,      \* said[d]: notes on d since a request gave its due date (Many: or more)
    reopened,  \* obligations a request opened again
    overwrote  \* what went by an old copy of the items, and was not put right

dutyVars == <<duty, dues, signed, day, doing, sweep, edits, halts, said, reopened, overwrote>>

Kinds  == {"due", "overdue"}
DueDays   == 1 .. MaxDay
Many   == MaxHalts + 2
Unsaid == [k \in Kinds |-> 0]
Item(status, due, sonar, from) == [status |-> status, due |-> due, sonar |-> sonar, marked |-> {}, from |-> from]
NoItem == Item("absent", 0, FALSE, {})
Still  == [at |-> "still"]

IsOpen(r) == r.status = "open"
Dated(r)  == IsOpen(r) /\ r.due # 0

(* A contract with an obligation somebody entered, due on the first day.   *)
DutyInit ==
    /\ LET first == CHOOSE d \in Recurring : TRUE IN
         duty = [d \in Duties |-> IF d = first THEN Item("open", 1, FALSE, {}) ELSE NoItem]
    /\ dues = [k \in DueDays |-> IF k = 1 THEN 1 ELSE 0]
    /\ signed = FALSE /\ day = 1 /\ edits = 0 /\ halts = 0
    /\ doing = [q \in DutyRequests |-> Still] /\ sweep = Still
    /\ said = [d \in Duties |-> Unsaid] /\ reopened = {}
    /\ overwrote = {}

Doing(q, at) == doing[q].at = at
Step(q, at)  == doing' = [doing EXCEPT ![q].at = at]
Done(q)      == doing' = [doing EXCEPT ![q] = Still]
Unused       == {d \in Duties : duty[d] = NoItem /\ \A q \in DutyRequests : Doing(q, "still") \/ doing[q].id # d}
Fresh        == IF Unused = {} THEN {} ELSE {CHOOSE d \in Unused : TRUE}    \* a new id, whichever

(* _next_occurrence: one period later, none past the end of the term.      *)
NextDue(d, r) == IF d \in Recurring /\ r.due # 0 /\ r.due + Period <= TermEnd THEN r.due + Period ELSE 0

(***************************************************************************)
(* Requests                                                                *)
(***************************************************************************)
record == <<dues, signed, day, sweep, halts>>
OneEdit  == edits < MaxEdits /\ edits' = edits + 1
None  == [k \in DueDays |-> 0]
Plan(at, op, d, was, now) ==
    [at |-> at, op |-> op, id |-> d, was |-> was, now |-> now, given |-> op = "add", tries |-> 1,
     current |-> FALSE, listed |-> None]
Carry(q, plan) == doing' = [doing EXCEPT ![q] = plan]
Refresh(q)   == Carry(q, Plan("read", "edit", doing[q].id, NoItem, NoItem))

(* POST /contracts/{id}/obligations.                                       *)
AddObligation(q) ==
    /\ Doing(q, "still") /\ OneEdit
    /\ \E d \in Fresh, due \in {0, day} : Carry(q, Plan("put", "add", d, NoItem, Item("open", due, FALSE, {})))
    /\ UNCHANGED <<duty, record, said, reopened, overwrote>>

(* PATCH /contracts/{id}/obligations/{id}: the item as listed, with the    *)
(* field of the request, status or due date; a due date given, be it the   *)
(* one the item has, clears the marks.                                     *)
Edited(r, status, given, due) ==
    [r EXCEPT !.status = status, !.due = due, !.marked = IF given THEN {} ELSE @]

EditObligation(q) ==
    /\ Doing(q, "still") /\ OneEdit
    /\ \E d \in {e \in Duties : duty[e].status \in {"open", "done"}} :
       \E status \in {"open", "done"}, given \in BOOLEAN, due \in {duty[d].due, day} :
         /\ given \/ due = duty[d].due
         /\ status = duty[d].status \/ ~given
         /\ Carry(q, [Plan("put", "edit", d, duty[d], Edited(duty[d], status, given, due)) EXCEPT !.given = given])
    /\ UNCHANGED <<duty, record, said, reopened, overwrote>>

Closes(r) == r.op = "edit" /\ r.now.status = "done" /\ r.was.status # "done"

PutObligation(q) ==
    /\ Doing(q, "put")
    /\ LET r == doing[q] IN
       /\ duty' = [duty EXCEPT ![r.id] = r.now]
       /\ said' = IF r.given THEN [said EXCEPT ![r.id] = Unsaid] ELSE said
       /\ overwrote' = IF duty[r.id] # r.was THEN overwrote \cup {"request"} ELSE overwrote
       /\ reopened' = IF r.was.status = "done" /\ IsOpen(r.now) THEN reopened \cup {r.id} ELSE reopened
       /\ IF Closes(r) /\ NextDue(r.id, r.now) # 0 THEN Step(q, "follow") ELSE Refresh(q)
    /\ UNCHANGED <<record, edits>>

(* The next report or payment of a recurring obligation.                   *)
PutFollowing(q) ==
    /\ Doing(q, "follow")
    /\ LET r == doing[q] IN
       \E d \in Unused \cap Recurring :
         duty' = [duty EXCEPT ![d] = Item("open", NextDue(r.id, r.now), r.now.sonar, {r.id})]
    /\ Refresh(q)
    /\ UNCHANGED <<record, edits, said, reopened, overwrote>>

(***************************************************************************)
(* _commit with refresh_refs: read the contract, list the items, write the *)
(* contract unless somebody wrote it meanwhile                             *)
(***************************************************************************)
OpenDues(after) == [k \in DueDays |-> Cardinality({d \in Duties : Dated(after[d]) /\ after[d].due = k})]

ReadContract(q) ==
    /\ Doing(q, "read")
    /\ doing' = [doing EXCEPT ![q] = [@ EXCEPT !.at = "list", !.current = TRUE]]
    /\ UNCHANGED <<duty, record, edits, said, reopened, overwrote>>

(* mark_signed between its write and the end of its replacement.           *)
Signing == {q \in DutyRequests : doing[q].at \in {"drop", "store"}}

(* mark_signed counts the items people entered and the ones Sonar is about *)
(* to store.                                                               *)
ListObligations(q) ==
    /\ Doing(q, "list")
    /\ LET r == doing[q]
           after == IF r.op # "sign" THEN duty
                   ELSE [d \in Duties |-> IF d = r.id THEN r.now ELSE IF duty[d].sonar THEN NoItem ELSE duty[d]]
       IN doing' = [doing EXCEPT ![q] = [@ EXCEPT !.at = "write", !.listed = OpenDues(after)]]
    /\ overwrote' = IF Signing # {} THEN overwrote \cup {"sign"} ELSE overwrote
    /\ UNCHANGED <<duty, record, edits, said, reopened>>

MayWrite_Always(q) == TRUE
MayWrite(q) == doing[q].current

(* Somebody else's write makes what the others have read old.              *)
Outdate(q, rest) ==
    doing' = [o \in DutyRequests |-> IF o = q THEN rest
                ELSE IF doing[o].at \in {"list", "write"} THEN [doing[o] EXCEPT !.current = FALSE] ELSE doing[o]]

WriteContract(q) ==
    /\ Doing(q, "write")
    /\ LET r == doing[q] IN
       IF MayWrite(q)
       THEN /\ dues' = r.listed
            /\ signed' = (signed \/ r.op = "sign")
            /\ Outdate(q, IF r.op = "sign" THEN [r EXCEPT !.at = "drop", !.listed = None, !.tries = 1] ELSE Still)
            /\ UNCHANGED overwrote
       ELSE /\ doing' = [doing EXCEPT ![q] = IF r.tries = WRITE_RETRIES THEN Still
                                             ELSE [r EXCEPT !.at = "read", !.tries = @ + 1, !.listed = None]]
            /\ overwrote' = IF r.tries = WRITE_RETRIES THEN overwrote \cup {"gave_up"} ELSE overwrote
            /\ UNCHANGED <<dues, signed>>
    /\ UNCHANGED <<duty, day, sweep, edits, halts, said, reopened>>

(***************************************************************************)
(* mark_signed: after the contract is written Sonar's obligations are      *)
(* replaced (_replace_sonar_obligations); the contract may be reopened     *)
(***************************************************************************)
MarkSigned(q) ==
    /\ Doing(q, "still") /\ ~signed /\ OneEdit
    /\ \E d \in Fresh :
         Carry(q, Plan("read", "sign", d, NoItem, Item("open", day, TRUE, {})))
    /\ UNCHANGED <<duty, record, said, reopened, overwrote>>

DropSonar(q) ==
    /\ Doing(q, "drop")
    /\ duty' = [d \in Duties |-> IF duty[d].sonar THEN [NoItem EXCEPT !.status = "deleted"] ELSE duty[d]]
    /\ Step(q, "store")
    /\ UNCHANGED <<record, edits, said, reopened, overwrote>>

StoreSonar(q) ==
    /\ Doing(q, "store")
    /\ duty' = [duty EXCEPT ![doing[q].id] = doing[q].now]
    /\ Done(q)
    /\ UNCHANGED <<record, edits, said, reopened, overwrote>>

Reopen ==
    /\ signed /\ signed' = FALSE
    /\ doing' = [o \in DutyRequests |->
                   IF doing[o].at \in {"list", "write"} THEN [doing[o] EXCEPT !.current = FALSE] ELSE doing[o]]
    /\ UNCHANGED <<duty, dues, day, sweep, edits, halts, said, reopened, overwrote>>

(***************************************************************************)
(* _sweep_obligations                                                      *)
(***************************************************************************)
unswept == <<dues, signed, doing, edits, reopened>>

BeginSweep ==
    /\ sweep = Still
    /\ LET due == {d \in Duties : Dated(duty[d]) /\ duty[d].due <= day + WINDOW} IN
       sweep' = [at |-> "next", rows |-> [d \in due |-> duty[d]], noted |-> {}]
    /\ UNCHANGED <<duty, day, halts, said, overwrote, unswept>>

Kind(r) == IF r.due < day THEN "overdue" ELSE "due"
NextRow(d) == [at |-> "next", noted |-> {}, rows |-> [e \in DOMAIN sweep.rows \ {d} |-> sweep.rows[e]]]

(* note_obligation, unless the item carries the mark.                      *)
Note ==
    /\ sweep.at = "next"
    /\ \E d \in DOMAIN sweep.rows :
         LET k == Kind(sweep.rows[d]) IN
         IF k \in sweep.rows[d].marked
         THEN sweep' = NextRow(d) /\ UNCHANGED said
         ELSE /\ said' = [said EXCEPT ![d][k] = IF @ = Many THEN Many ELSE @ + 1]
              /\ sweep' = [sweep EXCEPT !.at = "mark", !.noted = {d}]
    /\ UNCHANGED <<duty, day, halts, overwrote, unswept>>

(* The item is written as it was listed, with the mark.                    *)
Mark ==
    /\ sweep.at = "mark"
    /\ \E d \in sweep.noted :
         LET r == sweep.rows[d] IN
         /\ duty' = [duty EXCEPT ![d] = [r EXCEPT !.marked = @ \cup {Kind(r)}]]
         /\ overwrote' = IF duty[d] # r THEN overwrote \cup {"sweep"} ELSE overwrote
         /\ sweep' = NextRow(d)
    /\ UNCHANGED <<day, halts, said, unswept>>

EndSweep ==
    /\ sweep.at = "next"
    /\ sweep' = Still
    /\ UNCHANGED <<duty, day, halts, said, overwrote, unswept>>

(* Sweeps and requests are over within minutes: each knows one day.        *)
NextDay ==
    /\ day < MaxDay /\ sweep = Still /\ \A q \in DutyRequests : Doing(q, "still")
    /\ day' = day + 1
    /\ UNCHANGED <<duty, sweep, halts, said, overwrote, unswept>>

(* A request that stops before its first write has done nothing; a sweep   *)
(* that stops before it has noted an item is one that saw fewer.           *)
HasWritten(q) == doing[q].at \in {"follow", "drop", "store"} \/ (Doing(q, "read") /\ doing[q].op # "sign")
Halt ==
    /\ halts < MaxHalts /\ halts' = halts + 1
    /\ \/ sweep.at = "mark" /\ sweep' = Still /\ UNCHANGED doing
       \/ (\E q \in DutyRequests : HasWritten(q) /\ Done(q)) /\ UNCHANGED sweep
    /\ UNCHANGED <<duty, dues, signed, day, edits, said, reopened, overwrote>>

DutyRequest(q) == \/ AddObligation(q) \/ EditObligation(q) \/ PutObligation(q) \/ PutFollowing(q)
                  \/ ReadContract(q) \/ ListObligations(q) \/ WriteContract(q)
                  \/ MarkSigned(q) \/ DropSonar(q) \/ StoreSonar(q)

DutyNext == \/ \E q \in DutyRequests : DutyRequest(q)
            \/ Reopen \/ BeginSweep \/ Note \/ Mark \/ EndSweep \/ NextDay \/ Halt

DutySpec == DutyInit /\ [][DutyNext]_dutyVars

(***************************************************************************)
(* Properties                                                              *)
(***************************************************************************)
DutyTypeOK ==
    /\ duty \in [Duties -> [status : {"absent", "open", "done", "deleted"}, due : 0 .. MaxDay + Period,
                            sonar : BOOLEAN, marked : SUBSET Kinds, from : SUBSET Duties]]
    /\ dues \in [DueDays -> Nat] /\ signed \in BOOLEAN /\ day \in DueDays
    /\ overwrote \subseteq {"request", "sweep", "sign", "gave_up"}

(* When no request is under way the due dates on the contract are those of *)
(* its open obligations, however many changed them at once -- unless an    *)
(* invocation stopped, a request gave up after its last try, the sweep put *)
(* back an item it had listed before a request changed it, or a request    *)
(* listed the items between the signing of the contract and the            *)
(* replacement of Sonar's obligations.                                     *)
DuesSettle ==
    (halts = 0 /\ overwrote \subseteq {"request"} /\ \A q \in DutyRequests : Doing(q, "still"))
      => dues = OpenDues(duty)

(* Everybody hears once that an obligation is due, and once that it is     *)
(* overdue, unless an item was replaced by an old copy or a request gave a *)
(* due date since, be it the same one (edit_obligation); a sweep that      *)
(* stops makes them hear it once more.                                     *)
NotedOnce == overwrote = {} => \A d \in Duties, k \in Kinds : said[d][k] <= 1 + halts

(* A recurring obligation is followed by at most one, which is scheduled   *)
(* when it is closed: by two only if it was opened again, or if two        *)
(* requests closed it at once.                                             *)
Followers(d) == {e \in Duties : d \in duty[e].from}
Following(d) == {q \in DutyRequests : Doing(q, "follow") /\ doing[q].id = d}
OneFollower ==
    overwrote = {} =>
      \A d \in Duties \ reopened : Cardinality(Followers(d)) + Cardinality(Following(d)) <= 1

ObligationsHold == DuesSettle /\ NotedOnce /\ OneFollower
=============================================================================
