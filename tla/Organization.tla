---------------------------- MODULE Organization ----------------------------
(***************************************************************************)
(* Who administers a shared tenant (shared/govern/org.py): the first       *)
(* member to open Govern creates its record and stays its admin; admins    *)
(* add members as admins and remove them, under an optimistic lock, and    *)
(* every change is noted in an audit trail after it is made.               *)
(*                                                                         *)
(* Every step is one call to govern-config; a request may die between two. *)
(***************************************************************************)
EXTENDS Integers, FiniteSets

CONSTANTS
    People,            \* the members of the tenant
    OrgRequests,       \* requests that may be under way at a time
    MAX_ADMINS,        \* admins of an organization
    ORG_WRITE_RETRIES, \* tries of a change
    MaxRev,            \* bound: changes of the record
    MaxOrgStops        \* bound: requests that die

ASSUME OrgBounds == /\ {MAX_ADMINS, ORG_WRITE_RETRIES, MaxRev} \subseteq Nat \ {0}
                    /\ MaxOrgStops \in Nat /\ IsFiniteSet(OrgRequests)

VARIABLES
    org,       \* the ORG record
    members,   \* MEMBER rows
    audit,     \* audit[p]: how often "admin_added" and "admin_removed" name p
    founded,   \* "org_created" entries
    asking,    \* asking[q]: what request q is doing
    orgStops   \* requests that died

orgVars == <<org, members, audit, founded, asking, orgStops>>

NoOrg == [rev |-> 0, creator |-> "nobody", admins |-> {}]
Away  == [at |-> "away"]

OrgInit ==
    /\ org = NoOrg /\ members = {} /\ founded = 0 /\ orgStops = 0
    /\ audit = [p \in People |-> [added |-> 0, removed |-> 0]]
    /\ asking = [q \in OrgRequests |-> Away]

Asks(q, at) == asking[q].at = at
Turn(q, at) == asking' = [asking EXCEPT ![q].at = at]
End(q)      == asking' = [asking EXCEPT ![q] = Away]

(* is_admin, admin_subs: the creator is an admin whatever the list says.   *)
IsAdmin(o, p) == o.rev > 0 /\ p \in o.admins \cup {o.creator}

(***************************************************************************)
(* GET /govern/me: ensure and record_member                                *)
(***************************************************************************)
SignIn(q) ==
    /\ Asks(q, "away")
    /\ \E p \in People :
         asking' = [asking EXCEPT ![q] = [at |-> IF org = NoOrg THEN "create" ELSE "member", op |-> "sign_in", actor |-> p]]
    /\ UNCHANGED <<org, members, audit, founded, orgStops>>

MayCreate_Blindly == TRUE
MayCreate == org = NoOrg

Create(q) ==
    /\ Asks(q, "create")
    /\ IF MayCreate
       THEN org' = [rev |-> 1, creator |-> asking[q].actor, admins |-> {asking[q].actor}] /\ Turn(q, "found")
       ELSE UNCHANGED org /\ Turn(q, "member")
    /\ UNCHANGED <<members, audit, founded, orgStops>>

Found(q) ==
    /\ Asks(q, "found")
    /\ founded' = founded + 1
    /\ Turn(q, "member")
    /\ UNCHANGED <<org, members, audit, orgStops>>

RecordMember(q) ==
    /\ Asks(q, "member")
    /\ members' = members \cup {asking[q].actor}
    /\ End(q)
    /\ UNCHANGED <<org, audit, founded, orgStops>>

(***************************************************************************)
(* POST and DELETE /govern/org/admins                                      *)
(***************************************************************************)
(* The caller is an admin when the request starts; rev is the revision     *)
(* their page showed, or 0 when they send none.                            *)
BeginChange(q) ==
    /\ Asks(q, "away")
    /\ \E p, t \in People, op \in {"add", "remove"}, rev \in {0, org.rev} :
         /\ IsAdmin(org, p)
         /\ op = "add" => t \in members
         /\ asking' = [asking EXCEPT ![q] = [at |-> "read", op |-> op, actor |-> p, target |-> t, rev |-> rev,
                                             tries |-> 1, seen |-> NoOrg, now |-> FALSE]]
    /\ UNCHANGED <<org, members, audit, founded, orgStops>>

(* change, on the record read: what it refuses, and when it has nothing to *)
(* do.                                                                     *)
Refuses(o, op, t) ==
    IF op = "add"
    THEN ~IsAdmin(o, t) /\ Cardinality(o.admins) >= MAX_ADMINS
    ELSE ~IsAdmin(o, t) \/ t = o.creator \/ Cardinality(o.admins \cup {o.creator}) <= 1
Needless(o, op, t) == op = "add" /\ IsAdmin(o, t)

(* added["now"]: whether the last attempt added the person.                *)
AddedNow_Ever(before, adds) == before \/ adds
AddedNow(before, adds) == adds

(* _mutate: a rev that is stale at the first attempt is a conflict.        *)
ReadOrg(q) ==
    /\ Asks(q, "read")
    /\ LET r == asking[q]
           adds == r.op = "add" /\ ~Needless(org, r.op, r.target)
           next == [r EXCEPT !.seen = org, !.now = AddedNow(r.now, adds)]
       IN asking' = [asking EXCEPT ![q] =
            IF (r.tries = 1 /\ r.rev \notin {0, org.rev}) \/ Refuses(org, r.op, r.target) THEN Away
            ELSE IF Needless(org, r.op, r.target)
                 THEN IF next.now THEN [next EXCEPT !.at = "audit"] ELSE Away
                 ELSE [next EXCEPT !.at = "put"]]
    /\ UNCHANGED <<org, members, audit, founded, orgStops>>

MayPutOrg_Always(q) == TRUE
MayPutOrg(q) == org.rev = asking[q].seen.rev

PutOrg(q) ==
    /\ Asks(q, "put") /\ org.rev < MaxRev
    /\ LET r == asking[q] IN
       IF MayPutOrg(q)
       THEN /\ org' = [r.seen EXCEPT !.rev = @ + 1,
                                     !.admins = IF r.op = "add" THEN @ \cup {r.target} ELSE @ \ {r.target}]
            /\ Turn(q, "audit")
       ELSE /\ UNCHANGED org
            /\ IF r.tries = ORG_WRITE_RETRIES THEN End(q)
               ELSE asking' = [asking EXCEPT ![q] = [r EXCEPT !.at = "read", !.tries = r.tries + 1]]
    /\ UNCHANGED <<members, audit, founded, orgStops>>

Audit(q) ==
    /\ Asks(q, "audit")
    /\ LET r == asking[q]  noted == audit[r.target] IN
       audit' = [audit EXCEPT ![r.target] = IF r.op = "add" THEN [noted EXCEPT !.added = noted.added + 1]
                                                            ELSE [noted EXCEPT !.removed = noted.removed + 1]]
    /\ End(q)
    /\ UNCHANGED <<org, members, founded, orgStops>>

OrgDies ==
    /\ orgStops < MaxOrgStops /\ orgStops' = orgStops + 1
    /\ \E q \in OrgRequests : ~Asks(q, "away") /\ End(q)
    /\ UNCHANGED <<org, members, audit, founded>>

OrgStep(q) == \/ SignIn(q) \/ Create(q) \/ Found(q) \/ RecordMember(q)
              \/ BeginChange(q) \/ ReadOrg(q) \/ PutOrg(q) \/ Audit(q)

OrgNext == (\E q \in OrgRequests : OrgStep(q)) \/ OrgDies

OrgSpec == OrgInit /\ [][OrgNext]_orgVars

(***************************************************************************)
(* Properties                                                              *)
(***************************************************************************)
OrgTypeOK ==
    /\ org \in [rev : 0 .. MaxRev, creator : People \cup {"nobody"}, admins : SUBSET People]
    /\ members \subseteq People /\ founded \in Nat /\ orgStops \in 0 .. MaxOrgStops
    /\ audit \in [People -> [added : Nat, removed : Nat]]

Unnoted(op, p) == Cardinality({q \in OrgRequests : Asks(q, "audit") /\ asking[q].op = op /\ asking[q].target = p})

(* No change of the admins is lost or noted twice, however many admins     *)
(* make changes at once: the trail, with the entries that are about to be  *)
(* written, gives the admins of the record.  (A request that dies before   *)
(* its entry leaves a change without one.)                                 *)
AuditBalances ==
    orgStops = 0 =>
      \A p \in People :
        audit[p].added - audit[p].removed + Unnoted("add", p) - Unnoted("remove", p)
          = IF p \in org.admins /\ p # org.creator THEN 1 ELSE 0

(* There is an admin as soon as there is a record; who is not its creator  *)
(* has signed in, and the limit holds.                                     *)
AdminsAreMembers ==
    org # NoOrg => /\ org.creator \in org.admins
                   /\ org.admins \ {org.creator} \subseteq members
                   /\ Cardinality(org.admins) <= MAX_ADMINS /\ founded <= 1

AdminsHold == AuditBalances /\ AdminsAreMembers

(* Exactly one person creates the organization, and remains its creator.   *)
CreatorStays == [][org # NoOrg => org'.creator = org.creator]_orgVars
=============================================================================
