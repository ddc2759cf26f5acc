---------------------------- MODULE PortalLinks ----------------------------
(***************************************************************************)
(* Counterparty portal links of one contract (shared/govern/portal.py).    *)
(* Reviewers create and revoke links through govern-api; guests, holding a *)
(* link's token and nothing else, read the open asks or start an upload    *)
(* through govern-portal.                                                  *)
(*                                                                         *)
(* Every step is one call to govern-config, or to the contract; a request  *)
(* judges expiry by the time it started.  A request that fails or dies     *)
(* half-way leaves what it stored.                                         *)
(***************************************************************************)
EXTENDS Naturals, FiniteSets

CONSTANTS
    Links,             \* tokens that may be drawn
    Reviewers,         \* requests of reviewers that may be under way at a time
    Guests,            \* requests of the counterparty
    MAX_ACTIVE_LINKS,  \* active links of a contract
    MAX_OPENS,         \* views of a link, ever
    MAX_UPLOADS,       \* upload URLs of a link, ever
    Term,              \* days until a link expires
    LastDay,           \* bound: days 0..LastDay
    Midnight           \* whether a day may end while a view is under way

ASSUME PortalBounds ==
    /\ {MAX_ACTIVE_LINKS, MAX_OPENS, MAX_UPLOADS, Term} \subseteq Nat \ {0}
    /\ LastDay \in Nat /\ Midnight \in BOOLEAN
    /\ IsFiniteSet(Links) /\ IsFiniteSet(Reviewers)

VARIABLES
    matter,     \* the contract: "open", "signed", "closed" or "removed"
    listed,     \* links in the contract's index
    link,       \* link[l]: the stored link
    today,      \* the date
    reviewing,  \* reviewing[r]: what a reviewer's request is doing
    visiting,   \* visiting[g]: what a guest's request is doing
    openings    \* openings[l][d]: "opened the link" entries for day d

portalVars == <<matter, listed, link, today, reviewing, visiting, openings>>

Idle == [at |-> "idle"]
NoLink == [stored |-> FALSE, revoked |-> FALSE, allowUpload |-> FALSE, until |-> 0,
           opens |-> 0, uploads |-> 0, lastOpenedDay |-> LastDay + 1]

(* link_status, for a request that started on day d.                       *)
ActiveAt(l, d) == link[l].stored /\ ~link[l].revoked /\ d < link[l].until

PortalInit ==
    /\ matter = "open" /\ today = 0
    /\ listed = {}
    /\ link = [l \in Links |-> NoLink]
    /\ reviewing = [r \in Reviewers |-> Idle]
    /\ visiting = [g \in Guests |-> Idle]
    /\ openings = [l \in Links |-> [d \in 0 .. LastDay |-> 0]]

ReviewerAt(r, at) == reviewing[r].at = at
GuestAt(g, at) == visiting[g].at = at
Drawn == {reviewing[r].link : r \in {x \in Reviewers : reviewing[x].at \in {"count", "index", "put"}}}

(***************************************************************************)
(* Reviewers                                                               *)
(***************************************************************************)
unlinked == <<matter, link, today, visiting, openings>>

(* create_link: a contract that is over is not shared.                     *)
BeginLink(r) ==
    /\ ReviewerAt(r, "idle")
    /\ matter \in {"open", "signed"}
    /\ \E l \in Links \ (listed \cup Drawn), allow \in BOOLEAN :
         reviewing' = [reviewing EXCEPT ![r] = [at |-> "count", link |-> l, allow |-> allow, day |-> today,
                                                until |-> today + Term]]
    /\ UNCHANGED <<unlinked, listed>>

(* The active links are counted, through the index.                        *)
CountActive(r) ==
    /\ ReviewerAt(r, "count")
    /\ reviewing' = [reviewing EXCEPT ![r] =
            IF Cardinality({l \in listed : ActiveAt(l, @.day)}) >= MAX_ACTIVE_LINKS
            THEN Idle ELSE [@ EXCEPT !.at = "index"]]
    /\ UNCHANGED <<unlinked, listed>>

PutIndex(r) ==
    /\ ReviewerAt(r, "index")
    /\ listed' = listed \cup {reviewing[r].link}
    /\ reviewing' = [reviewing EXCEPT ![r].at = "put"]
    /\ UNCHANGED unlinked

PutLink(r) ==
    /\ ReviewerAt(r, "put")
    /\ link' = [link EXCEPT ![reviewing[r].link] = 
        [NoLink EXCEPT !.stored = TRUE, !.allowUpload = reviewing[r].allow, !.until = reviewing[r].until]]
    /\ reviewing' = [reviewing EXCEPT ![r] = Idle]
    /\ UNCHANGED <<matter, listed, today, visiting, openings>>

(* revoke_link: found through the index, which is never shortened; one     *)
(* conditional update.                                                     *)
Revoke(r) ==
    /\ ReviewerAt(r, "idle")
    /\ \E l \in listed : link[l].stored /\ link' = [link EXCEPT ![l].revoked = TRUE]
    /\ UNCHANGED <<matter, listed, today, reviewing, visiting, openings>>

(***************************************************************************)
(* Guests                                                                  *)
(***************************************************************************)
unvisited == <<matter, listed, today, reviewing>>

Arrive(g) ==
    /\ GuestAt(g, "idle")
    /\ \E l \in Links, what \in {"opens", "uploads"} :
         visiting' = [visiting EXCEPT ![g] = [at |-> "resolve", link |-> l, what |-> what, day |-> today]]
    /\ UNCHANGED <<unvisited, link, openings>>

(* resolve: unknown, expired and revoked links are answered alike.         *)
Resolve(g) ==
    /\ GuestAt(g, "resolve")
    /\ visiting' = [visiting EXCEPT ![g] = IF ActiveAt(@.link, @.day) THEN [@ EXCEPT !.at = "contract"] ELSE Idle]
    /\ UNCHANGED <<unvisited, link, openings>>

(* ... and a link whose contract is gone.  Uploads stop with the signature *)
(* and where the link does not offer them.                                 *)
UploadsAllowed(l) == link[l].allowUpload /\ matter = "open"

SeeContract(g) ==
    /\ GuestAt(g, "contract")
    /\ visiting' = [visiting EXCEPT ![g] =
            IF matter # "removed" /\ (@.what = "uploads" => UploadsAllowed(@.link)) THEN [@ EXCEPT !.at = "count"] ELSE Idle]
    /\ UNCHANGED <<unvisited, link, openings>>

(* _count: the condition of the conditional update.  What follows a count  *)
(* (the page, or an upload URL and its document) is not part of the link.  *)
MayCountVisit_Revoked(l, what) ==
    link[l].stored /\ link[l][what] < (IF what = "opens" THEN MAX_OPENS ELSE MAX_UPLOADS)
MayCountVisit(l, what) ==
    /\ link[l].stored /\ ~link[l].revoked
    /\ link[l][what] < (IF what = "opens" THEN MAX_OPENS ELSE MAX_UPLOADS)

CountVisit(g) ==
    /\ GuestAt(g, "count")
    /\ LET l == visiting[g].link  what == visiting[g].what IN
       IF MayCountVisit(l, what)
       THEN /\ link' = [link EXCEPT ![l][what] = @ + 1]
            /\ visiting' = [visiting EXCEPT ![g] = IF what = "opens" THEN [@ EXCEPT !.at = "first"] ELSE Idle]
       ELSE visiting' = [visiting EXCEPT ![g] = Idle] /\ UNCHANGED link
    /\ UNCHANGED <<unvisited, openings>>

(* _first_today: one conditional update.                                   *)
NotYetOpened_Ever(l, d) == TRUE      \* mutant: the put without its condition
NotYetOpened(l, d) == link[l].lastOpenedDay # d

FirstToday(g) ==
    /\ GuestAt(g, "first")
    /\ LET l == visiting[g].link  d == visiting[g].day IN
       /\ visiting' = [visiting EXCEPT ![g] = IF NotYetOpened(l, d) THEN [@ EXCEPT !.at = "log"] ELSE Idle]
       /\ link' = [link EXCEPT ![l].lastOpenedDay = d]
    /\ UNCHANGED <<unvisited, openings>>

LogOpened(g) ==
    /\ GuestAt(g, "log")
    /\ openings' = [openings EXCEPT ![visiting[g].link][visiting[g].day] = @ + 1]
    /\ visiting' = [visiting EXCEPT ![g] = Idle]
    /\ UNCHANGED <<unvisited, link>>

(***************************************************************************)
(* Time, the contract, and requests that fail or die                       *)
(***************************************************************************)
DayPasses ==
    /\ today < LastDay
    /\ Midnight \/ \A g \in Guests : GuestAt(g, "idle")
    /\ today' = today + 1
    /\ UNCHANGED <<matter, listed, link, reviewing, visiting, openings>>

MoveContract ==
    /\ \E turn \in {<<"open", "signed">>, <<"signed", "closed">>, <<"closed", "open">>, <<"open", "removed">>} :
         matter = turn[1] /\ matter' = turn[2]
    /\ UNCHANGED <<listed, link, today, reviewing, visiting, openings>>

RequestStops ==
    /\ \/ \E r \in Reviewers : reviewing' = [reviewing EXCEPT ![r] = Idle] /\ UNCHANGED visiting
       \/ \E g \in Guests : visiting' = [visiting EXCEPT ![g] = Idle] /\ UNCHANGED reviewing
    /\ UNCHANGED <<matter, listed, link, today, openings>>

ReviewerStep(r) == \/ BeginLink(r) \/ CountActive(r) \/ PutIndex(r) \/ PutLink(r) \/ Revoke(r)
GuestStep(g) == \/ Arrive(g) \/ Resolve(g) \/ SeeContract(g) \/ CountVisit(g)
                \/ FirstToday(g) \/ LogOpened(g)

PortalNext == \/ \E r \in Reviewers : ReviewerStep(r)
              \/ \E g \in Guests : GuestStep(g)
              \/ DayPasses \/ MoveContract \/ RequestStops

PortalSpec == PortalInit /\ [][PortalNext]_portalVars

(***************************************************************************)
(* Properties                                                              *)
(***************************************************************************)
PortalTypeOK ==
    /\ matter \in {"open", "signed", "closed", "removed"}
    /\ listed \subseteq Links /\ today \in 0 .. LastDay
    /\ link \in [Links -> [stored : BOOLEAN, revoked : BOOLEAN, allowUpload : BOOLEAN, until : Nat,
                           opens : Nat, uploads : Nat, lastOpenedDay : 0 .. LastDay + 1]]

(* The limit on active links is checked before the link is stored, so it   *)
(* can be passed, by no more than the other requests under way.            *)
ActiveBounded == Cardinality({l \in Links : ActiveAt(l, today)}) < MAX_ACTIVE_LINKS + Cardinality(Reviewers)

(* A link is used within its limits, whichever guests come together.       *)
WithinLimits == \A l \in Links : link[l].opens <= MAX_OPENS /\ link[l].uploads <= MAX_UPLOADS

(* A link that can be used can be found, and so revoked.                   *)
UsableIsListed == \A l \in Links : link[l].stored => l \in listed

(* The log says once a day that a link was opened (unless a day ends in    *)
(* the middle of a view).                                                  *)
OpenedOncePerDay == \A l \in Links, d \in 0 .. LastDay : openings[l][d] <= 1

LinksHold == ActiveBounded /\ WithinLimits /\ UsableIsListed /\ OpenedOncePerDay

(* Revoking is final: no request, not even one that had found the link     *)
(* active, is counted after it.                                            *)
RevokedStaysShut ==
    [][\A l \in Links : link[l].revoked =>
         /\ link'[l].revoked
         /\ link'[l].opens = link[l].opens /\ link'[l].uploads = link[l].uploads]_portalVars
=============================================================================
