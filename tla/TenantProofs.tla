---------------------------- MODULE TenantProofs ----------------------------
(***************************************************************************)
(* Proofs about the components that keep small tables of a tenant, for any *)
(* constants: the counterparty's links (PortalLinks), the organization     *)
(* (Organization), the saved views (Views), the review matrix              *)
(* (MatrixVersions), access to projects (ProjectAccess), the connectors    *)
(* (Connectors) and the obligations of a contract (Obligations).           *)
(***************************************************************************)
EXTENDS PortalLinks, MatrixVersions, Organization, Views, ProjectAccess, Connectors, Obligations,
        FiniteSetTheorems, TLAPS

(***************************************************************************)
(* The counterparty's links                                                *)
(***************************************************************************)

Making  == [at : {"count", "index", "put"}, link : Links, allow : BOOLEAN, day : Nat, until : Nat]
Visits  == [at : {"resolve", "contract", "count", "first", "log"}, link : Links,
            what : {"opens", "uploads"}, day : 0 .. LastDay]
AtLinks == [stored : BOOLEAN, revoked : BOOLEAN, allowUpload : BOOLEAN, until : Nat,
            opens : Nat, uploads : Nat, lastOpenedDay : 0 .. LastDay + 1]

Shapes ==
    /\ today \in 0 .. LastDay
    /\ listed \subseteq Links
    /\ link \in [Links -> AtLinks]
    /\ reviewing \in [Reviewers -> {Idle} \cup Making]
    /\ \A r \in Reviewers : reviewing[r] \in Making => reviewing[r].day <= today
    /\ visiting \in [Guests -> {Idle} \cup Visits]
    /\ openings \in [Links -> [0 .. LastDay -> Nat]]

(* A link that is being made is nobody else's, and not to be found before  *)
(* it is in the index; what is stored is in the index, and nothing else    *)
(* was revoked.                                                            *)
OwnLinks ==
    /\ \A r \in Reviewers :
          /\ ReviewerAt(r, "count") \/ ReviewerAt(r, "index") => reviewing[r].link \notin listed
          /\ ReviewerAt(r, "put") => reviewing[r].link \in listed /\ ~link[reviewing[r].link].stored
    /\ \A r, s \in Reviewers :
          r # s /\ reviewing[r] \in Making /\ reviewing[s] \in Making => reviewing[r].link # reviewing[s].link
    /\ UsableIsListed
    /\ \A l \in Links : link[l].revoked => link[l].stored

LEMMA ShapesInit == PortalInit => Shapes
BY PortalBounds DEF PortalInit, Shapes, AtLinks, NoLink, Idle, Making, Visits

(* A request is idle, or one of those above.                               *)
LEMMA Busy ==
    ASSUME Shapes
    PROVE  /\ \A r \in Reviewers : ~ReviewerAt(r, "idle") => reviewing[r] \in Making
           /\ \A g \in Guests : ~GuestAt(g, "idle") => visiting[g] \in Visits
           /\ \A m \in Making : m.at # "idle" /\ m.link \in Links /\ m.allow \in BOOLEAN /\ m.day \in Nat /\ m.until \in Nat
           /\ \A v \in Visits : v.at # "idle" /\ v.link \in Links /\ v.what \in {"opens", "uploads"} /\ v.day \in 0 .. LastDay
           /\ Idle.at = "idle" /\ Idle \notin Making /\ Idle \notin Visits
<1>1. Idle.at = "idle"
  BY DEF Idle
<1>2. \A m \in Making : m.at # "idle" /\ m.link \in Links /\ m.allow \in BOOLEAN /\ m.day \in Nat /\ m.until \in Nat
  BY DEF Making
<1>3. \A v \in Visits : v.at # "idle" /\ v.link \in Links /\ v.what \in {"opens", "uploads"} /\ v.day \in 0 .. LastDay
  BY DEF Visits
<1> QED BY <1>1, <1>2, <1>3 DEF Shapes, ReviewerAt, GuestAt

(* What the handlers make of a stored link is one.                         *)
LEMMA LinkUpdates ==
    ASSUME NEW x \in AtLinks
    PROVE  /\ [x EXCEPT !.revoked = TRUE] \in AtLinks
           /\ [x EXCEPT !["opens"] = x["opens"] + 1] \in AtLinks
           /\ [x EXCEPT !["uploads"] = x["uploads"] + 1] \in AtLinks
           /\ \A d \in 0 .. LastDay : [x EXCEPT !.lastOpenedDay = d] \in AtLinks
<1>1. x.opens + 1 \in Nat /\ x.uploads + 1 \in Nat
  BY DEF AtLinks
<1>2. \A d \in 0 .. LastDay : d \in 0 .. LastDay + 1
  BY PortalBounds
<1> QED BY <1>1, <1>2 DEF AtLinks

LEMMA NewLink ==
    ASSUME NEW allow \in BOOLEAN, NEW until \in Nat
    PROVE  [NoLink EXCEPT !.stored = TRUE, !.allowUpload = allow, !.until = until] \in AtLinks
<1>1. LastDay + 1 \in 0 .. LastDay + 1
  BY PortalBounds
<1>2. NoLink \in AtLinks
  BY <1>1 DEF NoLink, AtLinks
<1> QED BY <1>2 DEF AtLinks

LEMMA NextStage ==
    ASSUME NEW m \in Making, NEW at \in {"index", "put"}
    PROVE  [m EXCEPT !.at = at].at = at /\ [m EXCEPT !.at = at].link = m.link
BY DEF Making

(* A count that goes up by one.                                            *)
LEMMA CountUp == ASSUME NEW S, NEW f \in [S -> Nat], NEW x \in S
                 PROVE  [f EXCEPT ![x] = f[x] + 1] \in [S -> Nat]
OBVIOUS

(* What a request of a reviewer and one of a guest leave behind.           *)
LEMMA ReviewerStays ==
    ASSUME Shapes, NEW r \in Reviewers, NEW v \in {Idle} \cup Making,
           v \in Making => v.day <= today,
           reviewing' = [reviewing EXCEPT ![r] = v],
           listed' \subseteq Links, link' \in [Links -> AtLinks],
           UNCHANGED <<today, visiting, openings>>
    PROVE  Shapes'
BY DEF Shapes

LEMMA GuestStays ==
    ASSUME Shapes, NEW g \in Guests, NEW v \in {Idle} \cup Visits,
           visiting' = [visiting EXCEPT ![g] = v],
           link' \in [Links -> AtLinks], openings' \in [Links -> [0 .. LastDay -> Nat]],
           UNCHANGED <<today, listed, reviewing>>
    PROVE  Shapes'
BY DEF Shapes

LEMMA ShapesNext == Shapes /\ [PortalNext]_portalVars => Shapes'
<1> SUFFICES ASSUME Shapes, [PortalNext]_portalVars PROVE Shapes'
  OBVIOUS
<1> USE DEF unlinked, unvisited
<1>1. ASSUME NEW r \in Reviewers, BeginLink(r) PROVE Shapes'
  <2>1. PICK l \in Links \ (listed \cup Drawn), allow \in BOOLEAN :
            reviewing' = [reviewing EXCEPT ![r] = [at |-> "count", link |-> l, allow |-> allow, day |-> today,
                                                   until |-> today + Term]]
    BY <1>1 DEF BeginLink
  <2> DEFINE v == [at |-> "count", link |-> l, allow |-> allow, day |-> today, until |-> today + Term]
  <2>2. v \in Making /\ v.day <= today
    BY PortalBounds DEF Making, Shapes
  <2> HIDE DEF v
  <2> QED BY <1>1, <2>1, <2>2, ReviewerStays DEF BeginLink, Shapes, v
<1>2. ASSUME NEW r \in Reviewers, CountActive(r) PROVE Shapes'
  <2> DEFINE v == IF Cardinality({l \in listed : ActiveAt(l, reviewing[r].day)}) >= MAX_ACTIVE_LINKS
                  THEN Idle ELSE [reviewing[r] EXCEPT !.at = "index"]
  <2>1. reviewing[r] \in Making /\ reviewing[r].day <= today
    BY <1>2, Busy DEF CountActive, ReviewerAt, Shapes
  <2>2. v \in {Idle} \cup Making /\ (v \in Making => v.day <= today)
    BY <2>1, Busy DEF Making
  <2>3. reviewing' = [reviewing EXCEPT ![r] = v]
    BY <1>2 DEF CountActive
  <2> HIDE DEF v
  <2> QED BY <1>2, <2>2, <2>3, ReviewerStays DEF CountActive, Shapes
<1>3. ASSUME NEW r \in Reviewers, PutIndex(r) PROVE Shapes'
  <2> DEFINE v == [reviewing[r] EXCEPT !.at = "put"]
  <2>1. reviewing[r] \in Making /\ reviewing[r].day <= today
    BY <1>3, Busy DEF PutIndex, ReviewerAt, Shapes
  <2>2. v \in Making /\ v.day <= today
    BY <2>1 DEF Making
  <2>3. reviewing' = [reviewing EXCEPT ![r] = v]
    BY <1>3 DEF PutIndex
  <2>4. listed' \subseteq Links
    BY <1>3, <2>1, Busy DEF PutIndex, Shapes
  <2> HIDE DEF v
  <2> QED BY <1>3, <2>2, <2>3, <2>4, ReviewerStays DEF PutIndex, Shapes
<1>4. ASSUME NEW r \in Reviewers, PutLink(r) PROVE Shapes'
  <2>1. reviewing[r] \in Making
    BY <1>4, Busy DEF PutLink, ReviewerAt
  <2>2. [NoLink EXCEPT !.stored = TRUE, !.allowUpload = reviewing[r].allow, !.until = reviewing[r].until] \in AtLinks
    BY <2>1, Busy, NewLink
  <2>3. link' \in [Links -> AtLinks]
    BY <1>4, <2>2 DEF PutLink, Shapes
  <2> QED BY <1>4, <2>3, Busy, ReviewerStays DEF PutLink, Shapes
<1>5. ASSUME NEW r \in Reviewers, Revoke(r) PROVE Shapes'
  <2>1. \A l \in Links : [link[l] EXCEPT !.revoked = TRUE] \in AtLinks
    BY LinkUpdates DEF Shapes
  <2>2. link' \in [Links -> AtLinks]
    BY <1>5, <2>1 DEF Revoke, Shapes
  <2> QED BY <1>5, <2>2 DEF Revoke, Shapes
<1>6. ASSUME NEW g \in Guests, Arrive(g) PROVE Shapes'
  <2>1. PICK l \in Links, what \in {"opens", "uploads"} :
            visiting' = [visiting EXCEPT ![g] = [at |-> "resolve", link |-> l, what |-> what, day |-> today]]
    BY <1>6 DEF Arrive
  <2>2. [at |-> "resolve", link |-> l, what |-> what, day |-> today] \in Visits
    BY DEF Visits, Shapes
  <2> QED BY <1>6, <2>1, <2>2, GuestStays DEF Arrive, Shapes
<1>7. ASSUME NEW g \in Guests, Resolve(g) PROVE Shapes'
  <2> DEFINE v == IF ActiveAt(visiting[g].link, visiting[g].day) THEN [visiting[g] EXCEPT !.at = "contract"] ELSE Idle
  <2>1. visiting[g] \in Visits
    BY <1>7, Busy DEF Resolve, GuestAt
  <2>2. v \in {Idle} \cup Visits
    BY <2>1 DEF Visits
  <2>3. visiting' = [visiting EXCEPT ![g] = v]
    BY <1>7 DEF Resolve
  <2> HIDE DEF v
  <2> QED BY <1>7, <2>2, <2>3, GuestStays DEF Resolve, Shapes
<1>8. ASSUME NEW g \in Guests, SeeContract(g) PROVE Shapes'
  <2> DEFINE v == IF matter # "removed" /\ (visiting[g].what = "uploads" => UploadsAllowed(visiting[g].link))
                  THEN [visiting[g] EXCEPT !.at = "count"] ELSE Idle
  <2>1. visiting[g] \in Visits
    BY <1>8, Busy DEF SeeContract, GuestAt
  <2>2. v \in {Idle} \cup Visits
    BY <2>1 DEF Visits
  <2>3. visiting' = [visiting EXCEPT ![g] = v]
    BY <1>8 DEF SeeContract
  <2> HIDE DEF v
  <2> QED BY <1>8, <2>2, <2>3, GuestStays DEF SeeContract, Shapes
<1>9. ASSUME NEW g \in Guests, CountVisit(g) PROVE Shapes'
  <2> DEFINE l == visiting[g].link
             what == visiting[g].what
             noted == [visiting[g] EXCEPT !.at = "first"]
  <2>1. visiting[g] \in Visits /\ l \in Links /\ what \in {"opens", "uploads"}
    BY <1>9, Busy DEF CountVisit, GuestAt
  <2>2. noted \in Visits
    BY <2>1 DEF Visits
  <2>3. [link[l] EXCEPT ![what] = @ + 1] \in AtLinks
    <3>1. link[l] \in AtLinks
      BY <2>1 DEF Shapes
    <3>2. CASE what = "opens"
      BY <3>1, <3>2, LinkUpdates
    <3>3. CASE what = "uploads"
      BY <3>1, <3>3, LinkUpdates
    <3> QED BY <2>1, <3>2, <3>3
  <2>4. [link EXCEPT ![l][what] = @ + 1] = [link EXCEPT ![l] = [link[l] EXCEPT ![what] = @ + 1]]
    BY <2>1 DEF Shapes
  <2>5. [link EXCEPT ![l][what] = @ + 1] \in [Links -> AtLinks]
    BY <2>1, <2>3, <2>4 DEF Shapes
  <2>6. link' \in [Links -> AtLinks]
    BY <1>9, <2>5 DEF CountVisit, Shapes
  <2>7. visiting' = [visiting EXCEPT ![g] = noted] \/ visiting' = [visiting EXCEPT ![g] = Idle]
    BY <1>9 DEF CountVisit
  <2> HIDE DEF l, what, noted
  <2> QED BY <1>9, <2>2, <2>6, <2>7, GuestStays DEF CountVisit, Shapes
<1>10. ASSUME NEW g \in Guests, FirstToday(g) PROVE Shapes'
  <2> DEFINE l == visiting[g].link
             d == visiting[g].day
             v == IF NotYetOpened(l, d) THEN [visiting[g] EXCEPT !.at = "log"] ELSE Idle
  <2>1. visiting[g] \in Visits /\ l \in Links /\ d \in 0 .. LastDay
    BY <1>10, Busy DEF FirstToday, GuestAt
  <2>2. v \in {Idle} \cup Visits
    BY <2>1 DEF Visits
  <2>3. [link[l] EXCEPT !.lastOpenedDay = d] \in AtLinks
    BY <2>1, LinkUpdates DEF Shapes
  <2>4. link' \in [Links -> AtLinks]
    BY <1>10, <2>1, <2>3 DEF FirstToday, Shapes
  <2>5. visiting' = [visiting EXCEPT ![g] = v]
    BY <1>10 DEF FirstToday
  <2> HIDE DEF l, d, v
  <2> QED BY <1>10, <2>2, <2>4, <2>5, GuestStays DEF FirstToday, Shapes
<1>11. ASSUME NEW g \in Guests, LogOpened(g) PROVE Shapes'
  <2>1. visiting[g] \in Visits /\ visiting[g].link \in Links /\ visiting[g].day \in 0 .. LastDay
    BY <1>11, Busy DEF LogOpened, GuestAt
  <2> DEFINE l == visiting[g].link
             d == visiting[g].day
  <2>2. openings' = [openings EXCEPT ![l] = [openings[l] EXCEPT ![d] = openings[l][d] + 1]]
    BY <1>11, <2>1 DEF LogOpened, Shapes
  <2>3. openings[l] \in [0 .. LastDay -> Nat] /\ l \in Links /\ d \in 0 .. LastDay
    BY <2>1 DEF Shapes
  <2>4. [openings[l] EXCEPT ![d] = openings[l][d] + 1] \in [0 .. LastDay -> Nat]
    BY <2>3, CountUp
  <2>5. openings' \in [Links -> [0 .. LastDay -> Nat]]
    BY <2>2, <2>3, <2>4 DEF Shapes
  <2> QED BY <1>11, <2>5, GuestStays DEF LogOpened, Shapes
<1>12. CASE DayPasses
  <2>1. today' \in 0 .. LastDay /\ today <= today'
    BY <1>12, PortalBounds DEF DayPasses, Shapes
  <2>2. \A r \in Reviewers : reviewing[r] \in Making => reviewing[r].day <= today'
    BY <2>1, Busy, PortalBounds DEF Shapes
  <2> QED BY <1>12, <2>1, <2>2 DEF DayPasses, Shapes
<1>13. CASE MoveContract
  BY <1>13 DEF MoveContract, Shapes
<1>14. CASE RequestStops
  <2>1. CASE UNCHANGED visiting /\ \E r \in Reviewers : reviewing' = [reviewing EXCEPT ![r] = Idle]
    BY <1>14, <2>1, Busy, ReviewerStays DEF RequestStops, Shapes
  <2>2. CASE UNCHANGED reviewing /\ \E g \in Guests : visiting' = [visiting EXCEPT ![g] = Idle]
    BY <1>14, <2>2, Busy, GuestStays DEF RequestStops, Shapes
  <2> QED BY <1>14, <2>1, <2>2 DEF RequestStops
<1>15. CASE UNCHANGED portalVars
  BY <1>15 DEF portalVars, Shapes
<1> QED BY <1>1, <1>2, <1>3, <1>4, <1>5, <1>6, <1>7, <1>8, <1>9, <1>10, <1>11, <1>12, <1>13, <1>14, <1>15
        DEF PortalNext, ReviewerStep, GuestStep

LEMMA PortalTypes == PortalSpec => []Shapes
BY ShapesInit, ShapesNext, PTL DEF PortalSpec
-----------------------------------------------------------------------------
LEMMA OwnInit == PortalInit => OwnLinks
BY DEF PortalInit, OwnLinks, ReviewerAt, Idle, Making, UsableIsListed, NoLink

(* Where no link is made or stored, links keep what is theirs.             *)
LEMMA OwnStays ==
    ASSUME Shapes, OwnLinks, UNCHANGED <<listed, reviewing>>,
           \A l \in Links : link'[l].stored = link[l].stored /\ (link'[l].revoked => link[l].stored)
    PROVE  OwnLinks'
<1>1. \A r \in Reviewers : reviewing[r].at = "put" => reviewing[r].link \in Links
  BY Busy DEF ReviewerAt
<1> QED BY <1>1 DEF OwnLinks, ReviewerAt, UsableIsListed

LEMMA OwnNext == Shapes /\ OwnLinks /\ [PortalNext]_portalVars => OwnLinks'
<1> SUFFICES ASSUME Shapes, OwnLinks, [PortalNext]_portalVars PROVE OwnLinks'
  OBVIOUS
<1> USE DEF unlinked, unvisited
<1>0. /\ reviewing \in [Reviewers -> {Idle} \cup Making]
      /\ \A r \in Reviewers : reviewing[r] \in Making <=> reviewing[r].at \in {"count", "index", "put"}
      /\ \A r \in Reviewers : reviewing[r] \in Making => reviewing[r].link \in Links
  BY Busy DEF Shapes, Making, Idle
<1>1. ASSUME NEW r \in Reviewers, BeginLink(r) PROVE OwnLinks'
  <2>1. PICK l \in Links \ (listed \cup Drawn), allow \in BOOLEAN :
            reviewing' = [reviewing EXCEPT ![r] = [at |-> "count", link |-> l, allow |-> allow, day |-> today,
                                                   until |-> today + Term]]
    BY <1>1 DEF BeginLink
  <2>2. /\ reviewing'[r].at = "count" /\ reviewing'[r].link = l
        /\ \A s \in Reviewers \ {r} : reviewing'[s] = reviewing[s]
    BY <1>0, <2>1
  <2>3. \A s \in Reviewers : reviewing[s] \in Making => reviewing[s].link # l
    BY <1>0, <2>1 DEF Drawn
  <2> QED BY <1>1, <2>1, <2>2, <2>3 DEF BeginLink, OwnLinks, ReviewerAt, UsableIsListed
<1>2. ASSUME NEW r \in Reviewers, CountActive(r) PROVE OwnLinks'
  <2>1. reviewing[r].at = "count" /\ reviewing[r] \in Making
    BY <1>0, <1>2 DEF CountActive, ReviewerAt
  <2>2. /\ reviewing'[r] \in {Idle, [reviewing[r] EXCEPT !.at = "index"]}
        /\ \A s \in Reviewers \ {r} : reviewing'[s] = reviewing[s]
    BY <1>0, <1>2 DEF CountActive
  <2>3. /\ reviewing'[r] = Idle \/ (reviewing'[r].at = "index" /\ reviewing'[r].link = reviewing[r].link)
        /\ \A s \in Reviewers \ {r} : reviewing'[s] = reviewing[s]
    <3>1. LET next == [reviewing[r] EXCEPT !.at = "index"]
          IN  next.at = "index" /\ next.link = reviewing[r].link
      BY <2>1, NextStage
    <3> QED BY <2>2, <3>1
  <2> QED BY <1>2, <2>1, <2>3, Busy DEF CountActive, OwnLinks, ReviewerAt, UsableIsListed
<1>3. ASSUME NEW r \in Reviewers, PutIndex(r) PROVE OwnLinks'
  <2>1. /\ reviewing'[r].at = "put" /\ reviewing'[r].link = reviewing[r].link
        /\ \A s \in Reviewers \ {r} : reviewing'[s] = reviewing[s]
        /\ listed' = listed \cup {reviewing[r].link} /\ link' = link
    BY <1>0, <1>3 DEF PutIndex
  <2>2. reviewing[r].at = "index" /\ reviewing[r] \in Making /\ reviewing[r].link \in Links \ listed
    BY <1>0, <1>3 DEF PutIndex, ReviewerAt, OwnLinks
  <2>3. ~link[reviewing[r].link].stored
    BY <2>2 DEF OwnLinks, UsableIsListed
  <2>4. \A s \in Reviewers \ {r} : reviewing[s] \in Making => reviewing[s].link # reviewing[r].link
    BY <2>2 DEF OwnLinks
  <2> QED BY <1>0, <2>1, <2>2, <2>3, <2>4 DEF OwnLinks, ReviewerAt, UsableIsListed
<1>4. ASSUME NEW r \in Reviewers, PutLink(r) PROVE OwnLinks'
  <2> DEFINE l == reviewing[r].link
  <2>1. /\ reviewing'[r] = Idle
        /\ \A s \in Reviewers \ {r} : reviewing'[s] = reviewing[s]
        /\ listed' = listed
    BY <1>0, <1>4 DEF PutLink
  <2>2. reviewing[r].at = "put" /\ reviewing[r] \in Making /\ l \in Links /\ l \in listed
    BY <1>0, <1>4 DEF PutLink, ReviewerAt, OwnLinks
  <2>3. \A s \in Reviewers \ {r} : reviewing[s] \in Making => reviewing[s].link # l
    BY <2>2 DEF OwnLinks
  <2>4. \A k \in Links \ {l} : link'[k] = link[k]
    BY <1>4, <2>2 DEF PutLink, Shapes
  <2>5. link'[l].stored
    <3>1. link'[l] = [NoLink EXCEPT !.stored = TRUE, !.allowUpload = reviewing[r].allow, !.until = reviewing[r].until]
      BY <1>4, <2>2 DEF PutLink, Shapes
    <3> QED BY <3>1 DEF NoLink
  <2> HIDE DEF l
  <2> QED BY <1>0, <2>1, <2>2, <2>3, <2>4, <2>5, Busy DEF OwnLinks, ReviewerAt, UsableIsListed
<1>5. ASSUME NEW r \in Reviewers, Revoke(r) PROVE OwnLinks'
  <2>1. \A l \in Links : link'[l].stored = link[l].stored /\ (link'[l].revoked => link[l].stored)
    BY <1>5 DEF Revoke, Shapes, AtLinks, OwnLinks
  <2> QED BY <1>5, <2>1, OwnStays DEF Revoke
<1>6. ASSUME NEW g \in Guests, CountVisit(g) PROVE OwnLinks'
  <2> DEFINE l == visiting[g].link
             what == visiting[g].what
  <2>1. l \in Links /\ what \in {"opens", "uploads"}
    BY <1>6, Busy DEF CountVisit, GuestAt
  <2>2. link' = link \/ link' = [link EXCEPT ![l][what] = @ + 1]
    BY <1>6 DEF CountVisit
  <2>3. /\ \A k \in Links \ {l} : link'[k] = link[k]
        /\ link'[l] = link[l] \/ link'[l] = [link[l] EXCEPT ![what] = link[l][what] + 1]
    BY <2>1, <2>2 DEF Shapes
  <2>4. [link[l] EXCEPT ![what] = link[l][what] + 1].stored = link[l].stored
    BY <2>1 DEF Shapes, AtLinks
  <2>5. [link[l] EXCEPT ![what] = link[l][what] + 1].revoked = link[l].revoked
    BY <2>1 DEF Shapes, AtLinks
  <2>6. \A k \in Links : link'[k].stored = link[k].stored /\ link'[k].revoked = link[k].revoked
    BY <2>3, <2>4, <2>5
  <2> QED BY <1>6, <2>6, OwnStays DEF CountVisit, OwnLinks
<1>7. ASSUME NEW g \in Guests, FirstToday(g) PROVE OwnLinks'
  <2>1. \A k \in Links : link'[k].stored = link[k].stored /\ link'[k].revoked = link[k].revoked
    BY <1>7 DEF FirstToday, Shapes, AtLinks
  <2> QED BY <1>7, <2>1, OwnStays DEF FirstToday, OwnLinks
<1>8. ASSUME NEW g \in Guests, Arrive(g) \/ Resolve(g) \/ SeeContract(g) \/ LogOpened(g) PROVE OwnLinks'
  <2>1. UNCHANGED <<listed, reviewing, link>>
    BY <1>8 DEF Arrive, Resolve, SeeContract, LogOpened
  <2> QED BY <2>1, OwnStays DEF OwnLinks
<1>9. CASE DayPasses \/ MoveContract \/ UNCHANGED portalVars
  <2>1. UNCHANGED <<listed, reviewing, link>>
    BY <1>9 DEF DayPasses, MoveContract, portalVars
  <2> QED BY <2>1, OwnStays DEF OwnLinks
<1>10. CASE RequestStops
  <2>1. UNCHANGED <<listed, link>>
    BY <1>10 DEF RequestStops
  <2>2. \A s \in Reviewers : reviewing'[s] = reviewing[s] \/ reviewing'[s] = Idle
    BY <1>0, <1>10 DEF RequestStops
  <2> QED BY <1>0, <2>1, <2>2, Busy DEF OwnLinks, ReviewerAt, UsableIsListed
<1> QED BY <1>1, <1>2, <1>3, <1>4, <1>5, <1>6, <1>7, <1>8, <1>9, <1>10 DEF PortalNext, ReviewerStep, GuestStep
-----------------------------------------------------------------------------
(* The active links, with those that will be stored without being counted  *)
(* again.                                                                  *)
Active  == {l \in Links : ActiveAt(l, today)}
Counted == {r \in Reviewers : reviewing[r].at \in {"index", "put"}}

Bounded == Cardinality(Active) + Cardinality(Counted) < MAX_ACTIVE_LINKS + Cardinality(Reviewers)

LEMMA FiniteParts == /\ IsFiniteSet(Active) /\ Cardinality(Active) \in Nat
                     /\ IsFiniteSet(Counted) /\ Cardinality(Counted) \in Nat
                     /\ Cardinality(Reviewers) \in Nat /\ MAX_ACTIVE_LINKS \in Nat \ {0}
BY PortalBounds, FS_Subset, FS_CardinalityType DEF Active, Counted

LEMMA BoundedInit == PortalInit => Bounded
<1> SUFFICES ASSUME PortalInit PROVE Bounded
  OBVIOUS
<1>1. Active = {} /\ Counted = {}
  BY DEF PortalInit, Active, Counted, ActiveAt, NoLink, Idle
<1>2. Cardinality({}) = 0
  BY FS_EmptySet
<1> QED BY <1>1, <1>2, FiniteParts DEF Bounded

(* No link becomes active and no request gets past the count.              *)
LEMMA BoundedStays ==
    ASSUME Bounded, Active' \subseteq Active, Counted' \subseteq Counted
    PROVE  Bounded'
<1>1. /\ IsFiniteSet(Active') /\ Cardinality(Active') <= Cardinality(Active) /\ Cardinality(Active') \in Nat
      /\ IsFiniteSet(Counted') /\ Cardinality(Counted') <= Cardinality(Counted) /\ Cardinality(Counted') \in Nat
  BY FiniteParts, FS_Subset, FS_CardinalityType
<1> QED BY <1>1, FiniteParts DEF Bounded

(* The days go on, and a link that is stored keeps its date.               *)
LEMMA FewerActive ==
    ASSUME Shapes, Shapes', today <= today',
           \A l \in Links : (/\ link'[l].stored => link[l].stored
                             /\ link[l].revoked => link'[l].revoked
                             /\ link'[l].until = link[l].until)
    PROVE  Active' \subseteq Active
<1>1. \A l \in Links : link[l].until \in Nat /\ link[l].revoked \in BOOLEAN /\ link[l].stored \in BOOLEAN
  BY DEF Shapes, AtLinks
<1>2. today \in Nat /\ today' \in Nat
  BY PortalBounds DEF Shapes
<1>3. ASSUME NEW l \in Links, ActiveAt(l, today)' PROVE ActiveAt(l, today)
  <2>1. link'[l].stored /\ ~link'[l].revoked /\ today' < link'[l].until
    BY <1>3 DEF ActiveAt
  <2>2. link[l].stored /\ ~link[l].revoked /\ today' < link[l].until
    BY <2>1
  <2>3. today < link[l].until
    BY <1>1, <1>2, <2>2
  <2> QED BY <2>2, <2>3 DEF ActiveAt
<1> QED BY <1>3 DEF Active

LEMMA BoundedNext == Shapes /\ Shapes' /\ OwnLinks /\ Bounded /\ [PortalNext]_portalVars => Bounded'
<1> SUFFICES ASSUME Shapes, Shapes', OwnLinks, Bounded, [PortalNext]_portalVars PROVE Bounded'
  OBVIOUS
<1> USE DEF unlinked, unvisited
<1>0. /\ reviewing \in [Reviewers -> {Idle} \cup Making] /\ Idle.at = "idle"
      /\ today \in Nat /\ today <= today
  BY Busy, PortalBounds DEF Shapes
<1>1. ASSUME NEW r \in Reviewers, BeginLink(r) PROVE Bounded'
  <2>1. Active' = Active
    BY <1>1 DEF BeginLink, Active, ActiveAt
  <2>2. Counted' \subseteq Counted
    BY <1>0, <1>1 DEF BeginLink, Counted
  <2> QED BY <2>1, <2>2, BoundedStays
<1>2. ASSUME NEW r \in Reviewers, CountActive(r) PROVE Bounded'
  <2> DEFINE full == Cardinality({l \in listed : ActiveAt(l, reviewing[r].day)}) >= MAX_ACTIVE_LINKS
  <2>1. Active' = Active
    BY <1>2 DEF CountActive, Active, ActiveAt
  <2>2. CASE full
    <3>1. reviewing' = [reviewing EXCEPT ![r] = Idle]
      BY <1>2, <2>2 DEF CountActive
    <3> QED BY <1>0, <2>1, <3>1, BoundedStays DEF Counted
  <2>3. CASE ~full
    <3> DEFINE S == {l \in listed : ActiveAt(l, reviewing[r].day)}
    <3>1. reviewing[r] \in Making /\ reviewing[r].day \in Nat /\ reviewing[r].day <= today
      BY <1>2, Busy DEF CountActive, ReviewerAt, Shapes
    <3>2. \A l \in Links : link[l].until \in Nat /\ (link[l].stored => l \in listed)
      BY DEF Shapes, AtLinks, OwnLinks, UsableIsListed
    <3>3. Active \subseteq S
      BY <1>0, <3>1, <3>2 DEF Active, ActiveAt
    <3>4. IsFiniteSet(S) /\ Cardinality(S) \in Nat
      BY PortalBounds, FS_Subset, FS_CardinalityType DEF Shapes
    <3>5. Cardinality(S) < MAX_ACTIVE_LINKS
      BY <2>3, <3>4, FiniteParts
    <3>6. Cardinality(Active) <= Cardinality(S)
      BY <3>3, <3>4, FS_Subset
    <3>7. Cardinality(Counted') <= Cardinality(Reviewers) /\ Cardinality(Counted') \in Nat
      BY PortalBounds, FS_Subset, FS_CardinalityType DEF Counted
    <3> HIDE DEF S
    <3> QED BY <2>1, <3>4, <3>5, <3>6, <3>7, FiniteParts DEF Bounded
  <2> QED BY <2>2, <2>3
<1>3. ASSUME NEW r \in Reviewers, PutIndex(r) PROVE Bounded'
  <2>1. Active' = Active
    BY <1>3 DEF PutIndex, Active, ActiveAt
  <2>2. Counted' \subseteq Counted
    BY <1>0, <1>3 DEF PutIndex, ReviewerAt, Counted
  <2> QED BY <2>1, <2>2, BoundedStays
<1>4. ASSUME NEW r \in Reviewers, PutLink(r) PROVE Bounded'
  <2> DEFINE l == reviewing[r].link
  <2>1. Counted' = Counted \ {r} /\ r \in Counted
    BY <1>0, <1>4 DEF PutLink, ReviewerAt, Counted
  <2>2. Cardinality(Counted') = Cardinality(Counted) - 1
    BY <2>1, FiniteParts, FS_RemoveElement
  <2>3. l \in Links
    BY <1>4, Busy DEF PutLink, ReviewerAt
  <2>4. \A k \in Links \ {l} : link'[k] = link[k]
    BY <1>4, <2>3 DEF PutLink, Shapes
  <2>5. Active' \subseteq Active \cup {l}
    BY <1>4, <2>4 DEF PutLink, Active, ActiveAt
  <2>6. /\ IsFiniteSet(Active \cup {l}) /\ Cardinality(Active \cup {l}) \in Nat
        /\ Cardinality(Active \cup {l}) <= Cardinality(Active) + 1
    <3>1. /\ IsFiniteSet(Active \cup {l})
          /\ Cardinality(Active \cup {l}) = IF l \in Active THEN Cardinality(Active) ELSE Cardinality(Active) + 1
      BY FiniteParts, FS_AddElement
    <3>2. Cardinality(Active) \in Nat
      BY FiniteParts
    <3> QED BY <3>1, <3>2
  <2>7. Cardinality(Active') <= Cardinality(Active \cup {l}) /\ Cardinality(Active') \in Nat
    BY <2>5, <2>6, FS_Subset, FS_CardinalityType
  <2> HIDE DEF l
  <2> QED BY <2>2, <2>6, <2>7, FiniteParts DEF Bounded
<1>5. ASSUME NEW r \in Reviewers, Revoke(r) PROVE Bounded'
  <2>1. \A k \in Links : /\ link'[k].stored => link[k].stored
                         /\ link[k].revoked => link'[k].revoked
                         /\ link'[k].until = link[k].until
    BY <1>5 DEF Revoke, Shapes, AtLinks
  <2>2. Counted' = Counted
    BY <1>5 DEF Revoke, Counted
  <2>3. today <= today'
    BY <1>0, <1>5 DEF Revoke
  <2> QED BY <2>1, <2>2, <2>3, FewerActive, BoundedStays
<1>6. ASSUME NEW g \in Guests, GuestStep(g) PROVE Bounded'
  <2>1. reviewing' = reviewing /\ today' = today
    BY <1>6 DEF GuestStep, Arrive, Resolve, SeeContract, CountVisit, FirstToday, LogOpened
  <2>2. \A k \in Links : /\ link'[k].stored = link[k].stored
                         /\ link'[k].revoked = link[k].revoked
                         /\ link'[k].until = link[k].until
    <3>1. CASE CountVisit(g)
      <4> DEFINE l == visiting[g].link
                 what == visiting[g].what
      <4>1. l \in Links /\ what \in {"opens", "uploads"}
        BY <3>1, Busy DEF CountVisit, GuestAt
      <4>2. /\ \A k \in Links \ {l} : link'[k] = link[k]
            /\ link'[l] = link[l] \/ link'[l] = [link[l] EXCEPT ![what] = link[l][what] + 1]
        BY <3>1, <4>1 DEF CountVisit, Shapes
      <4>3. link[l] \in AtLinks
        BY <4>1 DEF Shapes
      <4> QED BY <4>1, <4>2, <4>3 DEF AtLinks
    <3>2. CASE FirstToday(g)
      BY <3>2 DEF FirstToday, Shapes, AtLinks
    <3>3. CASE ~CountVisit(g) /\ ~FirstToday(g)
      BY <1>6, <3>3 DEF GuestStep, Arrive, Resolve, SeeContract, LogOpened
    <3> QED BY <3>1, <3>2, <3>3
  <2> QED BY <1>0, <2>1, <2>2, FewerActive, BoundedStays DEF Counted
<1>7. CASE DayPasses
  <2>1. UNCHANGED <<link, reviewing>> /\ today <= today'
    BY <1>0, <1>7 DEF DayPasses
  <2> QED BY <2>1, FewerActive, BoundedStays DEF Counted
<1>8. CASE MoveContract \/ UNCHANGED portalVars
  <2>1. UNCHANGED <<link, reviewing, today>>
    BY <1>8 DEF MoveContract, portalVars
  <2> QED BY <1>0, <2>1, FewerActive, BoundedStays DEF Counted
<1>9. CASE RequestStops
  <2>1. Active' = Active
    BY <1>9 DEF RequestStops, Active, ActiveAt
  <2>2. Counted' \subseteq Counted
    BY <1>0, <1>9 DEF RequestStops, Counted
  <2> QED BY <2>1, <2>2, BoundedStays
<1> QED BY <1>1, <1>2, <1>3, <1>4, <1>5, <1>6, <1>7, <1>8, <1>9 DEF PortalNext, ReviewerStep
-----------------------------------------------------------------------------
(* A link is opened and used for uploads within its limits.                *)
LEMMA LimitsNext == Shapes /\ WithinLimits /\ [PortalNext]_portalVars => WithinLimits'
<1> SUFFICES ASSUME Shapes, WithinLimits, [PortalNext]_portalVars PROVE WithinLimits'
  OBVIOUS
<1> USE DEF unlinked, unvisited
<1>0. MAX_OPENS \in Nat \ {0} /\ MAX_UPLOADS \in Nat \ {0}
  BY PortalBounds
<1>1. ASSUME NEW r \in Reviewers, PutLink(r) PROVE WithinLimits'
  <2>1. \A k \in Links : link'[k] = link[k] \/ (link'[k].opens = 0 /\ link'[k].uploads = 0)
    BY <1>1 DEF PutLink, Shapes, NoLink
  <2> QED BY <1>0, <2>1 DEF WithinLimits
<1>2. ASSUME NEW r \in Reviewers, Revoke(r) PROVE WithinLimits'
  <2>1. \A k \in Links : link'[k].opens = link[k].opens /\ link'[k].uploads = link[k].uploads
    BY <1>2 DEF Revoke, Shapes, AtLinks
  <2> QED BY <2>1 DEF WithinLimits
<1>3. ASSUME NEW g \in Guests, CountVisit(g) PROVE WithinLimits'
  <2> DEFINE l == visiting[g].link
             what == visiting[g].what
  <2>1. l \in Links /\ what \in {"opens", "uploads"} /\ link[l] \in AtLinks
    BY <1>3, Busy DEF CountVisit, GuestAt, Shapes
  <2>2. CASE ~MayCountVisit(l, what)
    BY <1>3, <2>2 DEF CountVisit, WithinLimits
  <2>3. CASE MayCountVisit(l, what)
    <3>1. link' = [link EXCEPT ![l] = [link[l] EXCEPT ![what] = link[l][what] + 1]]
      BY <1>3, <2>1, <2>3 DEF CountVisit, Shapes
    <3>2. CASE what = "opens"
      <4>1. link'[l].opens = link[l].opens + 1 /\ link'[l].uploads = link[l].uploads
        BY <2>1, <3>1, <3>2 DEF Shapes, AtLinks
      <4>2. link[l].opens < MAX_OPENS /\ link[l].opens \in Nat
        BY <2>1, <2>3, <3>2 DEF MayCountVisit, AtLinks
      <4> QED BY <1>0, <3>1, <4>1, <4>2, <2>1 DEF WithinLimits, Shapes
    <3>3. CASE what = "uploads"
      <4>1. link'[l].uploads = link[l].uploads + 1 /\ link'[l].opens = link[l].opens
        BY <2>1, <3>1, <3>3 DEF Shapes, AtLinks
      <4>2. link[l].uploads < MAX_UPLOADS /\ link[l].uploads \in Nat
        BY <2>1, <2>3, <3>3 DEF MayCountVisit, AtLinks
      <4> QED BY <1>0, <3>1, <4>1, <4>2, <2>1 DEF WithinLimits, Shapes
    <3> QED BY <2>1, <3>2, <3>3
  <2> QED BY <2>2, <2>3
<1>4. ASSUME NEW g \in Guests, FirstToday(g) PROVE WithinLimits'
  <2>1. \A k \in Links : link'[k].opens = link[k].opens /\ link'[k].uploads = link[k].uploads
    BY <1>4 DEF FirstToday, Shapes, AtLinks
  <2> QED BY <2>1 DEF WithinLimits
<1>5. CASE UNCHANGED link
  BY <1>5 DEF WithinLimits
<1> QED BY <1>1, <1>2, <1>3, <1>4, <1>5
        DEF PortalNext, ReviewerStep, GuestStep, BeginLink, CountActive, PutIndex, Arrive, Resolve, SeeContract,
            LogOpened, DayPasses, MoveContract, RequestStops, portalVars
-----------------------------------------------------------------------------
(* What has been opened today, or is about to be noted, where no day ends  *)
(* in the middle of a view.                                                *)
OnceADay ==
    /\ \A g \in Guests : visiting[g] \in Visits =>
          /\ visiting[g].day = today
          /\ visiting[g].at # "resolve" => link[visiting[g].link].stored
          /\ visiting[g].at = "log" =>
                /\ link[visiting[g].link].lastOpenedDay = today
                /\ openings[visiting[g].link][today] = 0
                /\ \A h \in Guests \ {g} : visiting[h] \in Visits /\ visiting[h].at = "log" =>
                                             visiting[h].link # visiting[g].link
    /\ \A l \in Links :
          /\ link[l].lastOpenedDay <= today \/ link[l].lastOpenedDay = LastDay + 1
          /\ \A d \in 0 .. LastDay :
                /\ openings[l][d] <= 1
                /\ d >= today /\ link[l].lastOpenedDay # d => openings[l][d] = 0
                /\ ~link[l].stored => openings[l][d] = 0

LEMMA OnceInit == PortalInit => OnceADay
<1> SUFFICES ASSUME PortalInit PROVE OnceADay
  OBVIOUS
<1>1. \A g \in Guests : visiting[g] \notin Visits
  BY DEF PortalInit, Idle, Visits
<1>2. \A l \in Links : link[l].lastOpenedDay = LastDay + 1 /\ \A d \in 0 .. LastDay : openings[l][d] = 0
  BY DEF PortalInit, NoLink
<1> QED BY <1>1, <1>2 DEF OnceADay

(* A guest takes a step that notes nothing.                                *)
LEMMA OnceStays ==
    ASSUME Shapes, OnceADay, NEW g \in Guests, NEW v \in {Idle} \cup Visits,
           visiting' = [visiting EXCEPT ![g] = v],
           v \in Visits => v.day = today /\ v.at # "log" /\ (v.at # "resolve" => link[v.link].stored),
           \A l \in Links : link'[l].stored = link[l].stored /\ link'[l].lastOpenedDay = link[l].lastOpenedDay,
           UNCHANGED <<today, openings>>
    PROVE  OnceADay'
<1>1. visiting'[g] = v /\ \A h \in Guests \ {g} : visiting'[h] = visiting[h]
  BY DEF Shapes
<1>2. \A h \in Guests : visiting[h] \in Visits => visiting[h].link \in Links
  BY Busy
<1>3. v \in Visits => v.link \in Links
  BY Busy
<1>4. ASSUME NEW h \in Guests, visiting'[h] \in Visits
      PROVE  /\ visiting'[h].day = today
             /\ visiting'[h].at # "resolve" => link'[visiting'[h].link].stored
             /\ visiting'[h].at = "log" =>
                   /\ link'[visiting'[h].link].lastOpenedDay = today
                   /\ openings[visiting'[h].link][today] = 0
                   /\ \A k \in Guests \ {h} : visiting'[k] \in Visits /\ visiting'[k].at = "log" =>
                                                visiting'[k].link # visiting'[h].link
  <2>1. CASE h = g
    BY <1>1, <1>3, <1>4, <2>1
  <2>2. CASE h # g
    BY <1>1, <1>2, <1>4, <2>2 DEF OnceADay
  <2> QED BY <2>1, <2>2
<1>5. \A l \in Links :
          /\ link'[l].lastOpenedDay <= today \/ link'[l].lastOpenedDay = LastDay + 1
          /\ \A d \in 0 .. LastDay :
                /\ openings[l][d] <= 1
                /\ d >= today /\ link'[l].lastOpenedDay # d => openings[l][d] = 0
                /\ ~link'[l].stored => openings[l][d] = 0
  BY DEF OnceADay
<1> QED BY <1>4, <1>5 DEF OnceADay

(* Nothing of it changes.                                                  *)
LEMMA OnceSame ==
    ASSUME Shapes, OnceADay, UNCHANGED <<today, openings, visiting>>,
           \A l \in Links : link'[l].stored = link[l].stored /\ link'[l].lastOpenedDay = link[l].lastOpenedDay
    PROVE  OnceADay'
<1>1. \A h \in Guests : visiting[h] \in Visits => visiting[h].link \in Links
  BY Busy
<1> QED BY <1>1 DEF OnceADay

LEMMA OncePutLink ==
    ASSUME Shapes, OwnLinks, OnceADay, NEW r \in Reviewers, PutLink(r)
    PROVE  OnceADay'
<1> DEFINE l == reviewing[r].link
<1>1. l \in Links /\ ~link[l].stored
  BY Busy DEF PutLink, ReviewerAt, OwnLinks
<1>2. \A k \in Links \ {l} : link'[k] = link[k]
  BY <1>1 DEF PutLink, Shapes
<1>3. link'[l].stored /\ link'[l].lastOpenedDay = LastDay + 1
  BY <1>1 DEF PutLink, Shapes, NoLink
<1>4. UNCHANGED <<today, openings, visiting>>
  BY DEF PutLink
<1>5. \A g \in Guests : visiting[g] \in Visits /\ visiting[g].at # "resolve" => visiting[g].link \in Links \ {l}
  BY <1>1, Busy DEF OnceADay
<1>6. \A d \in 0 .. LastDay : openings[l][d] = 0
  BY <1>1 DEF OnceADay
<1> HIDE DEF l
<1> QED BY <1>2, <1>3, <1>4, <1>5, <1>6 DEF OnceADay

LEMMA OnceFirst ==
    ASSUME Shapes, OnceADay, NEW g \in Guests, FirstToday(g)
    PROVE  OnceADay'
<1> USE DEF unvisited
<1> DEFINE l == visiting[g].link
<1>1. visiting[g] \in Visits /\ l \in Links /\ visiting[g].day = today /\ link[l].stored
  BY Busy DEF FirstToday, GuestAt, OnceADay
<1>2. /\ \A k \in Links \ {l} : link'[k] = link[k]
      /\ link'[l] = [link[l] EXCEPT !.lastOpenedDay = today]
  BY <1>1 DEF FirstToday, Shapes
<1>3. link[l] \in AtLinks /\ today \in 0 .. LastDay
  BY <1>1 DEF Shapes
<1>4. link'[l].stored = link[l].stored /\ link'[l].lastOpenedDay = today
  BY <1>2, <1>3 DEF AtLinks
<1>5. UNCHANGED <<today, openings>>
  BY DEF FirstToday
<1>6. CASE ~NotYetOpened(l, today)
  <2>1. visiting' = [visiting EXCEPT ![g] = Idle] /\ link[l].lastOpenedDay = today
    BY <1>1, <1>6 DEF FirstToday, NotYetOpened
  <2> QED BY <1>2, <1>4, <1>5, <2>1, OnceStays, Busy
<1>7. CASE NotYetOpened(l, today)
  <2> DEFINE v == [visiting[g] EXCEPT !.at = "log"]
  <2>1. visiting'[g] = v /\ \A h \in Guests \ {g} : visiting'[h] = visiting[h]
    BY <1>1, <1>7 DEF FirstToday, Shapes
  <2>2. v.at = "log" /\ v.link = l /\ v.day = today
    BY <1>1 DEF Visits
  <2>3. link[l].lastOpenedDay # today /\ openings[l][today] = 0
    BY <1>1, <1>3, <1>7 DEF NotYetOpened, OnceADay
  <2>4. \A h \in Guests \ {g} : visiting[h] \in Visits /\ visiting[h].at = "log" => visiting[h].link \in Links \ {l}
    BY <2>3, Busy DEF OnceADay
  <2>5. \A h \in Guests : visiting[h] \in Visits => visiting[h].link \in Links
    BY Busy
  <2> HIDE DEF v, l
  <2>6. ASSUME NEW h \in Guests, visiting'[h] \in Visits
        PROVE  /\ visiting'[h].day = today
               /\ visiting'[h].at # "resolve" => link'[visiting'[h].link].stored
               /\ visiting'[h].at = "log" =>
                     /\ link'[visiting'[h].link].lastOpenedDay = today
                     /\ openings[visiting'[h].link][today] = 0
                     /\ \A k \in Guests \ {h} : visiting'[k] \in Visits /\ visiting'[k].at = "log" =>
                                                  visiting'[k].link # visiting'[h].link
    <3>1. CASE h = g
      BY <1>1, <1>4, <2>1, <2>2, <2>3, <2>4, <3>1
    <3>2. CASE h # g
      <4>1. visiting'[h] = visiting[h] /\ visiting[h] \in Visits
        BY <2>1, <2>6, <3>2
      <4>2. visiting[h].day = today /\ (visiting[h].at # "resolve" => link'[visiting[h].link].stored)
        BY <1>1, <1>2, <1>4, <2>5, <4>1 DEF OnceADay
      <4>3. ASSUME visiting[h].at = "log"
            PROVE  /\ link'[visiting[h].link].lastOpenedDay = today
                   /\ openings[visiting[h].link][today] = 0
                   /\ \A k \in Guests \ {h} : visiting'[k] \in Visits /\ visiting'[k].at = "log" =>
                                                visiting'[k].link # visiting[h].link
        <5>1. visiting[h].link \in Links \ {l}
          BY <2>4, <3>2, <4>1, <4>3
        <5>2. link'[visiting[h].link] = link[visiting[h].link]
          BY <1>2, <5>1
        <5> QED BY <2>1, <2>2, <4>1, <4>3, <5>1, <5>2 DEF OnceADay
      <4> QED BY <4>1, <4>2, <4>3
    <3> QED BY <3>1, <3>2
  <2>7. ASSUME NEW k \in Links
        PROVE  /\ link'[k].lastOpenedDay <= today \/ link'[k].lastOpenedDay = LastDay + 1
               /\ \A d \in 0 .. LastDay :
                     /\ openings[k][d] <= 1
                     /\ d >= today /\ link'[k].lastOpenedDay # d => openings[k][d] = 0
                     /\ ~link'[k].stored => openings[k][d] = 0
    <3>1. CASE k # l
      BY <1>2, <3>1 DEF OnceADay
    <3>2. CASE k = l
      <4>1. \A d \in 0 .. LastDay : d >= today => openings[l][d] = 0
        <5> SUFFICES ASSUME NEW d \in 0 .. LastDay, d >= today PROVE openings[l][d] = 0
          OBVIOUS
        <5>1. CASE link[l].lastOpenedDay = d
          BY <1>1, <1>3, <2>3, <5>1, PortalBounds DEF OnceADay
        <5>2. CASE link[l].lastOpenedDay # d
          BY <1>1, <5>2 DEF OnceADay
        <5> QED BY <5>1, <5>2
      <4>2. today <= today
        BY <1>3, PortalBounds
      <4> QED BY <1>1, <1>4, <3>2, <4>1, <4>2 DEF OnceADay
    <3> QED BY <3>1, <3>2
  <2> QED BY <1>5, <2>6, <2>7 DEF OnceADay
<1> QED BY <1>6, <1>7

(* One more entry, on a day that had none.                                 *)
LEMMA FirstEntry ==
    ASSUME NEW f \in [0 .. LastDay -> Nat], NEW d \in 0 .. LastDay, f[d] = 0
    PROVE  LET days == [f EXCEPT ![d] = f[d] + 1]
           IN  days[d] = 1 /\ \A e \in (0 .. LastDay) \ {d} : days[e] = f[e]
<1>1. [f EXCEPT ![d] = f[d] + 1][d] = f[d] + 1
  OBVIOUS
<1>2. \A e \in (0 .. LastDay) \ {d} : [f EXCEPT ![d] = f[d] + 1][e] = f[e]
  OBVIOUS
<1> QED BY <1>1, <1>2

LEMMA OnceLogged ==
    ASSUME Shapes, OnceADay, NEW g \in Guests, LogOpened(g)
    PROVE  OnceADay'
<1> USE DEF unvisited
<1> DEFINE l == visiting[g].link
<1>1. /\ visiting[g] \in Visits /\ l \in Links /\ visiting[g].day = today /\ link[l].stored
      /\ link[l].lastOpenedDay = today /\ openings[l][today] = 0 /\ today \in 0 .. LastDay
  BY Busy DEF LogOpened, GuestAt, OnceADay, Shapes
<1>2. /\ visiting'[g] = Idle /\ \A h \in Guests \ {g} : visiting'[h] = visiting[h]
      /\ UNCHANGED <<link, today>>
  BY DEF LogOpened, Shapes
<1>3. openings' = [openings EXCEPT ![l] = [openings[l] EXCEPT ![today] = openings[l][today] + 1]]
  BY <1>1 DEF LogOpened, Shapes
<1>4. openings[l] \in [0 .. LastDay -> Nat]
  BY <1>1 DEF Shapes
<1>5. /\ \A k \in Links \ {l} : openings'[k] = openings[k]
      /\ openings'[l][today] = 1
      /\ \A d \in (0 .. LastDay) \ {today} : openings'[l][d] = openings[l][d]
  <2> DEFINE days == [openings[l] EXCEPT ![today] = openings[l][today] + 1]
  <2>1. days[today] = 1 /\ \A d \in (0 .. LastDay) \ {today} : days[d] = openings[l][d]
    BY <1>1, <1>4, FirstEntry
  <2> HIDE DEF days
  <2>2. openings' = [openings EXCEPT ![l] = days] /\ openings \in [Links -> [0 .. LastDay -> Nat]] /\ l \in Links
    BY <1>1, <1>3 DEF Shapes, days
  <2> HIDE DEF l
  <2>3. openings'[l] = days /\ \A k \in Links \ {l} : openings'[k] = openings[k]
    BY <2>2
  <2> QED BY <2>1, <2>3
<1>6. \A h \in Guests : visiting[h] \in Visits => visiting[h].link \in Links
  BY Busy
<1>7. \A h \in Guests \ {g} : visiting[h] \in Visits /\ visiting[h].at = "log" => visiting[h].link \in Links \ {l}
  <2>1. visiting[g].at = "log"
    BY DEF LogOpened, GuestAt
  <2> QED BY <1>1, <1>6, <2>1 DEF OnceADay
<1>8. Idle \notin Visits
  BY Busy
<1> HIDE DEF l
<1>9. ASSUME NEW h \in Guests, visiting'[h] \in Visits
      PROVE  /\ visiting'[h].day = today
             /\ visiting'[h].at # "resolve" => link[visiting'[h].link].stored
             /\ visiting'[h].at = "log" =>
                   /\ link[visiting'[h].link].lastOpenedDay = today
                   /\ openings'[visiting'[h].link][today] = 0
                   /\ \A k \in Guests \ {h} : visiting'[k] \in Visits /\ visiting'[k].at = "log" =>
                                                visiting'[k].link # visiting'[h].link
  <2>1. h # g /\ visiting'[h] = visiting[h] /\ visiting[h] \in Visits
    BY <1>2, <1>8, <1>9
  <2>2. \A k \in Guests : visiting'[k] \in Visits => k # g /\ visiting'[k] = visiting[k]
    BY <1>2, <1>8
  <2>3. visiting[h].at = "log" => openings'[visiting[h].link] = openings[visiting[h].link]
    BY <1>5, <1>7, <2>1
  <2> QED BY <2>1, <2>2, <2>3 DEF OnceADay
<1>10. ASSUME NEW k \in Links
       PROVE  /\ link[k].lastOpenedDay <= today \/ link[k].lastOpenedDay = LastDay + 1
              /\ \A d \in 0 .. LastDay :
                    /\ openings'[k][d] <= 1
                    /\ d >= today /\ link[k].lastOpenedDay # d => openings'[k][d] = 0
                    /\ ~link[k].stored => openings'[k][d] = 0
  <2>1. CASE k # l
    BY <1>5, <2>1 DEF OnceADay
  <2>2. CASE k = l
    BY <1>1, <1>5, <2>2 DEF OnceADay
  <2> QED BY <2>1, <2>2
<1> QED BY <1>2, <1>9, <1>10 DEF OnceADay

LEMMA OnceDay ==
    ASSUME ~Midnight, Shapes, Shapes', OnceADay, DayPasses
    PROVE  OnceADay'
<1>1. \A g \in Guests : visiting[g] \notin Visits
  BY Busy DEF DayPasses, GuestAt
<1>2. UNCHANGED <<link, visiting, openings>> /\ today' = today + 1 /\ today' \in 0 .. LastDay
  BY DEF DayPasses, Shapes
<1>3. ASSUME NEW l \in Links
      PROVE  /\ link[l].lastOpenedDay <= today' \/ link[l].lastOpenedDay = LastDay + 1
             /\ \A d \in 0 .. LastDay :
                   /\ openings[l][d] <= 1
                   /\ d >= today' /\ link[l].lastOpenedDay # d => openings[l][d] = 0
                   /\ ~link[l].stored => openings[l][d] = 0
  <2>1. link[l].lastOpenedDay \in 0 .. LastDay + 1 /\ today \in 0 .. LastDay
    BY DEF Shapes, AtLinks
  <2>2. \A d \in 0 .. LastDay : d >= today' => d >= today
    BY <1>2, <2>1, PortalBounds
  <2>3. link[l].lastOpenedDay <= today => link[l].lastOpenedDay <= today'
    BY <1>2, <2>1, PortalBounds
  <2> QED BY <2>2, <2>3 DEF OnceADay
<1> QED BY <1>1, <1>2, <1>3 DEF OnceADay

LEMMA OnceNext ==
    ASSUME ~Midnight
    PROVE  Shapes /\ Shapes' /\ OwnLinks /\ OnceADay /\ [PortalNext]_portalVars => OnceADay'
<1> SUFFICES ASSUME Shapes, Shapes', OwnLinks, OnceADay, [PortalNext]_portalVars PROVE OnceADay'
  OBVIOUS
<1> USE DEF unlinked, unvisited
<1>1. ASSUME NEW r \in Reviewers, BeginLink(r) \/ CountActive(r) \/ PutIndex(r) PROVE OnceADay'
  <2>1. UNCHANGED <<today, openings, visiting, link>>
    BY <1>1 DEF BeginLink, CountActive, PutIndex
  <2> QED BY <2>1, OnceSame
<1>2. ASSUME NEW r \in Reviewers, Revoke(r) PROVE OnceADay'
  <2>1. \A k \in Links : link'[k].stored = link[k].stored /\ link'[k].lastOpenedDay = link[k].lastOpenedDay
    BY <1>2 DEF Revoke, Shapes, AtLinks
  <2> QED BY <1>2, <2>1, OnceSame DEF Revoke
<1>3. ASSUME NEW g \in Guests, Arrive(g) PROVE OnceADay'
  <2>1. PICK l \in Links, what \in {"opens", "uploads"} :
            visiting' = [visiting EXCEPT ![g] = [at |-> "resolve", link |-> l, what |-> what, day |-> today]]
    BY <1>3 DEF Arrive
  <2>2. [at |-> "resolve", link |-> l, what |-> what, day |-> today] \in Visits
    BY DEF Visits, Shapes
  <2>3. UNCHANGED <<link, today, openings>>
    BY <1>3 DEF Arrive
  <2> QED BY <2>1, <2>2, <2>3, OnceStays
<1>4. ASSUME NEW g \in Guests, Resolve(g) PROVE OnceADay'
  <2> DEFINE v == [visiting[g] EXCEPT !.at = "contract"]
  <2>1. visiting[g] \in Visits /\ visiting[g].day = today
    BY <1>4, Busy DEF Resolve, GuestAt, OnceADay
  <2>2. v \in Visits /\ v.day = today /\ v.at = "contract" /\ v.link = visiting[g].link
    BY <2>1 DEF Visits
  <2>3. UNCHANGED <<link, today, openings>>
    BY <1>4 DEF Resolve
  <2>4. CASE ActiveAt(visiting[g].link, visiting[g].day)
    <3>1. visiting' = [visiting EXCEPT ![g] = v] /\ link[v.link].stored
      BY <1>4, <2>2, <2>4 DEF Resolve, ActiveAt
    <3> HIDE DEF v
    <3> QED BY <2>2, <2>3, <3>1, OnceStays
  <2>5. CASE ~ActiveAt(visiting[g].link, visiting[g].day)
    <3>1. visiting' = [visiting EXCEPT ![g] = Idle]
      BY <1>4, <2>5 DEF Resolve
    <3> QED BY <2>3, <3>1, OnceStays, Busy
  <2> QED BY <2>4, <2>5
<1>5. ASSUME NEW g \in Guests, SeeContract(g) PROVE OnceADay'
  <2> DEFINE v == [visiting[g] EXCEPT !.at = "count"]
  <2>1. visiting[g] \in Visits /\ visiting[g].day = today /\ link[visiting[g].link].stored
    BY <1>5, Busy DEF SeeContract, GuestAt, OnceADay
  <2>2. v \in Visits /\ v.day = today /\ v.at = "count" /\ v.link = visiting[g].link
    BY <2>1 DEF Visits
  <2>3. UNCHANGED <<link, today, openings>>
    BY <1>5 DEF SeeContract
  <2>4. visiting' = [visiting EXCEPT ![g] = v] \/ visiting' = [visiting EXCEPT ![g] = Idle]
    BY <1>5 DEF SeeContract
  <2> HIDE DEF v
  <2>5. CASE visiting' = [visiting EXCEPT ![g] = v]
    BY <2>1, <2>2, <2>3, <2>5, OnceStays
  <2>6. CASE visiting' = [visiting EXCEPT ![g] = Idle]
    BY <2>3, <2>6, OnceStays, Busy
  <2> QED BY <2>4, <2>5, <2>6
<1>6. ASSUME NEW g \in Guests, CountVisit(g) PROVE OnceADay'
  <2> DEFINE l == visiting[g].link
             what == visiting[g].what
             v == [visiting[g] EXCEPT !.at = "first"]
  <2>1. visiting[g] \in Visits /\ visiting[g].day = today /\ l \in Links /\ link[l].stored /\ what \in {"opens", "uploads"}
    BY <1>6, Busy DEF CountVisit, GuestAt, OnceADay
  <2>2. v \in Visits /\ v.day = today /\ v.at = "first" /\ v.link = l
    BY <2>1 DEF Visits
  <2>3. UNCHANGED <<today, openings>>
    BY <1>6 DEF CountVisit
  <2>4. /\ \A k \in Links \ {l} : link'[k] = link[k]
        /\ link'[l] = link[l] \/ link'[l] = [link[l] EXCEPT ![what] = link[l][what] + 1]
    BY <1>6, <2>1 DEF CountVisit, Shapes
  <2>5. \A k \in Links : link'[k].stored = link[k].stored /\ link'[k].lastOpenedDay = link[k].lastOpenedDay
    <3>1. link[l] \in AtLinks
      BY <2>1 DEF Shapes
    <3> QED BY <2>1, <2>4, <3>1 DEF AtLinks
  <2>6. visiting' = [visiting EXCEPT ![g] = v] \/ visiting' = [visiting EXCEPT ![g] = Idle]
    BY <1>6 DEF CountVisit
  <2> HIDE DEF v, l, what
  <2>7. CASE visiting' = [visiting EXCEPT ![g] = v]
    BY <2>1, <2>2, <2>3, <2>5, <2>7, OnceStays
  <2>8. CASE visiting' = [visiting EXCEPT ![g] = Idle]
    BY <2>3, <2>5, <2>8, OnceStays, Busy
  <2> QED BY <2>6, <2>7, <2>8
<1>7. CASE MoveContract \/ UNCHANGED portalVars
  <2>1. UNCHANGED <<today, openings, visiting, link>>
    BY <1>7 DEF MoveContract, portalVars
  <2> QED BY <2>1, OnceSame
<1>8. CASE RequestStops
  <2>1. UNCHANGED <<today, openings, link>>
    BY <1>8 DEF RequestStops
  <2>2. CASE UNCHANGED visiting
    BY <2>1, <2>2, OnceSame
  <2>3. CASE \E g \in Guests : visiting' = [visiting EXCEPT ![g] = Idle]
    BY <2>1, <2>3, OnceStays, Busy
  <2> QED BY <1>8, <2>2, <2>3 DEF RequestStops
<1> QED BY <1>1, <1>2, <1>3, <1>4, <1>5, <1>6, <1>7, <1>8, OncePutLink, OnceFirst, OnceLogged, OnceDay
        DEF PortalNext, ReviewerStep, GuestStep
-----------------------------------------------------------------------------
(* However many requests come together: a contract's active links exceed   *)
(* their limit by fewer than there are requests of reviewers, a link is    *)
(* used within its limits, found while it can be used, and, where no day   *)
(* ends in the middle of a view, noted as opened once a day (portal.py).   *)
THEOREM LinksAreBounded ==
    ASSUME ~Midnight
    PROVE  PortalSpec => []LinksHold
<1>1. PortalInit => WithinLimits
  BY PortalBounds DEF PortalInit, WithinLimits, NoLink
<1>2. Shapes /\ OwnLinks /\ Bounded /\ WithinLimits /\ OnceADay => LinksHold
  <2> SUFFICES ASSUME Shapes, OwnLinks, Bounded, WithinLimits, OnceADay PROVE LinksHold
    OBVIOUS
  <2>1. ActiveBounded
    <3>1. Cardinality(Active) < MAX_ACTIVE_LINKS + Cardinality(Reviewers)
      BY FiniteParts DEF Bounded
    <3> QED BY <3>1 DEF ActiveBounded, Active
  <2> QED BY <2>1 DEF LinksHold, OwnLinks, OnceADay, OpenedOncePerDay
<1> QED BY PortalTypes, OwnInit, OwnNext, BoundedInit, BoundedNext, LimitsNext, OnceInit, OnceNext, <1>1, <1>2, PTL
        DEF PortalSpec

(* Revoking a link is final, whichever requests had found it active.       *)
THEOREM RevokingIsFinal == PortalSpec => RevokedStaysShut
<1> DEFINE Shut == \A l \in Links : link[l].revoked =>
                       /\ link'[l].revoked
                       /\ link'[l].opens = link[l].opens /\ link'[l].uploads = link[l].uploads
<1>1. Shapes /\ OwnLinks /\ [PortalNext]_portalVars => Shut
  <2> SUFFICES ASSUME Shapes, OwnLinks, [PortalNext]_portalVars PROVE Shut
    OBVIOUS
  <2> USE DEF unlinked, unvisited
  <2>1. ASSUME NEW r \in Reviewers, PutLink(r) PROVE Shut
    <3>1. ~link[reviewing[r].link].revoked /\ reviewing[r].link \in Links
      BY <2>1, Busy DEF PutLink, ReviewerAt, OwnLinks
    <3>2. \A k \in Links \ {reviewing[r].link} : link'[k] = link[k]
      BY <2>1, <3>1 DEF PutLink, Shapes
    <3> QED BY <3>1, <3>2
  <2>2. ASSUME NEW r \in Reviewers, Revoke(r) PROVE Shut
    BY <2>2 DEF Revoke, Shapes, AtLinks
  <2>3. ASSUME NEW g \in Guests, CountVisit(g) PROVE Shut
    <3>1. visiting[g].link \in Links
      BY <2>3, Busy DEF CountVisit, GuestAt
    <3>2. CASE MayCountVisit(visiting[g].link, visiting[g].what)
      <4>1. \A k \in Links \ {visiting[g].link} : link'[k] = link[k]
        BY <2>3, <3>1, <3>2 DEF CountVisit, Shapes
      <4> QED BY <3>2, <4>1 DEF MayCountVisit
    <3>3. CASE ~MayCountVisit(visiting[g].link, visiting[g].what)
      BY <2>3, <3>3 DEF CountVisit
    <3> QED BY <3>2, <3>3
  <2>4. ASSUME NEW g \in Guests, FirstToday(g) PROVE Shut
    BY <2>4 DEF FirstToday, Shapes, AtLinks
  <2>5. CASE UNCHANGED link
    BY <2>5
  <2> QED BY <2>1, <2>2, <2>3, <2>4, <2>5
          DEF PortalNext, ReviewerStep, GuestStep, BeginLink, CountActive, PutIndex, Arrive, Resolve, SeeContract,
              LogOpened, DayPasses, MoveContract, RequestStops, portalVars
<1> QED BY PortalTypes, OwnInit, OwnNext, <1>1, PTL DEF PortalSpec, RevokedStaysShut

(***************************************************************************)
(* The organization                                                        *)
(***************************************************************************)

Orgs      == [rev : 0 .. MaxRev, creator : People \cup {"nobody"}, admins : SUBSET People]
SigningIn == [at : {"create", "found", "member"}, op : {"sign_in"}, actor : People]
Changing  == [at : {"read", "put", "audit"}, op : {"add", "remove"}, actor : People, target : People,
              rev : Nat, tries : Nat, seen : Orgs, now : BOOLEAN]

OrgShapes ==
    /\ org \in Orgs /\ IsFiniteSet(org.admins)
    /\ org.rev = 0 => org = NoOrg
    /\ members \subseteq People /\ founded \in Nat /\ orgStops \in 0 .. MaxOrgStops
    /\ audit \in [People -> [added : Nat, removed : Nat]]
    /\ asking \in [OrgRequests -> {Away} \cup SigningIn \cup Changing]

(* A change is of a record there is; one about to be stored was allowed    *)
(* by the record it read, which is the present one if the revision is.     *)
ChangesAreSound ==
    \A q \in OrgRequests : asking[q] \in Changing =>
        /\ org.rev > 0
        /\ asking[q].op = "add" => asking[q].target \in members
        /\ Asks(q, "put") =>
              LET r == asking[q] IN
              /\ r.seen.rev > 0 /\ r.seen.rev <= org.rev
              /\ r.seen.rev = org.rev => r.seen = org
              /\ ~Refuses(r.seen, r.op, r.target) /\ ~Needless(r.seen, r.op, r.target)

(* One request founds the organization, and notes it once.                 *)
FoundedOnce ==
    /\ org.rev = 0 => founded = 0
    /\ \A q \in OrgRequests : Asks(q, "found") =>
          /\ org.rev > 0 /\ founded = 0
          /\ \A s \in OrgRequests \ {q} : ~Asks(s, "found")

OrgInv == ChangesAreSound /\ FoundedOnce /\ AdminsAreMembers

(* What a request is doing can be told by where it is.                     *)
LEMMA Asked ==
    ASSUME OrgShapes, NEW q \in OrgRequests
    PROVE  /\ asking[q].at \in {"create", "found", "member"} => asking[q] \in SigningIn
           /\ asking[q].at \in {"read", "put", "audit"} => asking[q] \in Changing
           /\ Away.at = "away" /\ Away \notin Changing /\ Away \notin SigningIn
           /\ asking[q] \in Changing => asking[q].at \in {"read", "put", "audit"} /\ asking[q].op \in {"add", "remove"}
                                          /\ asking[q].target \in People /\ asking[q].actor \in People
                                          /\ asking[q].seen \in Orgs /\ asking[q].tries \in Nat /\ asking[q].now \in BOOLEAN
           /\ asking[q] \in SigningIn => asking[q].at \in {"create", "found", "member"} /\ asking[q].actor \in People
<1>1. asking[q] \in {Away} \cup SigningIn \cup Changing
  BY DEF OrgShapes
<1>2. Away.at = "away"
  BY DEF Away
<1>3. ASSUME NEW r \in Changing
      PROVE  /\ r.at \in {"read", "put", "audit"} /\ r.op \in {"add", "remove"} /\ r.target \in People
             /\ r.actor \in People /\ r.seen \in Orgs /\ r.tries \in Nat /\ r.now \in BOOLEAN
  BY DEF Changing
<1>4. ASSUME NEW r \in SigningIn PROVE r.at \in {"create", "found", "member"} /\ r.actor \in People
  BY DEF SigningIn
<1> QED BY <1>1, <1>2, <1>3, <1>4

(* One request has moved.                                                  *)
LEMMA OneMoves ==
    ASSUME OrgShapes, NEW q \in OrgRequests, NEW x \in {Away} \cup SigningIn \cup Changing,
           asking' = [asking EXCEPT ![q] = x]
    PROVE  /\ asking'[q] = x /\ \A s \in OrgRequests \ {q} : asking'[s] = asking[s]
           /\ asking' \in [OrgRequests -> {Away} \cup SigningIn \cup Changing]
BY DEF OrgShapes

(* A change that goes on is the same change.                               *)
LEMMA ChangeMoves ==
    ASSUME NEW r \in Changing, NEW at \in {"read", "put", "audit"}
    PROVE  /\ [r EXCEPT !.at = at] \in Changing /\ [r EXCEPT !.at = at].at = at
           /\ [r EXCEPT !.at = at].op = r.op /\ [r EXCEPT !.at = at].target = r.target
           /\ [r EXCEPT !.at = at].seen = r.seen
BY DEF Changing

LEMMA ChangeTries ==
    ASSUME NEW r \in Changing, NEW n \in Nat
    PROVE  /\ [r EXCEPT !.tries = n] \in Changing /\ [r EXCEPT !.tries = n].at = r.at
           /\ [r EXCEPT !.tries = n].op = r.op /\ [r EXCEPT !.tries = n].target = r.target
BY DEF Changing

(* Reading: the request ends, or has a change to store that the record     *)
(* allows and needs.                                                       *)
LEMMA Reading ==
    ASSUME OrgShapes, NEW q \in OrgRequests, ReadOrg(q)
    PROVE  /\ asking[q] \in Changing /\ Asks(q, "read")
           /\ \A s \in OrgRequests \ {q} : asking'[s] = asking[s]
           /\ asking' \in [OrgRequests -> {Away} \cup SigningIn \cup Changing]
           /\ UNCHANGED <<org, members, audit, founded, orgStops>>
           /\ \/ asking'[q] = Away
              \/ /\ asking'[q] \in Changing /\ asking'[q].at = "put"
                 /\ asking'[q].op = asking[q].op /\ asking'[q].target = asking[q].target /\ asking'[q].seen = org
                 /\ ~Refuses(org, asking[q].op, asking[q].target) /\ ~Needless(org, asking[q].op, asking[q].target)
<1> DEFINE r == asking[q]
           adds == r.op = "add" /\ ~Needless(org, r.op, r.target)
           next == [r EXCEPT !.seen = org, !.now = AddedNow(r.now, adds)]
<1>1. r \in Changing /\ Asks(q, "read")
  BY Asked DEF ReadOrg, Asks
<1>2. org \in Orgs
  BY DEF OrgShapes
<1>4. next \in Changing /\ next.op = r.op /\ next.target = r.target /\ next.seen = org /\ (adds \/ ~next.now)
  <2> DEFINE y == [r EXCEPT !.seen = org]
  <2>1. y \in Changing /\ y.op = r.op /\ y.target = r.target /\ y.seen = org
    BY <1>1, <1>2 DEF Changing
  <2>2. CASE adds
    <3>1. next = [y EXCEPT !.now = TRUE]
      BY <1>1, <2>2 DEF AddedNow, Changing
    <3> HIDE DEF y, next
    <3> QED BY <2>1, <2>2, <3>1 DEF Changing
  <2>3. CASE ~adds
    <3>1. next = [y EXCEPT !.now = FALSE]
      BY <1>1, <2>3 DEF AddedNow, Changing
    <3> HIDE DEF y, next
    <3> QED BY <2>1, <2>3, <3>1 DEF Changing
  <2> QED BY <2>2, <2>3
<1>5. LET x == [next EXCEPT !.at = "put"]
      IN  x \in Changing /\ x.at = "put" /\ x.op = r.op /\ x.target = r.target /\ x.seen = org
  <2> HIDE DEF next
  <2> QED BY <1>4, ChangeMoves
<1>6. asking' = [asking EXCEPT ![q] =
            IF (r.tries = 1 /\ r.rev \notin {0, org.rev}) \/ Refuses(org, r.op, r.target) THEN Away
            ELSE IF Needless(org, r.op, r.target)
                 THEN IF next.now THEN [next EXCEPT !.at = "audit"] ELSE Away
                 ELSE [next EXCEPT !.at = "put"]]
  BY DEF ReadOrg
<1>7. Needless(org, r.op, r.target) => ~next.now
  BY <1>4 DEF Needless
<1> HIDE DEF next, r
<1>8. asking \in [OrgRequests -> {Away} \cup SigningIn \cup Changing]
  BY DEF OrgShapes
<1>9. \A s \in OrgRequests \ {q} : asking'[s] = asking[s]
  BY <1>6, <1>8
<1>10. \/ asking'[q] = Away
       \/ /\ asking'[q] = [next EXCEPT !.at = "put"]
          /\ ~Refuses(org, r.op, r.target) /\ ~Needless(org, r.op, r.target)
  BY <1>6, <1>7, <1>8
<1>11. UNCHANGED <<org, members, audit, founded, orgStops>>
  BY DEF ReadOrg
<1>12. [next EXCEPT !.at = "put"] \in Changing
  BY <1>5
<1>13. asking' \in [OrgRequests -> {Away} \cup SigningIn \cup Changing]
  BY <1>6, <1>7, <1>8, <1>12
<1> QED BY <1>1, <1>5, <1>9, <1>10, <1>11, <1>13 DEF r

(* A change is stored over the record it read, or not at all.              *)
LEMMA Putting ==
    ASSUME OrgShapes, OrgInv, NEW q \in OrgRequests, PutOrg(q)
    PROVE  /\ asking[q] \in Changing /\ Asks(q, "put") /\ org.rev > 0
           /\ \A s \in OrgRequests \ {q} : asking'[s] = asking[s]
           /\ asking' \in [OrgRequests -> {Away} \cup SigningIn \cup Changing]
           /\ UNCHANGED <<members, audit, founded, orgStops>>
           /\ \/ /\ org' = org
                 /\ \/ asking'[q] = Away
                    \/ /\ asking'[q] \in Changing /\ asking'[q].at = "read"
                       /\ asking'[q].op = asking[q].op /\ asking'[q].target = asking[q].target
              \/ /\ asking'[q] \in Changing /\ asking'[q].at = "audit"
                 /\ asking'[q].op = asking[q].op /\ asking'[q].target = asking[q].target
                 /\ ~Refuses(org, asking[q].op, asking[q].target) /\ ~Needless(org, asking[q].op, asking[q].target)
                 /\ org' \in Orgs /\ org'.rev = org.rev + 1 /\ org'.creator = org.creator
                 /\ org'.admins = IF asking[q].op = "add" THEN org.admins \cup {asking[q].target}
                                                         ELSE org.admins \ {asking[q].target}
<1> DEFINE r == asking[q]
<1>1. r \in Changing /\ Asks(q, "put") /\ org.rev > 0
  BY Asked DEF PutOrg, Asks, OrgInv, ChangesAreSound
<1>2. /\ r.op \in {"add", "remove"} /\ r.target \in People /\ r.tries \in Nat
      /\ r.seen.rev = org.rev => r.seen = org
      /\ ~Refuses(r.seen, r.op, r.target) /\ ~Needless(r.seen, r.op, r.target)
  BY <1>1, Asked DEF OrgInv, ChangesAreSound
<1>3. asking \in [OrgRequests -> {Away} \cup SigningIn \cup Changing]
  BY DEF OrgShapes
<1>4. UNCHANGED <<members, audit, founded, orgStops>> /\ org.rev < MaxRev
  BY DEF PutOrg
<1>5. CASE MayPutOrg(q)
  <2>1. r.seen = org
    BY <1>2, <1>5 DEF MayPutOrg
  <2> DEFINE list == IF r.op = "add" THEN org.admins \cup {r.target} ELSE org.admins \ {r.target}
  <2>2. org' = [org EXCEPT !.rev = org.rev + 1, !.admins = list]
    <3>1. org' = [r.seen EXCEPT !.rev = r.seen.rev + 1,
                               !.admins = IF r.op = "add" THEN r.seen.admins \cup {r.target} ELSE r.seen.admins \ {r.target}]
      BY <1>5 DEF PutOrg
    <3> HIDE DEF r
    <3> QED BY <2>1, <3>1
  <2>3. list \in SUBSET People /\ org.rev + 1 \in 0 .. MaxRev
    BY <1>2, <1>4, OrgBounds DEF OrgShapes, Orgs
  <2> HIDE DEF list
  <2>4. org' \in Orgs /\ org'.rev = org.rev + 1 /\ org'.creator = org.creator /\ org'.admins = list
    <3> DEFINE o == [org EXCEPT !.rev = org.rev + 1]
    <3>1. o \in Orgs /\ o.rev = org.rev + 1 /\ o.creator = org.creator
      BY <2>3 DEF OrgShapes, Orgs
    <3>2. org' = [o EXCEPT !.admins = list]
      BY <2>2 DEF OrgShapes, Orgs
    <3> HIDE DEF o
    <3> QED BY <2>3, <3>1, <3>2 DEF Orgs
  <2>5. asking' = [asking EXCEPT ![q] = [r EXCEPT !.at = "audit"]]
    BY <1>3, <1>5 DEF PutOrg, Turn
  <2>6. /\ [r EXCEPT !.at = "audit"] \in Changing /\ [r EXCEPT !.at = "audit"].at = "audit"
        /\ [r EXCEPT !.at = "audit"].op = r.op /\ [r EXCEPT !.at = "audit"].target = r.target
    BY <1>1, ChangeMoves
  <2>7. /\ asking'[q] = [r EXCEPT !.at = "audit"] /\ \A s \in OrgRequests \ {q} : asking'[s] = asking[s]
        /\ asking' \in [OrgRequests -> {Away} \cup SigningIn \cup Changing]
    <3> DEFINE x == [r EXCEPT !.at = "audit"]
    <3>1. x \in Changing /\ asking' = [asking EXCEPT ![q] = x]
      BY <2>5, <2>6
    <3> HIDE DEF x
    <3>2. /\ asking'[q] = x /\ \A s \in OrgRequests \ {q} : asking'[s] = asking[s]
          /\ asking' \in [OrgRequests -> {Away} \cup SigningIn \cup Changing]
      BY <3>1, OneMoves
    <3> QED BY <3>2 DEF x
  <2> QED BY <1>1, <1>2, <1>4, <2>1, <2>4, <2>6, <2>7 DEF list
<1>6. CASE ~MayPutOrg(q)
  <2> DEFINE again == [r EXCEPT !.at = "read", !.tries = r.tries + 1]
  <2>1. org' = org /\ (asking' = [asking EXCEPT ![q] = Away] \/ asking' = [asking EXCEPT ![q] = again])
    BY <1>3, <1>6 DEF PutOrg, End
  <2>2. again \in Changing /\ again.at = "read" /\ again.op = r.op /\ again.target = r.target
    <3> DEFINE x == [r EXCEPT !.at = "read"]
    <3>1. x \in Changing /\ x.at = "read" /\ x.op = r.op /\ x.target = r.target /\ x.tries = r.tries
      BY <1>1 DEF Changing
    <3>2. again = [x EXCEPT !.tries = r.tries + 1]
      BY <1>1 DEF Changing
    <3>3. r.tries + 1 \in Nat
      BY <1>2
    <3> HIDE DEF x, again, r
    <3> QED BY <3>1, <3>2, <3>3, ChangeTries
  <2> HIDE DEF again
  <2>3. /\ asking'[q] = Away \/ asking'[q] = again
        /\ \A s \in OrgRequests \ {q} : asking'[s] = asking[s]
        /\ asking' \in [OrgRequests -> {Away} \cup SigningIn \cup Changing]
    BY <1>3, <2>1, <2>2
  <2> QED BY <1>1, <1>4, <2>1, <2>2, <2>3
<1> QED BY <1>5, <1>6

LEMMA OrgShapesInit == OrgInit => OrgShapes
<1> SUFFICES ASSUME OrgInit PROVE OrgShapes
  OBVIOUS
<1>1. org = NoOrg /\ NoOrg \in Orgs /\ NoOrg.admins = {}
  BY OrgBounds DEF OrgInit, NoOrg, Orgs
<1>2. IsFiniteSet(org.admins)
  BY <1>1, FS_EmptySet
<1>3. asking \in [OrgRequests -> {Away} \cup SigningIn \cup Changing]
  BY DEF OrgInit
<1> QED BY <1>1, <1>2, <1>3, OrgBounds DEF OrgInit, OrgShapes

LEMMA OrgInvInit == OrgInit => OrgInv /\ AuditBalances
<1> SUFFICES ASSUME OrgInit PROVE OrgInv /\ AuditBalances
  OBVIOUS
<1>1. org = NoOrg /\ NoOrg.rev = 0 /\ NoOrg.admins = {}
  BY DEF OrgInit, NoOrg
<1>2. \A q \in OrgRequests : asking[q] = Away /\ asking[q].at = "away"
  BY DEF OrgInit, Away
<1>3. Away \notin Changing
  BY DEF Away, Changing
<1>4. OrgInv
  BY <1>1, <1>2, <1>3 DEF OrgInv, ChangesAreSound, FoundedOnce, AdminsAreMembers, Asks, OrgInit
<1>5. \A op \in {"add", "remove"}, p \in People : Unnoted(op, p) = 0
  <2> SUFFICES ASSUME NEW op, NEW p PROVE Unnoted(op, p) = 0
    OBVIOUS
  <2>1. {q \in OrgRequests : Asks(q, "audit") /\ asking[q].op = op /\ asking[q].target = p} = {}
    BY <1>2 DEF Asks
  <2> QED BY <2>1, FS_EmptySet DEF Unnoted
<1>6. \A p \in People : audit[p].added = 0 /\ audit[p].removed = 0
  BY DEF OrgInit
<1>7. AuditBalances
  BY <1>1, <1>5, <1>6 DEF AuditBalances
<1> QED BY <1>4, <1>7

(* What the handlers around a change do to requests.                       *)
LEMMA SigningInMoves ==
    ASSUME OrgShapes, NEW q \in OrgRequests, SignIn(q) \/ Create(q) \/ Found(q) \/ RecordMember(q)
    PROVE  /\ \A s \in OrgRequests \ {q} : asking'[s] = asking[s]
           /\ asking' \in [OrgRequests -> {Away} \cup SigningIn \cup Changing]
           /\ asking'[q] \notin Changing
           /\ asking[q].at # "audit" /\ asking'[q].at # "audit"
           /\ asking'[q].at = "found" => Create(q) /\ MayCreate
<1>1. \A r \in SigningIn : r \notin Changing /\ r.at # "audit"
  BY DEF SigningIn, Changing
<1>2. Away \notin Changing /\ Away.at = "away"
  BY Asked
<1>3. CASE SignIn(q)
  <2>1. PICK p \in People : asking' = [asking EXCEPT ![q] = 
                               [at |-> IF org = NoOrg THEN "create" ELSE "member", op |-> "sign_in", actor |-> p]]
    BY <1>3 DEF SignIn
  <2> DEFINE x == [at |-> IF org = NoOrg THEN "create" ELSE "member", op |-> "sign_in", actor |-> p]
  <2>2. x \in SigningIn /\ x.at # "found"
    BY DEF SigningIn
  <2> HIDE DEF x
  <2> QED BY <1>1, <1>3, <2>1, <2>2, OneMoves DEF SignIn, Asks, x
<1>4. CASE Create(q) \/ Found(q)
  <2>1. asking[q] \in SigningIn /\ asking[q].at \in {"create", "found"}
    BY <1>4, Asked DEF Create, Found, Asks
  <2>2. PICK at \in {"found", "member"} : 
            /\ asking' = [asking EXCEPT ![q] = [asking[q] EXCEPT !.at = at]]
            /\ at = "found" => Create(q) /\ MayCreate
    BY <1>4 DEF Create, Found, Turn, OrgShapes
  <2> DEFINE x == [asking[q] EXCEPT !.at = at]
  <2>3. x \in SigningIn /\ x.at = at
    BY <2>1 DEF SigningIn
  <2> HIDE DEF x
  <2> QED BY <1>1, <2>1, <2>2, <2>3, OneMoves DEF x
<1>5. CASE RecordMember(q)
  <2>1. asking' = [asking EXCEPT ![q] = Away] /\ asking[q].at = "member"
    BY <1>5 DEF RecordMember, End, Asks
  <2> QED BY <1>2, <2>1, OneMoves
<1> QED BY <1>3, <1>4, <1>5

LEMMA ChangeBegins ==
    ASSUME OrgShapes, NEW q \in OrgRequests, BeginChange(q)
    PROVE  /\ \A s \in OrgRequests \ {q} : asking'[s] = asking[s]
           /\ asking' \in [OrgRequests -> {Away} \cup SigningIn \cup Changing]
           /\ asking[q].at = "away" /\ asking'[q].at = "read" /\ asking'[q] \in Changing
           /\ org.rev > 0 /\ (asking'[q].op = "add" => asking'[q].target \in members)
           /\ UNCHANGED <<org, members, audit, founded, orgStops>>
<1>1. PICK p \in People, t \in People, op \in {"add", "remove"}, rev \in {0, org.rev} :
         /\ IsAdmin(org, p)
         /\ op = "add" => t \in members
         /\ asking' = [asking EXCEPT ![q] = [at |-> "read", op |-> op, actor |-> p, target |-> t, rev |-> rev,
                                             tries |-> 1, seen |-> NoOrg, now |-> FALSE]]
  BY DEF BeginChange
<1> DEFINE x == [at |-> "read", op |-> op, actor |-> p, target |-> t, rev |-> rev,
                 tries |-> 1, seen |-> NoOrg, now |-> FALSE]
<1>2. NoOrg \in Orgs /\ org.rev \in Nat
  BY OrgBounds DEF OrgShapes, Orgs, NoOrg
<1>3. x \in Changing /\ x.at = "read" /\ x.op = op /\ x.target = t
  BY <1>2 DEF Changing
<1> HIDE DEF x
<1>4. asking' = [asking EXCEPT ![q] = x]
  BY <1>1 DEF x
<1>5. asking[q].at = "away" /\ UNCHANGED <<org, members, audit, founded, orgStops>>
  BY DEF BeginChange, Asks
<1> QED BY <1>1, <1>3, <1>4, <1>5, OneMoves DEF IsAdmin

LEMMA OrgShapesNext == OrgShapes /\ OrgInv /\ [OrgNext]_orgVars => OrgShapes'
<1> SUFFICES ASSUME OrgShapes, OrgInv, [OrgNext]_orgVars PROVE OrgShapes'
  OBVIOUS
<1>1. ASSUME NEW q \in OrgRequests, SignIn(q) \/ Found(q) \/ RecordMember(q) PROVE OrgShapes'
  <2>1. org' = org /\ audit' = audit /\ orgStops' = orgStops
    BY <1>1 DEF SignIn, Found, RecordMember
  <2>2. RecordMember(q) => asking[q].actor \in People
    BY <1>1, Asked DEF RecordMember, Asks
  <2>3. members' \subseteq People /\ founded' \in Nat
    BY <1>1, <2>2 DEF OrgShapes, SignIn, Found, RecordMember
  <2> QED BY <1>1, <2>1, <2>3, SigningInMoves DEF OrgShapes
<1>2. ASSUME NEW q \in OrgRequests, Create(q) PROVE OrgShapes'
  <2>1. asking[q].actor \in People
    BY <1>2, Asked DEF Create, Asks
  <2>2. org' = org \/ org' = [rev |-> 1, creator |-> asking[q].actor, admins |-> {asking[q].actor}]
    BY <1>2 DEF Create
  <2>3. 1 \in 0 .. MaxRev
    BY OrgBounds
  <2>4. org' \in Orgs /\ IsFiniteSet(org'.admins) /\ (org'.rev = 0 => org' = NoOrg)
    <3>1. CASE org' = org
      BY <3>1 DEF OrgShapes
    <3>2. CASE org' = [rev |-> 1, creator |-> asking[q].actor, admins |-> {asking[q].actor}]
      <4>1. org' \in Orgs /\ org'.rev = 1 /\ org'.admins = {asking[q].actor}
        BY <2>1, <2>3, <3>2 DEF Orgs
      <4>2. IsFiniteSet({asking[q].actor})
        BY FS_Singleton
      <4> QED BY <4>1, <4>2
    <3> QED BY <2>2, <3>1, <3>2
  <2>5. UNCHANGED <<members, founded, audit, orgStops>>
    BY <1>2 DEF Create
  <2> QED BY <1>2, <2>4, <2>5, SigningInMoves DEF OrgShapes
<1>3. ASSUME NEW q \in OrgRequests, BeginChange(q) PROVE OrgShapes'
  BY <1>3, ChangeBegins DEF OrgShapes
<1>4. ASSUME NEW q \in OrgRequests, ReadOrg(q) PROVE OrgShapes'
  BY <1>4, Reading DEF OrgShapes
<1>5. ASSUME NEW q \in OrgRequests, PutOrg(q) PROVE OrgShapes'
  <2>1. org' = org \/ (org' \in Orgs /\ org'.rev = org.rev + 1 /\ 
                       (org'.admins = org.admins \cup {asking[q].target} \/ org'.admins = org.admins \ {asking[q].target}))
    BY <1>5, Putting
  <2>2. org' \in Orgs /\ IsFiniteSet(org'.admins)
    BY <2>1, FS_AddElement, FS_RemoveElement DEF OrgShapes
  <2>3. org'.rev = 0 => org' = NoOrg
    BY <2>1, OrgBounds DEF OrgShapes, Orgs
  <2> QED BY <1>5, <2>2, <2>3, Putting DEF OrgShapes
<1>6. ASSUME NEW q \in OrgRequests, Audit(q) PROVE OrgShapes'
  <2>1. asking[q].target \in People
    BY <1>6, Asked DEF Audit, Asks
  <2>2. \A x \in [added : Nat, removed : Nat] :
           /\ [x EXCEPT !.added = x.added + 1] \in [added : Nat, removed : Nat]
           /\ [x EXCEPT !.removed = x.removed + 1] \in [added : Nat, removed : Nat]
    OBVIOUS
  <2>3. audit' \in [People -> [added : Nat, removed : Nat]]
    BY <1>6, <2>1, <2>2 DEF Audit, OrgShapes
  <2>4. asking' = [asking EXCEPT ![q] = Away] /\ UNCHANGED <<org, members, founded, orgStops>>
    BY <1>6 DEF Audit, End
  <2> QED BY <2>3, <2>4 DEF OrgShapes
<1>7. CASE OrgDies
  BY <1>7, OrgBounds DEF OrgDies, End, OrgShapes
<1>8. CASE UNCHANGED orgVars
  BY <1>8 DEF orgVars, OrgShapes
<1> QED BY <1>1, <1>2, <1>3, <1>4, <1>5, <1>6, <1>7, <1>8 DEF OrgNext, OrgStep

(* A step that leaves the record alone, and the other requests.            *)
LEMMA SoundStays ==
    ASSUME OrgShapes, ChangesAreSound, NEW q \in OrgRequests, org' = org, members \subseteq members',
           \A s \in OrgRequests \ {q} : asking'[s] = asking[s],
           asking'[q] \in Changing =>
              /\ org.rev > 0
              /\ asking'[q].op = "add" => asking'[q].target \in members'
              /\ asking'[q].at = "put" =>
                   /\ asking'[q].seen = org
                   /\ ~Refuses(org, asking'[q].op, asking'[q].target) /\ ~Needless(org, asking'[q].op, asking'[q].target)
    PROVE  ChangesAreSound'
<1>1. org.rev \in Nat
  BY OrgBounds DEF OrgShapes, Orgs
<1>2. ASSUME NEW s \in OrgRequests, asking'[s] \in Changing
      PROVE  /\ org'.rev > 0
             /\ asking'[s].op = "add" => asking'[s].target \in members'
             /\ asking'[s].at = "put" =>
                  /\ asking'[s].seen.rev > 0 /\ asking'[s].seen.rev <= org'.rev
                  /\ asking'[s].seen.rev = org'.rev => asking'[s].seen = org'
                  /\ ~Refuses(asking'[s].seen, asking'[s].op, asking'[s].target)
                  /\ ~Needless(asking'[s].seen, asking'[s].op, asking'[s].target)
  <2>1. CASE s = q
    BY <1>1, <1>2, <2>1
  <2>2. CASE s # q
    BY <1>2, <2>2 DEF ChangesAreSound, Asks
  <2> QED BY <2>1, <2>2
<1> QED BY <1>2 DEF ChangesAreSound, Asks

(* A step that leaves the record and the first entry alone, and puts no    *)
(* request before it.                                                      *)
LEMMA FoundedStays ==
    ASSUME FoundedOnce, AdminsAreMembers, org' = org, founded' = founded, members \subseteq members',
           \A s \in OrgRequests : asking'[s].at = "found" => asking[s].at = "found"
    PROVE  FoundedOnce' /\ AdminsAreMembers'
BY DEF FoundedOnce, AdminsAreMembers, Asks

LEMMA OrgInvNext == OrgShapes /\ OrgInv /\ [OrgNext]_orgVars => OrgInv'
<1> SUFFICES ASSUME OrgShapes, OrgInv, [OrgNext]_orgVars PROVE OrgInv'
  OBVIOUS
<1> USE DEF OrgInv
<1>1. ASSUME NEW q \in OrgRequests, SignIn(q) \/ RecordMember(q) PROVE OrgInv'
  <2>1. org' = org /\ founded' = founded /\ members \subseteq members'
    BY <1>1 DEF SignIn, RecordMember
  <2>2. /\ \A s \in OrgRequests \ {q} : asking'[s] = asking[s]
        /\ asking'[q] \notin Changing
    BY <1>1, SigningInMoves
  <2>3. asking'[q].at = "found" => asking[q].at = "found"
    BY <1>1, SigningInMoves DEF Create, SignIn, RecordMember, Asks
  <2> QED BY <2>1, <2>2, <2>3, SoundStays, FoundedStays
<1>2. ASSUME NEW q \in OrgRequests, Create(q) PROVE OrgInv'
  <2>1. /\ \A s \in OrgRequests \ {q} : asking'[s] = asking[s]
        /\ asking'[q] \notin Changing
        /\ asking'[q].at = "found" => MayCreate
    BY <1>2, SigningInMoves
  <2>2. UNCHANGED <<members, founded>> /\ asking[q].at = "create"
    BY <1>2 DEF Create, Asks
  <2>3. CASE MayCreate
    <3>1. org = NoOrg /\ org.rev = 0
      BY <2>3 DEF MayCreate, NoOrg
    <3>2. org'.rev = 1 /\ org'.creator = asking[q].actor /\ org'.admins = {asking[q].actor}
      BY <1>2, <2>3 DEF Create
    <3>3. ChangesAreSound'
      <4>1. \A s \in OrgRequests : asking[s] \notin Changing
        BY <3>1 DEF ChangesAreSound
      <4>2. \A s \in OrgRequests : asking'[s] \notin Changing
        BY <2>1, <4>1
      <4> QED BY <4>2 DEF ChangesAreSound
    <3>4. FoundedOnce'
      <4>1. founded = 0 /\ \A s \in OrgRequests : ~Asks(s, "found")
        BY <3>1 DEF FoundedOnce
      <4>2. \A s \in OrgRequests \ {q} : ~Asks(s, "found")'
        BY <2>1, <4>1 DEF Asks
      <4> QED BY <2>2, <3>2, <4>1, <4>2 DEF FoundedOnce, Asks
    <3>5. AdminsAreMembers'
      <4>0. Cardinality({asking[q].actor}) = 1
        BY FS_Singleton
      <4>1. Cardinality({asking[q].actor}) <= MAX_ADMINS
        BY <4>0, OrgBounds
      <4>2. founded' = 0
        BY <2>2, <3>1 DEF FoundedOnce
      <4> QED BY <3>2, <4>1, <4>2 DEF AdminsAreMembers
    <3> QED BY <3>3, <3>4, <3>5
  <2>4. CASE ~MayCreate
    <3>1. org' = org
      BY <1>2, <2>4 DEF Create
    <3>2. \A s \in OrgRequests : asking'[s].at = "found" => asking[s].at = "found"
      BY <2>1, <2>4
    <3> QED BY <2>1, <2>2, <3>1, <3>2, SoundStays, FoundedStays
  <2> QED BY <2>3, <2>4
<1>3. ASSUME NEW q \in OrgRequests, Found(q) PROVE OrgInv'
  <2>1. org' = org /\ members' = members /\ founded' = founded + 1 /\ Asks(q, "found")
    BY <1>3 DEF Found
  <2>2. /\ \A s \in OrgRequests \ {q} : asking'[s] = asking[s]
        /\ asking'[q] \notin Changing /\ asking'[q].at # "found"
    BY <1>3, SigningInMoves DEF Found, Create, Asks
  <2>3. founded = 0 /\ org.rev > 0 /\ \A s \in OrgRequests \ {q} : ~Asks(s, "found")
    BY <2>1 DEF FoundedOnce
  <2>4. \A s \in OrgRequests : ~Asks(s, "found")'
    BY <2>2, <2>3 DEF Asks
  <2>5. FoundedOnce' /\ AdminsAreMembers'
    BY <2>1, <2>3, <2>4 DEF FoundedOnce, AdminsAreMembers
  <2> QED BY <2>1, <2>2, <2>5, SoundStays
<1>4. ASSUME NEW q \in OrgRequests, BeginChange(q) PROVE OrgInv'
  <2>1. \A s \in OrgRequests : asking'[s].at = "found" => asking[s].at = "found"
    BY <1>4, ChangeBegins
  <2> QED BY <1>4, <2>1, ChangeBegins, SoundStays, FoundedStays
<1>5. ASSUME NEW q \in OrgRequests, ReadOrg(q) PROVE OrgInv'
  <2>1. /\ asking'[q].at # "found"
        /\ UNCHANGED <<org, members, founded>> /\ \A s \in OrgRequests \ {q} : asking'[s] = asking[s]
    BY <1>5, Reading, Asked
  <2>2. \A s \in OrgRequests : asking'[s].at = "found" => asking[s].at = "found"
    BY <2>1
  <2>3. asking[q].op = "add" => asking[q].target \in members
    BY <1>5, Reading DEF ChangesAreSound
  <2>4. org.rev > 0
    BY <1>5, Reading DEF ChangesAreSound
  <2>5. asking'[q] \in Changing =>
              /\ asking'[q].op = "add" => asking'[q].target \in members'
              /\ asking'[q].at = "put" =>
                   /\ asking'[q].seen = org
                   /\ ~Refuses(org, asking'[q].op, asking'[q].target) /\ ~Needless(org, asking'[q].op, asking'[q].target)
    BY <1>5, <2>1, <2>3, Reading, Asked
  <2> QED BY <2>1, <2>2, <2>4, <2>5, SoundStays, FoundedStays
<1>7. ASSUME NEW q \in OrgRequests, Audit(q) PROVE OrgInv'
  <2>1. UNCHANGED <<org, members, founded>> /\ asking' = [asking EXCEPT ![q] = Away]
    BY <1>7 DEF Audit, End
  <2>2. asking'[q] = Away /\ \A s \in OrgRequests \ {q} : asking'[s] = asking[s]
    BY <2>1, OneMoves
  <2> QED BY <2>1, <2>2, Asked, SoundStays, FoundedStays
<1>8. CASE OrgDies
  <2>1. PICK q \in OrgRequests : asking' = [asking EXCEPT ![q] = Away]
    BY <1>8 DEF OrgDies, End
  <2>2. UNCHANGED <<org, members, founded>>
    BY <1>8 DEF OrgDies
  <2>3. asking'[q] = Away /\ \A s \in OrgRequests \ {q} : asking'[s] = asking[s]
    BY <2>1, OneMoves
  <2> QED BY <2>2, <2>3, Asked, SoundStays, FoundedStays
<1>9. CASE UNCHANGED orgVars
  BY <1>9 DEF orgVars, ChangesAreSound, FoundedOnce, AdminsAreMembers, Asks
<1>6. ASSUME NEW q \in OrgRequests, PutOrg(q) PROVE OrgInv'
  <2>1. /\ asking'[q].at # "found" /\ members' = members /\ founded' = founded
        /\ \A s \in OrgRequests \ {q} : asking'[s] = asking[s]
        /\ asking[q] \in Changing /\ org.rev > 0
    BY <1>6, Putting, Asked
  <2>2. \A s \in OrgRequests : asking'[s].at = "found" => asking[s].at = "found"
    BY <2>1
  <2>3. asking[q].op = "add" => asking[q].target \in members
    BY <2>1 DEF ChangesAreSound
  <2>4. CASE org' = org
    <3>1. asking'[q] \in Changing => asking'[q].at # "put" /\ asking'[q].op = asking[q].op /\ asking'[q].target = asking[q].target
      BY <1>6, Putting, Asked
    <3> QED BY <2>1, <2>2, <2>3, <2>4, <3>1, SoundStays, FoundedStays
  <2>5. CASE org' # org
    <3>1. /\ asking'[q].at = "audit" /\ asking'[q].op = asking[q].op /\ asking'[q].target = asking[q].target
          /\ ~Refuses(org, asking[q].op, asking[q].target) /\ ~Needless(org, asking[q].op, asking[q].target)
          /\ org' \in Orgs /\ org'.rev = org.rev + 1 /\ org'.creator = org.creator
          /\ org'.admins = IF asking[q].op = "add" THEN org.admins \cup {asking[q].target}
                                                  ELSE org.admins \ {asking[q].target}
      BY <1>6, <2>5, Putting
    <3>2. org.rev \in Nat
      BY OrgBounds DEF OrgShapes, Orgs
    <3>3. ChangesAreSound'
      <4>1. ASSUME NEW s \in OrgRequests, asking'[s] \in Changing
            PROVE  /\ org'.rev > 0
                   /\ asking'[s].op = "add" => asking'[s].target \in members'
                   /\ asking'[s].at = "put" =>
                        /\ asking'[s].seen.rev > 0 /\ asking'[s].seen.rev <= org'.rev
                        /\ asking'[s].seen.rev # org'.rev
                        /\ ~Refuses(asking'[s].seen, asking'[s].op, asking'[s].target)
                        /\ ~Needless(asking'[s].seen, asking'[s].op, asking'[s].target)
        <5>1. org'.rev > 0
          BY <3>1, <3>2
        <5>2. CASE s = q
          BY <2>1, <2>3, <3>1, <5>1, <5>2
        <5>3. CASE s # q
          <6>1. asking'[s] = asking[s] /\ asking[s] \in Changing /\ asking[s].seen.rev \in Nat
            BY <2>1, <4>1, <5>3, Asked, OrgBounds DEF Orgs
          <6>2. asking[s].op = "add" => asking[s].target \in members
            BY <6>1 DEF ChangesAreSound
          <6>3. asking[s].at = "put" =>
                        /\ asking[s].seen.rev > 0 /\ asking[s].seen.rev <= org.rev
                        /\ ~Refuses(asking[s].seen, asking[s].op, asking[s].target)
                        /\ ~Needless(asking[s].seen, asking[s].op, asking[s].target)
            BY <6>1 DEF ChangesAreSound, Asks
          <6> QED BY <2>1, <3>1, <3>2, <5>1, <6>1, <6>2, <6>3
        <5> QED BY <5>2, <5>3
      <4> QED BY <4>1 DEF ChangesAreSound, Asks
    <3>4. FoundedOnce'
      BY <2>1, <2>2, <3>1, <3>2 DEF FoundedOnce, Asks
    <3>5. AdminsAreMembers'
      <4>1. org # NoOrg
        BY <2>1 DEF NoOrg
      <4>2. /\ org.creator \in org.admins /\ org.admins \ {org.creator} \subseteq members
            /\ Cardinality(org.admins) <= MAX_ADMINS /\ founded <= 1
        BY <4>1 DEF AdminsAreMembers
      <4>3. org.creator \in org'.admins
        BY <2>1, <3>1, <4>2 DEF Refuses
      <4>4. org'.admins \ {org.creator} \subseteq members
        BY <2>3, <3>1, <4>2
      <4>5. IsFiniteSet(org.admins) /\ MAX_ADMINS \in Nat /\ Cardinality(org.admins) \in Nat
        BY OrgBounds, FS_CardinalityType DEF OrgShapes
      <4>6. Cardinality(org'.admins) <= MAX_ADMINS
        <5>1. CASE asking[q].op = "add"
          <6>1. Cardinality(org.admins) < MAX_ADMINS
            BY <2>1, <3>1, <4>5, <5>1 DEF Refuses, Needless
          <6>2. \/ Cardinality(org.admins \cup {asking[q].target}) = Cardinality(org.admins)
                \/ Cardinality(org.admins \cup {asking[q].target}) = Cardinality(org.admins) + 1
            BY <4>5, FS_AddElement
          <6> QED BY <3>1, <4>5, <5>1, <6>1, <6>2
        <5>2. CASE asking[q].op # "add"
          <6>1. org'.admins \subseteq org.admins
            BY <3>1, <5>2
          <6>2. Cardinality(org'.admins) <= Cardinality(org.admins) /\ Cardinality(org'.admins) \in Nat
            BY <4>5, <6>1, FS_Subset, FS_CardinalityType
          <6> QED BY <4>2, <4>5, <6>2
        <5> QED BY <5>1, <5>2
      <4> QED BY <2>1, <3>1, <4>2, <4>3, <4>4, <4>6 DEF AdminsAreMembers
    <3> QED BY <3>3, <3>4, <3>5
  <2> QED BY <2>4, <2>5
<1> QED BY <1>1, <1>2, <1>3, <1>4, <1>5, <1>6, <1>7, <1>8, <1>9 DEF OrgNext, OrgStep

(* The requests whose entry about p is about to be written.                *)
Trail(op, p) == {q \in OrgRequests : Asks(q, "audit") /\ asking[q].op = op /\ asking[q].target = p}

LEMMA TrailCounts ==
    \A op, p : IsFiniteSet(Trail(op, p)) /\ Unnoted(op, p) \in Nat /\ Unnoted(op, p) = Cardinality(Trail(op, p))
<1> SUFFICES ASSUME NEW op, NEW p
             PROVE  IsFiniteSet(Trail(op, p)) /\ Unnoted(op, p) \in Nat /\ Unnoted(op, p) = Cardinality(Trail(op, p))
  OBVIOUS
<1>1. Trail(op, p) \subseteq OrgRequests /\ IsFiniteSet(OrgRequests)
  BY OrgBounds DEF Trail
<1>2. IsFiniteSet(Trail(op, p))
  BY <1>1, FS_Subset
<1>3. Unnoted(op, p) = Cardinality(Trail(op, p))
  BY DEF Unnoted, Trail
<1> QED BY <1>2, <1>3, FS_CardinalityType

(* A step that neither changes the list of admins nor brings a request to  *)
(* its entry, or past it.                                                  *)
LEMMA BalanceStays ==
    ASSUME AuditBalances, NEW q \in OrgRequests, UNCHANGED <<audit, orgStops>>,
           \A p \in People : (p \in org'.admins /\ p # org'.creator) <=> (p \in org.admins /\ p # org.creator),
           \A s \in OrgRequests \ {q} : asking'[s] = asking[s],
           asking[q].at # "audit", asking'[q].at # "audit"
    PROVE  AuditBalances'
<1>1. ASSUME NEW op, NEW p PROVE Trail(op, p)' = Trail(op, p)
  <2>1. ASSUME NEW s \in OrgRequests
        PROVE  (asking'[s].at = "audit" /\ asking'[s].op = op /\ asking'[s].target = p)
                  <=> (asking[s].at = "audit" /\ asking[s].op = op /\ asking[s].target = p)
    BY DEF Asks
  <2> QED BY <2>1 DEF Trail, Asks
<1>2. ASSUME NEW op, NEW p PROVE Unnoted(op, p)' = Unnoted(op, p)
  <2>1. Unnoted(op, p) = Cardinality(Trail(op, p)) /\ Unnoted(op, p)' = Cardinality(Trail(op, p)')
    BY DEF Unnoted, Trail
  <2> QED BY <1>1, <2>1
<1> QED BY <1>2 DEF AuditBalances

LEMMA BalanceNext == OrgShapes /\ OrgInv /\ AuditBalances /\ [OrgNext]_orgVars => AuditBalances'
<1> SUFFICES ASSUME OrgShapes, OrgInv, AuditBalances, [OrgNext]_orgVars PROVE AuditBalances'
  OBVIOUS
<1>1. ASSUME NEW q \in OrgRequests, SignIn(q) \/ Found(q) \/ RecordMember(q) PROVE AuditBalances'
  <2>1. UNCHANGED <<org, audit, orgStops>>
    BY <1>1 DEF SignIn, Found, RecordMember
  <2> QED BY <1>1, <2>1, SigningInMoves, BalanceStays
<1>2. ASSUME NEW q \in OrgRequests, Create(q) PROVE AuditBalances'
  <2>1. UNCHANGED <<audit, orgStops>>
    BY <1>2 DEF Create
  <2>2. \A p \in People : (p \in org'.admins /\ p # org'.creator) <=> (p \in org.admins /\ p # org.creator)
    BY <1>2 DEF Create, MayCreate, NoOrg
  <2> QED BY <1>2, <2>1, <2>2, SigningInMoves, BalanceStays
<1>3. ASSUME NEW q \in OrgRequests, BeginChange(q) PROVE AuditBalances'
  BY <1>3, ChangeBegins, BalanceStays
<1>4. ASSUME NEW q \in OrgRequests, ReadOrg(q) PROVE AuditBalances'
  <2>1. asking[q].at # "audit" /\ asking'[q].at # "audit"
    BY <1>4, Reading, Asked DEF Asks
  <2> QED BY <1>4, <2>1, Reading, BalanceStays
<1>5. ASSUME NEW q \in OrgRequests, PutOrg(q) PROVE AuditBalances'
  <2>1. /\ asking[q] \in Changing /\ asking[q].at = "put" /\ org.rev > 0
        /\ \A s \in OrgRequests \ {q} : asking'[s] = asking[s]
        /\ UNCHANGED <<audit, orgStops>>
    BY <1>5, Putting DEF Asks
  <2>2. CASE org' = org
    <3>1. asking'[q].at # "audit"
      <4>1. org'.rev # org.rev + 1
        BY <2>2, OrgBounds DEF OrgShapes, Orgs
      <4> QED BY <1>5, <4>1, Putting, Asked
    <3> QED BY <2>1, <2>2, <3>1, BalanceStays
  <2>3. CASE org' # org
    <3> DEFINE t == asking[q].target
               adds == asking[q].op = "add"
    <3>1. /\ asking'[q].at = "audit" /\ asking'[q].op = asking[q].op /\ asking'[q].target = t
          /\ ~Refuses(org, asking[q].op, t) /\ ~Needless(org, asking[q].op, t)
          /\ org'.creator = org.creator
          /\ org'.admins = IF adds THEN org.admins \cup {t} ELSE org.admins \ {t}
      BY <1>5, <2>3, Putting
    <3>2. asking[q].op \in {"add", "remove"} /\ t \in People
      BY <2>1, Asked
    <3>3. t # org.creator /\ (adds => t \notin org.admins) /\ (~adds => t \in org.admins)
      BY <2>1, <3>1, <3>2 DEF Refuses, Needless, IsAdmin
    <3>4. \A op, p : Trail(op, p)' = IF op = asking[q].op /\ p = t THEN Trail(op, p) \cup {q} ELSE Trail(op, p)
      BY <2>1, <3>1 DEF Trail, Asks
    <3>5. \A op, p : q \notin Trail(op, p)
      BY <2>1 DEF Trail, Asks
    <3>6. \A op, p : Unnoted(op, p)' = IF op = asking[q].op /\ p = t THEN Unnoted(op, p) + 1 ELSE Unnoted(op, p)
      <4> SUFFICES ASSUME NEW op, NEW p
                   PROVE  Unnoted(op, p)' = IF op = asking[q].op /\ p = t THEN Unnoted(op, p) + 1 ELSE Unnoted(op, p)
        OBVIOUS
      <4>1. Unnoted(op, p)' = Cardinality(Trail(op, p)')
        BY DEF Unnoted, Trail
      <4>2. Unnoted(op, p) = Cardinality(Trail(op, p)) /\ IsFiniteSet(Trail(op, p))
        BY TrailCounts
      <4>3. Cardinality(Trail(op, p) \cup {q}) = Cardinality(Trail(op, p)) + 1
        BY <3>5, <4>2, FS_AddElement
      <4>4. Trail(op, p)' = IF op = asking[q].op /\ p = t THEN Trail(op, p) \cup {q} ELSE Trail(op, p)
        BY <3>4
      <4> HIDE DEF t
      <4> QED BY <4>1, <4>2, <4>3, <4>4
    <3> SUFFICES ASSUME orgStops' = 0, NEW p \in People
                 PROVE  audit[p].added - audit[p].removed + Unnoted("add", p)' - Unnoted("remove", p)'
                           = IF p \in org'.admins /\ p # org'.creator THEN 1 ELSE 0
      BY <2>1 DEF AuditBalances
    <3>7. audit[p].added - audit[p].removed + Unnoted("add", p) - Unnoted("remove", p)
             = IF p \in org.admins /\ p # org.creator THEN 1 ELSE 0
      BY <2>1 DEF AuditBalances
    <3>8. audit[p].added \in Nat /\ audit[p].removed \in Nat
      BY DEF OrgShapes
    <3>9. Unnoted("add", p) \in Nat /\ Unnoted("remove", p) \in Nat
      BY TrailCounts
    <3> HIDE DEF t
    <3>10. CASE p # t
      <4>1. Unnoted("add", p)' = Unnoted("add", p) /\ Unnoted("remove", p)' = Unnoted("remove", p)
        BY <3>6, <3>10
      <4>2. (p \in org'.admins /\ p # org'.creator) <=> (p \in org.admins /\ p # org.creator)
        BY <3>1, <3>10
      <4> QED BY <3>7, <4>1, <4>2
    <3>11. CASE p = t /\ adds
      <4>1. Unnoted("add", p)' = Unnoted("add", p) + 1 /\ Unnoted("remove", p)' = Unnoted("remove", p)
        BY <3>6, <3>11
      <4>2. p \notin org.admins /\ p \in org'.admins /\ p # org'.creator
        BY <3>1, <3>3, <3>11
      <4> QED BY <3>7, <3>8, <3>9, <4>1, <4>2
    <3>12. CASE p = t /\ ~adds
      <4>1. Unnoted("add", p)' = Unnoted("add", p) /\ Unnoted("remove", p)' = Unnoted("remove", p) + 1
        BY <3>2, <3>6, <3>12
      <4>2. p \in org.admins /\ p # org.creator /\ p \notin org'.admins
        BY <3>1, <3>3, <3>12
      <4> QED BY <3>7, <3>8, <3>9, <4>1, <4>2
    <3> QED BY <3>10, <3>11, <3>12
  <2> QED BY <2>2, <2>3
<1>6. ASSUME NEW q \in OrgRequests, Audit(q) PROVE AuditBalances'
  <2> DEFINE t == asking[q].target
             adds == asking[q].op = "add"
  <2>1. /\ asking[q] \in Changing /\ asking[q].at = "audit" /\ t \in People /\ asking[q].op \in {"add", "remove"}
        /\ asking' = [asking EXCEPT ![q] = Away]
        /\ UNCHANGED <<org, orgStops>>
    BY <1>6, Asked DEF Audit, Asks, End
  <2>2. asking'[q].at = "away" /\ \A s \in OrgRequests \ {q} : asking'[s] = asking[s]
    BY <2>1, OneMoves, Asked
  <2>3. \A op, p : Trail(op, p)' = IF op = asking[q].op /\ p = t THEN Trail(op, p) \ {q} ELSE Trail(op, p)
    BY <2>1, <2>2 DEF Trail, Asks
  <2>4. q \in Trail(asking[q].op, t)
    BY <2>1 DEF Trail, Asks
  <2>5. \A op, p : Unnoted(op, p)' = IF op = asking[q].op /\ p = t THEN Unnoted(op, p) - 1 ELSE Unnoted(op, p)
    <3> SUFFICES ASSUME NEW op, NEW p
                 PROVE  Unnoted(op, p)' = IF op = asking[q].op /\ p = t THEN Unnoted(op, p) - 1 ELSE Unnoted(op, p)
      OBVIOUS
    <3>1. Unnoted(op, p)' = Cardinality(Trail(op, p)')
      BY DEF Unnoted, Trail
    <3>2. Unnoted(op, p) = Cardinality(Trail(op, p)) /\ IsFiniteSet(Trail(op, p))
      BY TrailCounts
    <3>3. Cardinality(Trail(op, p) \ {q}) = IF q \in Trail(op, p) THEN Cardinality(Trail(op, p)) - 1
                                                                ELSE Cardinality(Trail(op, p))
      BY <3>2, FS_RemoveElement
    <3>4. Trail(op, p)' = IF op = asking[q].op /\ p = t THEN Trail(op, p) \ {q} ELSE Trail(op, p)
      BY <2>3
    <3> HIDE DEF t
    <3> QED BY <2>4, <3>1, <3>2, <3>3, <3>4
  <2>6. /\ \A p \in People \ {t} : audit'[p] = audit[p]
        /\ audit'[t] = IF adds THEN [audit[t] EXCEPT !.added = audit[t].added + 1]
                              ELSE [audit[t] EXCEPT !.removed = audit[t].removed + 1]
    BY <1>6, <2>1 DEF Audit, OrgShapes
  <2>7. audit[t] \in [added : Nat, removed : Nat]
    BY <2>1 DEF OrgShapes
  <2> HIDE DEF t
  <2>8. /\ adds => audit'[t].added = audit[t].added + 1 /\ audit'[t].removed = audit[t].removed
        /\ ~adds => audit'[t].added = audit[t].added /\ audit'[t].removed = audit[t].removed + 1
    BY <2>6, <2>7
  <2> SUFFICES ASSUME orgStops' = 0, NEW p \in People
               PROVE  audit'[p].added - audit'[p].removed + Unnoted("add", p)' - Unnoted("remove", p)'
                         = IF p \in org.admins /\ p # org.creator THEN 1 ELSE 0
    BY <2>1 DEF AuditBalances
  <2>9. audit[p].added - audit[p].removed + Unnoted("add", p) - Unnoted("remove", p)
           = IF p \in org.admins /\ p # org.creator THEN 1 ELSE 0
    BY <2>1 DEF AuditBalances
  <2>10. audit[p].added \in Nat /\ audit[p].removed \in Nat
    BY DEF OrgShapes
  <2>11. Unnoted("add", p) \in Nat /\ Unnoted("remove", p) \in Nat
    BY TrailCounts
  <2>12. CASE p # t
    BY <2>5, <2>6, <2>9, <2>12
  <2>13. CASE p = t /\ adds
    <3>1. Unnoted("add", p)' = Unnoted("add", p) - 1 /\ Unnoted("remove", p)' = Unnoted("remove", p)
      BY <2>5, <2>13
    <3> QED BY <2>8, <2>9, <2>10, <2>11, <2>13, <3>1
  <2>14. CASE p = t /\ ~adds
    <3>1. Unnoted("add", p)' = Unnoted("add", p) /\ Unnoted("remove", p)' = Unnoted("remove", p) - 1
      BY <2>1, <2>5, <2>14
    <3> QED BY <2>8, <2>9, <2>10, <2>11, <2>14, <3>1
  <2> QED BY <2>12, <2>13, <2>14
<1>7. CASE OrgDies
  BY <1>7, OrgBounds DEF OrgDies, AuditBalances, OrgShapes
<1>8. CASE UNCHANGED orgVars
  <2>1. \A op, p : Unnoted(op, p)' = Unnoted(op, p)
    BY <1>8 DEF orgVars, Unnoted, Asks
  <2> QED BY <1>8, <2>1 DEF orgVars, AuditBalances
<1> QED BY <1>1, <1>2, <1>3, <1>4, <1>5, <1>6, <1>7, <1>8 DEF OrgNext, OrgStep

(* The variables of an organization keep their types (org.py).             *)
THEOREM OrgTypes == OrgSpec => []OrgTypeOK
<1>1. OrgShapes => OrgTypeOK
  BY DEF OrgShapes, OrgTypeOK, Orgs
<1> QED BY OrgShapesInit, OrgShapesNext, OrgInvInit, OrgInvNext, <1>1, PTL DEF OrgSpec

(* However many requests change the admins at once, none of the changes is *)
(* lost or noted twice, the creator stays an admin, every other admin has  *)
(* signed in, and the limit holds (_mutate, add_admin, remove_admin).      *)
THEOREM AdminsAreKept == OrgSpec => []AdminsHold
<1>1. OrgInv /\ AuditBalances => AdminsHold
  BY DEF OrgInv, AdminsHold
<1> QED BY OrgShapesInit, OrgShapesNext, OrgInvInit, OrgInvNext, BalanceNext, <1>1, PTL DEF OrgSpec

(* Whoever creates the organization remains its creator (ensure).          *)
THEOREM OneCreator == OrgSpec => CreatorStays
<1>1. OrgShapes /\ OrgInv /\ [OrgNext]_orgVars => (org # NoOrg => org'.creator = org.creator)
  <2> SUFFICES ASSUME OrgShapes, OrgInv, [OrgNext]_orgVars, org # NoOrg PROVE org'.creator = org.creator
    OBVIOUS
  <2>1. ASSUME NEW q \in OrgRequests, PutOrg(q) PROVE org'.creator = org.creator
    BY <2>1, Putting
  <2>2. ASSUME NEW q \in OrgRequests, Create(q) PROVE org'.creator = org.creator
    BY <2>2 DEF Create, MayCreate
  <2>3. CASE UNCHANGED org
    BY <2>3
  <2> QED BY <2>1, <2>2, <2>3 DEF OrgNext, OrgStep, SignIn, Found, RecordMember, BeginChange, ReadOrg, Audit, OrgDies, orgVars
<1> QED BY OrgShapesInit, OrgShapesNext, OrgInvInit, OrgInvNext, <1>1, PTL DEF OrgSpec, CreatorStays

(***************************************************************************)
(* The saved views                                                         *)
(***************************************************************************)

StoredViews == [at : {"stored"}, owner : Owners, vis : Visibilities, list : Audiences, name : Names, config : Names]
Creating    == [at : {"create"}, id : ViewIds, owner : Owners, vis : Visibilities, list : Audiences]
Editing     == [at : {"read", "write"}, id : ViewIds, tries : Nat, name : {Keep, "new"}, config : {Keep, "new"},
                vis : {Keep} \cup Visibilities, list : {KeepAll} \cup Audiences,
                read : StoredViews \cup {NoView}, current : BOOLEAN]

ViewShapes ==
    /\ view \in [ViewIds -> {NoView, Deleted} \cup StoredViews]
    /\ tab \in [ViewTabs -> {NoCall} \cup Creating \cup Editing]
    /\ kept \in [ViewIds -> [name : Names, config : Names]]
    /\ patches \in Nat

(* An id that is being created is nobody else's and not stored yet; what a *)
(* request is about to write it made from a view as it is, or its write    *)
(* will fail.                                                              *)
ViewWork ==
    /\ \A t \in ViewTabs : Does(t, "create") =>
          /\ view[tab[t].id] = NoView
          /\ tab[t].vis = "specific" <=> tab[t].list # NoOne
          /\ \A u \in ViewTabs \ {t} : Does(u, "create") => tab[u].id # tab[t].id
    /\ \A t \in ViewTabs : Does(t, "read") \/ Does(t, "write") => view[tab[t].id] # NoView
    /\ \A t \in ViewTabs : Does(t, "write") =>
          /\ tab[t].read \in StoredViews /\ ~Rejected(tab[t], tab[t].read)
          /\ tab[t].current => tab[t].read = view[tab[t].id]
    /\ \A v \in ViewIds : view[v] = NoView => kept[v].name = "old" /\ kept[v].config = "old"

Pending(o) == {t \in ViewTabs : Does(t, "create") /\ tab[t].owner = o}

ViewCounts ==
    \A o \in Owners :
       /\ IsFiniteSet(Mine(o))
       /\ Cardinality(Mine(o)) + Cardinality(Pending(o)) < MAX_VIEWS_PER_MODULE + Cardinality(ViewTabs)

ViewInv == ViewWork /\ AudienceFits /\ ChangesKept

LEMMA ViewsInitially == ViewsInit => ViewShapes /\ ViewInv /\ ViewCounts
<1> SUFFICES ASSUME ViewsInit PROVE ViewShapes /\ ViewInv /\ ViewCounts
  OBVIOUS
<1>1. ViewShapes
  BY DEF ViewsInit, ViewShapes, Names
<1>2. \A v \in ViewIds : ~Stored(v)
  BY DEF ViewsInit, Stored, NoView
<1>3. \A t \in ViewTabs : Does(t, "quiet")
  BY DEF ViewsInit, Does, NoCall
<1>4. ViewInv
  BY <1>2, <1>3 DEF ViewInv, ViewWork, AudienceFits, ChangesKept, ViewsInit, Does
<1>5. ASSUME NEW o \in Owners
      PROVE  /\ IsFiniteSet(Mine(o))
             /\ Cardinality(Mine(o)) + Cardinality(Pending(o)) < MAX_VIEWS_PER_MODULE + Cardinality(ViewTabs)
  <2>1. Mine(o) = {} /\ Pending(o) = {}
    BY <1>2, <1>3 DEF Mine, Pending, Does
  <2>2. Cardinality(ViewTabs) \in Nat /\ MAX_VIEWS_PER_MODULE \in Nat \ {0}
    BY ViewBounds, FS_CardinalityType
  <2> QED BY <2>1, <2>2, FS_EmptySet
<1> QED BY <1>1, <1>4, <1>5 DEF ViewCounts

(* What a change makes of a view fits it.                                  *)
LEMMA ChangedView ==
    ASSUME NEW r \in Editing, NEW v \in StoredViews, ~Rejected(r, v)
    PROVE  /\ Changed(r, v) \in StoredViews
           /\ Changed(r, v).at = "stored" /\ Changed(r, v).owner = v.owner
           /\ Changed(r, v).vis = "specific" <=> Changed(r, v).list # NoOne
           /\ Changed(r, v).name = Either(r.name, Keep, v.name)
           /\ Changed(r, v).config = Either(r.config, Keep, v.config)
<1> DEFINE vis  == Either(r.vis, Keep, v.vis)
           list == Either(r.list, KeepAll, v.list)
<1>1. vis \in Visibilities /\ list \in Audiences
  BY DEF Editing, StoredViews, Either
<1>2. Audience(vis, list) \in Audiences /\ (vis = "specific" <=> Audience(vis, list) # NoOne)
  BY <1>1, ViewBounds DEF Rejected, Refused, Audience
<1>3. Either(r.name, Keep, v.name) \in Names /\ Either(r.config, Keep, v.config) \in Names
  BY DEF Editing, StoredViews, Either, Names
<1> HIDE DEF vis, list
<1>4. Changed(r, v) = [v EXCEPT !.name = Either(r.name, Keep, v.name), !.config = Either(r.config, Keep, v.config),
                               !.vis = vis, !.list = Audience(vis, list)]
  BY DEF Changed, vis, list
<1> QED BY <1>1, <1>2, <1>3, <1>4 DEF StoredViews

(* What each step does, field by field.                                    *)
LEMMA Creates ==
    ASSUME ViewShapes, NEW t \in ViewTabs, CreateView(t)
    PROVE  /\ UNCHANGED <<view, patches, kept>> /\ Does(t, "quiet")
           /\ \A u \in ViewTabs \ {t} : tab'[u] = tab[u]
           /\ tab'[t] \in Creating /\ tab' \in [ViewTabs -> {NoCall} \cup Creating \cup Editing]
           /\ tab'[t].id \notin Taken /\ view[tab'[t].id] = NoView
           /\ tab'[t].vis = "specific" <=> tab'[t].list # NoOne
           /\ Cardinality(Mine(tab'[t].owner)) < MAX_VIEWS_PER_MODULE
<1>1. PICK v \in {x \in ViewIds \ Taken : view[x] = NoView}, o \in Owners, vis \in Visibilities, list \in Audiences :
         /\ ~Refused(vis, list)
         /\ Cardinality(Mine(o)) < MAX_VIEWS_PER_MODULE
         /\ tab' = [tab EXCEPT ![t] = [at |-> "create", id |-> v, owner |-> o, vis |-> vis, list |-> Audience(vis, list)]]
  BY DEF CreateView
<1>2. Audience(vis, list) \in Audiences /\ (vis = "specific" <=> Audience(vis, list) # NoOne)
  BY <1>1, ViewBounds DEF Refused, Audience
<1>3. tab'[t] = [at |-> "create", id |-> v, owner |-> o, vis |-> vis, list |-> Audience(vis, list)]
  BY <1>1 DEF ViewShapes
<1>4. tab'[t] \in Creating
  BY <1>1, <1>2, <1>3 DEF Creating
<1>5. /\ \A u \in ViewTabs \ {t} : tab'[u] = tab[u]
      /\ tab' \in [ViewTabs -> {NoCall} \cup Creating \cup Editing]
  BY <1>1, <1>3, <1>4 DEF ViewShapes
<1> QED BY <1>1, <1>2, <1>3, <1>4, <1>5 DEF CreateView

LEMMA EditsBegin ==
    ASSUME ViewShapes, NEW t \in ViewTabs, EditView(t)
    PROVE  /\ UNCHANGED <<view, patches, kept>> /\ Does(t, "quiet")
           /\ \A u \in ViewTabs \ {t} : tab'[u] = tab[u]
           /\ tab'[t] \in Editing /\ tab' \in [ViewTabs -> {NoCall} \cup Creating \cup Editing]
           /\ tab'[t].at = "read" /\ Stored(tab'[t].id)
<1>1. PICK v \in ViewIds, name \in {Keep, "new"}, config \in {Keep, "new"}, vis \in {Keep} \cup Visibilities,
           list \in {KeepAll} \cup Audiences :
         /\ Stored(v)
         /\ tab' = [tab EXCEPT ![t] = [at |-> "read", id |-> v, tries |-> 1, name |-> name, config |-> config,
                                       vis |-> vis, list |-> list, read |-> NoView, current |-> FALSE]]
  BY DEF EditView
<1>2. tab'[t] = [at |-> "read", id |-> v, tries |-> 1, name |-> name, config |-> config,
                 vis |-> vis, list |-> list, read |-> NoView, current |-> FALSE]
  BY <1>1 DEF ViewShapes
<1>3. tab'[t] \in Editing
  BY <1>2 DEF Editing
<1>4. /\ \A u \in ViewTabs \ {t} : tab'[u] = tab[u]
      /\ tab' \in [ViewTabs -> {NoCall} \cup Creating \cup Editing]
  BY <1>1, <1>3 DEF ViewShapes
<1> QED BY <1>1, <1>2, <1>3, <1>4 DEF EditView

LEMMA EditsRead ==
    ASSUME ViewShapes, ViewInv, NEW t \in ViewTabs, ReadView(t)
    PROVE  /\ UNCHANGED <<view, patches, kept>> /\ Does(t, "read") /\ tab[t] \in Editing
           /\ \A u \in ViewTabs \ {t} : tab'[u] = tab[u]
           /\ tab' \in [ViewTabs -> {NoCall} \cup Creating \cup Editing]
           /\ \/ tab'[t] = NoCall
              \/ /\ tab'[t] \in Editing /\ tab'[t].at = "write" /\ tab'[t].id = tab[t].id
                 /\ tab'[t].read = view[tab[t].id] /\ tab'[t].read \in StoredViews
                 /\ ~Rejected(tab'[t], tab'[t].read)
<1>1. tab[t] \in Editing
  BY DEF ViewShapes, ReadView, Does, NoCall, Creating
<1> DEFINE v == view[tab[t].id]
           r == [tab[t] EXCEPT !.at = "write", !.read = v, !.current = TRUE]
<1>2. v \in {Deleted} \cup StoredViews
  BY <1>1 DEF ViewShapes, ViewInv, ViewWork, ReadView, Editing
<1>3. tab' = [tab EXCEPT ![t] = IF v = Deleted \/ Rejected(tab[t], v) THEN NoCall ELSE r]
  BY DEF ReadView, ViewShapes
<1>4. v # Deleted => /\ r \in Editing /\ r.at = "write" /\ r.read = v /\ r.id = tab[t].id
                     /\ r.vis = tab[t].vis /\ r.list = tab[t].list
  BY <1>1, <1>2 DEF Editing
<1>5. v # Deleted => (Rejected(r, v) <=> Rejected(tab[t], v))
  BY <1>4 DEF Rejected
<1> HIDE DEF v, r
<1>6. /\ \A u \in ViewTabs \ {t} : tab'[u] = tab[u]
      /\ tab'[t] = IF v = Deleted \/ Rejected(tab[t], v) THEN NoCall ELSE r
      /\ DOMAIN tab' = ViewTabs
  BY <1>3 DEF ViewShapes
<1>7. tab'[t] \in {NoCall} \cup Editing
  BY <1>4, <1>6
<1>8. tab' \in [ViewTabs -> {NoCall} \cup Creating \cup Editing]
  BY <1>3, <1>6, <1>7 DEF ViewShapes
<1>9. CASE v = Deleted \/ Rejected(tab[t], v)
  BY <1>1, <1>6, <1>8, <1>9 DEF ReadView
<1>10. CASE ~(v = Deleted \/ Rejected(tab[t], v))
  <2>1. tab'[t] = r /\ v \in StoredViews /\ v # Deleted
    BY <1>2, <1>6, <1>10
  <2>2. r.read \in StoredViews /\ ~Rejected(r, r.read) /\ r.read = view[tab[t].id]
    BY <1>4, <1>5, <1>10, <2>1 DEF v
  <2> QED BY <1>1, <1>4, <1>6, <1>8, <2>1, <2>2 DEF ReadView
<1> QED BY <1>9, <1>10

LEMMA EditsWrite ==
    ASSUME ViewShapes, ViewInv, NEW t \in ViewTabs, WriteView(t)
    PROVE  /\ Does(t, "write") /\ tab[t] \in Editing /\ patches' \in Nat
           /\ tab' \in [ViewTabs -> {NoCall} \cup Creating \cup Editing]
           /\ \/ tab'[t] = NoCall
              \/ tab'[t] \in Editing /\ tab'[t].at = "read" /\ tab'[t].id = tab[t].id
           /\ \A u \in ViewTabs \ {t} : ~(Does(u, "write") /\ tab[u].id = tab[t].id) => tab'[u] = tab[u]
           /\ \/ /\ UNCHANGED <<view, kept>>
                 /\ \A u \in ViewTabs \ {t} : tab'[u] = tab[u]
              \/ /\ tab[t].read = view[tab[t].id] /\ Stored(tab[t].id)
                 /\ view' = [view EXCEPT ![tab[t].id] = Changed(tab[t], tab[t].read)]
                 /\ kept' \in [ViewIds -> [name : Names, config : Names]]
                 /\ \A v \in ViewIds \ {tab[t].id} : kept'[v] = kept[v]
                 /\ kept'[tab[t].id].name = Either(tab[t].name, Keep, kept[tab[t].id].name)
                 /\ kept'[tab[t].id].config = Either(tab[t].config, Keep, kept[tab[t].id].config)
                 /\ \A u \in ViewTabs \ {t} : Does(u, "write") /\ tab[u].id = tab[t].id =>
                       tab'[u] \in Editing /\ tab'[u] = [tab[u] EXCEPT !.current = FALSE]
<1>1. tab[t] \in Editing /\ Does(t, "write")
  BY DEF ViewShapes, WriteView, Does, NoCall, Creating
<1>2. CASE ~tab[t].current
  <2> DEFINE r == [tab[t] EXCEPT !.at = "read", !.tries = tab[t].tries + 1, !.read = NoView]
  <2>0. tab[t].tries + 1 \in Nat /\ NoView \in StoredViews \cup {NoView}
    BY <1>1 DEF Editing
  <2>1. r \in Editing /\ r.at = "read" /\ r.id = tab[t].id
    BY <1>1, <2>0 DEF Editing
  <2>2. /\ tab' = [tab EXCEPT ![t] = IF tab[t].tries = VIEW_WRITE_RETRIES THEN NoCall ELSE r]
        /\ UNCHANGED <<view, patches, kept>>
    BY <1>2 DEF WriteView, MayReplace
  <2> HIDE DEF r
  <2>3. /\ \A u \in ViewTabs \ {t} : tab'[u] = tab[u]
        /\ tab'[t] \in {NoCall, r} /\ tab' \in [ViewTabs -> {NoCall} \cup Creating \cup Editing]
    BY <2>1, <2>2 DEF ViewShapes
  <2> QED BY <1>1, <2>1, <2>2, <2>3 DEF ViewShapes
<1>3. CASE tab[t].current
  <2> DEFINE id == tab[t].id
  <2>1. id \in ViewIds /\ tab[t].read = view[id] /\ tab[t].read \in StoredViews
    BY <1>1, <1>3 DEF ViewInv, ViewWork, Editing
  <2>2. Stored(id)
    BY <2>1 DEF Stored, StoredViews
  <2>3. /\ view' = [view EXCEPT ![id] = Changed(tab[t], tab[t].read)]
        /\ kept' = [kept EXCEPT ![id] = [name |-> Either(tab[t].name, Keep, kept[id].name),
                                         config |-> Either(tab[t].config, Keep, kept[id].config)]]
        /\ tab' = [o \in ViewTabs |-> IF o = t THEN NoCall
                     ELSE IF Does(o, "write") /\ tab[o].id = id THEN [tab[o] EXCEPT !.current = FALSE] ELSE tab[o]]
        /\ patches' = patches + 1
    BY <1>3, <2>1 DEF WriteView, MayReplace, ViewShapes
  <2>4. \A n, k : Either(tab[t].name, Keep, n) \in {n, "new"} /\ Either(tab[t].config, Keep, k) \in {k, "new"}
    BY <1>1 DEF Either, Editing
  <2>5. /\ kept' \in [ViewIds -> [name : Names, config : Names]]
        /\ \A v \in ViewIds \ {id} : kept'[v] = kept[v]
        /\ kept'[id].name = Either(tab[t].name, Keep, kept[id].name)
        /\ kept'[id].config = Either(tab[t].config, Keep, kept[id].config)
    BY <2>1, <2>3, <2>4 DEF ViewShapes, Names
  <2>6. \A u \in ViewTabs \ {t} : Does(u, "write") /\ tab[u].id = id =>
                       tab'[u] \in Editing /\ tab'[u] = [tab[u] EXCEPT !.current = FALSE]
    <3> SUFFICES ASSUME NEW u \in ViewTabs \ {t}, Does(u, "write"), tab[u].id = id
                 PROVE  tab'[u] \in Editing /\ tab'[u] = [tab[u] EXCEPT !.current = FALSE]
      OBVIOUS
    <3>1. tab[u] \in Editing
      BY DEF ViewShapes, Does, NoCall, Creating
    <3>2. tab'[u] = [tab[u] EXCEPT !.current = FALSE]
      BY <2>3
    <3> QED BY <3>1, <3>2 DEF Editing
  <2>7. /\ \A u \in ViewTabs \ {t} : ~(Does(u, "write") /\ tab[u].id = id) => tab'[u] = tab[u]
        /\ tab'[t] = NoCall /\ DOMAIN tab' = ViewTabs
    BY <2>3
  <2>8. tab' \in [ViewTabs -> {NoCall} \cup Creating \cup Editing]
    <3>1. \A u \in ViewTabs : tab'[u] \in {NoCall} \cup Creating \cup Editing
      BY <2>6, <2>7 DEF ViewShapes
    <3>2. tab' = [o \in ViewTabs |-> tab'[o]]
      BY <2>3
    <3> QED BY <3>1, <3>2
  <2>9. patches' \in Nat
    BY <2>3 DEF ViewShapes
  <2> QED BY <1>1, <2>1, <2>2, <2>3, <2>5, <2>6, <2>7, <2>8, <2>9
<1> QED BY <1>2, <1>3, <1>1 DEF Editing

LEMMA Deletes ==
    ASSUME ViewShapes, NEW v \in ViewIds, Stored(v), view' = [view EXCEPT ![v] = Deleted],
           tab' = [o \in ViewTabs |-> IF Does(o, "write") /\ tab[o].id = v THEN [tab[o] EXCEPT !.current = FALSE] ELSE tab[o]]
    PROVE  /\ tab' \in [ViewTabs -> {NoCall} \cup Creating \cup Editing]
           /\ \A u \in ViewTabs : ~(Does(u, "write") /\ tab[u].id = v) => tab'[u] = tab[u]
           /\ \A u \in ViewTabs : Does(u, "write") /\ tab[u].id = v =>
                       tab'[u] \in Editing /\ tab'[u] = [tab[u] EXCEPT !.current = FALSE]
<1>1. \A u \in ViewTabs : ~(Does(u, "write") /\ tab[u].id = v) => tab'[u] = tab[u]
  OBVIOUS
<1>2. \A u \in ViewTabs : Does(u, "write") /\ tab[u].id = v =>
                       tab'[u] \in Editing /\ tab'[u] = [tab[u] EXCEPT !.current = FALSE]
    <2> SUFFICES ASSUME NEW u \in ViewTabs, Does(u, "write"), tab[u].id = v
                 PROVE  tab'[u] \in Editing /\ tab'[u] = [tab[u] EXCEPT !.current = FALSE]
      OBVIOUS
    <2>1. tab[u] \in Editing
      BY DEF ViewShapes, Does, NoCall, Creating
    <2>2. tab'[u] = [tab[u] EXCEPT !.current = FALSE]
      OBVIOUS
    <2> QED BY <2>1, <2>2 DEF Editing
<1>3. \A u \in ViewTabs : tab'[u] \in {NoCall} \cup Creating \cup Editing
  BY <1>1, <1>2 DEF ViewShapes
<1>4. tab' = [o \in ViewTabs |-> tab'[o]]
  OBVIOUS
<1> QED BY <1>1, <1>2, <1>3, <1>4

LEMMA NewPut ==
    ASSUME ViewShapes, NEW t \in ViewTabs, PutNew(t)
    PROVE  /\ Does(t, "create") /\ tab[t] \in Creating /\ UNCHANGED <<patches, kept>>
           /\ tab' = [tab EXCEPT ![t] = NoCall] /\ tab' \in [ViewTabs -> {NoCall} \cup Creating \cup Editing]
           /\ view'[tab[t].id] \in StoredViews
           /\ view'[tab[t].id].at = "stored" /\ view'[tab[t].id].owner = tab[t].owner
           /\ view'[tab[t].id].vis = tab[t].vis /\ view'[tab[t].id].list = tab[t].list
           /\ view'[tab[t].id].name = "old" /\ view'[tab[t].id].config = "old"
           /\ \A v \in ViewIds \ {tab[t].id} : view'[v] = view[v]
           /\ view' \in [ViewIds -> {NoView, Deleted} \cup StoredViews]
<1>1. tab[t] \in Creating
  BY DEF ViewShapes, PutNew, Does, NoCall, Editing
<1> DEFINE new == [at |-> "stored", owner |-> tab[t].owner, vis |-> tab[t].vis,
                   list |-> tab[t].list, name |-> "old", config |-> "old"]
<1>2. new \in StoredViews
  BY <1>1 DEF Creating, StoredViews, Names
<1>3. view' = [view EXCEPT ![tab[t].id] = new] /\ tab[t].id \in ViewIds
  BY <1>1 DEF PutNew, Creating
<1>4. /\ view'[tab[t].id] = new /\ \A v \in ViewIds \ {tab[t].id} : view'[v] = view[v]
      /\ view' \in [ViewIds -> {NoView, Deleted} \cup StoredViews]
  BY <1>2, <1>3 DEF ViewShapes
<1>5. tab' = [tab EXCEPT ![t] = NoCall] /\ tab' \in [ViewTabs -> {NoCall} \cup Creating \cup Editing]
  BY DEF PutNew, Leave, ViewShapes
<1> QED BY <1>1, <1>2, <1>4, <1>5 DEF PutNew

LEMMA ViewShapesNext == ViewShapes /\ ViewInv /\ [ViewsNext]_viewVars => ViewShapes'
<1> SUFFICES ASSUME ViewShapes, ViewInv, [ViewsNext]_viewVars PROVE ViewShapes'
  OBVIOUS
<1>1. ASSUME NEW t \in ViewTabs, CreateView(t) PROVE ViewShapes'
  BY <1>1, Creates DEF ViewShapes
<1>2. ASSUME NEW t \in ViewTabs, PutNew(t) PROVE ViewShapes'
  BY <1>2, NewPut DEF ViewShapes
<1>3. ASSUME NEW t \in ViewTabs, EditView(t) PROVE ViewShapes'
  BY <1>3, EditsBegin DEF ViewShapes
<1>4. ASSUME NEW t \in ViewTabs, ReadView(t) PROVE ViewShapes'
  BY <1>4, EditsRead DEF ViewShapes
<1>5. ASSUME NEW t \in ViewTabs, WriteView(t) PROVE ViewShapes'
  <2>1. CASE UNCHANGED <<view, kept>>
    BY <1>5, <2>1, EditsWrite DEF ViewShapes
  <2>2. CASE ~UNCHANGED <<view, kept>>
    <3>1. /\ tab[t] \in Editing /\ tab[t].id \in ViewIds /\ tab[t].read = view[tab[t].id] /\ Does(t, "write")
          /\ view' = [view EXCEPT ![tab[t].id] = Changed(tab[t], tab[t].read)]
          /\ kept' \in [ViewIds -> [name : Names, config : Names]]
          /\ patches' \in Nat /\ tab' \in [ViewTabs -> {NoCall} \cup Creating \cup Editing]
      BY <1>5, <2>2, EditsWrite DEF Editing
    <3>2. Changed(tab[t], tab[t].read) \in StoredViews
      BY <3>1, ChangedView DEF ViewInv, ViewWork
    <3> QED BY <3>1, <3>2 DEF ViewShapes
  <2> QED BY <2>1, <2>2
<1>6. CASE DeleteView
  BY <1>6, Deletes DEF DeleteView, ViewShapes
<1>7. CASE UNCHANGED viewVars
  BY <1>7 DEF viewVars, ViewShapes
<1> QED BY <1>1, <1>2, <1>3, <1>4, <1>5, <1>6, <1>7 DEF ViewsNext

(* The views stay as they are, and requests that go on know what they did. *)
LEMMA WorkStays ==
    ASSUME ViewShapes, ViewInv, UNCHANGED <<view, kept>>, NEW t \in ViewTabs,
           \A u \in ViewTabs \ {t} : tab'[u] = tab[u],
           Does(t, "create")' => /\ view[tab'[t].id] = NoView /\ tab'[t].id \notin Taken
                                 /\ tab'[t].vis = "specific" <=> tab'[t].list # NoOne,
           Does(t, "read")' \/ Does(t, "write")' => view[tab'[t].id] # NoView,
           Does(t, "write")' => /\ tab'[t].read \in StoredViews /\ ~Rejected(tab'[t], tab'[t].read)
                                /\ tab'[t].read = view[tab'[t].id]
    PROVE  ViewInv'
<1>1. AudienceFits' /\ ChangesKept'
  BY DEF ViewInv, AudienceFits, ChangesKept, Stored
<1>2. ASSUME NEW u \in ViewTabs, Does(u, "create")'
      PROVE  /\ view'[tab'[u].id] = NoView
             /\ tab'[u].vis = "specific" <=> tab'[u].list # NoOne
             /\ \A w \in ViewTabs \ {u} : Does(w, "create")' => tab'[w].id # tab'[u].id
  <2>1. CASE u = t
    BY <1>2, <2>1 DEF Does, Taken
  <2>2. CASE u # t
    <3>1. Does(u, "create") /\ tab[u].id \in Taken
      BY <1>2, <2>2 DEF Does, Taken
    <3> QED BY <1>2, <2>2, <3>1 DEF ViewInv, ViewWork, Does
  <2> QED BY <2>1, <2>2
<1>3. \A u \in ViewTabs : Does(u, "read")' \/ Does(u, "write")' => view'[tab'[u].id] # NoView
  BY DEF ViewInv, ViewWork, Does
<1>4. ASSUME NEW u \in ViewTabs, Does(u, "write")'
      PROVE  /\ tab'[u].read \in StoredViews /\ ~Rejected(tab[u], tab[u].read)'
             /\ tab'[u].current => tab'[u].read = view'[tab'[u].id]
  <2>1. CASE u = t
    BY <1>4, <2>1 DEF Rejected
  <2>2. CASE u # t
    BY <1>4, <2>2 DEF ViewInv, ViewWork, Does, Rejected
  <2> QED BY <2>1, <2>2
<1>5. \A v \in ViewIds : view'[v] = NoView => kept'[v].name = "old" /\ kept'[v].config = "old"
  BY DEF ViewInv, ViewWork
<1> QED BY <1>1, <1>2, <1>3, <1>4, <1>5 DEF ViewInv, ViewWork

(* One view changes that no request is creating, and whoever had read it   *)
(* may no longer write it.                                                 *)
LEMMA WorkReplaces ==
    ASSUME ViewShapes, ViewInv, NEW v \in ViewIds,
           \A w \in ViewIds \ {v} : view'[w] = view[w] /\ kept'[w] = kept[w],
           view'[v] # NoView, DOMAIN tab' = ViewTabs,
           Stored(v)' => /\ view'[v].vis = "specific" <=> view'[v].list # NoOne
                         /\ view'[v].name = kept'[v].name /\ view'[v].config = kept'[v].config,
           \A u \in ViewTabs : Does(u, "create")' => Does(u, "create") /\ tab[u].id # v /\ tab'[u] = tab[u],
           \A u \in ViewTabs : Does(u, "read")' \/ Does(u, "write")' =>
               (Does(u, "read") \/ Does(u, "write")) /\ tab'[u].id = tab[u].id,
           \A u \in ViewTabs : Does(u, "write")' =>
               /\ Does(u, "write") /\ tab'[u].read = tab[u].read
               /\ tab'[u].vis = tab[u].vis /\ tab'[u].list = tab[u].list
               /\ tab'[u].current => tab[u].id # v /\ tab[u].current
    PROVE  ViewInv'
<1>1. AudienceFits' /\ ChangesKept'
  BY DEF ViewInv, AudienceFits, ChangesKept, Stored
<1>2. ASSUME NEW u \in ViewTabs, Does(u, "create")'
      PROVE  /\ view'[tab'[u].id] = NoView
             /\ tab'[u].vis = "specific" <=> tab'[u].list # NoOne
             /\ \A w \in ViewTabs \ {u} : Does(w, "create")' => tab'[w].id # tab'[u].id
  <2>1. Does(u, "create") /\ tab[u].id # v /\ tab'[u] = tab[u] /\ tab[u] \in Creating
    BY <1>2 DEF ViewShapes, Does, Editing, NoCall
  <2>2. tab[u].id \in ViewIds
    BY <2>1 DEF Creating
  <2> QED BY <2>1, <2>2 DEF ViewInv, ViewWork
<1>3. ASSUME NEW u \in ViewTabs, Does(u, "read")' \/ Does(u, "write")' PROVE view'[tab'[u].id] # NoView
  <2>1. (Does(u, "read") \/ Does(u, "write")) /\ tab'[u].id = tab[u].id /\ tab[u] \in Editing
    BY <1>3 DEF ViewShapes, Does, Creating, NoCall
  <2>2. tab[u].id \in ViewIds
    BY <2>1 DEF Editing
  <2> QED BY <2>1, <2>2 DEF ViewInv, ViewWork
<1>4. ASSUME NEW u \in ViewTabs, Does(u, "write")'
      PROVE  /\ tab'[u].read \in StoredViews /\ ~Rejected(tab[u], tab[u].read)'
             /\ tab'[u].current => tab'[u].read = view'[tab'[u].id]
  <2>1. /\ Does(u, "write") /\ tab'[u].read = tab[u].read /\ tab[u] \in Editing /\ tab'[u].id = tab[u].id
        /\ tab'[u].vis = tab[u].vis /\ tab'[u].list = tab[u].list
        /\ tab'[u].current => tab[u].id # v /\ tab[u].current
    BY <1>4 DEF ViewShapes, Does, Creating, NoCall
  <2>2. tab[u].id \in ViewIds
    BY <2>1 DEF Editing
  <2>3. ~Rejected(tab[u], tab[u].read)'
    BY <2>1 DEF ViewInv, ViewWork, Rejected
  <2> QED BY <2>1, <2>2, <2>3 DEF ViewInv, ViewWork
<1>5. \A w \in ViewIds : view'[w] = NoView => kept'[w].name = "old" /\ kept'[w].config = "old"
  BY DEF ViewInv, ViewWork
<1> QED BY <1>1, <1>2, <1>3, <1>4, <1>5 DEF ViewInv, ViewWork

LEMMA ViewInvNext == ViewShapes /\ ViewInv /\ [ViewsNext]_viewVars => ViewInv'
<1> SUFFICES ASSUME ViewShapes, ViewInv, [ViewsNext]_viewVars PROVE ViewInv'
  OBVIOUS
<1>1. ASSUME NEW t \in ViewTabs, CreateView(t) PROVE ViewInv'
  <2>1. tab'[t].at = "create"
    BY <1>1, Creates DEF Creating
  <2> QED BY <1>1, <2>1, Creates, WorkStays DEF Does
<1>2. ASSUME NEW t \in ViewTabs, PutNew(t) PROVE ViewInv'
  <2> DEFINE id == tab[t].id
  <2>1. /\ tab[t] \in Creating /\ Does(t, "create") /\ tab' = [tab EXCEPT ![t] = NoCall] /\ UNCHANGED kept
        /\ view'[id] \in StoredViews /\ view'[id].vis = tab[t].vis /\ view'[id].list = tab[t].list
        /\ view'[id].name = "old" /\ view'[id].config = "old"
        /\ \A v \in ViewIds \ {id} : view'[v] = view[v]
    BY <1>2, NewPut
  <2>2. id \in ViewIds /\ view[id] = NoView /\ (tab[t].vis = "specific" <=> tab[t].list # NoOne)
    BY <2>1 DEF Creating, ViewInv, ViewWork
  <2>3. view'[id] # NoView
    BY <2>1 DEF StoredViews, NoView
  <2>4. kept'[id].name = "old" /\ kept'[id].config = "old"
    BY <2>1, <2>2 DEF ViewInv, ViewWork
  <2>5. DOMAIN tab' = ViewTabs /\ tab'[t] = NoCall /\ \A u \in ViewTabs \ {t} : tab'[u] = tab[u]
    BY <2>1 DEF ViewShapes
  <2>6. \A u \in ViewTabs : Does(u, "create")' => Does(u, "create") /\ tab[u].id # id /\ tab'[u] = tab[u]
    BY <2>1, <2>5 DEF Does, NoCall, ViewInv, ViewWork
  <2>7. \A u \in ViewTabs : Does(u, "read")' \/ Does(u, "write")' =>
               (Does(u, "read") \/ Does(u, "write")) /\ tab'[u] = tab[u] /\ tab[u].id # id
    BY <2>2, <2>5 DEF Does, NoCall, ViewInv, ViewWork
  <2>8. \A u \in ViewTabs : Does(u, "write")' => Does(u, "write") /\ tab'[u] = tab[u] /\ tab[u].id # id
    BY <2>2, <2>5 DEF Does, NoCall, ViewInv, ViewWork
  <2> HIDE DEF id
  <2> QED BY <2>1, <2>2, <2>3, <2>4, <2>5, <2>6, <2>7, <2>8, WorkReplaces DEF id
<1>3. ASSUME NEW t \in ViewTabs, EditView(t) PROVE ViewInv'
  BY <1>3, EditsBegin, WorkStays DEF Does, Stored, NoView
<1>4. ASSUME NEW t \in ViewTabs, ReadView(t) PROVE ViewInv'
  <2>1. view[tab[t].id] # NoView
    BY <1>4, EditsRead DEF ViewInv, ViewWork
  <2> QED BY <1>4, <2>1, EditsRead, WorkStays DEF Does, NoCall
<1>5. ASSUME NEW t \in ViewTabs, WriteView(t) PROVE ViewInv'
  <2> DEFINE id == tab[t].id
  <2>1. /\ Does(t, "write") /\ tab[t] \in Editing /\ id \in ViewIds /\ view[id] # NoView
        /\ tab'[t].at \in {"quiet", "read"} /\ (tab'[t].at = "read" => tab'[t].id = id)
    BY <1>5, EditsWrite DEF Editing, NoCall, ViewInv, ViewWork
  <2>2. CASE /\ UNCHANGED <<view, kept>>
             /\ \A u \in ViewTabs \ {t} : tab'[u] = tab[u]
    BY <2>1, <2>2, WorkStays DEF Does
  <2>3. CASE ~(/\ UNCHANGED <<view, kept>>
               /\ \A u \in ViewTabs \ {t} : tab'[u] = tab[u])
    <3>1. /\ tab[t].read = view[id] /\ Stored(id)
          /\ view' = [view EXCEPT ![id] = Changed(tab[t], tab[t].read)]
          /\ \A v \in ViewIds \ {id} : kept'[v] = kept[v]
          /\ kept'[id].name = Either(tab[t].name, Keep, kept[id].name)
          /\ kept'[id].config = Either(tab[t].config, Keep, kept[id].config)
          /\ \A u \in ViewTabs \ {t} : Does(u, "write") /\ tab[u].id = id =>
                tab'[u] \in Editing /\ tab'[u] = [tab[u] EXCEPT !.current = FALSE]
          /\ \A u \in ViewTabs \ {t} : ~(Does(u, "write") /\ tab[u].id = id) => tab'[u] = tab[u]
          /\ DOMAIN tab' = ViewTabs
      BY <1>5, <2>3, EditsWrite
    <3>2. tab[t].read \in StoredViews /\ ~Rejected(tab[t], tab[t].read)
      BY <2>1 DEF ViewInv, ViewWork
    <3>3. /\ view'[id] = Changed(tab[t], tab[t].read) /\ \A v \in ViewIds \ {id} : view'[v] = view[v]
          /\ view'[id].at = "stored" /\ (view'[id].vis = "specific" <=> view'[id].list # NoOne)
          /\ view'[id].name = Either(tab[t].name, Keep, view[id].name)
          /\ view'[id].config = Either(tab[t].config, Keep, view[id].config)
      BY <2>1, <3>1, <3>2, ChangedView DEF ViewShapes
    <3>4. view'[id] # NoView
      BY <3>3 DEF NoView
    <3>5. view'[id].name = kept'[id].name /\ view'[id].config = kept'[id].config
      BY <2>1, <3>1, <3>3 DEF ViewInv, ChangesKept
    <3>6. \A u \in ViewTabs : Does(u, "create")' => Does(u, "create") /\ tab[u].id # id /\ tab'[u] = tab[u]
      <4> SUFFICES ASSUME NEW u \in ViewTabs, Does(u, "create")' PROVE Does(u, "create") /\ tab[u].id # id /\ tab'[u] = tab[u]
        OBVIOUS
      <4>1. u # t
        BY <2>1 DEF Does
      <4>2. ~Does(u, "write")
        <5> SUFFICES ASSUME Does(u, "write") PROVE FALSE
          OBVIOUS
        <5>1. tab[u] \in Editing
          BY DEF ViewShapes, Does, Creating, NoCall
        <5> QED BY <3>1, <4>1, <5>1 DEF Does, Editing
      <4> QED BY <2>1, <3>1, <4>1, <4>2 DEF Does, ViewInv, ViewWork
    <3>7. ASSUME NEW u \in ViewTabs, Does(u, "read")' \/ Does(u, "write")'
          PROVE  /\ Does(u, "read") \/ Does(u, "write")
                 /\ tab'[u].id = tab[u].id
                 /\ Does(u, "write")' =>
                      /\ Does(u, "write") /\ tab'[u].read = tab[u].read
                      /\ tab'[u].vis = tab[u].vis /\ tab'[u].list = tab[u].list
                      /\ tab'[u].current => tab[u].id # id /\ tab[u].current
      <4>1. CASE u = t
        BY <2>1, <3>7, <4>1 DEF Does
      <4>2. CASE u # t /\ Does(u, "write") /\ tab[u].id = id
        <5>1. tab[u] \in Editing /\ tab'[u] = [tab[u] EXCEPT !.current = FALSE]
          BY <3>1, <4>2 DEF ViewShapes, Does, Creating, NoCall
        <5>2. /\ tab'[u].id = tab[u].id /\ tab'[u].read = tab[u].read /\ tab'[u].current = FALSE
              /\ tab'[u].vis = tab[u].vis /\ tab'[u].list = tab[u].list
          BY <5>1 DEF Editing
        <5> QED BY <4>2, <5>2
      <4>3. CASE u # t /\ ~(Does(u, "write") /\ tab[u].id = id)
        BY <3>1, <3>7, <4>3 DEF Does
      <4> QED BY <4>1, <4>2, <4>3
    <3> HIDE DEF id
    <3> QED BY <2>1, <3>1, <3>3, <3>4, <3>5, <3>6, <3>7, WorkReplaces
  <2> QED BY <2>2, <2>3
<1>6. CASE DeleteView
  <2>1. PICK v \in ViewIds :
          /\ Stored(v) /\ view' = [view EXCEPT ![v] = Deleted] /\ UNCHANGED kept
          /\ tab' = [o \in ViewTabs |-> IF Does(o, "write") /\ tab[o].id = v THEN [tab[o] EXCEPT !.current = FALSE] ELSE tab[o]]
    BY <1>6 DEF DeleteView
  <2>2. /\ \A u \in ViewTabs : ~(Does(u, "write") /\ tab[u].id = v) => tab'[u] = tab[u]
        /\ \A u \in ViewTabs : Does(u, "write") /\ tab[u].id = v =>
               tab'[u] \in Editing /\ tab'[u] = [tab[u] EXCEPT !.current = FALSE]
        /\ DOMAIN tab' = ViewTabs
    BY <2>1, Deletes
  <2>3. /\ view'[v] = Deleted /\ view'[v] # NoView /\ ~Stored(v)'
        /\ \A w \in ViewIds \ {v} : view'[w] = view[w] /\ kept'[w] = kept[w]
    BY <2>1 DEF ViewShapes, Deleted, NoView, Stored
  <2>4. ASSUME NEW u \in ViewTabs
        PROVE  /\ Does(u, "create")' => Does(u, "create") /\ tab[u].id # v /\ tab'[u] = tab[u]
               /\ Does(u, "read")' \/ Does(u, "write")' =>
                    (Does(u, "read") \/ Does(u, "write")) /\ tab'[u].id = tab[u].id
               /\ Does(u, "write")' =>
                    /\ Does(u, "write") /\ tab'[u].read = tab[u].read
                    /\ tab'[u].vis = tab[u].vis /\ tab'[u].list = tab[u].list
                    /\ tab'[u].current => tab[u].id # v /\ tab[u].current
    <3>1. CASE Does(u, "write") /\ tab[u].id = v
      <4>1. tab[u] \in Editing /\ tab'[u] = [tab[u] EXCEPT !.current = FALSE]
        BY <2>2, <3>1 DEF ViewShapes, Does, Creating, NoCall
      <4>2. /\ tab'[u].id = tab[u].id /\ tab'[u].read = tab[u].read /\ tab'[u].current = FALSE /\ tab'[u].at = "write"
            /\ tab'[u].vis = tab[u].vis /\ tab'[u].list = tab[u].list
        BY <3>1, <4>1 DEF Editing, Does
      <4> QED BY <3>1, <4>2 DEF Does
    <3>2. CASE ~(Does(u, "write") /\ tab[u].id = v)
      BY <2>1, <2>2, <3>2 DEF Does, ViewInv, ViewWork, Stored, NoView
    <3> QED BY <3>1, <3>2
  <2> QED BY <2>2, <2>3, <2>4, WorkReplaces
<1>7. CASE UNCHANGED viewVars
  BY <1>7 DEF viewVars, ViewInv, ViewWork, AudienceFits, ChangesKept, Stored, Does, Rejected
<1> QED BY <1>1, <1>2, <1>3, <1>4, <1>5, <1>6, <1>7 DEF ViewsNext

(* A view changes hands only where one that was not stored is.             *)
LEMMA CountsStay ==
    ASSUME ViewCounts, \A o \in Owners : Mine(o)' \subseteq Mine(o) /\ Pending(o)' = Pending(o)
    PROVE  ViewCounts'
<1> SUFFICES ASSUME NEW o \in Owners
             PROVE  /\ IsFiniteSet(Mine(o)')
                    /\ Cardinality(Mine(o)') + Cardinality(Pending(o)') < MAX_VIEWS_PER_MODULE + Cardinality(ViewTabs)
  BY DEF ViewCounts
<1>1. IsFiniteSet(Mine(o)) /\ IsFiniteSet(Pending(o)) /\ IsFiniteSet(ViewTabs)
  BY ViewBounds, FS_Subset DEF ViewCounts, Pending
<1>2. IsFiniteSet(Mine(o)') /\ Cardinality(Mine(o)') <= Cardinality(Mine(o))
  BY <1>1, FS_Subset
<1>3. Cardinality(Mine(o)) \in Nat /\ Cardinality(Pending(o)) \in Nat /\ Cardinality(ViewTabs) \in Nat /\ Cardinality(Mine(o)') \in Nat
  BY <1>1, <1>2, FS_CardinalityType
<1>4. MAX_VIEWS_PER_MODULE \in Nat
  BY ViewBounds
<1> QED BY <1>2, <1>3, <1>4 DEF ViewCounts

LEMMA ViewCountsNext == ViewShapes /\ ViewInv /\ ViewCounts /\ [ViewsNext]_viewVars => ViewCounts'
<1> SUFFICES ASSUME ViewShapes, ViewInv, ViewCounts, [ViewsNext]_viewVars PROVE ViewCounts'
  OBVIOUS
<1>0. IsFiniteSet(ViewTabs) /\ Cardinality(ViewTabs) \in Nat /\ MAX_VIEWS_PER_MODULE \in Nat \ {0}
  BY ViewBounds, FS_CardinalityType
<1>f. \A o : IsFiniteSet(Pending(o)) /\ Cardinality(Pending(o)) \in Nat
  BY <1>0, FS_Subset, FS_CardinalityType DEF Pending
<1>1. ASSUME NEW t \in ViewTabs, CreateView(t) PROVE ViewCounts'
  <2>1. /\ UNCHANGED view /\ Does(t, "quiet") /\ Cardinality(Mine(tab'[t].owner)) < MAX_VIEWS_PER_MODULE
        /\ \A u \in ViewTabs \ {t} : tab'[u] = tab[u]
    BY <1>1, Creates
  <2> SUFFICES ASSUME NEW o \in Owners
               PROVE  /\ IsFiniteSet(Mine(o)')
                      /\ Cardinality(Mine(o)') + Cardinality(Pending(o)') < MAX_VIEWS_PER_MODULE + Cardinality(ViewTabs)
    BY DEF ViewCounts
  <2>2. Mine(o)' = Mine(o) /\ IsFiniteSet(Mine(o)) /\ Cardinality(Mine(o)) \in Nat
    BY <2>1, FS_CardinalityType DEF Mine, Stored, ViewCounts
  <2>3. CASE o = tab'[t].owner
    <3>1. Pending(o)' \subseteq ViewTabs
      BY DEF Pending
    <3>2. Cardinality(Pending(o)') <= Cardinality(ViewTabs) /\ Cardinality(Pending(o)') \in Nat
      BY <1>0, <3>1, FS_Subset, FS_CardinalityType
    <3>3. Cardinality(Mine(o)) < MAX_VIEWS_PER_MODULE
      BY <2>1, <2>3
    <3> QED BY <1>0, <2>2, <3>2, <3>3
  <2>4. CASE o # tab'[t].owner
    <3>1. Pending(o)' = Pending(o)
      BY <2>1, <2>4 DEF Pending, Does
    <3> QED BY <2>2, <3>1 DEF ViewCounts
  <2> QED BY <2>3, <2>4
<1>2. ASSUME NEW t \in ViewTabs, PutNew(t) PROVE ViewCounts'
  <2> DEFINE id == tab[t].id
             p  == tab[t].owner
  <2>1. /\ Does(t, "create") /\ tab' = [tab EXCEPT ![t] = NoCall] /\ tab[t] \in Creating
        /\ view'[id].at = "stored" /\ view'[id].owner = p
        /\ \A v \in ViewIds \ {id} : view'[v] = view[v]
    BY <1>2, NewPut
  <2>2. id \in ViewIds /\ p \in Owners /\ view[id] = NoView
    BY <2>1 DEF Creating, ViewInv, ViewWork
  <2>3. ~Stored(id)
    BY <2>2 DEF Stored, NoView
  <2> SUFFICES ASSUME NEW o \in Owners
               PROVE  /\ IsFiniteSet(Mine(o)')
                      /\ Cardinality(Mine(o)') + Cardinality(Pending(o)') < MAX_VIEWS_PER_MODULE + Cardinality(ViewTabs)
    BY DEF ViewCounts
  <2>4. IsFiniteSet(Mine(o)) /\ Cardinality(Mine(o)) \in Nat
    BY FS_CardinalityType DEF ViewCounts
  <2>5. DOMAIN tab = ViewTabs
    BY DEF ViewShapes
  <2>6. CASE o = p
    <3>1. Mine(o)' = Mine(o) \cup {id} /\ id \notin Mine(o)
      BY <2>1, <2>2, <2>3, <2>6 DEF Mine, Stored
    <3>2. Pending(o)' = Pending(o) \ {t} /\ t \in Pending(o)
      BY <2>1, <2>5, <2>6 DEF Pending, Does, NoCall
    <3> HIDE DEF id
    <3>3. IsFiniteSet(Mine(o)') /\ Cardinality(Mine(o)') = Cardinality(Mine(o)) + 1
      BY <2>4, <3>1, FS_AddElement
    <3>4. Cardinality(Pending(o)') = Cardinality(Pending(o)) - 1
      BY <1>f, <3>2, FS_RemoveElement
    <3> QED BY <1>0, <1>f, <2>4, <3>3, <3>4 DEF ViewCounts
  <2>7. CASE o # p
    <3>1. Mine(o)' = Mine(o)
      BY <2>1, <2>2, <2>3, <2>7 DEF Mine, Stored
    <3>2. Pending(o)' = Pending(o)
      BY <2>1, <2>5, <2>7 DEF Pending, Does, NoCall
    <3> QED BY <3>1, <3>2 DEF ViewCounts
  <2> QED BY <2>6, <2>7
<1>3. ASSUME NEW t \in ViewTabs, EditView(t) PROVE ViewCounts'
  <2>1. UNCHANGED view /\ Does(t, "quiet") /\ tab'[t].at = "read" /\ \A u \in ViewTabs \ {t} : tab'[u] = tab[u]
    BY <1>3, EditsBegin
  <2>2. \A o \in Owners : Mine(o)' \subseteq Mine(o) /\ Pending(o)' = Pending(o)
    BY <2>1 DEF Mine, Stored, Pending, Does
  <2> QED BY <2>2, CountsStay
<1>4. ASSUME NEW t \in ViewTabs, ReadView(t) PROVE ViewCounts'
  <2>1. /\ UNCHANGED view /\ Does(t, "read") /\ tab'[t].at \in {"quiet", "write"}
        /\ \A u \in ViewTabs \ {t} : tab'[u] = tab[u]
    BY <1>4, EditsRead DEF NoCall
  <2>2. \A o \in Owners : Mine(o)' \subseteq Mine(o) /\ Pending(o)' = Pending(o)
    BY <2>1 DEF Mine, Stored, Pending, Does
  <2> QED BY <2>2, CountsStay
<1>5. ASSUME NEW t \in ViewTabs, WriteView(t) PROVE ViewCounts'
  <2>1. /\ Does(t, "write") /\ tab'[t].at \in {"quiet", "read"} /\ tab[t] \in Editing
        /\ \A u \in ViewTabs \ {t} : ~(Does(u, "write") /\ tab[u].id = tab[t].id) => tab'[u] = tab[u]
    BY <1>5, EditsWrite DEF NoCall
  <2>2. \A u \in ViewTabs \ {t} : tab'[u] # tab[u] => Does(u, "write") /\ tab'[u].at = "write"
    <3> SUFFICES ASSUME NEW u \in ViewTabs \ {t}, tab'[u] # tab[u] PROVE Does(u, "write") /\ tab'[u].at = "write"
      OBVIOUS
    <3>1. Does(u, "write") /\ tab'[u] = [tab[u] EXCEPT !.current = FALSE]
      BY <1>5, EditsWrite
    <3>2. tab[u] \in Editing
      BY <3>1 DEF ViewShapes, Does, Creating, NoCall
    <3> QED BY <3>1, <3>2 DEF Editing, Does
  <2>3. \A o \in Owners : Pending(o)' = Pending(o)
    BY <2>1, <2>2 DEF Pending, Does
  <2>4. \A o \in Owners : Mine(o)' \subseteq Mine(o)
    <3>1. CASE UNCHANGED view
      BY <3>1 DEF Mine, Stored
    <3>2. CASE ~UNCHANGED view
      <4>1. /\ tab[t].id \in ViewIds /\ tab[t].read = view[tab[t].id] /\ Stored(tab[t].id)
            /\ view' = [view EXCEPT ![tab[t].id] = Changed(tab[t], tab[t].read)]
        BY <1>5, <2>1, <3>2, EditsWrite DEF Editing
      <4>2. tab[t].read \in StoredViews /\ ~Rejected(tab[t], tab[t].read)
        BY <2>1 DEF ViewInv, ViewWork
      <4>3. Changed(tab[t], tab[t].read).owner = view[tab[t].id].owner
        BY <2>1, <4>1, <4>2, ChangedView
      <4>4. /\ view'[tab[t].id].owner = view[tab[t].id].owner
            /\ \A v \in ViewIds \ {tab[t].id} : view'[v] = view[v]
        BY <4>1, <4>3 DEF ViewShapes
      <4> QED BY <4>1, <4>4 DEF Mine, Stored
    <3> QED BY <3>1, <3>2
  <2> QED BY <2>3, <2>4, CountsStay
<1>6. CASE DeleteView
  <2>1. PICK v \in ViewIds :
          /\ Stored(v) /\ view' = [view EXCEPT ![v] = Deleted]
          /\ tab' = [o \in ViewTabs |-> IF Does(o, "write") /\ tab[o].id = v THEN [tab[o] EXCEPT !.current = FALSE] ELSE tab[o]]
    BY <1>6 DEF DeleteView
  <2>2. \A u \in ViewTabs : tab'[u] # tab[u] => Does(u, "write") /\ tab'[u].at = "write"
    <3> SUFFICES ASSUME NEW u \in ViewTabs, tab'[u] # tab[u] PROVE Does(u, "write") /\ tab'[u].at = "write"
      OBVIOUS
    <3>1. Does(u, "write") /\ tab'[u] = [tab[u] EXCEPT !.current = FALSE]
      BY <2>1
    <3>2. tab[u] \in Editing
      BY <3>1 DEF ViewShapes, Does, Creating, NoCall
    <3> QED BY <3>1, <3>2 DEF Editing, Does
  <2>3. \A o \in Owners : Pending(o)' = Pending(o)
    BY <2>2 DEF Pending, Does
  <2>4. \A o \in Owners : Mine(o)' \subseteq Mine(o)
    BY <2>1 DEF ViewShapes, Mine, Stored, Deleted
  <2> QED BY <2>3, <2>4, CountsStay
<1>7. CASE UNCHANGED viewVars
  <2>1. \A o \in Owners : Mine(o)' \subseteq Mine(o) /\ Pending(o)' = Pending(o)
    BY <1>7 DEF viewVars, Mine, Stored, Pending, Does
  <2> QED BY <2>1, CountsStay
<1> QED BY <1>1, <1>2, <1>3, <1>4, <1>5, <1>6, <1>7 DEF ViewsNext

(* Whatever tabs edit and delete a view at once, it lists people exactly   *)
(* when specific ones see it, changes of different fields are both kept,   *)
(* and a person has no more views than may be saved, apart from those      *)
(* saved at once (views.py, store.mutate_view).                            *)
THEOREM ViewsStand == ViewsSpec => []ViewsHold
<1>1. ViewInv /\ ViewCounts => ViewsHold
  <2> SUFFICES ASSUME ViewInv, ViewCounts, NEW o \in Owners
               PROVE  Cardinality(Mine(o)) < MAX_VIEWS_PER_MODULE + Cardinality(ViewTabs)
    BY DEF ViewsHold, ViewsBounded, ViewInv
  <2>1. IsFiniteSet(ViewTabs) /\ Cardinality(ViewTabs) \in Nat /\ MAX_VIEWS_PER_MODULE \in Nat
    BY ViewBounds, FS_CardinalityType
  <2>2. IsFiniteSet(Pending(o))
    BY <2>1, FS_Subset DEF Pending
  <2>3. Cardinality(Pending(o)) \in Nat /\ Cardinality(Mine(o)) \in Nat
    BY <2>2, FS_CardinalityType DEF ViewCounts
  <2> QED BY <2>1, <2>3 DEF ViewCounts
<1> QED BY ViewsInitially, ViewShapesNext, ViewInvNext, ViewCountsNext, <1>1, PTL DEF ViewsSpec

(* No request stores a view again that somebody deleted (_editable,        *)
(* store.mutate_view).                                                     *)
THEOREM DeletedStay == ViewsSpec => DeletedViewsStay
<1>1. ViewShapes /\ ViewInv /\ [ViewsNext]_viewVars => \A v \in ViewIds : view[v] = Deleted => view'[v] = Deleted
  <2> SUFFICES ASSUME ViewShapes, ViewInv, [ViewsNext]_viewVars, NEW v \in ViewIds, view[v] = Deleted
               PROVE  view'[v] = Deleted
    OBVIOUS
  <2>1. ASSUME NEW t \in ViewTabs, PutNew(t) PROVE view'[v] = Deleted
    <3>1. Does(t, "create") /\ \A w \in ViewIds \ {tab[t].id} : view'[w] = view[w]
      BY <2>1, NewPut
    <3>2. view[tab[t].id] = NoView
      BY <3>1 DEF ViewInv, ViewWork
    <3> QED BY <3>1, <3>2 DEF NoView, Deleted
  <2>2. ASSUME NEW t \in ViewTabs, WriteView(t) PROVE view'[v] = Deleted
    <3>1. CASE UNCHANGED view
      BY <3>1
    <3>2. CASE ~UNCHANGED view
      <4>1. Stored(tab[t].id) /\ view' = [view EXCEPT ![tab[t].id] = Changed(tab[t], tab[t].read)]
        BY <2>2, <3>2, EditsWrite
      <4>2. tab[t].id # v
        BY <4>1 DEF Stored, Deleted
      <4> QED BY <4>1, <4>2 DEF ViewShapes
    <3> QED BY <3>1, <3>2
  <2>3. CASE DeleteView
    BY <2>3 DEF DeleteView, ViewShapes
  <2> QED BY <2>1, <2>2, <2>3, Creates, EditsBegin, EditsRead DEF ViewsNext, viewVars
<1> QED BY ViewsInitially, ViewShapesNext, ViewInvNext, <1>1, PTL DEF ViewsSpec, DeletedViewsStay

(***************************************************************************)
(* The review matrix                                                       *)
(***************************************************************************)

Works   == {"pointer", "seed", "first", "version", "upgrade", "point", "again", "have", "move", "failed"}
Working == [at : Works, op : {"read", "save"}, code : 0 .. MaxBuiltin, reads : Nat, tries : Nat,
            found : 0 .. MaxVersion, raced : BOOLEAN]
Written == [by : MatrixRequests \cup {"system", "nobody"}, text : 0 .. MaxBuiltin]

MatrixShapes ==
    /\ builtin \in 0 .. MaxBuiltin /\ pointer \in 0 .. MaxVersion /\ stops \in 0 .. MaxStops
    /\ versions \in [1 .. MaxVersion -> Written]
    /\ saved \subseteq 1 .. MaxVersion /\ lonely \in BOOLEAN
    /\ reading \in [MatrixRequests -> {Resting} \cup Working]

(* What a request knows of the version it found and of the one it wrote.   *)
Informed(q, r) ==
    /\ r.found <= pointer /\ r.at # "failed"
    /\ r.at \in {"version", "upgrade", "point", "again", "have", "move"} => r.found >= 1
    /\ r.at \in {"seed", "first"} => r.reads = 1
    /\ r.at = "pointer" => r.reads = 1 \/ pointer # 0
    /\ r.at = "first" => ~Free(1)
    /\ r.at \in {"upgrade", "point"} => versions[r.found].by = "system"
    /\ r.at = "point" => r.found < MaxVersion /\ versions[r.found + 1].by = "system"
    /\ r.at = "move"  => r.found < MaxVersion /\ versions[r.found + 1].by = q

MatrixWork ==
    /\ SavesStand
    /\ \A q \in MatrixRequests : ~At(q, "rest") => Informed(q, reading[q])

(* A request that has been alone since it began works on what is current,  *)
(* and finds the next number free unless one died.                         *)
Alone ==
    \A q \in MatrixRequests : ~At(q, "rest") /\ ~reading[q].raced =>
       /\ \A o \in MatrixRequests \ {q} : At(o, "rest")
       /\ reading[q].at \in {"version", "upgrade", "point", "have", "move"} => reading[q].found = pointer

MatrixInv == MatrixWork /\ Alone /\ NoVersionStranded

LEMMA MatrixInitially == MatrixInit => MatrixShapes /\ MatrixInv
<1> SUFFICES ASSUME MatrixInit PROVE MatrixShapes /\ MatrixInv
  OBVIOUS
<1>0. 0 \in 0 .. MaxBuiltin /\ 0 \in 0 .. MaxVersion /\ 0 \in 0 .. MaxStops
  BY MatrixBounds
<1>n. NoVersion \in Written
  BY <1>0 DEF NoVersion, Written
<1>1. MatrixShapes
  BY <1>0, <1>n DEF MatrixInit, MatrixShapes
<1>2. \A q \in MatrixRequests : At(q, "rest")
  BY DEF MatrixInit, At, Resting
<1>3. \A n \in 1 .. MaxVersion : Free(n)
  BY DEF MatrixInit, Free
<1>4. SavesStand /\ NoVersionStranded
  BY <1>3 DEF MatrixInit, SavesStand, NoVersionStranded
<1> QED BY <1>1, <1>2, <1>4 DEF MatrixInv, MatrixWork, Alone

(* One request goes on; what the others do is as it was.                   *)
LEMMA OneReads ==
    ASSUME MatrixShapes, NEW q \in MatrixRequests, NEW r \in {Resting} \cup Working,
           reading' = [reading EXCEPT ![q] = r]
    PROVE  /\ reading' \in [MatrixRequests -> {Resting} \cup Working]
           /\ reading'[q] = r /\ \A o \in MatrixRequests \ {q} : reading'[o] = reading[o]
BY DEF MatrixShapes

LEMMA AtWork == ASSUME MatrixShapes, NEW q \in MatrixRequests, ~At(q, "rest") PROVE reading[q] \in Working
BY DEF MatrixShapes, At, Resting

(* What each step of a request writes.                                     *)
Turns(q, r) ==
    /\ reading[q] \in Working
    /\ reading' \in [MatrixRequests -> {Resting} \cup Working]
    /\ reading'[q] = r /\ \A o \in MatrixRequests \ {q} : reading'[o] = reading[o]

LEMMA ReadsPointer ==
    ASSUME MatrixShapes, NEW q \in MatrixRequests, ReadPointer(q)
    PROVE  /\ At(q, "pointer") /\ UNCHANGED <<stored, matrixTail>>
           /\ Turns(q, [reading[q] EXCEPT !.at = IF pointer = 0 THEN "seed" ELSE "version", !.found = pointer])
<1>1. reading[q] \in Working
  BY AtWork DEF ReadPointer, At
<1>2. [reading[q] EXCEPT !.at = IF pointer = 0 THEN "seed" ELSE "version", !.found = pointer] \in Working
  BY <1>1 DEF Working, Works, MatrixShapes
<1> QED BY <1>1, <1>2, OneReads DEF ReadPointer, Turns

LEMMA GoesTo ==
    ASSUME MatrixShapes, NEW q \in MatrixRequests, NEW at \in Works, ~At(q, "rest"), Goto(q, at)
    PROVE  Turns(q, [reading[q] EXCEPT !.at = at])
<1>1. reading[q] \in Working
  BY AtWork
<1>2. [reading[q] EXCEPT !.at = at] \in Working
  BY <1>1 DEF Working
<1>3. reading' = [reading EXCEPT ![q] = [reading[q] EXCEPT !.at = at]]
  BY DEF Goto
<1> QED BY <1>1, <1>2, <1>3, OneReads DEF Turns

LEMMA PointsFirst ==
    ASSUME MatrixShapes, NEW q \in MatrixRequests, PointFirst(q)
    PROVE  /\ At(q, "first") /\ UNCHANGED <<versions, matrixTail>>
           /\ pointer' = IF pointer = 0 THEN 1 ELSE pointer
           /\ reading[q].reads # MAX_READS => Turns(q, [reading[q] EXCEPT !.at = "pointer", !.reads = reading[q].reads + 1])
           /\ reading[q].reads = MAX_READS => Turns(q, [reading[q] EXCEPT !.at = "failed"])
<1>1. reading[q] \in Working
  BY AtWork DEF PointFirst, At
<1>2. reading[q].reads + 1 \in Nat
  BY <1>1 DEF Working
<1>3. /\ [reading[q] EXCEPT !.at = "pointer", !.reads = reading[q].reads + 1] \in Working
      /\ [reading[q] EXCEPT !.at = "failed"] \in Working
  BY <1>1, <1>2 DEF Working, Works
<1>4. CASE reading[q].reads = MAX_READS
  <2>1. reading' = [reading EXCEPT ![q] = [reading[q] EXCEPT !.at = "failed"]]
    BY <1>4 DEF PointFirst
  <2> QED BY <1>1, <1>3, <1>4, <2>1, OneReads DEF PointFirst, Turns, MayPointFirst
<1>5. CASE reading[q].reads # MAX_READS
  <2>1. reading' = [reading EXCEPT ![q] = [reading[q] EXCEPT !.at = "pointer", !.reads = reading[q].reads + 1]]
    BY <1>5 DEF PointFirst
  <2> QED BY <1>1, <1>3, <1>5, <2>1, OneReads DEF PointFirst, Turns, MayPointFirst
<1> QED BY <1>4, <1>5

LEMMA PointsUpgraded ==
    ASSUME MatrixShapes, NEW q \in MatrixRequests, PointUpgraded(q), reading[q].found < MaxVersion
    PROVE  /\ At(q, "point") /\ UNCHANGED <<versions, matrixTail>>
           /\ \/ /\ pointer = reading[q].found /\ pointer' = reading[q].found + 1
                 /\ Turns(q, [reading[q] EXCEPT !.at = "have", !.found = reading[q].found + 1])
              \/ /\ pointer # reading[q].found /\ UNCHANGED pointer
                 /\ Turns(q, [reading[q] EXCEPT !.at = "again"])
<1>1. reading[q] \in Working
  BY AtWork DEF PointUpgraded, At
<1>2. reading[q].found + 1 \in 0 .. MaxVersion
  BY <1>1, MatrixBounds DEF Working
<1>3. [reading[q] EXCEPT !.at = "have", !.found = reading[q].found + 1] \in Working
  BY <1>1, <1>2 DEF Working, Works
<1>4. CASE pointer = reading[q].found
  <2>1. reading' = [reading EXCEPT ![q] = [reading[q] EXCEPT !.at = "have", !.found = reading[q].found + 1]]
    BY <1>4 DEF PointUpgraded, MayPoint
  <2> QED BY <1>1, <1>3, <1>4, <2>1, OneReads DEF PointUpgraded, Turns, MayPoint
<1>5. CASE pointer # reading[q].found
  BY <1>5, GoesTo DEF PointUpgraded, MayPoint, At, Works
<1> QED BY <1>4, <1>5

LEMMA ReadsAgain ==
    ASSUME MatrixShapes, NEW q \in MatrixRequests, ReadAgain(q)
    PROVE  /\ At(q, "again") /\ UNCHANGED <<stored, matrixTail>>
           /\ Turns(q, [reading[q] EXCEPT !.at = "have", !.found = pointer])
<1>1. reading[q] \in Working
  BY AtWork DEF ReadAgain, At
<1>2. [reading[q] EXCEPT !.at = "have", !.found = pointer] \in Working
  BY <1>1 DEF Working, Works, MatrixShapes
<1> QED BY <1>1, <1>2, OneReads DEF ReadAgain, Turns

LEMMA Rests ==
    ASSUME MatrixShapes, NEW q \in MatrixRequests, ~At(q, "rest"), reading' = [reading EXCEPT ![q] = Resting]
    PROVE  Turns(q, Resting)
BY AtWork, OneReads DEF Turns

LEMMA Retries ==
    ASSUME MatrixShapes, NEW q \in MatrixRequests, ~At(q, "rest"), Retry(q)
    PROVE  \/ Turns(q, Resting) /\ lonely' = (lonely \/ ~reading[q].raced)
           \/ /\ UNCHANGED lonely
              /\ Turns(q, [reading[q] EXCEPT !.at = "pointer", !.reads = 1, !.tries = reading[q].tries + 1])
<1>1. reading[q] \in Working
  BY AtWork
<1>2. reading[q].tries + 1 \in Nat
  BY <1>1 DEF Working
<1>3. [reading[q] EXCEPT !.at = "pointer", !.reads = 1, !.tries = reading[q].tries + 1] \in Working
  BY <1>1, <1>2 DEF Working, Works
<1>4. CASE reading[q].tries = MAX_WRITE_RETRIES
  BY <1>4, Rests DEF Retry
<1>5. CASE reading[q].tries # MAX_WRITE_RETRIES
  <2>1. /\ reading' = [reading EXCEPT ![q] = [reading[q] EXCEPT !.at = "pointer", !.reads = 1, !.tries = reading[q].tries + 1]]
        /\ UNCHANGED lonely
    BY <1>5 DEF Retry
  <2> QED BY <1>1, <1>3, <2>1, OneReads DEF Turns
<1> QED BY <1>4, <1>5

(* The next version is stored where nothing is.                            *)
LEMMA PutsNext ==
    ASSUME MatrixShapes, NEW q \in MatrixRequests, NEW by \in MatrixRequests \cup {"system"}, reading[q] \in Working,
           NextFree(q), PutNext(q, by)
    PROVE  /\ reading[q].found + 1 \in 1 .. MaxVersion /\ Free(reading[q].found + 1)
           /\ versions' \in [1 .. MaxVersion -> Written]
           /\ versions'[reading[q].found + 1].by = by
           /\ versions'[reading[q].found + 1] # NoVersion
           /\ \A n \in 1 .. MaxVersion : n # reading[q].found + 1 => versions'[n] = versions[n]
<1> DEFINE v == reading[q].found + 1
           x == [by |-> by, text |-> reading[q].code]
<1>1. v \in 1 .. MaxVersion /\ Free(v)
  BY MatrixBounds DEF NextFree, Working
<1>2. x \in Written /\ x # NoVersion /\ x.by = by
  BY MatrixBounds DEF Written, Working, NoVersion
<1>3. versions' = [versions EXCEPT ![v] = x]
  BY DEF PutNext
<1> HIDE DEF v, x
<1>4. versions'[v] = x /\ versions' \in [1 .. MaxVersion -> Written] /\ \A n \in 1 .. MaxVersion : n # v => versions'[n] = versions[n]
  BY <1>1, <1>2, <1>3 DEF MatrixShapes
<1> QED BY <1>1, <1>2, <1>4 DEF v, Free

LEMMA Upgrades ==
    ASSUME MatrixShapes, NEW q \in MatrixRequests, Upgrade(q)
    PROVE  /\ At(q, "upgrade") /\ UNCHANGED <<pointer, matrixTail>> /\ reading[q].found < MaxVersion
           /\ \/ NextFree(q) /\ PutNext(q, "system") /\ Turns(q, [reading[q] EXCEPT !.at = "point"])
              \/ ~NextFree(q) /\ UNCHANGED versions /\ Turns(q, [reading[q] EXCEPT !.at = "again"])
BY GoesTo DEF Upgrade, At, Works

LEMMA Saves ==
    ASSUME MatrixShapes, NEW q \in MatrixRequests, SaveVersion(q)
    PROVE  /\ At(q, "have") /\ UNCHANGED <<builtin, pointer, saved, stops>> /\ reading[q].found < MaxVersion
           /\ \/ NextFree(q) /\ PutNext(q, q) /\ UNCHANGED lonely /\ Turns(q, [reading[q] EXCEPT !.at = "move"])
              \/ ~NextFree(q) /\ UNCHANGED versions /\ Retry(q)
BY GoesTo DEF SaveVersion, At, Works

LEMMA Moves ==
    ASSUME MatrixShapes, NEW q \in MatrixRequests, MovePointer(q)
    PROVE  /\ At(q, "move") /\ UNCHANGED <<builtin, versions, stops>>
           /\ \/ /\ pointer = reading[q].found /\ pointer' = reading[q].found + 1
                 /\ saved' = saved \cup {reading[q].found + 1} /\ UNCHANGED lonely /\ Turns(q, Resting)
              \/ pointer # reading[q].found /\ UNCHANGED <<pointer, saved>> /\ Retry(q)
BY Rests DEF MovePointer, At, MayPoint

LEMMA Seeds ==
    ASSUME MatrixShapes, NEW q \in MatrixRequests, Seed(q)
    PROVE  /\ At(q, "seed") /\ UNCHANGED <<pointer, matrixTail>>
           /\ versions' \in [1 .. MaxVersion -> Written] /\ ~Free(1)'
           /\ \A n \in 1 .. MaxVersion : ~Free(n) => versions'[n] = versions[n]
           /\ \A n \in 2 .. MaxVersion : versions'[n] = versions[n]
           /\ Turns(q, [reading[q] EXCEPT !.at = "first"])
<1> DEFINE x == [by |-> "system", text |-> reading[q].code]
<1>1. reading[q] \in Working /\ 1 \in 1 .. MaxVersion
  BY AtWork, MatrixBounds DEF Seed, At
<1>2. x \in Written /\ x # NoVersion
  BY <1>1 DEF Working, Written, NoVersion
<1>3. versions' = IF Free(1) THEN [versions EXCEPT ![1] = x] ELSE versions
  BY DEF Seed
<1> HIDE DEF x
<1>4. /\ versions' \in [1 .. MaxVersion -> Written] /\ versions'[1] # NoVersion
      /\ \A n \in 1 .. MaxVersion : n # 1 => versions'[n] = versions[n]
      /\ ~Free(1) => versions' = versions
  BY <1>1, <1>2, <1>3 DEF MatrixShapes, Free
<1>5. Turns(q, [reading[q] EXCEPT !.at = "first"])
  BY GoesTo DEF Seed, At, Works
<1> QED BY <1>4, <1>5 DEF Seed, Free

LEMMA Begins ==
    ASSUME MatrixShapes, NEW q \in MatrixRequests, BeginMatrix(q)
    PROVE  /\ At(q, "rest") /\ UNCHANGED <<builtin, versions, pointer, saved, lonely, stops>>
           /\ reading' \in [MatrixRequests -> {Resting} \cup Working]
           /\ reading'[q].at = "pointer" /\ reading'[q].reads = 1 /\ reading'[q].found = 0
           /\ reading'[q].raced <=> Others(q) # {}
           /\ \A o \in MatrixRequests \ {q} :
                 \/ At(o, "rest") /\ reading'[o] = reading[o]
                 \/ ~At(o, "rest") /\ reading'[o] = [reading[o] EXCEPT !.raced = TRUE] /\ reading[o] \in Working
<1>1. PICK op \in {"read", "save"} :
         reading' = [o \in MatrixRequests |->
            IF o = q THEN [at |-> "pointer", op |-> op, code |-> builtin, reads |-> 1, tries |-> 1, found |-> 0,
                           raced |-> Others(q) # {}]
            ELSE IF At(o, "rest") THEN Resting ELSE [reading[o] EXCEPT !.raced = TRUE]]
  BY DEF BeginMatrix
<1> DEFINE new == [at |-> "pointer", op |-> op, code |-> builtin, reads |-> 1, tries |-> 1, found |-> 0,
                   raced |-> Others(q) # {}]
<1>2. 0 \in 0 .. MaxVersion /\ (Others(q) # {}) \in BOOLEAN
  BY MatrixBounds
<1>3. new \in Working /\ new.at = "pointer" /\ new.reads = 1 /\ new.found = 0 /\ (new.raced <=> Others(q) # {})
  BY <1>2 DEF Working, Works, MatrixShapes
<1> HIDE DEF new
<1>4. reading'[q] = new
  BY <1>1 DEF new
<1>5. ASSUME NEW o \in MatrixRequests \ {q}
      PROVE  /\ reading'[o] \in {Resting} \cup Working
             /\ \/ At(o, "rest") /\ reading'[o] = reading[o]
                \/ ~At(o, "rest") /\ reading'[o] = [reading[o] EXCEPT !.raced = TRUE] /\ reading[o] \in Working
  <2>1. CASE At(o, "rest")
    <3>1. reading[o] = Resting
      BY <2>1 DEF MatrixShapes, At, Working, Works
    <3> QED BY <1>1, <2>1, <3>1
  <2>2. CASE ~At(o, "rest")
    <3>1. reading[o] \in Working
      BY <2>2, AtWork
    <3>2. reading'[o] = [reading[o] EXCEPT !.raced = TRUE]
      BY <1>1, <2>2
    <3>3. [reading[o] EXCEPT !.raced = TRUE] \in Working
      BY <3>1 DEF Working
    <3> QED BY <2>2, <3>1, <3>2, <3>3
  <2> QED BY <2>1, <2>2
<1>6. reading' = [o \in MatrixRequests |-> reading'[o]]
  BY <1>1
<1>7. reading' \in [MatrixRequests -> {Resting} \cup Working]
  BY <1>3, <1>4, <1>5, <1>6
<1> QED BY <1>3, <1>4, <1>5, <1>7 DEF BeginMatrix

LEMMA MatrixShapesNext == MatrixShapes /\ MatrixWork /\ [MatrixNext]_matrixVars => MatrixShapes'
<1> SUFFICES ASSUME MatrixShapes, MatrixWork, [MatrixNext]_matrixVars PROVE MatrixShapes'
  OBVIOUS
<1>0. ASSUME NEW q \in MatrixRequests, ~At(q, "rest")
      PROVE  reading[q] \in Working /\ Informed(q, reading[q]) /\ reading[q].found + 1 \in Nat
  BY <1>0, AtWork DEF MatrixWork, Working
<1>1. ASSUME NEW q \in MatrixRequests, MatrixStep(q) PROVE MatrixShapes'
  <2>1. CASE BeginMatrix(q)
    BY <2>1, Begins DEF MatrixShapes
  <2>2. CASE ReadPointer(q)
    BY <2>2, ReadsPointer DEF MatrixShapes, Turns, stored, matrixTail
  <2>3. CASE ReadVersion(q)
    BY <2>3, GoesTo DEF ReadVersion, MatrixShapes, Turns, stored, matrixTail, At, Works
  <2>4. CASE Seed(q)
    BY <2>4, Seeds DEF MatrixShapes, Turns, matrixTail
  <2>5. CASE PointFirst(q)
    <3>0. 1 \in 0 .. MaxVersion /\ pointer \in 0 .. MaxVersion
      BY MatrixBounds DEF MatrixShapes
    <3>1. pointer' \in 0 .. MaxVersion
      BY <2>5, <3>0, PointsFirst
    <3>2. reading' \in [MatrixRequests -> {Resting} \cup Working] /\ UNCHANGED <<versions, matrixTail>>
      BY <2>5, PointsFirst DEF Turns
    <3> QED BY <3>1, <3>2 DEF MatrixShapes, matrixTail
  <2>6. CASE Upgrade(q)
    BY <2>6, Upgrades, PutsNext DEF MatrixShapes, Turns, matrixTail
  <2>7. CASE PointUpgraded(q)
    <3>1. At(q, "point")
      BY <2>7 DEF PointUpgraded
    <3>2. reading[q].found < MaxVersion /\ reading[q].found \in 0 .. MaxVersion
      BY <1>0, <3>1 DEF At, Informed, Working
    <3>3. reading[q].found + 1 \in 0 .. MaxVersion
      BY <3>2, MatrixBounds
    <3> QED BY <2>7, <3>2, <3>3, PointsUpgraded DEF MatrixShapes, Turns, matrixTail
  <2>8. CASE ReadAgain(q)
    BY <2>8, ReadsAgain DEF MatrixShapes, Turns, stored, matrixTail
  <2>9. CASE AnswerRead(q)
    BY <2>9, Rests DEF AnswerRead, At, MatrixShapes, Turns, stored, matrixTail
  <2>10. CASE SaveVersion(q)
    <3>1. At(q, "have") /\ ~At(q, "rest") /\ reading[q] \in Working
      BY <1>0, <2>10 DEF SaveVersion, At
    <3> QED BY <2>10, <3>1, Saves, PutsNext, Retries DEF MatrixShapes, Turns, Working
  <2>11. CASE MovePointer(q)
    <3>1. At(q, "move") /\ ~At(q, "rest") /\ reading[q] \in Working /\ reading[q].found < MaxVersion
      BY <1>0, <2>11 DEF MovePointer, At, Informed
    <3>2. reading[q].found + 1 \in 1 .. MaxVersion /\ reading[q].found + 1 \in 0 .. MaxVersion
      BY <3>1, MatrixBounds DEF Working
    <3>3. CASE pointer = reading[q].found
      BY <2>11, <3>2, <3>3, Moves DEF MatrixShapes, Turns
    <3>4. CASE pointer # reading[q].found
      <4>1. UNCHANGED <<pointer, saved, builtin, versions, stops>> /\ Retry(q)
        BY <2>11, <3>4, Moves
      <4> QED BY <3>1, <4>1, Retries DEF MatrixShapes, Turns
    <3> QED BY <3>3, <3>4
  <2> QED BY <1>1, <2>1, <2>2, <2>3, <2>4, <2>5, <2>6, <2>7, <2>8, <2>9, <2>10, <2>11 DEF MatrixStep
<1>2. CASE Deploy
  BY <1>2, MatrixBounds DEF Deploy, MatrixShapes
<1>3. CASE Die
  BY <1>3, MatrixBounds DEF Die, MatrixShapes
<1>4. CASE UNCHANGED matrixVars
  BY <1>4 DEF matrixVars, MatrixShapes
<1> QED BY <1>1, <1>2, <1>3, <1>4 DEF MatrixNext

(* What one request does leaves the others informed: the pointer goes up,  *)
(* stored versions stay.                                                   *)
LEMMA InformedStays ==
    ASSUME MatrixShapes, MatrixShapes', MatrixWork, NEW q \in MatrixRequests,
           \A o \in MatrixRequests \ {q} : reading'[o] = reading[o],
           pointer <= pointer', \A n \in 1 .. MaxVersion : ~Free(n) => versions'[n] = versions[n],
           \A n \in pointer + 1 .. pointer' : ~Free(n)',
           \A n \in saved' \ saved : n <= pointer' /\ versions'[n].by \in MatrixRequests,
           ~At(q, "rest")' => Informed(q, reading[q])'
    PROVE  MatrixWork'
<1>1. pointer \in Nat /\ pointer' \in Nat /\ pointer' <= MaxVersion /\ MaxVersion \in Nat /\ 1 \in 1 .. MaxVersion
  BY MatrixBounds DEF MatrixShapes
<1>2. \A n \in 1 .. pointer : n \in 1 .. MaxVersion /\ ~Free(n)
  BY <1>1 DEF MatrixWork, SavesStand
<1>3. \A n \in 1 .. pointer' : ~Free(n)'
  BY <1>1, <1>2 DEF Free
<1>4. \A n \in saved' : n <= pointer' /\ versions'[n].by \in MatrixRequests
  <2> SUFFICES ASSUME NEW n \in saved, n \in saved' PROVE n <= pointer' /\ versions'[n].by \in MatrixRequests
    OBVIOUS
  <2>1. n <= pointer /\ versions[n].by \in MatrixRequests /\ n \in 1 .. MaxVersion
    BY DEF MatrixWork, SavesStand, MatrixShapes
  <2>2. ~Free(n)
    BY <2>1, MatrixBounds DEF Free, NoVersion
  <2> QED BY <1>1, <2>1, <2>2
<1>5. ASSUME NEW o \in MatrixRequests \ {q}, ~At(o, "rest")' PROVE Informed(o, reading[o])'
  <2>1. reading'[o] = reading[o] /\ ~At(o, "rest")
    BY <1>5 DEF At
  <2>2. Informed(o, reading[o]) /\ reading[o] \in Working
    BY <2>1, AtWork DEF MatrixWork
  <2> DEFINE r == reading[o]
  <2>3. r.found \in 0 .. MaxVersion /\ r.found <= pointer'
    BY <1>1, <2>2 DEF Working, Informed
  <2>4. r.at \in {"upgrade", "point"} => versions'[r.found].by = "system"
    <3> SUFFICES ASSUME r.at \in {"upgrade", "point"} PROVE versions'[r.found].by = "system"
      OBVIOUS
    <3>1. r.found \in 1 .. MaxVersion /\ versions[r.found].by = "system"
      BY <2>2, <2>3, MatrixBounds DEF Informed
    <3> QED BY <3>1 DEF Free, NoVersion
  <2>5. r.at = "point" => versions'[r.found + 1].by = "system"
    <3> SUFFICES ASSUME r.at = "point" PROVE versions'[r.found + 1].by = "system"
      OBVIOUS
    <3>1. r.found + 1 \in 1 .. MaxVersion /\ versions[r.found + 1].by = "system"
      BY <2>2, <2>3, MatrixBounds DEF Informed
    <3> QED BY <3>1 DEF Free, NoVersion
  <2>6. r.at = "move" => versions'[r.found + 1].by = o
    <3> SUFFICES ASSUME r.at = "move" PROVE versions'[r.found + 1].by = o
      OBVIOUS
    <3>1. r.found + 1 \in 1 .. MaxVersion /\ versions[r.found + 1].by = o /\ o # "nobody"
      BY <2>2, <2>3, MatrixBounds DEF Informed
    <3> QED BY <3>1 DEF Free, NoVersion
  <2>7. r.at = "first" => ~Free(1)'
    BY <1>1, <2>2 DEF Informed, Free
  <2>8. r.at = "pointer" => r.reads = 1 \/ pointer' # 0
    BY <1>1, <2>2 DEF Informed
  <2> QED BY <2>1, <2>2, <2>3, <2>4, <2>5, <2>6, <2>7, <2>8 DEF Informed
<1> QED BY <1>3, <1>4, <1>5 DEF MatrixWork, SavesStand

LEMMA MatrixWorkNext == MatrixShapes /\ MatrixShapes' /\ MatrixWork /\ [MatrixNext]_matrixVars => MatrixWork'
<1> SUFFICES ASSUME MatrixShapes, MatrixShapes', MatrixWork, [MatrixNext]_matrixVars PROVE MatrixWork'
  OBVIOUS
<1>0. ASSUME NEW q \in MatrixRequests, ~At(q, "rest")
      PROVE  /\ reading[q] \in Working /\ Informed(q, reading[q])
             /\ reading[q].found \in 0 .. MaxVersion /\ reading[q].found + 1 \in Nat
  BY <1>0, AtWork DEF MatrixWork, Working
<1>p. pointer \in Nat /\ pointer' \in Nat /\ MaxVersion \in Nat
  BY MatrixBounds DEF MatrixShapes
<1>s. ASSUME pointer' = pointer, saved' = saved, versions' = versions,
             NEW q \in MatrixRequests, NEW r, Turns(q, r), r.at = "rest" \/ Informed(q, r)
      PROVE  MatrixWork'
  <2>1. \A n \in pointer + 1 .. pointer' : ~Free(n)'
    BY <1>p, <1>s
  <2>2. ~At(q, "rest")' => Informed(q, reading[q])'
    BY <1>s DEF Turns, At, Informed, Free
  <2>3. pointer <= pointer' /\ \A o \in MatrixRequests \ {q} : reading'[o] = reading[o]
    BY <1>p, <1>s DEF Turns
  <2> QED BY <1>s, <2>1, <2>2, <2>3, InformedStays
<1>1. ASSUME NEW q \in MatrixRequests, MatrixStep(q) PROVE MatrixWork'
  <2>1. CASE BeginMatrix(q)
    <3>1. SavesStand'
      BY <2>1, Begins DEF MatrixWork, SavesStand, Free
    <3>2. Informed(q, reading[q])'
      BY <1>p, <2>1, Begins DEF Informed
    <3>3. ASSUME NEW o \in MatrixRequests \ {q}, ~At(o, "rest")' PROVE Informed(o, reading[o])'
      <4>1. CASE At(o, "rest")
        BY <2>1, <3>3, <4>1, Begins DEF At
      <4>2. CASE ~At(o, "rest")
        <5>1. /\ reading[o] \in Working /\ reading'[o] = [reading[o] EXCEPT !.raced = TRUE]
              /\ UNCHANGED <<versions, pointer>>
          BY <2>1, <4>2, Begins
        <5>2. reading'[o].at = reading[o].at /\ reading'[o].found = reading[o].found /\ reading'[o].reads = reading[o].reads
          BY <5>1 DEF Working
        <5> QED BY <1>0, <4>2, <5>1, <5>2 DEF Informed, Free
      <4> QED BY <4>1, <4>2
    <3> QED BY <3>1, <3>2, <3>3 DEF MatrixWork
  <2>2. CASE ReadPointer(q)
    <3> DEFINE r == [reading[q] EXCEPT !.at = IF pointer = 0 THEN "seed" ELSE "version", !.found = pointer]
    <3>1. Turns(q, r) /\ At(q, "pointer") /\ UNCHANGED <<stored, matrixTail>>
      BY <2>2, ReadsPointer
    <3>2. reading[q] \in Working /\ Informed(q, reading[q])
      BY <1>0, <3>1 DEF At
    <3>3. /\ r.at = IF pointer = 0 THEN "seed" ELSE "version"
          /\ r.found = pointer /\ r.reads = reading[q].reads
      BY <3>2 DEF Working
    <3>4. Informed(q, r)
      BY <1>p, <3>1, <3>2, <3>3 DEF Informed, At
    <3> HIDE DEF r
    <3> QED BY <1>s, <3>1, <3>4 DEF stored, matrixTail
  <2>3. CASE ReadVersion(q)
    <3> DEFINE at == IF Outdated(q, reading[q].found) THEN "upgrade" ELSE "have"
               r == [reading[q] EXCEPT !.at = at]
    <3>1. At(q, "version") /\ UNCHANGED <<stored, matrixTail>> /\ Goto(q, at)
      BY <2>3 DEF ReadVersion
    <3>2. reading[q] \in Working /\ Informed(q, reading[q]) /\ at \in Works /\ ~At(q, "rest")
      BY <1>0, <3>1 DEF At, Works
    <3>3. Turns(q, r)
      BY <3>1, <3>2, GoesTo
    <3>4. r.at = at /\ r.found = reading[q].found
      BY <3>2 DEF Working
    <3>5. Informed(q, r)
      BY <3>1, <3>2, <3>4 DEF Informed, At, Outdated
    <3> HIDE DEF r
    <3> QED BY <1>s, <3>1, <3>3, <3>5 DEF stored, matrixTail
  <2>4. CASE Seed(q)
    <3> DEFINE r == [reading[q] EXCEPT !.at = "first"]
    <3>1. /\ Turns(q, r) /\ At(q, "seed") /\ UNCHANGED <<pointer, matrixTail>> /\ versions'[1] # NoVersion
          /\ \A n \in 1 .. MaxVersion : ~Free(n) => versions'[n] = versions[n]
      BY <2>4, Seeds DEF Free
    <3>2. reading[q] \in Working /\ Informed(q, reading[q])
      BY <1>0, <3>1 DEF At
    <3>3. r.at = "first" /\ r.found = reading[q].found /\ r.reads = reading[q].reads
      BY <3>2 DEF Working
    <3>4. Informed(q, reading[q])'
      BY <3>1, <3>2, <3>3 DEF Informed, At, Turns, Free
    <3>5. \A n \in pointer + 1 .. pointer' : ~Free(n)'
      BY <1>p, <3>1
    <3>6. \A o \in MatrixRequests \ {q} : reading'[o] = reading[o]
      BY <3>1 DEF Turns
    <3>7. saved' = saved /\ pointer <= pointer'
      BY <1>p, <3>1 DEF matrixTail
    <3> QED BY <3>1, <3>4, <3>5, <3>6, <3>7, InformedStays
  <2>5. CASE PointFirst(q)
    <3> DEFINE r == [reading[q] EXCEPT !.at = "pointer", !.reads = reading[q].reads + 1]
    <3>1. At(q, "first") /\ UNCHANGED <<versions, matrixTail>> /\ pointer' = IF pointer = 0 THEN 1 ELSE pointer
      BY <2>5, PointsFirst
    <3>2. reading[q] \in Working /\ Informed(q, reading[q])
      BY <1>0, <3>1 DEF At
    <3>3. reading[q].reads # MAX_READS /\ ~Free(1)
      BY <3>1, <3>2, MatrixBounds DEF Informed, At
    <3>4. Turns(q, r)
      BY <2>5, <3>3, PointsFirst
    <3>5. r.at = "pointer" /\ r.found = reading[q].found
      BY <3>2 DEF Working
    <3>6. pointer' # 0 /\ pointer <= pointer'
      BY <1>p, <3>1
    <3>7. Informed(q, reading[q])'
      BY <1>p, <3>2, <3>4, <3>5, <3>6 DEF Informed, Turns, Working
    <3>8. \A n \in pointer + 1 .. pointer' : ~Free(n)'
      BY <1>p, <3>1, <3>3 DEF Free
    <3>9. \A o \in MatrixRequests \ {q} : reading'[o] = reading[o]
      BY <3>4 DEF Turns
    <3> QED BY <3>1, <3>6, <3>7, <3>8, <3>9, InformedStays DEF matrixTail
  <2>6. CASE Upgrade(q)
    <3>1. At(q, "upgrade") /\ UNCHANGED <<pointer, matrixTail>> /\ reading[q].found < MaxVersion
      BY <2>6, Upgrades
    <3>2. reading[q] \in Working /\ Informed(q, reading[q]) /\ reading[q].found + 1 \in Nat
      BY <1>0, <3>1 DEF At
    <3>3. CASE NextFree(q)
      <4> DEFINE r == [reading[q] EXCEPT !.at = "point"]
      <4>1. PutNext(q, "system") /\ Turns(q, r)
        BY <2>6, <3>3, Upgrades
      <4>2. /\ versions'[reading[q].found + 1].by = "system" /\ Free(reading[q].found + 1)
            /\ \A n \in 1 .. MaxVersion : n # reading[q].found + 1 => versions'[n] = versions[n]
        BY <3>2, <3>3, <4>1, PutsNext
      <4>3. r.at = "point" /\ r.found = reading[q].found
        BY <3>2 DEF Working
      <4>4. /\ reading[q].found >= 1 /\ reading[q].found <= pointer /\ reading[q].found \in 1 .. MaxVersion
            /\ versions[reading[q].found].by = "system" /\ reading[q].found # reading[q].found + 1
        BY <3>1, <3>2, <1>p DEF Informed, At, Working
      <4>5. versions'[reading[q].found].by = "system"
        BY <4>2, <4>4
      <4>6. Informed(q, reading[q])'
        BY <3>1, <4>1, <4>2, <4>3, <4>4, <4>5 DEF Informed, Turns
      <4>7. /\ \A n \in pointer + 1 .. pointer' : ~Free(n)'
            /\ pointer <= pointer'
        BY <1>p, <3>1
      <4>8. \A n \in 1 .. MaxVersion : ~Free(n) => versions'[n] = versions[n]
        BY <4>2
      <4>9. \A o \in MatrixRequests \ {q} : reading'[o] = reading[o]
        BY <4>1 DEF Turns
      <4> QED BY <3>1, <4>6, <4>7, <4>8, <4>9, InformedStays DEF matrixTail
    <3>4. CASE ~NextFree(q)
      <4> DEFINE r == [reading[q] EXCEPT !.at = "again"]
      <4>1. UNCHANGED versions /\ Turns(q, r)
        BY <2>6, <3>4, Upgrades
      <4>2. r.at = "again" /\ r.found = reading[q].found
        BY <3>2 DEF Working
      <4>3. Informed(q, r)
        BY <3>1, <3>2, <4>2 DEF Informed, At
      <4> HIDE DEF r
      <4> QED BY <1>s, <3>1, <4>1, <4>3 DEF matrixTail
    <3> QED BY <3>3, <3>4
  <2>7. CASE PointUpgraded(q)
    <3>1. At(q, "point") /\ ~At(q, "rest")
      BY <2>7 DEF PointUpgraded, At
    <3>2. reading[q] \in Working /\ Informed(q, reading[q]) /\ reading[q].found < MaxVersion
      BY <1>0, <3>1 DEF At, Informed
    <3>3. UNCHANGED <<versions, matrixTail>>
      BY <2>7, <3>2, PointsUpgraded
    <3>4. CASE pointer = reading[q].found
      <4> DEFINE r == [reading[q] EXCEPT !.at = "have", !.found = reading[q].found + 1]
      <4>1. pointer' = reading[q].found + 1 /\ Turns(q, r)
        BY <2>7, <3>2, <3>4, PointsUpgraded
      <4>2. r.at = "have" /\ r.found = pointer'
        BY <3>2, <4>1 DEF Working
      <4>3. Informed(q, reading[q])'
        BY <1>p, <3>4, <4>1, <4>2 DEF Informed, Turns
      <4>4. pointer <= pointer' /\ pointer' = pointer + 1
        BY <1>p, <3>4, <4>1
      <4>5. \A n \in pointer + 1 .. pointer' : n = pointer'
        BY <1>p, <4>4
      <4>7. \A n \in pointer + 1 .. pointer' : ~Free(n)'
        BY <3>1, <3>2, <3>3, <4>1, <4>5 DEF Informed, At, Free, NoVersion
      <4>8. \A o \in MatrixRequests \ {q} : reading'[o] = reading[o]
        BY <4>1 DEF Turns
      <4> QED BY <3>3, <4>3, <4>4, <4>7, <4>8, InformedStays DEF matrixTail
    <3>5. CASE pointer # reading[q].found
      <4> DEFINE r == [reading[q] EXCEPT !.at = "again"]
      <4>1. UNCHANGED pointer /\ Turns(q, r)
        BY <2>7, <3>2, <3>5, PointsUpgraded
      <4>2. r.at = "again" /\ r.found = reading[q].found
        BY <3>2 DEF Working
      <4>3. Informed(q, r)
        BY <3>1, <3>2, <4>2 DEF Informed, At
      <4> HIDE DEF r
      <4> QED BY <1>s, <3>3, <4>1, <4>3 DEF matrixTail
    <3> QED BY <3>4, <3>5
  <2>8. CASE ReadAgain(q)
    <3> DEFINE r == [reading[q] EXCEPT !.at = "have", !.found = pointer]
    <3>1. Turns(q, r) /\ At(q, "again") /\ UNCHANGED <<stored, matrixTail>>
      BY <2>8, ReadsAgain
    <3>2. reading[q] \in Working /\ Informed(q, reading[q]) /\ reading[q].found \in 0 .. MaxVersion
      BY <1>0, <3>1 DEF At
    <3>3. r.at = "have" /\ r.found = pointer
      BY <3>2 DEF Working
    <3>4. Informed(q, r)
      BY <1>p, <3>1, <3>2, <3>3 DEF Informed, At
    <3> HIDE DEF r
    <3> QED BY <1>s, <3>1, <3>4 DEF stored, matrixTail
  <2>9. CASE AnswerRead(q)
    <3>1. Turns(q, Resting) /\ UNCHANGED <<stored, matrixTail>>
      BY <2>9, Rests DEF AnswerRead, At
    <3> QED BY <1>s, <3>1 DEF stored, matrixTail, Resting
  <2>10. CASE SaveVersion(q)
    <3>1. At(q, "have") /\ UNCHANGED <<builtin, pointer, saved, stops>> /\ reading[q].found < MaxVersion
      BY <2>10, Saves
    <3>2. reading[q] \in Working /\ Informed(q, reading[q]) /\ ~At(q, "rest") /\ reading[q].found + 1 \in Nat
      BY <1>0, <3>1 DEF At
    <3>3. CASE NextFree(q)
      <4> DEFINE r == [reading[q] EXCEPT !.at = "move"]
      <4>1. PutNext(q, q) /\ Turns(q, r)
        BY <2>10, <3>3, Saves
      <4>2. /\ versions'[reading[q].found + 1].by = q /\ Free(reading[q].found + 1)
            /\ \A n \in 1 .. MaxVersion : n # reading[q].found + 1 => versions'[n] = versions[n]
        BY <3>2, <3>3, <4>1, PutsNext
      <4>3. r.at = "move" /\ r.found = reading[q].found
        BY <3>2 DEF Working
      <4>4. reading[q].found >= 1 /\ reading[q].found <= pointer
        BY <3>1, <3>2 DEF Informed, At
      <4>5. Informed(q, reading[q])'
        BY <3>1, <4>1, <4>2, <4>3, <4>4 DEF Informed, Turns
      <4>6. /\ \A n \in pointer + 1 .. pointer' : ~Free(n)'
            /\ pointer <= pointer'
        BY <1>p, <3>1
      <4>7. \A n \in 1 .. MaxVersion : ~Free(n) => versions'[n] = versions[n]
        BY <4>2
      <4>8. \A o \in MatrixRequests \ {q} : reading'[o] = reading[o]
        BY <4>1 DEF Turns
      <4> QED BY <3>1, <4>5, <4>6, <4>7, <4>8, InformedStays
    <3>4. CASE ~NextFree(q)
      <4>1. UNCHANGED versions /\ Retry(q)
        BY <2>10, <3>4, Saves
      <4> DEFINE r == [reading[q] EXCEPT !.at = "pointer", !.reads = 1, !.tries = reading[q].tries + 1]
      <4>2. Turns(q, Resting) \/ Turns(q, r)
        BY <3>2, <4>1, Retries
      <4>3. r.at = "pointer" /\ r.found = reading[q].found /\ r.reads = 1
        BY <3>2 DEF Working
      <4>4. Informed(q, r)
        BY <3>2, <4>3 DEF Informed
      <4> HIDE DEF r
      <4> QED BY <1>s, <3>1, <4>1, <4>2, <4>4 DEF Resting
    <3> QED BY <3>3, <3>4
  <2>11. CASE MovePointer(q)
    <3>1. At(q, "move") /\ ~At(q, "rest") /\ UNCHANGED <<builtin, versions, stops>>
      BY <2>11, Moves DEF At
    <3>2. reading[q] \in Working /\ Informed(q, reading[q]) /\ reading[q].found < MaxVersion
      BY <1>0, <3>1 DEF At, Informed
    <3>3. CASE pointer = reading[q].found
      <4>1. pointer' = reading[q].found + 1 /\ Turns(q, Resting) /\ saved' = saved \cup {reading[q].found + 1}
        BY <2>11, <3>3, Moves
      <4>2. pointer <= pointer' /\ pointer' = pointer + 1
        BY <1>p, <3>3, <4>1
      <4>3. \A n \in pointer + 1 .. pointer' : n = pointer'
        BY <1>p, <4>2
      <4>4. versions'[pointer'].by = q
        BY <3>1, <3>2, <4>1 DEF Informed, At
      <4>5. \A n \in pointer + 1 .. pointer' : ~Free(n)'
        BY <4>3, <4>4, MatrixBounds DEF Free, NoVersion
      <4>6. \A n \in saved' \ saved : n <= pointer' /\ versions'[n].by \in MatrixRequests
        BY <1>p, <4>1, <4>4
      <4>7. /\ \A o \in MatrixRequests \ {q} : reading'[o] = reading[o]
            /\ At(q, "rest")'
        BY <4>1 DEF Turns, At, Resting
      <4> QED BY <3>1, <4>2, <4>5, <4>6, <4>7, InformedStays
    <3>4. CASE pointer # reading[q].found
      <4>1. UNCHANGED <<pointer, saved>> /\ Retry(q)
        BY <2>11, <3>4, Moves
      <4> DEFINE r == [reading[q] EXCEPT !.at = "pointer", !.reads = 1, !.tries = reading[q].tries + 1]
      <4>2. Turns(q, Resting) \/ Turns(q, r)
        BY <3>1, <4>1, Retries
      <4>3. r.at = "pointer" /\ r.found = reading[q].found /\ r.reads = 1
        BY <3>2 DEF Working
      <4>4. Informed(q, r)
        BY <3>2, <4>3 DEF Informed
      <4> HIDE DEF r
      <4> QED BY <1>s, <3>1, <4>1, <4>2, <4>4 DEF Resting
    <3> QED BY <3>3, <3>4
  <2> QED BY <1>1, <2>1, <2>2, <2>3, <2>4, <2>5, <2>6, <2>7, <2>8, <2>9, <2>10, <2>11 DEF MatrixStep
<1>2. CASE Deploy
  BY <1>2 DEF Deploy, MatrixWork, SavesStand, Informed, Free, At
<1>3. CASE Die
  <2>1. PICK q \in MatrixRequests : ~At(q, "rest") /\ reading' = [reading EXCEPT ![q] = Resting]
    BY <1>3 DEF Die
  <2>2. UNCHANGED <<versions, pointer, saved>>
    BY <1>3 DEF Die
  <2> QED BY <1>s, <2>1, <2>2, Rests DEF Resting
<1>4. CASE UNCHANGED matrixVars
  BY <1>4 DEF matrixVars, MatrixWork, SavesStand, Informed, Free, At
<1> QED BY <1>1, <1>2, <1>3, <1>4 DEF MatrixNext

(* A step of q that leaves the pointer alone, or after which q is at the   *)
(* version it moved the pointer to.                                        *)
LEMMA AloneStays ==
    ASSUME MatrixShapes, Alone, NEW q \in MatrixRequests, NEW r, Turns(q, r), ~At(q, "rest"),
           r.at # "rest" => /\ r.raced = reading[q].raced
                            /\ ~r.raced /\ r.at \in {"version", "upgrade", "point", "have", "move"} => r.found = pointer'
    PROVE  Alone'
<1> SUFFICES ASSUME NEW o \in MatrixRequests, ~At(o, "rest")', ~reading'[o].raced
             PROVE  /\ \A p \in MatrixRequests \ {o} : At(p, "rest")'
                    /\ reading'[o].at \in {"version", "upgrade", "point", "have", "move"} => reading'[o].found = pointer'
  BY DEF Alone
<1>1. CASE o = q
  BY <1>1 DEF Alone, Turns, At
<1>2. CASE o # q
  <2>1. reading'[o] = reading[o] /\ ~At(o, "rest") /\ ~reading[o].raced
    BY <1>2 DEF Turns, At
  <2>2. At(q, "rest")
    BY <1>2, <2>1 DEF Alone
  <2> QED BY <2>2
<1> QED BY <1>1, <1>2

LEMMA AloneNext == MatrixShapes /\ MatrixInv /\ [MatrixNext]_matrixVars => Alone'
<1> SUFFICES ASSUME MatrixShapes, MatrixInv, [MatrixNext]_matrixVars PROVE Alone'
  OBVIOUS
<1>a. Alone
  BY DEF MatrixInv
<1>0. ASSUME NEW q \in MatrixRequests, ~At(q, "rest")
      PROVE  reading[q] \in Working /\ Informed(q, reading[q]) /\ reading[q].found + 1 \in Nat
  BY <1>0, AtWork DEF MatrixInv, MatrixWork, Working
<1>r. ASSUME NEW q \in MatrixRequests, ~At(q, "rest"), Retry(q) PROVE Alone'
  <2> DEFINE r == [reading[q] EXCEPT !.at = "pointer", !.reads = 1, !.tries = reading[q].tries + 1]
  <2>1. Turns(q, Resting) \/ Turns(q, r)
    BY <1>r, Retries
  <2>2. r.at = "pointer" /\ r.raced = reading[q].raced
    BY <1>0, <1>r DEF Working
  <2> HIDE DEF r
  <2> QED BY <1>a, <1>r, <2>1, <2>2, AloneStays DEF Resting
<1>1. ASSUME NEW q \in MatrixRequests, MatrixStep(q) PROVE Alone'
  <2>1. CASE BeginMatrix(q)
    <3> SUFFICES ASSUME NEW o \in MatrixRequests, ~At(o, "rest")', ~reading'[o].raced
                 PROVE  /\ \A p \in MatrixRequests \ {o} : At(p, "rest")'
                        /\ reading'[o].at \in {"version", "upgrade", "point", "have", "move"} => reading'[o].found = pointer'
      BY DEF Alone
    <3>1. o = q
      <4> SUFFICES ASSUME o # q PROVE FALSE
        OBVIOUS
      <4>1. ~At(o, "rest") /\ reading'[o] = [reading[o] EXCEPT !.raced = TRUE] /\ reading[o] \in Working
        BY <2>1, Begins DEF At
      <4>2. reading'[o].raced = TRUE
        BY <4>1 DEF Working
      <4> QED BY <4>2
    <3>2. Others(q) = {} /\ reading'[q].at = "pointer"
      BY <2>1, <3>1, Begins
    <3>3. \A p \in MatrixRequests \ {q} : At(p, "rest") /\ reading'[p] = reading[p]
      BY <2>1, <3>2, Begins DEF Others
    <3> QED BY <3>1, <3>2, <3>3 DEF At
  <2>2. CASE ReadPointer(q)
    <3> DEFINE r == [reading[q] EXCEPT !.at = IF pointer = 0 THEN "seed" ELSE "version", !.found = pointer]
    <3>1. Turns(q, r) /\ ~At(q, "rest") /\ UNCHANGED pointer
      BY <2>2, ReadsPointer DEF At, stored
    <3>2. r.raced = reading[q].raced /\ r.found = pointer
      BY <1>0, <3>1 DEF Working
    <3> HIDE DEF r
    <3> QED BY <1>a, <3>1, <3>2, AloneStays
  <2>3. CASE ReadVersion(q)
    <3> DEFINE at == IF Outdated(q, reading[q].found) THEN "upgrade" ELSE "have"
               r == [reading[q] EXCEPT !.at = at]
    <3>1. At(q, "version") /\ ~At(q, "rest") /\ UNCHANGED pointer /\ Goto(q, at) /\ at \in Works
      BY <2>3 DEF ReadVersion, At, stored, Works
    <3>2. Turns(q, r)
      BY <3>1, GoesTo
    <3>3. r.raced = reading[q].raced /\ r.found = reading[q].found
      BY <1>0, <3>1 DEF Working
    <3>4. ~reading[q].raced => reading[q].found = pointer
      BY <1>a, <3>1 DEF Alone, At
    <3> HIDE DEF r
    <3> QED BY <1>a, <3>1, <3>2, <3>3, <3>4, AloneStays
  <2>4. CASE Seed(q)
    <3> DEFINE r == [reading[q] EXCEPT !.at = "first"]
    <3>1. Turns(q, r) /\ ~At(q, "rest")
      BY <2>4, Seeds DEF At
    <3>2. r.at = "first" /\ r.raced = reading[q].raced
      BY <1>0, <3>1 DEF Working
    <3> HIDE DEF r
    <3> QED BY <1>a, <3>1, <3>2, AloneStays
  <2>5. CASE PointFirst(q)
    <3>1. At(q, "first") /\ ~At(q, "rest") /\ reading[q] \in Working
      BY <1>0, <2>5, PointsFirst DEF At
    <3> DEFINE r == [reading[q] EXCEPT !.at = "pointer", !.reads = reading[q].reads + 1]
               f == [reading[q] EXCEPT !.at = "failed"]
    <3>2. Turns(q, r) \/ Turns(q, f)
      BY <2>5, PointsFirst
    <3>3. /\ r.at = "pointer" /\ r.raced = reading[q].raced
          /\ f.at = "failed" /\ f.raced = reading[q].raced
      BY <3>1 DEF Working
    <3> HIDE DEF r, f
    <3> QED BY <1>a, <3>1, <3>2, <3>3, AloneStays
  <2>6. CASE Upgrade(q)
    <3>1. At(q, "upgrade") /\ ~At(q, "rest") /\ UNCHANGED pointer
      BY <2>6, Upgrades DEF At
    <3> DEFINE r == [reading[q] EXCEPT !.at = "point"]
               a == [reading[q] EXCEPT !.at = "again"]
    <3>2. Turns(q, r) \/ Turns(q, a)
      BY <2>6, Upgrades
    <3>3. /\ r.at = "point" /\ r.raced = reading[q].raced /\ r.found = reading[q].found
          /\ a.at = "again" /\ a.raced = reading[q].raced
      BY <1>0, <3>1 DEF Working
    <3>4. ~reading[q].raced => reading[q].found = pointer
      BY <1>a, <3>1 DEF Alone, At
    <3> HIDE DEF r, a
    <3> QED BY <1>a, <3>1, <3>2, <3>3, <3>4, AloneStays
  <2>7. CASE PointUpgraded(q)
    <3>1. At(q, "point") /\ ~At(q, "rest")
      BY <2>7 DEF PointUpgraded, At
    <3>2. reading[q] \in Working /\ reading[q].found < MaxVersion
      BY <1>0, <3>1 DEF At, Informed
    <3> DEFINE r == [reading[q] EXCEPT !.at = "have", !.found = reading[q].found + 1]
               a == [reading[q] EXCEPT !.at = "again"]
    <3>3. (Turns(q, r) /\ pointer' = reading[q].found + 1) \/ Turns(q, a)
      BY <2>7, <3>2, PointsUpgraded
    <3>4. /\ r.at = "have" /\ r.raced = reading[q].raced /\ r.found = reading[q].found + 1
          /\ a.at = "again" /\ a.raced = reading[q].raced
      BY <3>2 DEF Working
    <3> HIDE DEF r, a
    <3> QED BY <1>a, <3>1, <3>3, <3>4, AloneStays
  <2>8. CASE ReadAgain(q)
    <3> DEFINE r == [reading[q] EXCEPT !.at = "have", !.found = pointer]
    <3>1. Turns(q, r) /\ ~At(q, "rest") /\ UNCHANGED pointer
      BY <2>8, ReadsAgain DEF At, stored
    <3>2. r.raced = reading[q].raced /\ r.found = pointer
      BY <1>0, <3>1 DEF Working
    <3> HIDE DEF r
    <3> QED BY <1>a, <3>1, <3>2, AloneStays
  <2>9. CASE AnswerRead(q)
    <3>1. Turns(q, Resting) /\ ~At(q, "rest")
      BY <2>9, Rests DEF AnswerRead, At
    <3> QED BY <1>a, <3>1, AloneStays DEF Resting
  <2>10. CASE SaveVersion(q)
    <3>1. At(q, "have") /\ ~At(q, "rest") /\ UNCHANGED pointer
      BY <2>10, Saves DEF At
    <3> DEFINE r == [reading[q] EXCEPT !.at = "move"]
    <3>2. Turns(q, r) \/ Retry(q)
      BY <2>10, Saves
    <3>3. r.at = "move" /\ r.raced = reading[q].raced /\ r.found = reading[q].found
      BY <1>0, <3>1 DEF Working
    <3>4. ~reading[q].raced => reading[q].found = pointer
      BY <1>a, <3>1 DEF Alone, At
    <3> HIDE DEF r
    <3> QED BY <1>a, <1>r, <3>1, <3>2, <3>3, <3>4, AloneStays
  <2>11. CASE MovePointer(q)
    <3>1. ~At(q, "rest") /\ (Turns(q, Resting) \/ Retry(q))
      BY <2>11, Moves DEF At
    <3> QED BY <1>a, <1>r, <3>1, AloneStays DEF Resting
  <2> QED BY <1>1, <2>1, <2>2, <2>3, <2>4, <2>5, <2>6, <2>7, <2>8, <2>9, <2>10, <2>11 DEF MatrixStep
<1>2. CASE Deploy
  BY <1>a, <1>2 DEF Deploy, Alone, At
<1>3. CASE Die
  <2>1. PICK q \in MatrixRequests : ~At(q, "rest") /\ reading' = [reading EXCEPT ![q] = Resting]
    BY <1>3 DEF Die
  <2> QED BY <1>a, <2>1, Rests, AloneStays DEF Resting
<1>4. CASE UNCHANGED matrixVars
  BY <1>a, <1>4 DEF matrixVars, Alone, At
<1> QED BY <1>1, <1>2, <1>3, <1>4 DEF MatrixNext

(* A request knows what became of the version it wrote.                    *)
Owned(n) == \E q \in MatrixRequests : reading[q].at \in {"point", "move"} /\ reading[q].found + 1 = n

LEMMA StrandedStays ==
    ASSUME MatrixShapes, MatrixShapes', NoVersionStranded, stops' = stops, NEW q \in MatrixRequests,
           \A o \in MatrixRequests \ {q} : reading'[o] = reading[o],
           pointer <= pointer', stops = 0 => lonely' = lonely,
           \A n \in 2 .. MaxVersion : versions'[n] = versions[n],
           reading[q].at \in {"point", "move"} => reading[q].found < pointer'
    PROVE  NoVersionStranded'
<1>0. pointer \in Nat /\ pointer' \in Nat /\ MaxVersion \in Nat
  BY MatrixBounds DEF MatrixShapes
<1> SUFFICES ASSUME stops = 0, NEW n \in 1 .. MaxVersion, n > pointer', ~Free(n)', n # 1
             PROVE  Owned(n)'
  BY <1>0 DEF NoVersionStranded, Owned
<1>1. n > pointer /\ n \in 2 .. MaxVersion
  BY <1>0
<1>2. ~Free(n)
  BY <1>1 DEF Free
<1>3. PICK o \in MatrixRequests : reading[o].at \in {"point", "move"} /\ reading[o].found + 1 = n
  BY <1>0, <1>1, <1>2 DEF NoVersionStranded
<1>4. o # q
  <2>1. reading[o] \in Working
    BY <1>3, AtWork DEF At
  <2>2. reading[o].found \in Nat
    BY <2>1 DEF Working
  <2> QED BY <1>0, <1>1, <1>3, <2>2
<1> QED BY <1>3, <1>4 DEF Owned

LEMMA StrandedNext == MatrixShapes /\ MatrixShapes' /\ MatrixInv /\ [MatrixNext]_matrixVars => NoVersionStranded'
<1> SUFFICES ASSUME MatrixShapes, MatrixShapes', MatrixInv, [MatrixNext]_matrixVars PROVE NoVersionStranded'
  OBVIOUS
<1>a. Alone /\ NoVersionStranded
  BY DEF MatrixInv
<1>0. ASSUME NEW q \in MatrixRequests, ~At(q, "rest")
      PROVE  /\ reading[q] \in Working /\ Informed(q, reading[q])
             /\ reading[q].found \in Nat /\ reading[q].found + 1 \in Nat
  BY <1>0, AtWork DEF MatrixInv, MatrixWork, Working
<1>p. pointer \in Nat /\ pointer' \in Nat /\ MaxVersion \in Nat
  BY MatrixBounds DEF MatrixShapes
(* Nobody is refused who was alone.                                        *)
<1>l. ASSUME NEW q \in MatrixRequests, stops = 0, ~reading[q].raced,
             (SaveVersion(q) /\ ~NextFree(q)) \/ (MovePointer(q) /\ pointer # reading[q].found)
      PROVE  FALSE
  <2>1. ~At(q, "rest") /\ reading[q].at \in {"have", "move"}
    BY <1>l DEF SaveVersion, MovePointer, At
  <2>2. reading[q].found = pointer /\ \A o \in MatrixRequests \ {q} : At(o, "rest")
    BY <1>a, <1>l, <2>1 DEF Alone
  <2>3. SaveVersion(q) /\ ~NextFree(q)
    BY <1>l, <2>2
  <2>4. reading[q].at = "have" /\ pointer >= 1 /\ pointer < MaxVersion
    BY <1>0, <2>1, <2>2, <2>3 DEF SaveVersion, At, Informed
  <2>5. pointer + 1 \in 1 .. MaxVersion /\ ~(pointer + 1 <= pointer) /\ pointer + 1 # 1 /\ ~Free(pointer + 1)
    BY <1>p, <2>2, <2>3, <2>4 DEF NextFree
  <2>6. PICK o \in MatrixRequests : reading[o].at \in {"point", "move"}
    BY <1>a, <1>l, <2>5 DEF NoVersionStranded
  <2> QED BY <2>2, <2>4, <2>6 DEF At
<1>r. ASSUME NEW q \in MatrixRequests, ~At(q, "rest"), Retry(q)
      PROVE  /\ \A o \in MatrixRequests \ {q} : reading'[o] = reading[o]
             /\ reading[q].raced => lonely' = lonely
  <2>1. (Turns(q, Resting) /\ lonely' = (lonely \/ ~reading[q].raced))
        \/ (UNCHANGED lonely /\ Turns(q, [reading[q] EXCEPT !.at = "pointer", !.reads = 1, !.tries = reading[q].tries + 1]))
    BY <1>r, Retries
  <2>2. CASE Turns(q, Resting) /\ lonely' = (lonely \/ ~reading[q].raced)
    BY <2>2 DEF Turns, MatrixShapes
  <2>3. CASE UNCHANGED lonely /\ Turns(q, [reading[q] EXCEPT !.at = "pointer", !.reads = 1, !.tries = reading[q].tries + 1])
    BY <2>3 DEF Turns
  <2> QED BY <2>1, <2>2, <2>3
<1>1. ASSUME NEW q \in MatrixRequests, MatrixStep(q) PROVE NoVersionStranded'
  <2>1. CASE BeginMatrix(q)
    <3>1. /\ UNCHANGED <<versions, pointer, lonely, stops>> /\ At(q, "rest")
          /\ \A o \in MatrixRequests \ {q} :
                \/ At(o, "rest") /\ reading'[o] = reading[o]
                \/ ~At(o, "rest") /\ reading'[o] = [reading[o] EXCEPT !.raced = TRUE] /\ reading[o] \in Working
      BY <2>1, Begins
    <3>2. ASSUME NEW o \in MatrixRequests, reading[o].at \in {"point", "move"}
          PROVE  reading'[o].at = reading[o].at /\ reading'[o].found = reading[o].found
      <4>1. o # q
        BY <3>1, <3>2 DEF At
      <4>2. reading'[o] = [reading[o] EXCEPT !.raced = TRUE] /\ reading[o] \in Working
        BY <3>1, <3>2, <4>1 DEF At
      <4> QED BY <4>2 DEF Working
    <3> QED BY <1>a, <3>1, <3>2 DEF NoVersionStranded, Free
  <2>2. CASE ReadPointer(q)
    <3>1. reading[q].at \notin {"point", "move"} /\ UNCHANGED <<stored, matrixTail>> /\ \A o \in MatrixRequests \ {q} : reading'[o] = reading[o]
      BY <2>2, ReadsPointer DEF Turns, At
    <3>2. UNCHANGED <<versions, pointer, lonely, stops>> /\ pointer <= pointer'
      BY <1>p, <3>1 DEF stored, matrixTail
    <3> QED BY <1>a, <3>1, <3>2, StrandedStays
  <2>3. CASE ReadVersion(q)
    <3>1. At(q, "version") /\ UNCHANGED <<stored, matrixTail>> /\ \A o \in MatrixRequests \ {q} : reading'[o] = reading[o]
      BY <2>3, GoesTo DEF ReadVersion, At, Works, Turns
    <3> QED BY <1>a, <1>p, <3>1, StrandedStays DEF stored, matrixTail, At
  <2>4. CASE Seed(q)
    <3>1. /\ reading[q].at \notin {"point", "move"} /\ UNCHANGED <<pointer, matrixTail>>
          /\ \A n \in 2 .. MaxVersion : versions'[n] = versions[n]
          /\ \A o \in MatrixRequests \ {q} : reading'[o] = reading[o]
      BY <2>4, Seeds DEF Turns, At
    <3>2. UNCHANGED <<lonely, stops>> /\ pointer <= pointer'
      BY <1>p, <3>1 DEF matrixTail
    <3> QED BY <1>a, <3>1, <3>2, StrandedStays
  <2>5. CASE PointFirst(q)
    <3>0. At(q, "first") /\ UNCHANGED <<versions, matrixTail>> /\ pointer' = (IF pointer = 0 THEN 1 ELSE pointer)
          /\ \A o \in MatrixRequests \ {q} : reading'[o] = reading[o]
      BY <2>5, PointsFirst DEF Turns
    <3>1. pointer <= pointer'
      BY <1>p, <3>0
    <3> QED BY <1>a, <3>0, <3>1, StrandedStays DEF matrixTail, At
  <2>6. CASE Upgrade(q)
    <3>1. At(q, "upgrade") /\ ~At(q, "rest") /\ UNCHANGED <<pointer, matrixTail>>
      BY <2>6, Upgrades DEF At
    <3>2. CASE ~NextFree(q)
      <4>1. /\ reading[q].at \notin {"point", "move"} /\ UNCHANGED versions
            /\ \A o \in MatrixRequests \ {q} : reading'[o] = reading[o]
        BY <2>6, <3>1, <3>2, Upgrades DEF Turns, At
      <4>2. UNCHANGED <<lonely, stops>> /\ pointer <= pointer'
        BY <1>p, <3>1 DEF matrixTail
      <4> QED BY <1>a, <4>1, <4>2, StrandedStays
    <3>3. CASE NextFree(q)
      <4> DEFINE r == [reading[q] EXCEPT !.at = "point"]
      <4>1. PutNext(q, "system") /\ Turns(q, r)
        BY <2>6, <3>3, Upgrades
      <4>2. \A n \in 1 .. MaxVersion : n # reading[q].found + 1 => versions'[n] = versions[n]
        BY <1>0, <3>1, <3>3, <4>1, PutsNext
      <4>3. r.at = "point" /\ r.found = reading[q].found
        BY <1>0, <3>1 DEF Working
      <4>4. /\ reading'[q].at = "point" /\ reading'[q].found = reading[q].found
            /\ \A o \in MatrixRequests \ {q} : reading'[o] = reading[o]
        BY <4>1, <4>3 DEF Turns
      <4> QED BY <1>a, <3>1, <4>2, <4>4 DEF NoVersionStranded, Free, matrixTail, At
    <3> QED BY <3>2, <3>3
  <2>7. CASE PointUpgraded(q)
    <3>1. At(q, "point") /\ ~At(q, "rest")
      BY <2>7 DEF PointUpgraded, At
    <3>2. reading[q].found < MaxVersion /\ reading[q].found <= pointer
      BY <1>0, <3>1 DEF At, Informed
    <3>3. /\ UNCHANGED <<versions, matrixTail>> /\ \A o \in MatrixRequests \ {q} : reading'[o] = reading[o]
          /\ (pointer = reading[q].found /\ pointer' = reading[q].found + 1) \/ (pointer # reading[q].found /\ pointer' = pointer)
      BY <2>7, <3>2, PointsUpgraded DEF Turns
    <3>4. pointer <= pointer' /\ reading[q].found < pointer'
      BY <1>0, <1>p, <3>1, <3>2, <3>3
    <3> QED BY <1>a, <3>3, <3>4, StrandedStays DEF matrixTail
  <2>8. CASE ReadAgain(q)
    <3>1. reading[q].at \notin {"point", "move"} /\ UNCHANGED <<stored, matrixTail>> /\ \A o \in MatrixRequests \ {q} : reading'[o] = reading[o]
      BY <2>8, ReadsAgain DEF Turns, At
    <3>2. UNCHANGED <<versions, pointer, lonely, stops>> /\ pointer <= pointer'
      BY <1>p, <3>1 DEF stored, matrixTail
    <3> QED BY <1>a, <3>1, <3>2, StrandedStays
  <2>9. CASE AnswerRead(q)
    <3>1. At(q, "have") /\ UNCHANGED <<stored, matrixTail>> /\ \A o \in MatrixRequests \ {q} : reading'[o] = reading[o]
      BY <2>9, Rests DEF AnswerRead, At, Turns
    <3> QED BY <1>a, <1>p, <3>1, StrandedStays DEF stored, matrixTail, At
  <2>10. CASE SaveVersion(q)
    <3>1. At(q, "have") /\ ~At(q, "rest") /\ UNCHANGED <<pointer, stops>>
      BY <2>10, Saves DEF At
    <3>2. CASE ~NextFree(q)
      <4>1. UNCHANGED versions /\ Retry(q)
        BY <2>10, <3>2, Saves
      <4>2. stops = 0 => reading[q].raced
        BY <1>l, <2>10, <3>2
      <4> QED BY <1>a, <1>p, <1>r, <3>1, <4>1, <4>2, StrandedStays DEF At
    <3>3. CASE NextFree(q)
      <4> DEFINE r == [reading[q] EXCEPT !.at = "move"]
      <4>1. PutNext(q, q) /\ Turns(q, r) /\ UNCHANGED lonely
        BY <2>10, <3>3, Saves
      <4>2. \A n \in 1 .. MaxVersion : n # reading[q].found + 1 => versions'[n] = versions[n]
        BY <1>0, <3>1, <3>3, <4>1, PutsNext
      <4>3. r.at = "move" /\ r.found = reading[q].found
        BY <1>0, <3>1 DEF Working
      <4>4. /\ reading'[q].at = "move" /\ reading'[q].found = reading[q].found
            /\ \A o \in MatrixRequests \ {q} : reading'[o] = reading[o]
        BY <4>1, <4>3 DEF Turns
      <4> QED BY <1>a, <3>1, <4>1, <4>2, <4>4 DEF NoVersionStranded, Free, At
    <3> QED BY <3>2, <3>3
  <2>11. CASE MovePointer(q)
    <3>1. At(q, "move") /\ ~At(q, "rest") /\ UNCHANGED <<versions, stops>>
      BY <2>11, Moves DEF At
    <3>2. reading[q].found < MaxVersion /\ reading[q].found <= pointer
      BY <1>0, <3>1 DEF At, Informed
    <3>3. CASE pointer = reading[q].found
      <4>1. /\ pointer' = reading[q].found + 1 /\ UNCHANGED lonely
            /\ \A o \in MatrixRequests \ {q} : reading'[o] = reading[o]
        BY <2>11, <3>3, Moves DEF Turns
      <4>2. pointer <= pointer' /\ reading[q].found < pointer'
        BY <1>p, <3>3, <4>1
      <4> QED BY <1>a, <3>1, <4>1, <4>2, StrandedStays
    <3>4. CASE pointer # reading[q].found
      <4>1. UNCHANGED pointer /\ Retry(q)
        BY <2>11, <3>4, Moves
      <4>2. stops = 0 => reading[q].raced
        BY <1>l, <2>11, <3>4
      <4>3. pointer <= pointer' /\ reading[q].found < pointer'
        BY <1>0, <1>p, <3>1, <3>2, <3>4, <4>1
      <4> QED BY <1>a, <1>r, <3>1, <4>1, <4>2, <4>3, StrandedStays
    <3> QED BY <3>3, <3>4
  <2> QED BY <1>1, <2>1, <2>2, <2>3, <2>4, <2>5, <2>6, <2>7, <2>8, <2>9, <2>10, <2>11 DEF MatrixStep
<1>2. CASE Deploy
  BY <1>a, <1>2 DEF Deploy, NoVersionStranded, Free
<1>3. CASE Die
  <2>1. stops' # 0
    BY <1>3, MatrixBounds DEF Die, MatrixShapes
  <2> QED BY <2>1 DEF NoVersionStranded
<1>4. CASE UNCHANGED matrixVars
  BY <1>a, <1>4 DEF matrixVars, NoVersionStranded, Free
<1> QED BY <1>1, <1>2, <1>3, <1>4 DEF MatrixNext

(* Whichever requests read, seed, upgrade and save the matrix at once, the *)
(* pointer names stored versions, what somebody was told is saved stays in *)
(* the history, the matrix can always be read, and only simultaneous       *)
(* requests or one that died make a save fail (store.ConfigRepository).    *)
THEOREM MatrixStands == MatrixSpec => []MatrixHolds
<1>1. MatrixShapes /\ MatrixInv => MatrixHolds
  BY DEF MatrixInv, MatrixWork, MatrixHolds, AlwaysReadable, At, Informed
<1>2. MatrixShapes /\ MatrixShapes' /\ MatrixInv /\ [MatrixNext]_matrixVars => MatrixInv'
  BY MatrixWorkNext, AloneNext, StrandedNext DEF MatrixInv
<1>3. MatrixInv => MatrixWork
  BY DEF MatrixInv
<1> QED BY MatrixInitially, MatrixShapesNext, <1>1, <1>2, <1>3, PTL DEF MatrixSpec

(* Stored versions never change, the pointer goes up one at a time, and    *)
(* what a person saved is never replaced by a built-in default.            *)
THEOREM HistoryIsKept == MatrixSpec => HistoryStands
<1> DEFINE Kept == /\ \A n \in 1 .. MaxVersion : ~Free(n) => versions'[n] = versions[n]
                   /\ pointer' \in {pointer, pointer + 1}
                   /\ (pointer' # pointer /\ pointer # 0 /\ versions[pointer].by # "system") => versions'[pointer'].by # "system"
<1>1. MatrixShapes /\ MatrixWork /\ [MatrixNext]_matrixVars => Kept
  <2> SUFFICES ASSUME MatrixShapes, MatrixWork, [MatrixNext]_matrixVars PROVE Kept
    OBVIOUS
  <2>0. ASSUME NEW q \in MatrixRequests, ~At(q, "rest") PROVE reading[q] \in Working /\ Informed(q, reading[q])
    BY <2>0, AtWork DEF MatrixWork
  <2>1. ASSUME NEW q \in MatrixRequests, MatrixStep(q) PROVE Kept
    <3>1. CASE BeginMatrix(q) \/ ReadPointer(q) \/ ReadVersion(q) \/ ReadAgain(q) \/ AnswerRead(q)
      BY <3>1 DEF BeginMatrix, ReadPointer, ReadVersion, ReadAgain, AnswerRead, stored
    <3>2. CASE Seed(q)
      BY <3>2, Seeds
    <3>3. CASE PointFirst(q)
      <4>1. versions' = versions /\ pointer' = (IF pointer = 0 THEN 1 ELSE pointer)
        BY <3>3, PointsFirst
      <4>2. pointer \in Nat
        BY MatrixBounds DEF MatrixShapes
      <4> QED BY <4>1, <4>2
    <3>4. CASE Upgrade(q)
      <4>1. ~At(q, "rest") /\ UNCHANGED pointer
        BY <3>4, Upgrades DEF At
      <4> QED BY <2>0, <3>4, <4>1, Upgrades, PutsNext
    <3>5. CASE PointUpgraded(q)
      <4>1. At(q, "point") /\ ~At(q, "rest")
        BY <3>5 DEF PointUpgraded, At
      <4>2. reading[q].found < MaxVersion /\ versions[reading[q].found].by = "system"
        BY <2>0, <4>1 DEF At, Informed
      <4> QED BY <3>5, <4>2, PointsUpgraded
    <3>6. CASE SaveVersion(q)
      <4>1. ~At(q, "rest") /\ UNCHANGED pointer
        BY <3>6, Saves DEF At
      <4> QED BY <2>0, <3>6, <4>1, Saves, PutsNext
    <3>7. CASE MovePointer(q)
      <4>1. At(q, "move") /\ ~At(q, "rest") /\ UNCHANGED versions
        BY <3>7, Moves DEF At
      <4>2. versions[reading[q].found + 1].by = q /\ q # "system"
        BY <2>0, <4>1, MatrixBounds DEF At, Informed
      <4> QED BY <3>7, <4>1, <4>2, Moves
    <3> QED BY <2>1, <3>1, <3>2, <3>3, <3>4, <3>5, <3>6, <3>7 DEF MatrixStep
  <2>2. CASE Deploy \/ Die \/ UNCHANGED matrixVars
    BY <2>2 DEF Deploy, Die, matrixVars
  <2> QED BY <2>1, <2>2 DEF MatrixNext
<1>2. MatrixShapes /\ MatrixShapes' /\ MatrixWork /\ [MatrixNext]_matrixVars => MatrixWork'
  BY MatrixWorkNext
<1>3. MatrixInv => MatrixWork
  BY DEF MatrixInv
<1> QED BY MatrixInitially, MatrixShapesNext, <1>1, <1>2, <1>3, PTL DEF MatrixSpec, HistoryStands

(***************************************************************************)
(* Projects and documents                                                  *)
(***************************************************************************)

Roles  == {"none", "viewer", "editor", "owner"}
Calls  == [at : Founding \cup {"file", "hints", "hint", "invite", "remove", "role"},
           user : Users, proj : Projects, on : Users \cup Documents \cup {NoUser},
           arg : {"", "add", "drop"} \cup Invitable,
           docs : SUBSET Documents, joined : SUBSET Users, rewritten : SUBSET Projects]

AccessShapes ==
    /\ meta \in [Projects -> [owner : Users \cup {NoUser}, docs : SUBSET Documents]]
    /\ ownerOf \in [Projects -> Users \cup {NoUser}]
    /\ member \in [Projects -> [Users -> Roles]]
    /\ uploader \in [Documents -> Users \cup {NoUser}] /\ hint \in [Documents -> SUBSET Projects]
    /\ call \in [AccessRequests -> {Hung} \cup Calls]
    /\ \A q \in AccessRequests :
          /\ In(q, "invite") \/ In(q, "role") => call[q].on \in Users /\ call[q].arg \in Invitable
          /\ In(q, "remove") => call[q].on \in Users
          /\ In(q, "file") \/ In(q, "hint") => call[q].on \in Documents
    /\ barred \in [Projects -> SUBSET Users]
    /\ outages \in Nat /\ crossed \in BOOLEAN

(***************************************************************************)
(* The rule: roles and their order                                         *)
(***************************************************************************)

LEMMA Ranks ==
    /\ DOMAIN Rank = Roles
    /\ Rank["none"] = 0 /\ Rank["viewer"] = 1 /\ Rank["editor"] = 2 /\ Rank["owner"] = 3
    /\ \A r \in Roles : Rank[r] \in 0 .. 3
    /\ \A r \in Roles, s \in Roles : Rank[r] = Rank[s] => r = s
BY DEF Rank, Roles

(* The strongest of some roles is one that none of them exceeds.           *)
LEMMA StrongestIs ==
    ASSUME NEW S, S \subseteq Roles
    PROVE  /\ Strongest(S) \in Roles
           /\ Strongest(S) \in S \/ Strongest(S) = "none"
           /\ \A r \in S : Rank[r] <= Rank[Strongest(S)]
BY Ranks DEF Strongest, Roles

LEMMA RoleTypes ==
    ASSUME AccessShapes, NEW u \in Users, NEW p \in Projects
    PROVE  /\ ProjectRole(u, p) \in Roles
           /\ ProjectRole(u, p) = "owner" <=> ownerOf[p] = u \/ member[p][u] = "owner"
           /\ ProjectRole(u, p) = "none" <=> ownerOf[p] # u /\ member[p][u] = "none"
<1>1. member[p][u] \in Roles
  BY DEF AccessShapes
<1> QED BY <1>1, Ranks DEF ProjectRole, Stronger, Roles

(* A stale hint grants nothing: whatever project it sends the caller to    *)
(* counts only if it lists the document.                                   *)
LEMMA HintsGrantNothing == AccessShapes => HintGrantsNothing
<1> SUFFICES ASSUME AccessShapes, NEW u \in Users, NEW d \in Documents, uploader[d] \notin {NoUser, u}
             PROVE  Rank[DocumentRole(u, d)] <= Rank[ListedRole(u, d)]
  <2>1. ASSUME NEW u \in Users, NEW d \in Documents, uploader[d] \in {NoUser, u}
        PROVE  DocumentRole(u, d) = ListedRole(u, d) /\ DocumentRole(u, d) \in Roles
    BY <2>1 DEF DocumentRole, ListedRole, Roles
  <2>2. ASSUME NEW u \in Users, NEW d \in Documents, uploader[d] \in {NoUser, u}
        PROVE  Rank[DocumentRole(u, d)] <= Rank[ListedRole(u, d)]
    BY <2>1, <2>2, Ranks
  <2> QED BY <2>2 DEF HintGrantsNothing
<1> DEFINE S == {RoleIn(u, d, p) : p \in Consulted(u, d)}
           L == {ProjectRole(u, p) : p \in ListedIn(u, d)}
<1>1. Consulted(u, d) \subseteq MyProjects(u) /\ MyProjects(u) \subseteq Projects /\ ListedIn(u, d) \subseteq Projects
  BY DEF Consulted, MyProjects, ListedIn
<1>2. ASSUME NEW p \in Consulted(u, d) PROVE RoleIn(u, d, p) \in L \/ RoleIn(u, d, p) = "none"
  BY <1>1 DEF RoleIn, ListedIn
<1>3. L \subseteq Roles
  BY <1>1, RoleTypes
<1>4. S \subseteq Roles /\ S \subseteq L \cup {"none"}
  BY <1>2, <1>3 DEF Roles
<1>5. DocumentRole(u, d) = Strongest(S) /\ ListedRole(u, d) = Strongest(L)
  BY DEF DocumentRole, ListedRole
<1> HIDE DEF S, L
<1>6. Strongest(S) \in L \/ Strongest(S) = "none"
  BY <1>4, StrongestIs
<1>7. Strongest(L) \in Roles /\ \A r \in L : Rank[r] <= Rank[Strongest(L)]
  BY <1>3, StrongestIs
<1>8. Rank["none"] <= Rank[Strongest(L)]
  BY <1>7, Ranks
<1> QED BY <1>5, <1>6, <1>7, <1>8

(***************************************************************************)
(* Types                                                                   *)
(***************************************************************************)

LEMMA CallIs ==
    ASSUME AccessShapes, NEW q \in AccessRequests, ~In(q, "idle")
    PROVE  call[q] \in Calls
BY DEF AccessShapes, In, Hung

(* What a step of request q makes of call[q] is a request's state.         *)
Fits(r) ==
    /\ r \in {Hung} \cup Calls
    /\ r.at \in {"invite", "role"} => r.on \in Users /\ r.arg \in Invitable
    /\ r.at = "remove" => r.on \in Users
    /\ r.at \in {"file", "hint"} => r.on \in Documents

LEMMA ShapesKept ==
    ASSUME AccessShapes, NEW q \in AccessRequests, NEW r, Fits(r), call' = [call EXCEPT ![q] = r],
           meta' \in [Projects -> [owner : Users \cup {NoUser}, docs : SUBSET Documents]],
           ownerOf' \in [Projects -> Users \cup {NoUser}],
           member' \in [Projects -> [Users -> Roles]],
           uploader' \in [Documents -> Users \cup {NoUser}], hint' \in [Documents -> SUBSET Projects],
           barred' \in [Projects -> SUBSET Users],
           outages' \in Nat, crossed' \in BOOLEAN
    PROVE  AccessShapes'
<1>1. call' \in [AccessRequests -> {Hung} \cup Calls] /\ call'[q] = r /\ \A o \in AccessRequests \ {q} : call'[o] = call[o]
  BY DEF AccessShapes, Fits
<1>2. ASSUME NEW o \in AccessRequests
      PROVE  /\ call'[o].at = "invite" \/ call'[o].at = "role" => call'[o].on \in Users /\ call'[o].arg \in Invitable
             /\ call'[o].at = "remove" => call'[o].on \in Users
             /\ call'[o].at = "file" \/ call'[o].at = "hint" => call'[o].on \in Documents
  <2>1. CASE o = q
    BY <1>1, <2>1 DEF Fits
  <2>2. CASE o # q
    BY <1>1, <2>2 DEF AccessShapes, In
  <2> QED BY <2>1, <2>2
<1> QED BY <1>1, <1>2 DEF AccessShapes, In

(* The states a request goes through.                                      *)
LEMMA CallUpdates ==
    ASSUME NEW r \in Calls
    PROVE  /\ \A at \in Founding \cup {"hints"} : Fits([r EXCEPT !.at = at])
           /\ \A x \in SUBSET Documents, y \in SUBSET Users :
                 Fits([r EXCEPT !.at = "members", !.docs = x, !.joined = y])
           /\ \A x \in SUBSET Documents : Fits([r EXCEPT !.at = "hints", !.docs = x])
           /\ \A d \in Documents, x \in SUBSET Documents, y \in SUBSET Projects :
                 Fits([r EXCEPT !.at = "hint", !.on = d, !.docs = x, !.rewritten = y])
           /\ Fits([r EXCEPT !.at = "hints", !.rewritten = {}])
<1>1. ASSUME NEW at \in Founding \cup {"hints"} PROVE Fits([r EXCEPT !.at = at])
  <2>1. [r EXCEPT !.at = at] \in Calls /\ [r EXCEPT !.at = at].at = at
    BY DEF Calls
  <2>2. at \notin {"file", "hint", "invite", "remove", "role"}
    BY DEF Founding
  <2> QED BY <2>1, <2>2 DEF Fits
<1>2. ASSUME NEW x \in SUBSET Documents, NEW y \in SUBSET Users
      PROVE  Fits([r EXCEPT !.at = "members", !.docs = x, !.joined = y])
  <2>1. [r EXCEPT !.at = "members", !.docs = x, !.joined = y] \in Calls
    BY DEF Calls, Founding
  <2>2. [r EXCEPT !.at = "members", !.docs = x, !.joined = y].at = "members"
    BY DEF Calls
  <2> QED BY <2>1, <2>2 DEF Fits
<1>3. ASSUME NEW x \in SUBSET Documents PROVE Fits([r EXCEPT !.at = "hints", !.docs = x])
  <2>1. [r EXCEPT !.at = "hints", !.docs = x] \in Calls
    BY DEF Calls
  <2>2. [r EXCEPT !.at = "hints", !.docs = x].at = "hints"
    BY DEF Calls
  <2> QED BY <2>1, <2>2 DEF Fits
<1>4. ASSUME NEW d \in Documents, NEW x \in SUBSET Documents, NEW y \in SUBSET Projects
      PROVE  Fits([r EXCEPT !.at = "hint", !.on = d, !.docs = x, !.rewritten = y])
  <2>1. [r EXCEPT !.at = "hint", !.on = d, !.docs = x, !.rewritten = y] \in Calls
    BY DEF Calls
  <2>2. [r EXCEPT !.at = "hint", !.on = d, !.docs = x, !.rewritten = y].at = "hint"
        /\ [r EXCEPT !.at = "hint", !.on = d, !.docs = x, !.rewritten = y].on = d
    BY DEF Calls
  <2> QED BY <2>1, <2>2 DEF Fits
<1>5. Fits([r EXCEPT !.at = "hints", !.rewritten = {}])
  <2>1. [r EXCEPT !.at = "hints", !.rewritten = {}] \in Calls
    BY DEF Calls
  <2>2. [r EXCEPT !.at = "hints", !.rewritten = {}].at = "hints"
    BY DEF Calls
  <2> QED BY <2>1, <2>2 DEF Fits
<1> QED BY <1>1, <1>2, <1>3, <1>4, <1>5

LEMMA HungFits == Fits(Hung)
BY DEF Fits, Hung

Suits(at, on, arg) ==
    \/ at \in {"create", "list"} /\ on = NoUser /\ arg = ""
    \/ at = "file" /\ on \in Documents /\ arg \in {"add", "drop"}
    \/ at \in {"invite", "role"} /\ on \in Users /\ arg \in Invitable
    \/ at = "remove" /\ on \in Users /\ arg = ""

LEMMA Requests ==
    ASSUME AccessShapes, NEW q \in AccessRequests, NEW at, NEW u \in Users, NEW p \in Projects, NEW on, NEW arg,
           Request(q, at, u, p, on, arg), Suits(at, on, arg)
    PROVE  AccessShapes'
<1> DEFINE r == [at |-> at, user |-> u, proj |-> p, on |-> on, arg |-> arg,
                 docs |-> {}, joined |-> {}, rewritten |-> {}]
<1>1. r \in Calls
  BY DEF Calls, Founding, Suits
<1>2. Fits(r)
  BY <1>1 DEF Fits, Suits
<1>3. call' = [call EXCEPT ![q] = r] /\ UNCHANGED <<meta, ownerOf, member, uploader, hint, outages, barred>> /\ crossed' \in BOOLEAN
  BY DEF Request, rows
<1> HIDE DEF r
<1> QED BY <1>2, <1>3, ShapesKept DEF AccessShapes

LEMMA ShapesInitially == AccessInit => AccessShapes
<1> SUFFICES ASSUME AccessInit PROVE AccessShapes
  OBVIOUS
<1> PICK filed \in [Projects -> SUBSET Documents], role \in [Projects -> {"none", "viewer", "editor"}] :
         /\ meta = [p \in Projects |-> [owner |-> Founder, docs |-> filed[p]]]
         /\ member = [p \in Projects |-> [u \in Users |-> CASE u = Founder -> "owner" [] u = Guest -> role[p] [] OTHER -> "none"]]
         /\ hint = [d \in Documents |-> {p \in Projects : d \in filed[p]}]
  BY DEF AccessInit
<1>1. member \in [Projects -> [Users -> Roles]]
  BY DEF Roles
<1>2. \A q \in AccessRequests : call[q] = Hung /\ Hung.at = "idle"
  BY DEF AccessInit, Hung
<1> QED BY <1>1, <1>2, AccessUsers DEF AccessInit, AccessShapes, In

LEMMA BeginsKeepShapes ==
    ASSUME AccessShapes, NEW q \in AccessRequests,
           BeginProject(q) \/ BeginDelete(q) \/ BeginFile(q) \/ BeginUnfile(q) \/ BeginInvite(q) \/ BeginRemove(q) \/ BeginSetRole(q)
    PROVE  AccessShapes'
<1>1. CASE BeginProject(q)
  <2> PICK u \in Users, p \in Projects : Request(q, "create", u, p, NoUser, "")
    BY <1>1 DEF BeginProject
  <2> QED BY Requests DEF Suits
<1>2. CASE BeginDelete(q)
  <2> PICK u \in Users, p \in Projects : Request(q, "list", u, p, NoUser, "")
    BY <1>2 DEF BeginDelete
  <2> QED BY Requests DEF Suits
<1>3. CASE BeginFile(q)
  <2> PICK u \in Users, p \in Projects, d \in Documents : Request(q, "file", u, p, d, "add")
    BY <1>3 DEF BeginFile
  <2> QED BY Requests DEF Suits
<1>4. CASE BeginUnfile(q)
  <2> PICK u \in Users, p \in Projects, d \in Documents : Request(q, "file", u, p, d, "drop")
    BY <1>4 DEF BeginUnfile
  <2> QED BY Requests DEF Suits
<1>5. CASE BeginInvite(q)
  <2> PICK u \in Users, p \in Projects, m \in Users, role \in Invitable : Request(q, "invite", u, p, m, role)
    BY <1>5 DEF BeginInvite
  <2> QED BY Requests DEF Suits
<1>6. CASE BeginRemove(q)
  <2> PICK u \in Users, p \in Projects, m \in Users : Request(q, "remove", u, p, m, "")
    BY <1>6 DEF BeginRemove
  <2> QED BY Requests DEF Suits
<1>7. CASE BeginSetRole(q)
  <2> PICK u \in Users, p \in Projects, m \in Users, role \in Invitable : Request(q, "role", u, p, m, role)
    BY <1>7 DEF BeginSetRole
  <2> QED BY Requests DEF Suits
<1> QED BY <1>1, <1>2, <1>3, <1>4, <1>5, <1>6, <1>7

LEMMA StepsKeepShapes ==
    ASSUME AccessShapes, NEW q \in AccessRequests,
           CreateProject(q) \/ PointOwner(q) \/ EnrollOwner(q) \/ ListRows(q) \/ DeleteMembers(q) \/ DeleteMeta(q) \/ DeletePointer(q)
           \/ ChangeDocs(q) \/ ReadHint(q) \/ WriteHint(q) \/ PutMember(q) \/ RemoveMember(q) \/ SetRole(q)
    PROVE  AccessShapes'
<1> DEFINE r == call[q]
           p == call[q].proj
           Unchanged == UNCHANGED <<outages, crossed>>
<1>0. ~In(q, "idle")
  BY DEF In, CreateProject, PointOwner, EnrollOwner, ListRows, DeleteMembers, DeleteMeta, DeletePointer, ChangeDocs, ReadHint, WriteHint, PutMember, RemoveMember, SetRole
<1>1. r \in Calls
  BY <1>0, CallIs
<1>2. p \in Projects /\ r.user \in Users /\ r.docs \in SUBSET Documents /\ r.joined \in SUBSET Users /\ r.rewritten \in SUBSET Projects
  BY <1>1 DEF Calls
<1>3. \A at \in Founding \cup {"hints"} : Fits([r EXCEPT !.at = at])
  BY <1>1, CallUpdates
<1>4. /\ meta \in [Projects -> [owner : Users \cup {NoUser}, docs : SUBSET Documents]]
      /\ ownerOf \in [Projects -> Users \cup {NoUser}]
      /\ member \in [Projects -> [Users -> Roles]]
      /\ uploader \in [Documents -> Users \cup {NoUser}] /\ hint \in [Documents -> SUBSET Projects]
      /\ barred \in [Projects -> SUBSET Users] /\ outages \in Nat /\ crossed \in BOOLEAN
  BY DEF AccessShapes
<1>5. CASE CreateProject(q)
  <2>1. CASE Live(p)
    BY <1>4, <1>5, <2>1, HungFits, ShapesKept DEF CreateProject, Finish
  <2>2. CASE ~Live(p)
    <3>1. call' = [call EXCEPT ![q] = [r EXCEPT !.at = "point"]]
      BY <1>5, <2>2 DEF CreateProject, Proceed, AccessShapes
    <3>2. "point" \in Founding \cup {"hints"}
      BY DEF Founding
    <3>3. meta' = [meta EXCEPT ![p] = [owner |-> r.user, docs |-> {}]]
      BY <1>5, <2>2 DEF CreateProject
    <3>4. meta' \in [Projects -> [owner : Users \cup {NoUser}, docs : SUBSET Documents]]
      BY <1>2, <1>4, <3>3
    <3> QED BY <1>3, <1>4, <1>5, <3>1, <3>2, <3>4, ShapesKept DEF CreateProject
  <2> QED BY <2>1, <2>2
<1>6. CASE PointOwner(q)
  <2>1. call' = [call EXCEPT ![q] = [r EXCEPT !.at = "enroll"]] /\ "enroll" \in Founding \cup {"hints"}
    BY <1>6 DEF PointOwner, Proceed, AccessShapes, Founding
  <2>2. ownerOf' \in [Projects -> Users \cup {NoUser}]
    BY <1>2, <1>4, <1>6 DEF PointOwner
  <2> QED BY <1>3, <1>4, <1>6, <2>1, <2>2, ShapesKept DEF PointOwner
<1>7. CASE EnrollOwner(q)
  <2>1. member' = [member EXCEPT ![p][r.user] = "owner"] /\ "owner" \in Roles
    BY <1>7 DEF EnrollOwner, Roles
  <2>2. member' \in [Projects -> [Users -> Roles]]
    BY <1>2, <1>4, <2>1
  <2>3. barred' \in [Projects -> SUBSET Users]
    BY <1>2, <1>4, <1>7 DEF EnrollOwner
  <2> QED BY <1>4, <1>7, <2>2, <2>3, HungFits, ShapesKept DEF EnrollOwner, Finish
<1>8. CASE ListRows(q)
  <2> DEFINE x == meta[p].docs
             y == {u \in Users : member[p][u] # "none"}
  <2>1. call' = [call EXCEPT ![q] = [r EXCEPT !.at = "members", !.docs = x, !.joined = y]]
    BY <1>8 DEF ListRows, AccessShapes
  <2>2. x \in SUBSET Documents /\ y \in SUBSET Users
    BY <1>2, <1>4
  <2>3. Fits([r EXCEPT !.at = "members", !.docs = x, !.joined = y])
    BY <1>1, <2>2, CallUpdates
  <2> QED BY <1>4, <1>8, <2>1, <2>3, ShapesKept DEF ListRows, rows
<1>9. CASE DeleteMembers(q)
  <2>1. call' = [call EXCEPT ![q] = [r EXCEPT !.at = "meta"]] /\ "meta" \in Founding \cup {"hints"}
    BY <1>9 DEF DeleteMembers, Proceed, AccessShapes, Founding
  <2>2. member' = [member EXCEPT ![p] = [u \in Users |-> IF u \in r.joined THEN "none" ELSE member[p][u]]]
    BY <1>2, <1>4, <1>9 DEF DeleteMembers
  <2>3. [u \in Users |-> IF u \in r.joined THEN "none" ELSE member[p][u]] \in [Users -> Roles]
    BY <1>2, <1>4 DEF Roles
  <2>4. member' \in [Projects -> [Users -> Roles]]
    BY <1>2, <1>4, <2>2, <2>3
  <2> QED BY <1>3, <1>4, <1>9, <2>1, <2>4, ShapesKept DEF DeleteMembers
<1>10. CASE DeleteMeta(q)
  <2>1. call' = [call EXCEPT ![q] = [r EXCEPT !.at = "pointer"]] /\ "pointer" \in Founding \cup {"hints"}
    BY <1>10 DEF DeleteMeta, Proceed, AccessShapes, Founding
  <2>2. meta' \in [Projects -> [owner : Users \cup {NoUser}, docs : SUBSET Documents]] /\ barred' \in [Projects -> SUBSET Users]
    BY <1>2, <1>4, <1>10 DEF DeleteMeta, Gone
  <2> QED BY <1>3, <1>4, <1>10, <2>1, <2>2, ShapesKept DEF DeleteMeta
<1>11. CASE DeletePointer(q)
  <2>1. ownerOf' \in [Projects -> Users \cup {NoUser}]
    BY <1>2, <1>4, <1>11 DEF DeletePointer
  <2>2. CASE r.docs = {}
    BY <1>4, <1>11, <2>1, <2>2, HungFits, ShapesKept DEF DeletePointer, Finish
  <2>3. CASE r.docs # {}
    <3>1. call' = [call EXCEPT ![q] = [r EXCEPT !.at = "hints"]]
      BY <1>11, <2>3 DEF DeletePointer, Proceed, AccessShapes
    <3> QED BY <1>3, <1>4, <1>11, <2>1, <3>1, ShapesKept DEF DeletePointer
  <2> QED BY <2>2, <2>3
<1>12. CASE ChangeDocs(q)
  <2>1. call' = [call EXCEPT ![q] = [r EXCEPT !.at = "hints", !.docs = {r.on}]] /\ r.on \in Documents
    BY <1>12 DEF ChangeDocs, AccessShapes
  <2>2. Fits([r EXCEPT !.at = "hints", !.docs = {r.on}])
    BY <1>1, <2>1, CallUpdates
  <2>3. meta' \in [Projects -> [owner : Users \cup {NoUser}, docs : SUBSET Documents]]
    <3>1. CASE ~Live(p)
      BY <1>4, <1>12, <3>1 DEF ChangeDocs
    <3>2. CASE Live(p)
      <4>1. PICK x \in SUBSET Documents : meta' = [meta EXCEPT ![p] = [meta[p] EXCEPT !.docs = x]]
        BY <1>2, <1>4, <1>12, <2>1, <3>2 DEF ChangeDocs
      <4>2. [meta[p] EXCEPT !.docs = x] \in [owner : Users \cup {NoUser}, docs : SUBSET Documents]
        BY <1>2, <1>4
      <4> QED BY <1>4, <4>1, <4>2
    <3> QED BY <3>1, <3>2
  <2> QED BY <1>4, <1>12, <2>1, <2>2, <2>3, ShapesKept DEF ChangeDocs
<1>13. CASE ReadHint(q)
  <2>0. UNCHANGED <<meta, ownerOf, member, uploader, hint, outages, barred, crossed>>
    BY <1>13 DEF ReadHint, rows
  <2>1. CASE r.docs = {}
    BY <1>4, <1>13, <2>0, <2>1, HungFits, ShapesKept DEF ReadHint, Finish
  <2>2. CASE r.docs # {}
    <3>1. PICK d \in r.docs :
            call' = [call EXCEPT ![q] = [r EXCEPT !.at = "hint", !.on = d, !.docs = r.docs \ {d},
                       !.rewritten = IF r.arg = "add" THEN hint[d] \cup {p} ELSE hint[d] \ {p}]]
      BY <1>13, <2>2 DEF ReadHint, AccessShapes
    <3> DEFINE y == IF r.arg = "add" THEN hint[d] \cup {p} ELSE hint[d] \ {p}
    <3>2. d \in Documents /\ y \in SUBSET Projects /\ r.docs \ {d} \in SUBSET Documents
      BY <1>2, <1>4, <3>1
    <3>3. Fits([r EXCEPT !.at = "hint", !.on = d, !.docs = r.docs \ {d}, !.rewritten = y])
      BY <1>1, <3>2, CallUpdates
    <3> QED BY <1>4, <2>0, <3>1, <3>3, ShapesKept
  <2> QED BY <2>1, <2>2
<1>14. CASE WriteHint(q)
  <2>1. call' = [call EXCEPT ![q] = [r EXCEPT !.at = "hints", !.rewritten = {}]]
    BY <1>14 DEF WriteHint, AccessShapes
  <2>2. Fits([r EXCEPT !.at = "hints", !.rewritten = {}])
    BY <1>1, CallUpdates
  <2>3. hint' \in [Documents -> SUBSET Projects]
    BY <1>2, <1>4, <1>14 DEF WriteHint
  <2> QED BY <1>4, <1>14, <2>1, <2>2, <2>3, ShapesKept DEF WriteHint
<1>15. CASE PutMember(q)
  <2>1. r.on \in Users /\ r.arg \in Roles
    BY <1>15 DEF PutMember, AccessShapes, Invitable, Roles
  <2>2. member' \in [Projects -> [Users -> Roles]] /\ barred' \in [Projects -> SUBSET Users]
    BY <1>2, <1>4, <1>15, <2>1 DEF PutMember
  <2> QED BY <1>4, <1>15, <2>2, HungFits, ShapesKept DEF PutMember, Finish
<1>16. CASE RemoveMember(q)
  <2>1. r.on \in Users /\ "none" \in Roles
    BY <1>16 DEF RemoveMember, AccessShapes, Roles
  <2>2. member' \in [Projects -> [Users -> Roles]] /\ barred' \in [Projects -> SUBSET Users]
    BY <1>2, <1>4, <1>16, <2>1 DEF RemoveMember
  <2> QED BY <1>4, <1>16, <2>2, HungFits, ShapesKept DEF RemoveMember, Finish
<1>17. CASE SetRole(q)
  <2>1. r.on \in Users /\ r.arg \in Roles
    BY <1>17 DEF SetRole, AccessShapes, Invitable, Roles
  <2>2. member' \in [Projects -> [Users -> Roles]]
    BY <1>2, <1>4, <1>17, <2>1 DEF SetRole
  <2> QED BY <1>4, <1>17, <2>2, HungFits, ShapesKept DEF SetRole, Finish
<1> QED BY <1>5, <1>6, <1>7, <1>8, <1>9, <1>10, <1>11, <1>12, <1>13, <1>14, <1>15, <1>16, <1>17

LEMMA AccessShapesNext == AccessShapes /\ [AccessNext]_accessVars => AccessShapes'
<1> SUFFICES ASSUME AccessShapes, [AccessNext]_accessVars PROVE AccessShapes'
  OBVIOUS
<1>1. ASSUME NEW q \in AccessRequests, DeleteDocument(q) PROVE AccessShapes'
  BY <1>1 DEF DeleteDocument, AccessShapes, In
<1>2. ASSUME NEW q \in AccessRequests, AccessStep(q) PROVE AccessShapes'
  BY <1>1, <1>2, BeginsKeepShapes, StepsKeepShapes DEF AccessStep
<1>3. CASE Outage
  <2> PICK q \in AccessRequests : call' = [call EXCEPT ![q] = Hung]
    BY <1>3 DEF Outage, Finish
  <2>1. UNCHANGED <<meta, ownerOf, member, uploader, hint, barred, crossed>> /\ outages' \in Nat
    BY <1>3 DEF Outage, rows, AccessShapes
  <2> QED BY <2>1, HungFits, ShapesKept DEF AccessShapes
<1>4. CASE UNCHANGED accessVars
  BY <1>4 DEF accessVars, AccessShapes, In
<1> QED BY <1>2, <1>3, <1>4 DEF AccessNext

(***************************************************************************)
(* Removed members                                                         *)
(***************************************************************************)

LEMMA RemovedNext == AccessShapes /\ RemovedStayOut /\ [AccessNext]_accessVars => RemovedStayOut'
<1> SUFFICES ASSUME AccessShapes, RemovedStayOut, [AccessNext]_accessVars PROVE RemovedStayOut'
  OBVIOUS
<1>0. /\ member \in [Projects -> [Users -> Roles]] /\ barred \in [Projects -> SUBSET Users]
      /\ \A x \in Projects : \A u \in barred[x] : u \in Users /\ member[x][u] = "none"
  BY DEF AccessShapes, RemovedStayOut
<1>1. CASE UNCHANGED <<member, barred>>
  BY <1>1 DEF RemovedStayOut
<1>2. ASSUME NEW q \in AccessRequests, AccessStep(q), ~UNCHANGED <<member, barred>> PROVE RemovedStayOut'
  <2> DEFINE r == call[q]
             p == call[q].proj
  <2>0. EnrollOwner(q) \/ DeleteMembers(q) \/ DeleteMeta(q) \/ PutMember(q) \/ RemoveMember(q) \/ SetRole(q)
    <3>1. ASSUME NEW at, NEW u, NEW x, NEW on, NEW arg PROVE Request(q, at, u, x, on, arg) => UNCHANGED <<member, barred>>
      BY DEF Request, rows
    <3>2. ~BeginProject(q) /\ ~BeginDelete(q) /\ ~BeginFile(q) /\ ~BeginUnfile(q) /\ ~BeginInvite(q) /\ ~BeginRemove(q) /\ ~BeginSetRole(q)
      BY <1>2, <3>1 DEF BeginProject, BeginDelete, BeginFile, BeginUnfile, BeginInvite, BeginRemove, BeginSetRole
    <3>3. ~CreateProject(q) /\ ~PointOwner(q) /\ ~ListRows(q) /\ ~DeletePointer(q) /\ ~ChangeDocs(q) /\ ~ReadHint(q) /\ ~WriteHint(q) /\ ~DeleteDocument(q)
      BY <1>2 DEF CreateProject, PointOwner, ListRows, DeletePointer, ChangeDocs, ReadHint, WriteHint, DeleteDocument, rows
    <3> QED BY <1>2, <3>2, <3>3 DEF AccessStep
  <2>1. ~In(q, "idle")
    BY <2>0 DEF In, EnrollOwner, DeleteMembers, DeleteMeta, PutMember, RemoveMember, SetRole
  <2>2. r \in Calls /\ p \in Projects /\ r.user \in Users
    BY <2>1, CallIs DEF Calls
  <2>3. CASE EnrollOwner(q)
    <3>1. /\ member' = [member EXCEPT ![p] = [member[p] EXCEPT ![r.user] = "owner"]]
          /\ barred' = [barred EXCEPT ![p] = barred[p] \ {r.user}]
      BY <1>0, <2>3 DEF EnrollOwner
    <3>2. ASSUME NEW x \in Projects, NEW u \in barred'[x] PROVE member'[x][u] = "none"
      BY <1>0, <2>2, <3>1, <3>2
    <3> QED BY <3>2 DEF RemovedStayOut
  <2>4. CASE DeleteMembers(q)
    <3>1. /\ member' = [member EXCEPT ![p] = [u \in Users |-> IF u \in r.joined THEN "none" ELSE member[p][u]]]
          /\ barred' = barred
      BY <1>0, <2>2, <2>4 DEF DeleteMembers
    <3>2. ASSUME NEW x \in Projects, NEW u \in barred'[x] PROVE member'[x][u] = "none"
      BY <1>0, <2>2, <3>1, <3>2
    <3> QED BY <3>2 DEF RemovedStayOut
  <2>5. CASE DeleteMeta(q)
    <3>1. member' = member /\ barred' = [barred EXCEPT ![p] = {}]
      BY <2>5 DEF DeleteMeta
    <3>2. ASSUME NEW x \in Projects, NEW u \in barred'[x] PROVE member'[x][u] = "none"
      BY <1>0, <2>2, <3>1, <3>2
    <3> QED BY <3>2 DEF RemovedStayOut
  <2>6. CASE PutMember(q)
    <3>1. /\ member' = [member EXCEPT ![p] = [member[p] EXCEPT ![r.on] = r.arg]]
          /\ barred' = [barred EXCEPT ![p] = barred[p] \ {r.on}]
      BY <1>0, <2>6 DEF PutMember
    <3>2. ASSUME NEW x \in Projects, NEW u \in barred'[x] PROVE member'[x][u] = "none"
      BY <1>0, <2>2, <3>1, <3>2
    <3> QED BY <3>2 DEF RemovedStayOut
  <2>7. CASE RemoveMember(q)
    <3>1. /\ member' = [member EXCEPT ![p] = [member[p] EXCEPT ![r.on] = "none"]]
          /\ barred' = [barred EXCEPT ![p] = barred[p] \cup {r.on}] /\ r.on \in Users
      BY <1>0, <2>7 DEF RemoveMember, AccessShapes
    <3>2. ASSUME NEW x \in Projects, NEW u \in barred'[x] PROVE member'[x][u] = "none"
      BY <1>0, <2>2, <3>1, <3>2
    <3> QED BY <3>2 DEF RemovedStayOut
  <2>8. CASE SetRole(q)
    <3>1. /\ member' = IF member[p][r.on] # "none" THEN [member EXCEPT ![p] = [member[p] EXCEPT ![r.on] = r.arg]] ELSE member
          /\ barred' = barred
      BY <1>0, <2>8 DEF SetRole, MayUpdate
    <3>2. ASSUME NEW x \in Projects, NEW u \in barred'[x] PROVE member'[x][u] = "none"
      BY <1>0, <2>2, <3>1, <3>2
    <3> QED BY <3>2 DEF RemovedStayOut
  <2> QED BY <2>0, <2>3, <2>4, <2>5, <2>6, <2>7, <2>8
<1>3. Outage \/ UNCHANGED accessVars => UNCHANGED <<member, barred>>
  BY DEF Outage, rows, accessVars
<1> QED BY <1>1, <1>2, <1>3 DEF AccessNext

(***************************************************************************)
(* One owner                                                               *)
(***************************************************************************)

(* The rows of a project agree.                                            *)
Whole(p) ==
    IF Live(p) THEN ownerOf[p] = meta[p].owner /\ \A u \in Users : member[p][u] = "owner" <=> u = meta[p].owner
    ELSE ownerOf[p] = NoUser /\ \A u \in Users : member[p][u] = "none"

Emptied(p) == \A u \in Users : member[p][u] = "none"

Founds(q)  == call[q].at \in Founding
Serves(q)   == ~In(q, "idle")

(* How far a request that makes or deletes a project has come with it.     *)
Progressed(q) ==
    /\ In(q, "create")  => Whole(call[q].proj)
    /\ In(q, "point")   => /\ meta[call[q].proj].owner = call[q].user /\ ownerOf[call[q].proj] = NoUser
                           /\ Emptied(call[q].proj)
    /\ In(q, "enroll")  => /\ meta[call[q].proj].owner = call[q].user /\ ownerOf[call[q].proj] = call[q].user
                           /\ Emptied(call[q].proj)
    /\ In(q, "list")    => Live(call[q].proj) /\ Whole(call[q].proj)
    /\ In(q, "members") => /\ Live(call[q].proj) /\ ownerOf[call[q].proj] = meta[call[q].proj].owner
                           /\ \A u \in Users : member[call[q].proj][u] # "none" => u \in call[q].joined
    /\ In(q, "meta")    => Emptied(call[q].proj)
    /\ In(q, "pointer") => ~Live(call[q].proj) /\ Emptied(call[q].proj)
    /\ call[q].at \in {"invite", "role", "remove"} =>
          Live(call[q].proj) /\ call[q].on # meta[call[q].proj].owner

(* While nothing stopped half way and nobody works on a project that       *)
(* another request makes or deletes, those requests are where they think   *)
(* they are, and every other project is whole.                             *)
Orderly ==
    /\ \A q, o \in AccessRequests : q # o /\ Founds(q) /\ Serves(o) => call[o].proj # call[q].proj
    /\ \A q \in AccessRequests : Serves(q) => Progressed(q)
    /\ \A p \in Projects : (\A q \in AccessRequests : Founds(q) => call[q].proj # p) => Whole(p)

Steady == outages = 0 /\ ~crossed => Orderly

LEMMA FoundersWork == ASSUME NEW q, Founds(q) PROVE Serves(q)
BY DEF Founds, Serves, In, Founding

LEMMA OwnersAreOne == AccessShapes /\ Steady => OneOwner
<1> SUFFICES ASSUME AccessShapes, Steady, Settled, outages = 0, ~crossed, NEW p \in Projects, NEW u \in Users
             PROVE  /\ Live(p) => (ProjectRole(u, p) = "owner" <=> u = meta[p].owner)
                    /\ ~Live(p) => ProjectRole(u, p) = "none"
  BY DEF OneOwner
<1>1. \A q \in AccessRequests : ~Founds(q)
  BY FoundersWork DEF Settled, Serves
<1>2. Whole(p)
  BY <1>1 DEF Steady, Orderly
<1> QED BY <1>2, RoleTypes, AccessUsers DEF Whole

(* The rows of project x stay as they are, but for the documents it lists. *)
SameRows(x) == meta'[x].owner = meta[x].owner /\ ownerOf'[x] = ownerOf[x] /\ member'[x] = member[x]

LEMMA SameWhole ==
    ASSUME NEW x, SameRows(x) PROVE Whole(x)' <=> Whole(x)
BY DEF SameRows, Whole, Live

LEMMA SameProgress ==
    ASSUME NEW o \in AccessRequests, call'[o] = call[o], SameRows(call[o].proj), Progressed(o)
    PROVE  Progressed(o)'
<1> DEFINE p == call[o].proj
<1>1. Whole(p)' <=> Whole(p)
  BY SameWhole
<1>2. (Emptied(p)' <=> Emptied(p)) /\ (Live(p)' <=> Live(p))
  BY DEF SameRows, Emptied, Live
<1> QED BY <1>1, <1>2 DEF Progressed, In, SameRows, Whole, Emptied, Live

(* A request goes on with a project p: nothing else changes, the owner     *)
(* only if it makes or deletes p, and if it no longer does, p is whole.    *)
LEMMA GoesOn ==
    ASSUME AccessShapes, Orderly, NEW q \in AccessRequests, Serves(q), NEW p, p = call[q].proj,
           \A o \in AccessRequests \ {q} : call'[o] = call[o],
           \A x \in Projects \ {p} : SameRows(x),
           Serves(q)' => call'[q].proj = p /\ Progressed(q)',
           Founds(q)' => Founds(q),
           ~Founds(q) => meta'[p].owner = meta[p].owner,
           ~Founds(q)' /\ (Founds(q) \/ Whole(p)) => Whole(p)'
    PROVE  Orderly'
<1>0. \A o \in AccessRequests \ {q} : /\ Serves(o)' <=> Serves(o) 
                                      /\ Founds(o)' <=> Founds(o)
  BY DEF Serves, Founds, In
<1>1. ASSUME NEW a \in AccessRequests, NEW b \in AccessRequests, a # b, Founds(a)', Serves(b)'
      PROVE  call'[b].proj # call'[a].proj
  <2>1. CASE a # q /\ b # q
    BY <1>0, <1>1, <2>1 DEF Orderly
  <2>2. CASE a = q
    BY <1>0, <1>1, <2>2, FoundersWork DEF Orderly, Serves, In, Founds, Founding
  <2>3. CASE b = q
    BY <1>0, <1>1, <2>3 DEF Orderly
  <2> QED BY <2>1, <2>2, <2>3, <1>1
<1>2. ASSUME NEW o \in AccessRequests, Serves(o)' PROVE Progressed(o)'
  <2>1. CASE o = q
    BY <1>2, <2>1
  <2>2. CASE o # q /\ call[o].proj # p
    <3>1. call[o] \in Calls /\ call[o].proj \in Projects
      BY <1>0, <1>2, <2>2, CallIs DEF Serves, Calls
    <3>2. SameRows(call[o].proj) /\ Progressed(o)
      BY <1>0, <1>2, <2>2, <3>1 DEF Orderly
    <3> QED BY <2>2, <3>2, SameProgress
  <2>3. CASE o # q /\ call[o].proj = p
    <3>1. ~Founds(q) /\ ~Founds(o) /\ Progressed(o)
      BY <1>0, <1>2, <2>3 DEF Orderly
    <3>2. meta'[p].owner = meta[p].owner /\ call'[o] = call[o]
      BY <2>3, <3>1
    <3> QED BY <2>3, <3>1, <3>2 DEF Progressed, In, Founds, Founding, Live
  <2> QED BY <2>1, <2>2, <2>3
<1>3. ASSUME NEW x \in Projects, \A o \in AccessRequests : Founds(o)' => call'[o].proj # x PROVE Whole(x)'
  <2>1. CASE x # p
    <3>1. \A o \in AccessRequests : Founds(o) => call[o].proj # x
      BY <1>0, <1>3, <2>1
    <3> QED BY <2>1, <3>1, SameWhole DEF Orderly
  <2>2. CASE x = p
    <3>1. \A o \in AccessRequests \ {q} : Founds(o) => call[o].proj # p
      BY <1>0, <1>3, <2>2
    <3>2. ~Founds(q)'
      BY <1>3, <2>2 DEF Serves, In, Founds, Founding
    <3>3. Founds(q) \/ Whole(p)
      BY <2>2, <3>1 DEF Orderly
    <3> QED BY <2>2, <3>2, <3>3
  <2> QED BY <2>1, <2>2
<1> QED BY <1>1, <1>2, <1>3 DEF Orderly

(* A request begins, and no other works on its project if it makes or      *)
(* deletes it, nor does one that does.                                     *)
LEMMA RequestBegins ==
    ASSUME AccessShapes, Steady, NEW q \in AccessRequests, NEW at, NEW u \in Users, NEW p \in Projects, NEW on, NEW arg,
           Request(q, at, u, p, on, arg), Suits(at, on, arg),
           \/ at \in {"create", "file"} \/ (at = "list" /\ Live(p))
           \/ Live(p) /\ (Whole(p) => on # meta[p].owner)
    PROVE  Steady'
<1> SUFFICES ASSUME outages' = 0, ~crossed' PROVE Orderly'
  BY DEF Steady
<1>1. /\ UNCHANGED <<meta, ownerOf, member>> /\ In(q, "idle") /\ outages = 0 /\ ~crossed
      /\ \A o \in AccessRequests \ {q} : Serves(o) /\ call[o].proj = p => {at, call[o].at} \cap Founding = {}
  BY DEF Request, rows, Serves
<1>2. Orderly
  BY <1>1 DEF Steady
<1>3. /\ call'[q].at = at /\ call'[q].proj = p /\ call'[q].on = on
      /\ \A o \in AccessRequests \ {q} : call'[o] = call[o]
  BY DEF Request, AccessShapes
<1>4. \A o \in AccessRequests \ {q} : (Serves(o)' <=> Serves(o)) /\ (Founds(o)' <=> Founds(o))
  BY <1>3 DEF Serves, Founds, In
<1>5. ~Serves(q) /\ ~Founds(q)
  BY <1>1, FoundersWork DEF Serves
<1>6. \A o \in AccessRequests : Founds(o) => call[o].proj # p
  BY <1>1, <1>5, FoundersWork DEF Founds
<1>7. Whole(p)
  BY <1>2, <1>6 DEF Orderly
<1>8. \A x : SameRows(x)
  BY <1>1 DEF SameRows
<1>9. ASSUME NEW a \in AccessRequests, NEW b \in AccessRequests, a # b, Founds(a)', Serves(b)'
      PROVE  call'[b].proj # call'[a].proj
  <2>1. CASE a # q /\ b # q
    BY <1>2, <1>3, <1>4, <1>9, <2>1 DEF Orderly
  <2>2. CASE a = q
    BY <1>1, <1>3, <1>4, <1>9, <2>2 DEF Founds
  <2>3. CASE b = q
    BY <1>3, <1>4, <1>6, <1>9, <2>3
  <2> QED BY <2>1, <2>2, <2>3
<1>10. ASSUME NEW o \in AccessRequests, Serves(o)' PROVE Progressed(o)'
  <2>1. CASE o = q
    <3>1. Whole(p)' /\ (Live(p)' <=> Live(p)) /\ meta' = meta
      BY <1>1, <1>7, <1>8, SameWhole DEF Live
    <3>2. at \in {"create", "list", "file", "invite", "role", "remove"}
      BY DEF Suits
    <3> QED BY <1>3, <1>7, <2>1, <3>1, <3>2 DEF Progressed, In
  <2>2. CASE o # q
    BY <1>2, <1>3, <1>4, <1>8, <1>10, <2>2, SameProgress DEF Orderly
  <2> QED BY <2>1, <2>2
<1>11. ASSUME NEW x \in Projects, \A o \in AccessRequests : Founds(o)' => call'[o].proj # x PROVE Whole(x)'
  <2>1. \A o \in AccessRequests : Founds(o) => call[o].proj # x
    BY <1>3, <1>4, <1>5, <1>11
  <2> QED BY <1>2, <1>8, <2>1, SameWhole DEF Orderly
<1> QED BY <1>9, <1>10, <1>11 DEF Orderly

LEMMA BeginsAreOrderly ==
    ASSUME AccessShapes, Steady, NEW q \in AccessRequests,
           BeginProject(q) \/ BeginDelete(q) \/ BeginFile(q) \/ BeginUnfile(q) \/ BeginInvite(q) \/ BeginRemove(q) \/ BeginSetRole(q)
    PROVE  Steady'
<1>0. ASSUME NEW p \in Projects, NEW m \in Users, Live(p), member[p][m] \in Invitable, Whole(p) PROVE m # meta[p].owner
  BY <1>0 DEF Whole, Invitable
<1>1. CASE BeginProject(q)
  <2> PICK u \in Users, p \in Projects : Request(q, "create", u, p, NoUser, "")
    BY <1>1 DEF BeginProject
  <2> QED BY RequestBegins DEF Suits
<1>2. CASE BeginDelete(q)
  <2> PICK u \in Users, p \in Projects : Live(p) /\ Request(q, "list", u, p, NoUser, "")
    BY <1>2 DEF BeginDelete
  <2> QED BY RequestBegins DEF Suits
<1>3. CASE BeginFile(q)
  <2> PICK u \in Users, p \in Projects, d \in Documents : Request(q, "file", u, p, d, "add")
    BY <1>3 DEF BeginFile
  <2> QED BY RequestBegins DEF Suits
<1>4. CASE BeginUnfile(q)
  <2> PICK u \in Users, p \in Projects, d \in Documents : Request(q, "file", u, p, d, "drop")
    BY <1>4 DEF BeginUnfile
  <2> QED BY RequestBegins DEF Suits
<1>5. CASE BeginInvite(q)
  <2> PICK u \in Users, p \in Projects, m \in Users, role \in Invitable :
           Live(p) /\ m # meta[p].owner /\ Request(q, "invite", u, p, m, role)
    BY <1>5 DEF BeginInvite
  <2>1. Suits("invite", m, role)
    BY DEF Suits
  <2> QED BY <2>1, RequestBegins
<1>6. CASE BeginRemove(q)
  <2> PICK u \in Users, p \in Projects, m \in Users :
           Live(p) /\ member[p][m] \in Invitable /\ Request(q, "remove", u, p, m, "")
    BY <1>6 DEF BeginRemove
  <2>1. Suits("remove", m, "")
    BY DEF Suits
  <2> QED BY <1>0, <2>1, RequestBegins
<1>7. CASE BeginSetRole(q)
  <2> PICK u \in Users, p \in Projects, m \in Users, role \in Invitable :
           Live(p) /\ member[p][m] \in Invitable /\ Request(q, "role", u, p, m, role)
    BY <1>7 DEF BeginSetRole
  <2>1. Suits("role", m, role)
    BY DEF Suits
  <2> QED BY <1>0, <2>1, RequestBegins
<1> QED BY <1>1, <1>2, <1>3, <1>4, <1>5, <1>6, <1>7

LEMMA FoundingIsOrderly ==
    ASSUME AccessShapes, Steady, NEW q \in AccessRequests,
           CreateProject(q) \/ PointOwner(q) \/ EnrollOwner(q) \/ ListRows(q) \/ DeleteMembers(q) \/ DeleteMeta(q) \/ DeletePointer(q)
    PROVE  Steady'
<1> DEFINE r == call[q]
<1> PICK p : p = call[q].proj
  OBVIOUS
<1>0. outages' = outages /\ crossed' = crossed
  BY DEF CreateProject, PointOwner, EnrollOwner, ListRows, DeleteMembers, DeleteMeta, DeletePointer, rows
<1> SUFFICES ASSUME Orderly PROVE Orderly'
  BY <1>0 DEF Steady
<1>1. Serves(q) /\ Founds(q)
  BY DEF Serves, Founds, Founding, In, CreateProject, PointOwner, EnrollOwner, ListRows, DeleteMembers, DeleteMeta, DeletePointer
<1>2. r \in Calls /\ p \in Projects /\ r.user \in Users
  BY <1>1, CallIs DEF Calls, Serves
<1>3. Progressed(q)
  BY <1>1 DEF Orderly
<1>4. /\ meta \in [Projects -> [owner : Users \cup {NoUser}, docs : SUBSET Documents]]
      /\ ownerOf \in [Projects -> Users \cup {NoUser}]
      /\ member \in [Projects -> [Users -> Roles]] /\ DOMAIN call = AccessRequests
  BY DEF AccessShapes
<1>5. ASSUME NEW x, call' = [call EXCEPT ![q] = x],
             \A y \in Projects \ {p} : SameRows(y),
             \/ x = Hung /\ Whole(p)'
             \/ x.at = "hints" /\ x.proj = p /\ Whole(p)'
             \/ x.at \in Founding /\ x.proj = p /\ Progressed(q)'
      PROVE  Orderly'
  <2>1. call'[q] = x /\ \A o \in AccessRequests \ {q} : call'[o] = call[o]
    BY <1>4, <1>5
  <2>2. CASE x = Hung /\ Whole(p)'
    <3>1. ~Serves(q)' /\ ~Founds(q)'
      BY <2>1, <2>2 DEF Serves, Founds, Founding, In, Hung
    <3> QED BY <1>1, <1>5, <2>1, <2>2, <3>1, GoesOn
  <2>3. CASE x.at = "hints" /\ x.proj = p /\ Whole(p)'
    <3>1. Progressed(q)' /\ ~Founds(q)'
      BY <2>1, <2>3 DEF Progressed, In, Founds, Founding
    <3> QED BY <1>1, <1>5, <2>1, <2>3, <3>1, GoesOn
  <2>4. CASE x.at \in Founding /\ x.proj = p /\ Progressed(q)'
    <3>1. Founds(q)'
      BY <2>1, <2>4 DEF Founds
    <3> QED BY <1>1, <1>5, <2>1, <2>4, <3>1, GoesOn
  <2> QED BY <1>5, <2>2, <2>3, <2>4
<1>6. ASSUME NEW at PROVE [r EXCEPT !.at = at].at = at /\ [r EXCEPT !.at = at].proj = p /\ [r EXCEPT !.at = at].user = r.user
                          /\ [r EXCEPT !.at = at].joined = r.joined
  BY <1>2 DEF Calls
<1>7. NoUser \notin Users
  BY AccessUsers
<1>11. CASE CreateProject(q)
  <2>1. Whole(p)
    BY <1>3, <1>11 DEF Progressed, CreateProject
  <2>2. CASE Live(p)
    <3>1. call' = [call EXCEPT ![q] = Hung] /\ \A y : SameRows(y)
      BY <1>11, <2>2 DEF CreateProject, Finish, SameRows
    <3>2. Whole(p)'
      BY <2>1, <3>1, SameWhole
    <3> QED BY <1>5, <3>1, <3>2
  <2>3. CASE ~Live(p)
    <3>1. /\ call' = [call EXCEPT ![q] = [r EXCEPT !.at = "point"]]
          /\ meta' = [meta EXCEPT ![p] = [owner |-> r.user, docs |-> {}]]
          /\ UNCHANGED <<ownerOf, member>>
      BY <1>11, <2>3 DEF CreateProject, Proceed
    <3>2. \A y \in Projects \ {p} : SameRows(y)
      BY <1>4, <3>1 DEF SameRows
    <3>3. call'[q].at = "point" /\ call'[q].proj = p /\ call'[q].user = r.user
      BY <1>4, <1>6, <3>1
    <3>4. meta'[p].owner = r.user /\ ownerOf'[p] = NoUser /\ Emptied(p)'
      BY <1>2, <1>4, <2>1, <2>3, <3>1 DEF Whole, Emptied
    <3>5. Progressed(q)'
      BY <3>3, <3>4 DEF Progressed, In, Emptied
    <3> QED BY <1>4, <1>5, <3>1, <3>2, <3>3, <3>5 DEF Founding
  <2> QED BY <2>2, <2>3
<1>12. CASE PointOwner(q)
  <2>1. meta[p].owner = r.user /\ Emptied(p)
    BY <1>3, <1>12 DEF Progressed, PointOwner
  <2>2. /\ call' = [call EXCEPT ![q] = [r EXCEPT !.at = "enroll"]]
        /\ ownerOf' = [ownerOf EXCEPT ![p] = r.user]
        /\ UNCHANGED <<meta, member>>
    BY <1>12 DEF PointOwner, Proceed
  <2>3. \A y \in Projects \ {p} : SameRows(y)
    BY <1>4, <2>2 DEF SameRows
  <2>4. call'[q].at = "enroll" /\ call'[q].proj = p /\ call'[q].user = r.user
    BY <1>4, <1>6, <2>2
  <2>5. meta'[p].owner = r.user /\ ownerOf'[p] = r.user /\ Emptied(p)'
    BY <1>2, <1>4, <2>1, <2>2 DEF Emptied
  <2>6. Progressed(q)'
    BY <2>4, <2>5 DEF Progressed, In, Emptied
  <2> QED BY <1>4, <1>5, <2>2, <2>3, <2>4, <2>6 DEF Founding
<1>13. CASE EnrollOwner(q)
  <2>1. meta[p].owner = r.user /\ ownerOf[p] = r.user /\ Emptied(p)
    BY <1>3, <1>13 DEF Progressed, EnrollOwner
  <2>2. /\ call' = [call EXCEPT ![q] = Hung]
        /\ member' = [member EXCEPT ![p] = [member[p] EXCEPT ![r.user] = "owner"]]
        /\ UNCHANGED <<meta, ownerOf>>
    BY <1>13 DEF EnrollOwner, Finish
  <2>3. \A y \in Projects \ {p} : SameRows(y)
    BY <1>4, <2>2 DEF SameRows
  <2>4. \A u \in Users : member'[p][u] = IF u = r.user THEN "owner" ELSE "none"
    BY <1>2, <1>4, <2>1, <2>2 DEF Emptied
  <2>5. Whole(p)'
    BY <1>2, <1>7, <2>1, <2>2, <2>4 DEF Whole, Live
  <2> QED BY <1>5, <2>2, <2>3, <2>5
<1>14. CASE ListRows(q)
  <2> DEFINE joined == {u \in Users : member[p][u] # "none"}
  <2>1. Live(p) /\ Whole(p)
    BY <1>3, <1>14 DEF Progressed, ListRows
  <2>2. /\ call' = [call EXCEPT ![q] = [r EXCEPT !.at = "members", !.docs = meta[p].docs, !.joined = joined]]
        /\ UNCHANGED <<meta, ownerOf, member>>
    BY <1>14 DEF ListRows, rows
  <2>3. \A y : SameRows(y)
    BY <2>2 DEF SameRows
  <2>4. call'[q].at = "members" /\ call'[q].proj = p /\ call'[q].joined = joined
    BY <1>2, <1>4, <2>2 DEF Calls
  <2>5. Live(p)' /\ ownerOf'[p] = meta'[p].owner /\ \A u \in Users : member'[p][u] # "none" => u \in joined
    BY <2>1, <2>2 DEF Whole, Live
  <2>6. Progressed(q)'
    BY <2>4, <2>5 DEF Progressed, In, Live
  <2> QED BY <1>4, <1>5, <2>2, <2>3, <2>4, <2>6 DEF Founding
<1>15. CASE DeleteMembers(q)
  <2>1. \A u \in Users : member[p][u] # "none" => u \in r.joined
    BY <1>3, <1>15 DEF Progressed, DeleteMembers
  <2>2. /\ call' = [call EXCEPT ![q] = [r EXCEPT !.at = "meta"]]
        /\ member' = [member EXCEPT ![p] = [u \in Users |-> IF u \in r.joined THEN "none" ELSE member[p][u]]]
        /\ UNCHANGED <<meta, ownerOf>>
    BY <1>2, <1>4, <1>15 DEF DeleteMembers, Proceed
  <2>3. \A y \in Projects \ {p} : SameRows(y)
    BY <1>4, <2>2 DEF SameRows
  <2>4. call'[q].at = "meta" /\ call'[q].proj = p
    BY <1>4, <1>6, <2>2
  <2>5. Emptied(p)'
    BY <1>2, <1>4, <2>1, <2>2 DEF Emptied
  <2>6. Progressed(q)'
    BY <2>4, <2>5 DEF Progressed, In, Emptied
  <2> QED BY <1>4, <1>5, <2>2, <2>3, <2>4, <2>6 DEF Founding
<1>16. CASE DeleteMeta(q)
  <2>1. Emptied(p)
    BY <1>3, <1>16 DEF Progressed, DeleteMeta
  <2>2. /\ call' = [call EXCEPT ![q] = [r EXCEPT !.at = "pointer"]]
        /\ meta' = [meta EXCEPT ![p] = Gone]
        /\ UNCHANGED <<ownerOf, member>>
    BY <1>16 DEF DeleteMeta, Proceed
  <2>3. \A y \in Projects \ {p} : SameRows(y)
    BY <1>4, <2>2 DEF SameRows
  <2>4. call'[q].at = "pointer" /\ call'[q].proj = p
    BY <1>4, <1>6, <2>2
  <2>5. Emptied(p)' /\ ~Live(p)'
    BY <1>2, <1>4, <2>1, <2>2 DEF Emptied, Live, Gone
  <2>6. Progressed(q)'
    BY <2>4, <2>5 DEF Progressed, In, Emptied, Live
  <2> QED BY <1>4, <1>5, <2>2, <2>3, <2>4, <2>6 DEF Founding
<1>17. CASE DeletePointer(q)
  <2>1. Emptied(p) /\ ~Live(p)
    BY <1>3, <1>17 DEF Progressed, DeletePointer
  <2>2. /\ ownerOf' = [ownerOf EXCEPT ![p] = NoUser]
        /\ UNCHANGED <<meta, member>>
    BY <1>17 DEF DeletePointer
  <2>3. \A y \in Projects \ {p} : SameRows(y)
    BY <1>4, <2>2 DEF SameRows
  <2>4. Whole(p)'
    BY <1>2, <1>4, <2>1, <2>2 DEF Whole, Emptied, Live
  <2>5. CASE r.docs = {}
    BY <1>5, <1>17, <2>3, <2>4, <2>5 DEF DeletePointer, Finish
  <2>6. CASE r.docs # {}
    <3>1. call' = [call EXCEPT ![q] = [r EXCEPT !.at = "hints"]]
      BY <1>17, <2>6 DEF DeletePointer, Proceed
    <3> QED BY <1>5, <1>6, <2>3, <2>4, <3>1
  <2> QED BY <2>5, <2>6
<1> QED BY <1>11, <1>12, <1>13, <1>14, <1>15, <1>16, <1>17

LEMMA TheOthersAreOrderly ==
    ASSUME AccessShapes, Steady, NEW q \in AccessRequests,
           ChangeDocs(q) \/ ReadHint(q) \/ WriteHint(q) \/ PutMember(q) \/ RemoveMember(q) \/ SetRole(q)
    PROVE  Steady'
<1> DEFINE r == call[q]
<1> PICK p : p = call[q].proj
  OBVIOUS
<1>0. outages' = outages /\ crossed' = crossed
  BY DEF ChangeDocs, ReadHint, WriteHint, PutMember, RemoveMember, SetRole, rows
<1> SUFFICES ASSUME Orderly PROVE Orderly'
  BY <1>0 DEF Steady
<1>1. Serves(q) /\ ~Founds(q)
  BY DEF Serves, Founds, Founding, In, ChangeDocs, ReadHint, WriteHint, PutMember, RemoveMember, SetRole
<1>2. r \in Calls /\ p \in Projects
  BY <1>1, CallIs DEF Calls, Serves
<1>3. Progressed(q)
  BY <1>1 DEF Orderly
<1>4. /\ meta \in [Projects -> [owner : Users \cup {NoUser}, docs : SUBSET Documents]]
      /\ member \in [Projects -> [Users -> Roles]] /\ DOMAIN call = AccessRequests
  BY DEF AccessShapes
<1>5. ASSUME NEW x, call' = [call EXCEPT ![q] = x], x = Hung \/ (x.at \in {"hints", "hint"} /\ x.proj = p),
             \A y \in Projects \ {p} : SameRows(y),
             meta'[p].owner = meta[p].owner, Whole(p) => Whole(p)'
      PROVE  Orderly'
  <2>1. call'[q] = x /\ \A o \in AccessRequests \ {q} : call'[o] = call[o]
    BY <1>4, <1>5
  <2>2. ~Founds(q)' /\ (Serves(q)' => call'[q].proj = p /\ Progressed(q)')
    BY <1>5, <2>1 DEF Serves, Founds, Founding, In, Hung, Progressed
  <2> QED BY <1>1, <1>5, <2>1, <2>2, GoesOn
<1>6. ASSUME NEW x, call' = [call EXCEPT ![q] = x], x = Hung \/ (x.at \in {"hints", "hint"} /\ x.proj = p),
             \A y \in Projects : SameRows(y)
      PROVE  Orderly'
  <2>1. meta'[p].owner = meta[p].owner /\ (Whole(p) => Whole(p)')
    BY <1>2, <1>6, SameWhole DEF SameRows
  <2> QED BY <1>5, <1>6, <2>1
<1>7. ASSUME NEW x \in Roles \ {"owner"}, call' = [call EXCEPT ![q] = Hung], UNCHANGED <<meta, ownerOf>>,
             member' = [member EXCEPT ![p] = [member[p] EXCEPT ![r.on] = x]],
             In(q, "invite") \/ In(q, "role") \/ In(q, "remove")
      PROVE  Orderly'
  <2>1. Live(p) /\ r.on # meta[p].owner
    BY <1>3, <1>7 DEF Progressed, In
  <2>2. \A y \in Projects \ {p} : SameRows(y)
    BY <1>4, <1>7 DEF SameRows
  <2>3. \A u \in Users : member'[p][u] = IF u = r.on THEN x ELSE member[p][u]
    BY <1>2, <1>4, <1>7
  <2>4. Whole(p) => Whole(p)'
    BY <1>7, <2>1, <2>3 DEF Whole, Live
  <2> QED BY <1>5, <1>7, <2>2, <2>4
<1>11. CASE ChangeDocs(q)
  <2>1. \A y \in Projects : SameRows(y)
    BY <1>4, <1>11 DEF ChangeDocs, SameRows
  <2>2. call' = [call EXCEPT ![q] = [r EXCEPT !.at = "hints", !.docs = {r.on}]]
    BY <1>11 DEF ChangeDocs
  <2>3. [r EXCEPT !.at = "hints", !.docs = {r.on}].at = "hints" /\ [r EXCEPT !.at = "hints", !.docs = {r.on}].proj = p
    BY <1>2 DEF Calls
  <2> QED BY <1>6, <2>1, <2>2, <2>3
<1>12. CASE ReadHint(q)
  <2>1. \A y \in Projects : SameRows(y)
    BY <1>12 DEF ReadHint, SameRows, rows
  <2>2. CASE r.docs = {}
    BY <1>6, <1>12, <2>1, <2>2 DEF ReadHint, Finish
  <2>3. CASE r.docs # {}
    <3>1. PICK d \in r.docs :
            call' = [call EXCEPT ![q] = [r EXCEPT !.at = "hint", !.on = d, !.docs = r.docs \ {d},
                       !.rewritten = IF r.arg = "add" THEN hint[d] \cup {p} ELSE hint[d] \ {p}]]
      BY <1>12, <2>3 DEF ReadHint, AccessShapes
    <3> DEFINE n == [r EXCEPT !.at = "hint", !.on = d, !.docs = r.docs \ {d},
                           !.rewritten = IF r.arg = "add" THEN hint[d] \cup {p} ELSE hint[d] \ {p}]
    <3>2. n.at = "hint" /\ n.proj = p
      BY <1>2 DEF Calls
    <3> HIDE DEF n
    <3>3. call' = [call EXCEPT ![q] = n]
      BY <3>1 DEF n
    <3> QED BY <1>6, <2>1, <3>2, <3>3
  <2> QED BY <2>2, <2>3
<1>13. CASE WriteHint(q)
  <2>1. \A y \in Projects : SameRows(y)
    BY <1>13 DEF WriteHint, SameRows
  <2>2. call' = [call EXCEPT ![q] = [r EXCEPT !.at = "hints", !.rewritten = {}]]
    BY <1>13 DEF WriteHint
  <2>3. [r EXCEPT !.at = "hints", !.rewritten = {}].at = "hints" /\ [r EXCEPT !.at = "hints", !.rewritten = {}].proj = p
    BY <1>2 DEF Calls
  <2> QED BY <1>6, <2>1, <2>2, <2>3
<1>14. CASE PutMember(q)
  <2>1. r.arg \in Roles \ {"owner"}
    BY <1>14 DEF PutMember, AccessShapes, Invitable, Roles
  <2> QED BY <1>7, <1>14, <2>1 DEF PutMember, Finish
<1>15. CASE RemoveMember(q)
  <2>1. "none" \in Roles \ {"owner"}
    BY DEF Roles
  <2> QED BY <1>7, <1>15, <2>1 DEF RemoveMember, Finish
<1>16. CASE SetRole(q)
  <2>1. r.arg \in Roles \ {"owner"}
    BY <1>16 DEF SetRole, AccessShapes, Invitable, Roles
  <2>2. CASE MayUpdate(p, r.on)
    BY <1>7, <1>16, <2>1, <2>2 DEF SetRole, Finish
  <2>3. CASE ~MayUpdate(p, r.on)
    <3>1. call' = [call EXCEPT ![q] = Hung] /\ \A y \in Projects : SameRows(y)
      BY <1>16, <2>3 DEF SetRole, Finish, SameRows
    <3> QED BY <1>6, <3>1
  <2> QED BY <2>2, <2>3
<1> QED BY <1>11, <1>12, <1>13, <1>14, <1>15, <1>16

LEMMA SteadyNext == AccessShapes /\ Steady /\ [AccessNext]_accessVars => Steady'
<1> SUFFICES ASSUME AccessShapes, Steady, [AccessNext]_accessVars PROVE Steady'
  OBVIOUS
<1>0. ASSUME UNCHANGED <<call, outages, crossed>>, \A y \in Projects : SameRows(y) PROVE Steady'
  <2> SUFFICES ASSUME Orderly PROVE Orderly'
    BY <1>0 DEF Steady
  <2>1. \A q \in AccessRequests : (Serves(q)' <=> Serves(q)) /\ (Founds(q)' <=> Founds(q))
    BY <1>0 DEF Serves, Founds, In
  <2>2. ASSUME NEW q \in AccessRequests, Serves(q) PROVE Progressed(q)'
    <3>1. call[q] \in Calls /\ call[q].proj \in Projects
      BY <2>2, CallIs DEF Serves, Calls
    <3> QED BY <1>0, <2>2, <3>1, SameProgress DEF Orderly
  <2>3. \A p \in Projects : Whole(p)' <=> Whole(p)
    BY <1>0, SameWhole
  <2> QED BY <1>0, <2>1, <2>2, <2>3 DEF Orderly
<1>1. ASSUME NEW q \in AccessRequests, DeleteDocument(q) PROVE Steady'
  <2>1. PICK d \in Documents :
          /\ meta' = [p \in Projects |-> IF p \in hint[d] THEN [meta[p] EXCEPT !.docs = meta[p].docs \ {d}] ELSE meta[p]]
          /\ UNCHANGED <<ownerOf, member, call, outages, crossed>>
    BY <1>1 DEF DeleteDocument
  <2>2. \A p \in Projects : meta'[p].owner = meta[p].owner
    BY <2>1 DEF AccessShapes
  <2> QED BY <1>0, <2>1, <2>2 DEF SameRows
<1>2. ASSUME NEW q \in AccessRequests, AccessStep(q) PROVE Steady'
  BY <1>1, <1>2, BeginsAreOrderly, FoundingIsOrderly, TheOthersAreOrderly DEF AccessStep
<1>3. CASE Outage
  BY <1>3 DEF Outage, Steady, AccessShapes
<1>4. CASE UNCHANGED accessVars
  BY <1>0, <1>4 DEF accessVars, SameRows
<1> QED BY <1>2, <1>3, <1>4 DEF AccessNext

LEMMA SteadyInitially == AccessInit => RemovedStayOut /\ Steady
<1> SUFFICES ASSUME AccessInit PROVE RemovedStayOut /\ Orderly
  BY DEF Steady
<1> PICK filed \in [Projects -> SUBSET Documents], role \in [Projects -> {"none", "viewer", "editor"}] :
         /\ meta = [p \in Projects |-> [owner |-> Founder, docs |-> filed[p]]]
         /\ member = [p \in Projects |-> [u \in Users |-> CASE u = Founder -> "owner" [] u = Guest -> role[p] [] OTHER -> "none"]]
  BY DEF AccessInit
<1>1. \A q \in AccessRequests : ~Serves(q) /\ ~Founds(q)
  BY DEF AccessInit, Serves, Founds, Founding, In, Hung
<1>2. ASSUME NEW p \in Projects PROVE Whole(p)
  <2>1. meta[p].owner = Founder /\ ownerOf[p] = Founder /\ Live(p)
    BY AccessUsers DEF AccessInit, Live
  <2>2. ASSUME NEW u \in Users PROVE member[p][u] = "owner" <=> u = Founder
    <3>1. role[p] # "owner"
      OBVIOUS
    <3> QED BY <3>1, AccessUsers
  <2> QED BY <2>1, <2>2 DEF Whole
<1>3. RemovedStayOut
  BY DEF AccessInit, RemovedStayOut
<1> QED BY <1>1, <1>2, <1>3 DEF Orderly

(* Nobody reaches a document through a hint alone, a removed member stays  *)
(* out until invited again, and a project has the one owner that made it,  *)
(* unless a request stopped half way or worked on what another was making  *)
(* or deleting; for any number of users, projects, documents and requests. *)
THEOREM AccessIsSound == AccessSpec => []AccessHolds
<1>1. AccessShapes /\ RemovedStayOut /\ Steady => AccessHolds
  BY HintsGrantNothing, OwnersAreOne DEF AccessHolds
<1> QED BY <1>1, ShapesInitially, SteadyInitially, AccessShapesNext, RemovedNext, SteadyNext, PTL DEF AccessSpec

(***************************************************************************)
(* The connectors                                                          *)
(***************************************************************************)

Connector == [enabled : BOOLEAN, creds : BOOLEAN, last : Nat, error : BOOLEAN]
Savings == [at : {"secret", "save"}, creds : {"keep", "store", "remove"}, read : Connector, write : Connector]
Pulls   == [at : {"creds", "fetch", "apply", "end"}, trigger : {"schedule", "event"}, read : Connector,
            started : Nat, live : BOOLEAN, rows : SUBSET Records, got : [Records -> Nat],
            missed : SUBSET Records, failed : BOOLEAN]
UnderWay(p) == phase[p].at # "off"

(* Types of what is stored and of what every run and save holds.           *)
ConnShapes ==
    /\ clock \in Nat /\ changed \in [Records -> Nat] /\ value \in [Records -> Nat]
    /\ known \subseteq Records /\ passedBy \subseteq Records
    /\ conn \in Connector /\ secret \in BOOLEAN /\ together \in BOOLEAN
    /\ phase \in [Runners -> {Off} \cup Savings \cup Pulls]

(* Of what a run or save that is alone knows.  Nothing lies in the future,  *)
(* and no contract is ahead of its record.                                 *)
InTime == /\ conn.last <= clock
          /\ \A r \in Records : changed[r] <= clock /\ value[r] <= changed[r]

(* The connector is the one it read, and it is the only one under way.     *)
AsRead ==
    /\ \A p, o \in Runners : UnderWay(p) /\ UnderWay(o) => p = o
    /\ \A p \in Runners : UnderWay(p) => phase[p].read = conn
    /\ \A p \in Runners : phase[p].at \in {"secret", "save"} => phase[p].write.last = conn.last

(* What it fetched is what is there, or the record changed since.          *)
Fetched(p) ==
    \A r \in Records : /\ phase[p].got[r] <= changed[r]
                       /\ phase[p].got[r] = changed[r] \/ phase[p].started < changed[r]

(* What changed before it started is still to be applied, could not be     *)
(* applied, is in the contract, or changed before the last pull.           *)
CoveredBy(p) ==
    \A r \in Records : changed[r] < phase[p].started =>
        \/ r \in phase[p].rows \cup phase[p].missed \/ value[r] = changed[r] \/ changed[r] < conn.last

Timed(p) == conn.last <= phase[p].started /\ phase[p].started <= clock
Pulling(p) ==
    /\ phase[p].at \in {"creds", "fetch", "apply", "end"} => Timed(p)
    /\ phase[p].at = "apply" => Fetched(p) /\ CoveredBy(p)
    /\ (phase[p].at = "end" /\ phase[p].trigger # "event" /\ phase[p].live /\ ~phase[p].failed)
          => CoveredBy(p) /\ phase[p].rows = {}

AllPulled == \A r \in known \ passedBy : changed[r] < conn.last => value[r] = changed[r]
Skipless  == ~together => InTime /\ AsRead /\ (\A p \in Runners : Pulling(p)) /\ AllPulled
-----------------------------------------------------------------------------
LEMMA ConnShapesInit == ConnectorInit => ConnShapes
<1> SUFFICES ASSUME ConnectorInit PROVE ConnShapes
  OBVIOUS
<1>1. conn \in Connector
  BY DEF ConnectorInit, Unset, Connector
<1>2. phase \in [Runners -> {Off} \cup Savings \cup Pulls]
  BY DEF ConnectorInit
<1> QED BY <1>1, <1>2 DEF ConnectorInit, ConnShapes

LEMMA ConnShapesNext == ConnShapes /\ [ConnectorNext]_connVars => ConnShapes'
<1> SUFFICES ASSUME ConnShapes, [ConnectorNext]_connVars PROVE ConnShapes'
  OBVIOUS
<1> USE DEF ConnShapes
<1>1. CASE UNCHANGED connVars
  BY <1>1 DEF connVars
<1>2. CASE RecordChanges
  BY <1>2 DEF RecordChanges, Tick
<1>3. CASE SetExternalId
  BY <1>3 DEF SetExternalId
<1>4. CASE StopRun
  BY <1>4 DEF StopRun
<1>5. ASSUME NEW p \in Runners, BeginSave(p) PROVE ConnShapes'
  <2>1. PICK switch \in BOOLEAN, creds \in {"keep", "store", "remove"} :
         phase' = [phase EXCEPT ![p] = [at |-> IF creds = "keep" THEN "save" ELSE "secret", creds |-> creds, read |-> conn,
             write |-> [conn EXCEPT !.enabled = switch,
                                    !.creds = IF creds = "keep" THEN conn.creds ELSE creds = "store",
                                    !.error = conn.error /\ creds = "keep"]]]
    BY <1>5 DEF BeginSave
  <2>2. [conn EXCEPT !.enabled = switch, !.creds = IF creds = "keep" THEN conn.creds ELSE creds = "store",
                     !.error = conn.error /\ creds = "keep"] \in Connector
    BY DEF Connector
  <2>3. phase' \in [Runners -> {Off} \cup Savings \cup Pulls]
    BY <2>1, <2>2 DEF Savings
  <2> QED BY <1>5, <2>3 DEF BeginSave, Tick
<1>6. ASSUME NEW p \in Runners, PutSecret(p) PROVE ConnShapes'
  <2>1. phase[p] \in Savings
    BY <1>6 DEF PutSecret, Is, Off, Pulls
  <2> QED BY <1>6, <2>1 DEF PutSecret, Move, Savings
<1>7. ASSUME NEW p \in Runners, Save(p) PROVE ConnShapes'
  <2>1. phase[p] \in Savings
    BY <1>7 DEF Save, Is, Off, Pulls
  <2> QED BY <1>7, <2>1 DEF Save, Savings
<1>8. ASSUME NEW p \in Runners, BeginRun(p) PROVE ConnShapes'
  <2>1. PICK trigger \in {"schedule", "event"} :
         phase' = [phase EXCEPT ![p] = [at |-> "creds", trigger |-> trigger, read |-> conn, started |-> clock + 1,
                                  live |-> FALSE, rows |-> {}, got |-> value, missed |-> {}, failed |-> FALSE]]
    BY <1>8 DEF BeginRun
  <2>2. phase' \in [Runners -> {Off} \cup Savings \cup Pulls]
    BY <2>1 DEF Pulls
  <2> QED BY <1>8, <2>2 DEF BeginRun, Tick
<1>9. ASSUME NEW p \in Runners, ReadSecret(p) \/ Fetch(p) \/ Apply(p) \/ Pulled(p) \/ EndRun(p) PROVE ConnShapes'
  <2>f. Fetch(p) => Is(p, "fetch")
    BY DEF Fetch
  <2>1. phase[p] \in Pulls
    <3>1. Is(p, "creds") \/ Is(p, "fetch") \/ Is(p, "apply") \/ Is(p, "end")
      BY <1>9, <2>f DEF ReadSecret, Apply, Pulled, EndRun
    <3> QED BY <3>1 DEF Is, Off, Savings
  <2>2. CASE ReadSecret(p)
    <3> DEFINE live == phase[p].read.creds /\ secret /\ phase[p].read.enabled
    <3>1. live \in BOOLEAN
      BY <2>1 DEF Pulls, Connector
    <3>2. phase' = [phase EXCEPT ![p].live = live,
                        ![p].at = IF live /\ phase[p].trigger # "event" THEN "fetch" ELSE "end"]
      BY <2>2 DEF ReadSecret
    <3> HIDE DEF live
    <3>3. phase' \in [Runners -> {Off} \cup Savings \cup Pulls]
      BY <2>1, <3>1, <3>2 DEF Pulls
    <3> QED BY <2>2, <3>3 DEF ReadSecret
  <2>3. CASE Fetch(p)
    <3>2. ASSUME NEW page \in Page(phase[p].read.last),
                 phase' = [phase EXCEPT ![p].at = "apply", ![p].rows = page, ![p].got = changed,
                                        ![p].missed = Since(phase[p].read.last) \ page]
          PROVE  ConnShapes'
      <4> DEFINE missed == Since(phase[p].read.last) \ page
      <4>1. page \subseteq Records /\ missed \subseteq Records
        BY <3>2 DEF Page, Since
      <4>2. phase' = [phase EXCEPT ![p].at = "apply", ![p].rows = page, ![p].got = changed, ![p].missed = missed]
        BY <3>2
      <4> HIDE DEF missed
      <4>3. phase' \in [Runners -> {Off} \cup Savings \cup Pulls]
        BY <2>1, <4>1, <4>2 DEF Pulls
      <4> QED BY <2>3, <4>3 DEF Fetch
    <3>3. CASE phase' = [phase EXCEPT ![p].at = "end", ![p].failed = TRUE]
      <4>1. phase' \in [Runners -> {Off} \cup Savings \cup Pulls]
        BY <2>1, <3>3 DEF Pulls
      <4> QED BY <2>3, <4>1 DEF Fetch
    <3> QED BY <2>3, <3>2, <3>3 DEF Fetch
  <2>4. CASE Apply(p)
    BY <2>1, <2>4 DEF Apply, Pulls
  <2>5. CASE Pulled(p)
    BY <2>1, <2>5 DEF Pulled, Move, Pulls
  <2>6. CASE EndRun(p)
    <3>1. conn' \in Connector
      BY <2>1, <2>6 DEF EndRun, Pulls, Connector, LastSync
    <3>2. PassedBy(phase[p]) \subseteq Records
      BY <2>1 DEF PassedBy, Pulls
    <3> QED BY <2>6, <3>1, <3>2 DEF EndRun
  <2> QED BY <1>9, <2>2, <2>3, <2>4, <2>5, <2>6
<1> QED
  <2>1. ASSUME NEW p \in Runners,
               \/ BeginSave(p) \/ PutSecret(p) \/ Save(p)
               \/ BeginRun(p) \/ ReadSecret(p) \/ Fetch(p) \/ Apply(p) \/ Pulled(p) \/ EndRun(p)
        PROVE ConnShapes'
    BY <2>1, <1>5, <1>6, <1>7, <1>8, <1>9
  <2> QED BY <2>1, <1>1, <1>2, <1>3, <1>4 DEF ConnectorNext
-----------------------------------------------------------------------------
LEMMA SkiplessInit == ConnectorInit => Skipless
<1> SUFFICES ASSUME ConnectorInit PROVE Skipless
  OBVIOUS
<1> USE DEF ConnectorInit
<1>1. InTime
  BY DEF InTime, Unset
<1>2. AsRead
  BY DEF AsRead, UnderWay, Off
<1>3. \A p \in Runners : Pulling(p)
  BY DEF Pulling, Off
<1>4. AllPulled
  BY DEF AllPulled, Unset
<1> QED BY <1>1, <1>2, <1>3, <1>4 DEF Skipless

LEMMA SkiplessNext == ConnShapes /\ Skipless /\ [ConnectorNext]_connVars => Skipless'
<1> SUFFICES ASSUME ConnShapes, Skipless, [ConnectorNext]_connVars, ~together'
             PROVE  InTime' /\ AsRead' /\ (\A p \in Runners : Pulling(p)') /\ AllPulled'
  BY DEF Skipless
<1>0. InTime /\ AsRead /\ (\A p \in Runners : Pulling(p)) /\ AllPulled
  <2>1. ~together
    BY DEF ConnShapes, ConnectorNext, connVars, RecordChanges, SetExternalId, StopRun, BeginSave, PutSecret, Save,
           BeginRun, ReadSecret, Fetch, Apply, Pulled, EndRun
  <2> QED BY <2>1 DEF Skipless
<1>a. \A p \in Runners : phase[p] = Off \/ phase[p] \in Savings \/ phase[p] \in Pulls
  BY DEF ConnShapes
<1>b. conn.last \in Nat /\ clock \in Nat /\ \A r \in Records : changed[r] \in Nat /\ value[r] \in Nat
  BY DEF ConnShapes, Connector
<1>c. \A p \in Runners : phase[p].at \in {"creds", "fetch", "apply", "end"} => phase[p] \in Pulls
  BY <1>a DEF Off, Savings
<1>d. \A p \in Runners : phase[p].at \in {"secret", "save"} => phase[p] \in Savings
  BY <1>a DEF Off, Pulls
<1>1. CASE UNCHANGED connVars
  BY <1>0, <1>1 DEF connVars, InTime, AsRead, UnderWay, Pulling, Timed, Fetched, CoveredBy, AllPulled
<1>2. CASE RecordChanges
  <2>1. clock' = clock + 1 /\ UNCHANGED <<value, known, conn, phase, passedBy>>
    BY <1>2 DEF RecordChanges, Tick
  <2>2. \A r \in Records : changed'[r] = changed[r] \/ changed'[r] = clock'
    BY <1>2, <2>1 DEF RecordChanges, Tick, ConnShapes
  <2>3. InTime'
    BY <1>0, <1>b, <2>1, <2>2 DEF InTime
  <2>4. AsRead'
    BY <1>0, <2>1 DEF AsRead, UnderWay
  <2>5. ASSUME NEW p \in Runners PROVE Pulling(p)'
    <3>1. Timed(p) /\ phase[p] \in Pulls => Timed(p)'
      BY <1>b, <2>1 DEF Timed, Pulls
    <3>2. Timed(p) /\ phase[p] \in Pulls /\ Fetched(p) => Fetched(p)'
      BY <1>0, <1>b, <2>1, <2>2 DEF Timed, Fetched, Pulls, InTime
    <3>3. Timed(p) /\ phase[p] \in Pulls /\ CoveredBy(p) => CoveredBy(p)'
      BY <1>0, <1>b, <2>1, <2>2 DEF Timed, CoveredBy, Pulls, InTime
    <3> QED BY <1>0, <1>c, <2>1, <3>1, <3>2, <3>3 DEF Pulling
  <2>6. AllPulled'
    BY <1>0, <1>b, <2>1, <2>2 DEF AllPulled, InTime, ConnShapes
  <2> QED BY <2>3, <2>4, <2>5, <2>6
<1>3. CASE SetExternalId
  <2> USE <1>3 DEF SetExternalId
  <2>1. InTime' /\ AsRead'
    BY <1>0 DEF InTime, AsRead, UnderWay
  <2>2. \A p \in Runners : Pulling(p)'
    BY <1>0 DEF Pulling, Timed, Fetched, CoveredBy
  <2>3. AllPulled'
    BY <1>0 DEF AllPulled
  <2> QED BY <2>1, <2>2, <2>3
<1>4. CASE StopRun
  <2>1. PICK q \in Runners : phase' = [phase EXCEPT ![q] = Off]
    BY <1>4 DEF StopRun
  <2>2. UNCHANGED <<clock, changed, value, known, conn, passedBy>>
    BY <1>4 DEF StopRun
  <2>3. \A p \in Runners : phase'[p] = phase[p] \/ phase'[p] = Off
    BY <2>1 DEF ConnShapes
  <2>4. InTime' /\ AllPulled'
    BY <1>0, <2>2 DEF InTime, AllPulled
  <2>5. AsRead'
    BY <1>0, <2>2, <2>3 DEF AsRead, UnderWay, Off
  <2>6. \A p \in Runners : Pulling(p)'
    BY <1>0, <2>2, <2>3 DEF Pulling, Timed, Fetched, CoveredBy, Off
  <2> QED BY <2>4, <2>5, <2>6
<1>5. ASSUME NEW p \in Runners, BeginSave(p) \/ BeginRun(p)
      PROVE  InTime' /\ AsRead' /\ (\A q \in Runners : Pulling(q)') /\ AllPulled'
  <2>1. clock' = clock + 1 /\ UNCHANGED <<changed, value, known, conn, passedBy>>
    BY <1>5 DEF BeginSave, BeginRun, Tick
  <2>2. \A q \in Runners : ~UnderWay(q)
    BY <1>5 DEF BeginSave, BeginRun, UnderWay, Is
  <2>3. \A q \in Runners \ {p} : phase'[q] = phase[q]
    BY <1>5 DEF BeginSave, BeginRun, ConnShapes
  <2>4. phase'[p].read = conn /\ phase'[p].at \in {"secret", "save", "creds"}
        /\ (phase'[p].at = "creds" => phase'[p].started = clock + 1)
        /\ (phase'[p].at \in {"secret", "save"} => phase'[p].write.last = conn.last)
    <3>1. CASE BeginSave(p)
      <4>1. PICK switch \in BOOLEAN, creds \in {"keep", "store", "remove"} :
             phase' = [phase EXCEPT ![p] = [at |-> IF creds = "keep" THEN "save" ELSE "secret", creds |-> creds, read |-> conn,
                 write |-> [conn EXCEPT !.enabled = switch,
                                        !.creds = IF creds = "keep" THEN conn.creds ELSE creds = "store",
                                        !.error = conn.error /\ creds = "keep"]]]
        BY <3>1 DEF BeginSave
      <4> DEFINE write == [conn EXCEPT !.enabled = switch,
                                       !.creds = IF creds = "keep" THEN conn.creds ELSE creds = "store",
                                       !.error = conn.error /\ creds = "keep"]
      <4>2. write.last = conn.last
        BY DEF ConnShapes, Connector
      <4>3. phase' = [phase EXCEPT ![p] = [at |-> IF creds = "keep" THEN "save" ELSE "secret", creds |-> creds, read |-> conn,
                                           write |-> write]]
        BY <4>1
      <4> HIDE DEF write
      <4>4. phase'[p] = [at |-> IF creds = "keep" THEN "save" ELSE "secret", creds |-> creds, read |-> conn, write |-> write]
        BY <4>3 DEF ConnShapes
      <4> QED BY <4>2, <4>4
    <3>2. CASE BeginRun(p)
      BY <3>2 DEF BeginRun, ConnShapes
    <3> QED BY <1>5, <3>1, <3>2
  <2>5. InTime' /\ AllPulled'
    BY <1>0, <1>b, <2>1 DEF InTime, AllPulled
  <2>6. AsRead'
    BY <2>1, <2>2, <2>3, <2>4 DEF AsRead, UnderWay
  <2>7. \A q \in Runners : Pulling(q)'
    <3>1. Pulling(p)'
      BY <1>0, <1>b, <2>1, <2>4 DEF Pulling, Timed, InTime
    <3>2. \A q \in Runners \ {p} : Pulling(q)'
      BY <2>2, <2>3 DEF Pulling, UnderWay
    <3> QED BY <3>1, <3>2
  <2> QED BY <2>5, <2>6, <2>7
<1>6. ASSUME NEW p \in Runners, UnderWay(p)
      PROVE  \A q \in Runners \ {p} : ~UnderWay(q)
  BY <1>0, <1>6 DEF AsRead
<1>7. ASSUME NEW p \in Runners, PutSecret(p) \/ ReadSecret(p) \/ Pulled(p)
      PROVE  InTime' /\ AsRead' /\ (\A q \in Runners : Pulling(q)') /\ AllPulled'
  <2>1. UNCHANGED <<clock, changed, value, known, conn, passedBy>>
    BY <1>7 DEF PutSecret, ReadSecret, Pulled
  <2>2. InTime' /\ AllPulled'
    BY <1>0, <2>1 DEF InTime, AllPulled
  <2>3. \A q \in Runners \ {p} : phase'[q] = phase[q] /\ ~UnderWay(q)
    BY <1>6, <1>7 DEF PutSecret, ReadSecret, Pulled, Move, Is, UnderWay, ConnShapes
  <2>4. CASE PutSecret(p)
    <3>1. phase'[p].at = "save" /\ phase'[p].read = phase[p].read /\ phase'[p].write = phase[p].write
      BY <1>d, <2>4 DEF PutSecret, Move, Is, ConnShapes, Savings
    <3>2. AsRead'
      BY <1>0, <2>1, <2>3, <2>4, <3>1 DEF AsRead, UnderWay, PutSecret, Is
    <3>3. \A q \in Runners : Pulling(q)'
      BY <2>3, <3>1 DEF Pulling, UnderWay
    <3> QED BY <2>2, <3>2, <3>3
  <2>5. CASE ReadSecret(p) \/ Pulled(p)
    <3>0. phase[p] \in Pulls /\ phase[p].at \in {"creds", "apply"}
      BY <1>c, <2>5 DEF ReadSecret, Pulled, Is
    <3>1. /\ phase'[p].at \in {"fetch", "end"} /\ phase'[p].read = phase[p].read /\ phase'[p].started = phase[p].started
          /\ phase'[p].trigger = phase[p].trigger /\ phase'[p].rows = phase[p].rows /\ phase'[p].missed = phase[p].missed
      BY <2>5, <3>0 DEF ReadSecret, Pulled, Move, ConnShapes, Pulls
    <3>2. AsRead'
      BY <1>0, <2>1, <2>3, <3>0, <3>1 DEF AsRead, UnderWay
    <3>3. Timed(p)'
      BY <1>0, <2>1, <3>0, <3>1 DEF Timed, Pulling
    <3>4. CASE ReadSecret(p)
      <4>1. phase'[p].at = "end" => ~phase'[p].live \/ phase'[p].trigger = "event"
        BY <3>0, <3>4 DEF ReadSecret, ConnShapes, Pulls
      <4>2. Pulling(p)'
        BY <3>1, <3>3, <4>1 DEF Pulling
      <4> QED BY <2>2, <2>3, <3>2, <4>2 DEF Pulling, UnderWay
    <3>5. CASE Pulled(p)
      <4>1. CoveredBy(p) /\ phase[p].rows = {}
        BY <1>0, <3>5 DEF Pulled, Is, Pulling
      <4>2. CoveredBy(p)' /\ phase'[p].rows = {}
        BY <2>1, <3>1, <4>1 DEF CoveredBy
      <4>3. Pulling(p)'
        BY <3>1, <3>3, <4>2 DEF Pulling
      <4> QED BY <2>2, <2>3, <3>2, <4>3 DEF Pulling, UnderWay
    <3> QED BY <2>5, <3>4, <3>5
  <2> QED BY <1>7, <2>4, <2>5
<1>8. ASSUME NEW p \in Runners, Save(p) \/ EndRun(p)
      PROVE  InTime' /\ AsRead' /\ (\A q \in Runners : Pulling(q)') /\ AllPulled'
  <2>1. UNCHANGED <<clock, changed, value, known>>
    BY <1>8 DEF Save, EndRun
  <2>2. \A q \in Runners : phase'[q] = IF q = p THEN Off ELSE phase[q]
    BY <1>8 DEF Save, EndRun, ConnShapes
  <2>3. \A q \in Runners : ~UnderWay(q)'
    BY <1>6, <1>8, <2>2 DEF Save, EndRun, UnderWay, Is, Off
  <2>4. AsRead' /\ \A q \in Runners : Pulling(q)'
    BY <2>3 DEF AsRead, Pulling, UnderWay
  <2>5. CASE Save(p)
    <3>1. conn'.last = conn.last /\ passedBy' = passedBy
      BY <1>0, <2>5 DEF Save, AsRead, Is
    <3> QED BY <1>0, <2>1, <2>4, <3>1 DEF InTime, AllPulled
  <2>6. CASE EndRun(p)
    <3>0. phase[p] \in Pulls /\ phase[p].at = "end" /\ phase[p].read = conn /\ Timed(p) /\ conn \in Connector
      BY <1>0, <1>c, <2>6 DEF EndRun, Is, AsRead, UnderWay, Pulling, ConnShapes
    <3>1. passedBy' = passedBy \cup PassedBy(phase[p])
      BY <2>6 DEF EndRun
    <3>2. conn'.last = LastSync(phase[p])
      BY <2>6, <3>0 DEF EndRun, Connector
    <3>3. CASE ~(phase[p].live /\ ~phase[p].failed)
      <4>1. conn'.last = conn.last
        BY <3>0, <3>2, <3>3 DEF LastSync
      <4> QED BY <1>0, <2>1, <2>4, <3>1, <4>1 DEF InTime, AllPulled
    <3>4. CASE phase[p].live /\ ~phase[p].failed
      <4>1. conn'.last = phase[p].started
        BY <3>2, <3>4 DEF LastSync
      <4>2. InTime'
        BY <1>0, <2>1, <3>0, <4>1 DEF InTime, Timed
      <4>3. CASE phase[p].trigger = "event"
        <5>1. PassedBy(phase[p]) = {x \in known : value[x] < changed[x] /\ changed[x] < LastSync(phase[p])}
          BY <4>3 DEF PassedBy
        <5>2. AllPulled'
          BY <1>0, <1>b, <2>1, <3>1, <3>2, <5>1 DEF AllPulled, InTime, ConnShapes
        <5> QED BY <2>4, <4>2, <5>2
      <4>4. CASE phase[p].trigger # "event"
        <5>1. PassedBy(phase[p]) = phase[p].missed
          BY <4>4 DEF PassedBy
        <5>2. CoveredBy(p) /\ phase[p].rows = {}
          BY <1>0, <3>0, <3>4, <4>4 DEF Pulling
        <5>3. AllPulled'
          BY <1>0, <2>1, <3>1, <4>1, <5>1, <5>2 DEF AllPulled, CoveredBy, ConnShapes
        <5> QED BY <2>4, <4>2, <5>3
      <4> QED BY <4>3, <4>4
    <3> QED BY <3>3, <3>4
  <2> QED BY <1>8, <2>5, <2>6
<1>9. ASSUME NEW p \in Runners, Fetch(p)
      PROVE  InTime' /\ AsRead' /\ (\A q \in Runners : Pulling(q)') /\ AllPulled'
  <2>0. phase[p] \in Pulls /\ phase[p].at = "fetch" /\ phase[p].read = conn /\ Timed(p)
    BY <1>0, <1>c, <1>9 DEF Fetch, Is, AsRead, UnderWay, Pulling
  <2>1. UNCHANGED <<clock, changed, value, known, conn, passedBy>>
    BY <1>9 DEF Fetch
  <2>2. InTime' /\ AllPulled'
    BY <1>0, <2>1 DEF InTime, AllPulled
  <2>3. \A q \in Runners \ {p} : phase'[q] = phase[q] /\ ~UnderWay(q)
    BY <1>6, <1>9 DEF Fetch, Is, UnderWay, ConnShapes
  <2>4. ASSUME NEW page \in Page(phase[p].read.last),
               phase' = [phase EXCEPT ![p].at = "apply", ![p].rows = page, ![p].got = changed,
                                      ![p].missed = Since(phase[p].read.last) \ page]
        PROVE  InTime' /\ AsRead' /\ (\A q \in Runners : Pulling(q)') /\ AllPulled'
    <3>1. /\ phase'[p].at = "apply" /\ phase'[p].read = phase[p].read /\ phase'[p].started = phase[p].started
          /\ phase'[p].got = changed /\ Since(conn.last) \subseteq phase'[p].rows \cup phase'[p].missed
      BY <2>0, <2>4 DEF ConnShapes, Pulls
    <3>2. AsRead'
      BY <1>0, <2>0, <2>1, <2>3, <3>1 DEF AsRead, UnderWay
    <3>3. Timed(p)'
      BY <2>0, <2>1, <3>1 DEF Timed
    <3>4. Fetched(p)'
      BY <1>b, <2>1, <3>1 DEF Fetched
    <3>5. CoveredBy(p)'
      BY <1>b, <2>1, <3>1 DEF CoveredBy, Since
    <3>6. Pulling(p)'
      BY <3>1, <3>3, <3>4, <3>5 DEF Pulling
    <3> QED BY <2>2, <2>3, <3>2, <3>6 DEF Pulling, UnderWay
  <2>5. CASE phase' = [phase EXCEPT ![p].at = "end", ![p].failed = TRUE]
    <3>1. /\ phase'[p].at = "end" /\ phase'[p].read = phase[p].read /\ phase'[p].started = phase[p].started
          /\ phase'[p].failed
      BY <2>0, <2>5 DEF ConnShapes, Pulls
    <3>2. AsRead'
      BY <1>0, <2>0, <2>1, <2>3, <3>1 DEF AsRead, UnderWay
    <3>3. Timed(p)'
      BY <2>0, <2>1, <3>1 DEF Timed
    <3>6. Pulling(p)'
      BY <3>1, <3>3 DEF Pulling
    <3> QED BY <2>2, <2>3, <3>2, <3>6 DEF Pulling, UnderWay
  <2> QED BY <1>9, <2>4, <2>5 DEF Fetch
<1>10. ASSUME NEW p \in Runners, Apply(p)
       PROVE  InTime' /\ AsRead' /\ (\A q \in Runners : Pulling(q)') /\ AllPulled'
  <2>0. phase[p] \in Pulls /\ phase[p].at = "apply" /\ phase[p].read = conn /\ Timed(p) /\ Fetched(p) /\ CoveredBy(p)
    BY <1>0, <1>c, <1>10 DEF Apply, Is, AsRead, UnderWay, Pulling
  <2>1. UNCHANGED <<clock, changed, known, conn>>
    BY <1>10 DEF Apply
  <2>2. \A q \in Runners \ {p} : phase'[q] = phase[q] /\ ~UnderWay(q)
    BY <1>6, <1>10 DEF Apply, Is, UnderWay, ConnShapes
  <2>3. PICK r \in phase[p].rows :
         \/ /\ value' = [value EXCEPT ![r] = phase[p].got[r]]
            /\ phase' = [phase EXCEPT ![p].rows = phase[p].rows \ {r}]
            /\ passedBy' = IF phase[p].got[r] = changed[r] THEN passedBy \ {r} ELSE passedBy
         \/ /\ phase' = [phase EXCEPT ![p].rows = phase[p].rows \ {r}, ![p].missed = phase[p].missed \cup {r}]
            /\ UNCHANGED <<value, passedBy>>
    BY <1>10 DEF Apply
  <2>4. /\ phase'[p].at = "apply" /\ phase'[p].read = phase[p].read /\ phase'[p].started = phase[p].started
        /\ phase'[p].got = phase[p].got /\ phase'[p].rows = phase[p].rows \ {r}
        /\ phase[p].missed \subseteq phase'[p].missed
    BY <2>0, <2>3 DEF ConnShapes, Pulls
  <2>r. r \in Records
    BY <2>0, <2>3 DEF Pulls
  <2>5. AsRead'
    BY <1>0, <2>0, <2>1, <2>2, <2>4 DEF AsRead, UnderWay
  <2>6. Timed(p)' /\ Fetched(p)'
    BY <2>0, <2>1, <2>4 DEF Timed, Fetched
  <2>7. CASE /\ value' = [value EXCEPT ![r] = phase[p].got[r]]
             /\ passedBy' = IF phase[p].got[r] = changed[r] THEN passedBy \ {r} ELSE passedBy
    <3>1. \A x \in Records : value'[x] = IF x = r THEN phase[p].got[r] ELSE value[x]
      BY <2>7 DEF ConnShapes
    <3>2. InTime'
      BY <1>0, <2>0, <2>1, <3>1 DEF InTime, Fetched
    <3>3. CoveredBy(p)'
      BY <1>b, <2>0, <2>1, <2>4, <2>r, <3>1 DEF CoveredBy, Fetched, Timed, Pulls
    <3>4. AllPulled'
      <4>1. phase[p].got[r] # changed[r] => ~(changed[r] < conn.last)
        BY <1>b, <2>0, <2>r DEF Fetched, Timed, Pulls
      <4> QED BY <1>0, <2>1, <2>7, <3>1, <4>1 DEF AllPulled, ConnShapes
    <3> QED BY <2>2, <2>4, <2>5, <2>6, <3>2, <3>3, <3>4 DEF Pulling, UnderWay
  <2>8. CASE /\ phase' = [phase EXCEPT ![p].rows = phase[p].rows \ {r}, ![p].missed = phase[p].missed \cup {r}]
             /\ UNCHANGED <<value, passedBy>>
    <3>1. phase'[p].missed = phase[p].missed \cup {r}
      BY <2>0, <2>8 DEF ConnShapes, Pulls
    <3>2. InTime' /\ AllPulled'
      BY <1>0, <2>1, <2>8 DEF InTime, AllPulled
    <3>3. CoveredBy(p)'
      BY <2>0, <2>1, <2>4, <2>8, <3>1 DEF CoveredBy
    <3> QED BY <2>2, <2>4, <2>5, <2>6, <3>2, <3>3 DEF Pulling, UnderWay
  <2> QED BY <2>3, <2>7, <2>8
<1> QED
  <2>1. ASSUME NEW p \in Runners,
               \/ BeginSave(p) \/ PutSecret(p) \/ Save(p)
               \/ BeginRun(p) \/ ReadSecret(p) \/ Fetch(p) \/ Apply(p) \/ Pulled(p) \/ EndRun(p)
        PROVE InTime' /\ AsRead' /\ (\A q \in Runners : Pulling(q)') /\ AllPulled'
    BY <2>1, <1>5, <1>7, <1>8, <1>9, <1>10
  <2> QED BY <2>1, <1>1, <1>2, <1>3, <1>4 DEF ConnectorNext

(* Once a pull has moved lastSyncAt past the change of a record, its       *)
(* contract holds the change: a run that is alone starts from what the     *)
(* last one has pulled, and what changes under it is later than its start. *)
THEOREM PullsSkipNothing == ConnectorSpec => []NothingSkipped
<1>1. Skipless => NothingSkipped
  BY DEF Skipless, AllPulled, NothingSkipped
<1> QED BY ConnShapesInit, ConnShapesNext, SkiplessInit, SkiplessNext, <1>1, PTL DEF ConnectorSpec

(***************************************************************************)
(* The obligations                                                         *)
(***************************************************************************)

Items == [status : {"absent", "open", "done", "deleted"}, due : Nat, sonar : BOOLEAN,
          marked : SUBSET Kinds, from : SUBSET Duties]
Plans == [at : {"put", "follow", "read", "list", "write", "drop", "store"}, op : {"add", "edit", "sign"},
          id : Duties, was : Items, now : Items, given : BOOLEAN, tries : Nat, current : BOOLEAN,
          listed : [DueDays -> Nat]]
Rows(S) == [S -> Items]
Sweeps == [at : {"next", "mark"}, rows : UNION {Rows(S) : S \in SUBSET Duties}, noted : SUBSET Duties]

(* What a request is about to put: of the item it listed it keeps where    *)
(* that came from, and the marks unless a due date is given.               *)
Puts(r) == /\ r.op # "sign" /\ r.now.from = r.was.from
           /\ ~r.given => r.now.marked = r.was.marked
           /\ r.now.marked \subseteq r.was.marked
           /\ r.now.status \in {"open", "done"} /\ r.was.status \in {"absent", "open", "done"}
           /\ r.op = "add" => r.was = NoItem
           /\ r.op = "edit" => r.was.status # "absent"
PlanFits(r) ==
    /\ r.at = "put" => Puts(r)
    /\ r.at = "follow" => r.op = "edit"
    /\ r.at \in {"drop", "store"} => r.op = "sign"
    /\ r.op = "sign" => r.was = NoItem /\ r.now.status = "open" /\ r.now.sonar /\ r.now.marked = {} /\ r.now.from = {}
    /\ r.op = "add" => r.at = "put"

RowFits(d) == sweep.rows[d].status = "open" /\ sweep.rows[d].due # 0
SweepFits ==
    sweep # Still => /\ \A d \in DOMAIN sweep.rows : RowFits(d)
                     /\ sweep.noted \subseteq DOMAIN sweep.rows
                     /\ sweep.at = "mark" => \E d \in Duties : sweep.noted = {d}
                     /\ sweep.at = "next" => sweep.noted = {}

DutyShapes ==
    /\ duty \in [Duties -> Items] /\ signed \in BOOLEAN /\ day \in Nat \ {0} /\ edits \in Nat /\ halts \in Nat
    /\ doing \in [DutyRequests -> {Still} \cup Plans]
    /\ sweep \in {Still} \cup Sweeps
    /\ said \in [Duties -> [Kinds -> Nat]]
    /\ reopened \subseteq Duties
    /\ overwrote \subseteq {"request", "sweep", "sign", "gave_up"}
    /\ \A q \in DutyRequests : doing[q] # Still => PlanFits(doing[q])
    /\ SweepFits
-----------------------------------------------------------------------------
LEMMA OpenDuesTyped == ASSUME NEW after PROVE OpenDues(after) \in [DueDays -> Nat]
<1> SUFFICES ASSUME NEW k \in DueDays
             PROVE  Cardinality({d \in Duties : Dated(after[d]) /\ after[d].due = k}) \in Nat
  BY DEF OpenDues
<1>1. IsFiniteSet({d \in Duties : Dated(after[d]) /\ after[d].due = k})
  BY DutyBounds, FS_Subset
<1> QED BY <1>1, FS_CardinalityType

LEMMA NoItemTyped == NoItem \in Items
BY DEF NoItem, Item, Items, Kinds

LEMMA DutyShapesInit == DutyInit => DutyShapes
<1> SUFFICES ASSUME DutyInit PROVE DutyShapes
  OBVIOUS
<1> USE DEF DutyInit
<1>1. duty \in [Duties -> Items]
  <2>1. Item("open", 1, FALSE, {}) \in Items
    BY DEF Item, Items, Kinds
  <2> QED BY <2>1, NoItemTyped
<1>2. doing \in [DutyRequests -> {Still} \cup Plans] /\ \A q \in DutyRequests : doing[q] = Still
  OBVIOUS
<1>3. said \in [Duties -> [Kinds -> Nat]]
  BY DEF Unsaid
<1>4. SweepFits /\ sweep = Still
  BY DEF SweepFits
<1>5. day = 1 /\ edits = 0 /\ halts = 0 /\ signed = FALSE /\ reopened = {} /\ overwrote = {}
  OBVIOUS
<1> HIDE DEF DutyInit
<1>6. \A q \in DutyRequests : doing[q] # Still => PlanFits(doing[q])
  BY <1>2
<1>7. sweep \in {Still} \cup Sweeps
  BY <1>4
<1>8. day \in Nat \ {0} /\ edits \in Nat /\ halts \in Nat /\ reopened \subseteq Duties
  BY <1>5
<1>10. signed \in BOOLEAN
  BY <1>5, Zenon
<1>9. overwrote \subseteq {"request", "sweep", "sign", "gave_up"}
  BY <1>5
<1> QED BY <1>1, <1>2, <1>3, <1>4, <1>6, <1>7, <1>8, <1>9, <1>10 DEF DutyShapes

(* A step of one request changes what that one is doing.                   *)
LEMMA Carried ==
    ASSUME DutyShapes, NEW q \in DutyRequests, NEW plan \in {Still} \cup Plans, plan # Still => PlanFits(plan),
           doing' = [doing EXCEPT ![q] = plan]
    PROVE  /\ doing' \in [DutyRequests -> {Still} \cup Plans]
           /\ \A p \in DutyRequests : doing'[p] # Still => PlanFits(doing'[p])
BY DEF DutyShapes

LEMMA PlanTyped ==
    ASSUME NEW at \in {"put", "follow", "read", "list", "write", "drop", "store"}, NEW op \in {"add", "edit", "sign"},
           NEW d \in Duties, NEW was \in Items, NEW now \in Items
    PROVE  Plan(at, op, d, was, now) \in Plans
<1>1. None \in [DueDays -> Nat]
  BY DEF None
<1> QED BY <1>1 DEF Plan, Plans

LEMMA SweepKept == ASSUME SweepFits, UNCHANGED sweep PROVE SweepFits'
BY DEF SweepFits, RowFits

LEMMA DutyShapesNext == DutyShapes /\ [DutyNext]_dutyVars => DutyShapes'
<1> SUFFICES ASSUME DutyShapes, [DutyNext]_dutyVars PROVE DutyShapes'
  OBVIOUS
<1>0. /\ duty \in [Duties -> Items] /\ signed \in BOOLEAN /\ day \in Nat \ {0} /\ edits \in Nat /\ halts \in Nat
      /\ doing \in [DutyRequests -> {Still} \cup Plans] /\ sweep \in {Still} \cup Sweeps
      /\ said \in [Duties -> [Kinds -> Nat]] /\ reopened \subseteq Duties
      /\ overwrote \subseteq {"request", "sweep", "sign", "gave_up"}
      /\ SweepFits
  BY DEF DutyShapes
<1>s. \A q \in DutyRequests : doing[q].at # "still" => doing[q] \in Plans /\ PlanFits(doing[q])
  BY DEF DutyShapes, Still
<1>1. CASE UNCHANGED dutyVars
  BY <1>1 DEF dutyVars, DutyShapes, SweepFits, RowFits
<1>2. ASSUME NEW q \in DutyRequests, AddObligation(q) PROVE DutyShapes'
  <2>1. PICK d \in Fresh, due \in {0, day} : doing' = [doing EXCEPT ![q] = Plan("put", "add", d, NoItem, Item("open", due, FALSE, {}))]
    BY <1>2 DEF AddObligation, Carry
  <2>2. d \in Duties
    BY <2>1 DEF Fresh, Unused
  <2> DEFINE now == Item("open", due, FALSE, {})
  <2>3. now \in Items /\ now.status = "open" /\ now.from = {} /\ now.marked = {}
    BY <1>0 DEF Item, Items, Kinds
  <2>4. NoItem.from = {} /\ NoItem.marked = {} /\ NoItem.status = "absent"
    BY DEF NoItem, Item
  <2> HIDE DEF now
  <2>5. Plan("put", "add", d, NoItem, now) \in Plans
    BY <2>2, <2>3, NoItemTyped, PlanTyped
  <2>6. PlanFits(Plan("put", "add", d, NoItem, now))
    BY <2>3, <2>4 DEF PlanFits, Puts, Plan
  <2>7. /\ doing' \in [DutyRequests -> {Still} \cup Plans]
        /\ \A p \in DutyRequests : doing'[p] # Still => PlanFits(doing'[p])
    BY <2>1, <2>5, <2>6, Carried DEF now
  <2> QED BY <1>0, <1>2, <2>7, SweepKept DEF AddObligation, OneEdit, record, DutyShapes
<1>3. ASSUME NEW q \in DutyRequests, EditObligation(q) PROVE DutyShapes'
  <2>p. PICK d \in Duties : \E status \in {"open", "done"}, given \in BOOLEAN, due \in {duty[d].due, day} :
          /\ duty[d].status \in {"open", "done"}
          /\ doing' = [doing EXCEPT ![q] =
                         [Plan("put", "edit", d, duty[d], Edited(duty[d], status, given, due)) EXCEPT !.given = given]]
    BY <1>3 DEF EditObligation, Carry
  <2>1. PICK status \in {"open", "done"}, given \in BOOLEAN, due \in {duty[d].due, day} :
          /\ duty[d].status \in {"open", "done"}
          /\ doing' = [doing EXCEPT ![q] =
                         [Plan("put", "edit", d, duty[d], Edited(duty[d], status, given, due)) EXCEPT !.given = given]]
    BY <2>p
  <2> DEFINE now  == Edited(duty[d], status, given, due)
             plan == [Plan("put", "edit", d, duty[d], now) EXCEPT !.given = given]
  <2>2. duty[d] \in Items
    BY <1>0
  <2>3. /\ now \in Items /\ now.status = status /\ now.from = duty[d].from
        /\ now.marked = IF given THEN {} ELSE duty[d].marked
    BY <1>0, <2>2 DEF Edited, Items
  <2>c. doing' = [doing EXCEPT ![q] = plan]
    BY <2>1
  <2> HIDE DEF now
  <2>4. Plan("put", "edit", d, duty[d], now) \in Plans
    BY <2>2, <2>3, PlanTyped
  <2>5. /\ plan \in Plans /\ plan.at = "put" /\ plan.op = "edit" /\ plan.was = duty[d] /\ plan.now = now
        /\ plan.given = given
    BY <2>4 DEF Plan, Plans
  <2> HIDE DEF plan
  <2>6. PlanFits(plan)
    BY <2>1, <2>3, <2>5 DEF PlanFits, Puts
  <2>7. /\ doing' \in [DutyRequests -> {Still} \cup Plans]
        /\ \A p \in DutyRequests : doing'[p] # Still => PlanFits(doing'[p])
    BY <2>c, <2>5, <2>6, Carried
  <2> QED BY <1>0, <1>3, <2>7, SweepKept DEF EditObligation, OneEdit, record, DutyShapes
<1>r. ASSUME NEW q \in DutyRequests, doing[q] \in Plans, Refresh(q)
      PROVE  /\ doing' \in [DutyRequests -> {Still} \cup Plans]
             /\ \A p \in DutyRequests : doing'[p] # Still => PlanFits(doing'[p])
  <2>1. Plan("read", "edit", doing[q].id, NoItem, NoItem) \in Plans
    BY <1>r, NoItemTyped, PlanTyped DEF Plans
  <2>2. PlanFits(Plan("read", "edit", doing[q].id, NoItem, NoItem))
    BY DEF PlanFits, Plan
  <2> QED BY <1>r, <2>1, <2>2, Carried DEF Refresh, Carry
<1>4. ASSUME NEW q \in DutyRequests, PutObligation(q) PROVE DutyShapes'
  <2>1. doing[q] \in Plans /\ PlanFits(doing[q]) /\ doing[q].at = "put"
    BY <1>s, <1>4 DEF PutObligation, Doing
  <2>2. duty' = [duty EXCEPT ![doing[q].id] = doing[q].now] /\ duty' \in [Duties -> Items]
    BY <1>0, <1>4, <2>1 DEF PutObligation, Plans
  <2>3. said' \in [Duties -> [Kinds -> Nat]] /\ reopened' \subseteq Duties /\ overwrote' \subseteq {"request", "sweep", "sign", "gave_up"}
    BY <1>0, <1>4, <2>1 DEF PutObligation, Unsaid, Plans
  <2>4. CASE Closes(doing[q]) /\ Step(q, "follow")
    <3>1. [doing[q] EXCEPT !.at = "follow"] \in Plans
      BY <2>1 DEF Plans
    <3>2. PlanFits([doing[q] EXCEPT !.at = "follow"])
      BY <2>1, <2>4 DEF PlanFits, Closes, Plans
    <3>3. doing' = [doing EXCEPT ![q] = [doing[q] EXCEPT !.at = "follow"]]
      BY <2>4 DEF Step
    <3>4. /\ doing' \in [DutyRequests -> {Still} \cup Plans]
          /\ \A p \in DutyRequests : doing'[p] # Still => PlanFits(doing'[p])
      BY <3>1, <3>2, <3>3, Carried
    <3> QED BY <1>0, <1>4, <2>2, <2>3, <3>4, SweepKept DEF PutObligation, record, DutyShapes
  <2>5. CASE Refresh(q)
    <3>1. /\ doing' \in [DutyRequests -> {Still} \cup Plans]
          /\ \A p \in DutyRequests : doing'[p] # Still => PlanFits(doing'[p])
      BY <1>r, <2>1, <2>5
    <3> QED BY <1>0, <1>4, <2>2, <2>3, <3>1, SweepKept DEF PutObligation, record, DutyShapes
  <2> QED BY <1>4, <2>4, <2>5 DEF PutObligation
<1>5. ASSUME NEW q \in DutyRequests, PutFollowing(q) PROVE DutyShapes'
  <2>1. doing[q] \in Plans
    BY <1>s, <1>5 DEF PutFollowing, Doing
  <2>2. PICK d \in Unused \cap Recurring :
         duty' = [duty EXCEPT ![d] = Item("open", NextDue(doing[q].id, doing[q].now), doing[q].now.sonar, {doing[q].id})]
    BY <1>5 DEF PutFollowing
  <2>3. NextDue(doing[q].id, doing[q].now) \in Nat
    BY <2>1, DutyBounds DEF NextDue, Plans, Items
  <2>4. Item("open", NextDue(doing[q].id, doing[q].now), doing[q].now.sonar, {doing[q].id}) \in Items
    BY <2>1, <2>3 DEF Item, Items, Plans, Kinds
  <2>5. duty' \in [Duties -> Items]
    BY <1>0, <2>2, <2>4
  <2>6. /\ doing' \in [DutyRequests -> {Still} \cup Plans]
        /\ \A p \in DutyRequests : doing'[p] # Still => PlanFits(doing'[p])
    BY <1>r, <1>5, <2>1 DEF PutFollowing
  <2> QED BY <1>0, <1>5, <2>5, <2>6, SweepKept DEF PutFollowing, record, DutyShapes
<1>6. ASSUME NEW q \in DutyRequests, ReadContract(q) PROVE DutyShapes'
  <2>1. doing[q] \in Plans /\ PlanFits(doing[q]) /\ doing[q].at = "read"
    BY <1>s, <1>6 DEF ReadContract, Doing
  <2>2. [doing[q] EXCEPT !.at = "list", !.current = TRUE] \in Plans
    BY <2>1 DEF Plans
  <2>3. PlanFits([doing[q] EXCEPT !.at = "list", !.current = TRUE])
    BY <2>1 DEF PlanFits, Plans
  <2>4. doing' = [doing EXCEPT ![q] = [doing[q] EXCEPT !.at = "list", !.current = TRUE]]
    BY <1>0, <1>6 DEF ReadContract
  <2>5. /\ doing' \in [DutyRequests -> {Still} \cup Plans]
        /\ \A p \in DutyRequests : doing'[p] # Still => PlanFits(doing'[p])
    BY <2>2, <2>3, <2>4, Carried
  <2> QED BY <1>0, <1>6, <2>5, SweepKept DEF ReadContract, record, DutyShapes
<1>7. ASSUME NEW q \in DutyRequests, ListObligations(q) PROVE DutyShapes'
  <2>1. doing[q] \in Plans /\ PlanFits(doing[q]) /\ doing[q].at = "list"
    BY <1>s, <1>7 DEF ListObligations, Doing
  <2>2. PICK counted \in [DueDays -> Nat] : doing' = [doing EXCEPT ![q] = [doing[q] EXCEPT !.at = "write", !.listed = counted]]
    BY <1>7, OpenDuesTyped DEF ListObligations
  <2>3. [doing[q] EXCEPT !.at = "write", !.listed = counted] \in Plans
    BY <2>1 DEF Plans
  <2>4. PlanFits([doing[q] EXCEPT !.at = "write", !.listed = counted])
    BY <2>1 DEF PlanFits, Plans
  <2>5. /\ doing' \in [DutyRequests -> {Still} \cup Plans]
        /\ \A p \in DutyRequests : doing'[p] # Still => PlanFits(doing'[p])
    BY <2>2, <2>3, <2>4, Carried
  <2>6. overwrote' \subseteq {"request", "sweep", "sign", "gave_up"}
    BY <1>0, <1>7 DEF ListObligations
  <2> QED BY <1>0, <1>7, <2>5, <2>6, SweepKept DEF ListObligations, record, DutyShapes
<1>o. ASSUME NEW p \in DutyRequests, doing[p].at \in {"list", "write"}
      PROVE  /\ [doing[p] EXCEPT !.current = FALSE] \in Plans
             /\ PlanFits([doing[p] EXCEPT !.current = FALSE])
  <2>1. doing[p] \in Plans /\ PlanFits(doing[p])
    BY <1>s, <1>o
  <2>2. [doing[p] EXCEPT !.current = FALSE] \in Plans
    BY <2>1 DEF Plans
  <2>3. PlanFits([doing[p] EXCEPT !.current = FALSE])
    BY <1>o, <2>1 DEF Plans, PlanFits
  <2> QED BY <2>2, <2>3
<1>8. ASSUME NEW q \in DutyRequests, WriteContract(q) PROVE DutyShapes'
  <2>1. doing[q] \in Plans /\ PlanFits(doing[q]) /\ doing[q].at = "write"
    BY <1>s, <1>8 DEF WriteContract, Doing
  <2>n. None \in [DueDays -> Nat]
    BY DEF None
  <2>2. CASE MayWrite(q)
    <3> DEFINE rest == IF doing[q].op = "sign" THEN [doing[q] EXCEPT !.at = "drop", !.listed = None, !.tries = 1] ELSE Still
    <3>1. rest \in {Still} \cup Plans /\ (rest # Still => PlanFits(rest))
      <4>1. CASE doing[q].op # "sign"
        BY <4>1
      <4>2. CASE doing[q].op = "sign"
        <5>1. [doing[q] EXCEPT !.at = "drop", !.listed = None, !.tries = 1] \in Plans
          BY <2>1, <2>n DEF Plans
        <5>2. PlanFits([doing[q] EXCEPT !.at = "drop", !.listed = None, !.tries = 1])
          BY <2>1, <4>2 DEF PlanFits, Plans
        <5> QED BY <4>2, <5>1, <5>2
      <4> QED BY <4>1, <4>2
    <3>2. doing' = [o \in DutyRequests |-> IF o = q THEN rest
                ELSE IF doing[o].at \in {"list", "write"} THEN [doing[o] EXCEPT !.current = FALSE] ELSE doing[o]]
      BY <1>8, <2>2 DEF WriteContract, Outdate
    <3> HIDE DEF rest
    <3>3. /\ doing' \in [DutyRequests -> {Still} \cup Plans]
          /\ \A p \in DutyRequests : doing'[p] # Still => PlanFits(doing'[p])
      <4>1. ASSUME NEW p \in DutyRequests PROVE doing'[p] \in {Still} \cup Plans /\ (doing'[p] # Still => PlanFits(doing'[p]))
        BY <1>0, <1>o, <3>1, <3>2 DEF DutyShapes
      <4> QED BY <3>2, <4>1
    <3>4. signed' \in BOOLEAN /\ overwrote' = overwrote
      BY <1>0, <1>8, <2>2 DEF WriteContract
    <3> QED BY <1>0, <1>8, <3>3, <3>4, SweepKept DEF WriteContract, DutyShapes
  <2>3. CASE ~MayWrite(q)
    <3> DEFINE rest == IF doing[q].tries = WRITE_RETRIES THEN Still
                       ELSE [doing[q] EXCEPT !.at = "read", !.tries = doing[q].tries + 1, !.listed = None]
    <3>1. rest \in {Still} \cup Plans /\ (rest # Still => PlanFits(rest))
      <4>0. doing[q].tries + 1 \in Nat
        BY <2>1 DEF Plans
      <4>1. [doing[q] EXCEPT !.at = "read", !.tries = doing[q].tries + 1, !.listed = None] \in Plans
        BY <2>1, <2>n, <4>0 DEF Plans
      <4>2. PlanFits([doing[q] EXCEPT !.at = "read", !.tries = doing[q].tries + 1, !.listed = None])
        BY <2>1 DEF PlanFits, Plans
      <4> QED BY <4>1, <4>2
    <3>2. doing' = [doing EXCEPT ![q] = rest]
      BY <1>8, <2>3 DEF WriteContract
    <3> HIDE DEF rest
    <3>3. /\ doing' \in [DutyRequests -> {Still} \cup Plans]
          /\ \A p \in DutyRequests : doing'[p] # Still => PlanFits(doing'[p])
      BY <3>1, <3>2, Carried
    <3>4. signed' \in BOOLEAN /\ overwrote' \subseteq {"request", "sweep", "sign", "gave_up"}
      BY <1>0, <1>8, <2>3 DEF WriteContract
    <3> QED BY <1>0, <1>8, <3>3, <3>4, SweepKept DEF WriteContract, DutyShapes
  <2> QED BY <2>2, <2>3
<1>9. ASSUME NEW q \in DutyRequests, MarkSigned(q) PROVE DutyShapes'
  <2>1. PICK d \in Fresh : doing' = [doing EXCEPT ![q] = Plan("read", "sign", d, NoItem, Item("open", day, TRUE, {}))]
    BY <1>9 DEF MarkSigned, Carry
  <2>2. d \in Duties
    BY <2>1 DEF Fresh, Unused
  <2> DEFINE now == Item("open", day, TRUE, {})
  <2>3. now \in Items /\ now.status = "open" /\ now.from = {} /\ now.marked = {} /\ now.sonar
    BY <1>0 DEF Item, Items, Kinds
  <2> HIDE DEF now
  <2>5. Plan("read", "sign", d, NoItem, now) \in Plans
    BY <2>2, <2>3, NoItemTyped, PlanTyped
  <2>6. PlanFits(Plan("read", "sign", d, NoItem, now))
    BY <2>3 DEF PlanFits, Plan
  <2>7. /\ doing' \in [DutyRequests -> {Still} \cup Plans]
        /\ \A p \in DutyRequests : doing'[p] # Still => PlanFits(doing'[p])
    BY <2>1, <2>5, <2>6, Carried DEF now
  <2> QED BY <1>0, <1>9, <2>7, SweepKept DEF MarkSigned, OneEdit, record, DutyShapes
<1>10. ASSUME NEW q \in DutyRequests, DropSonar(q) PROVE DutyShapes'
  <2>1. doing[q] \in Plans /\ PlanFits(doing[q]) /\ doing[q].at = "drop"
    BY <1>s, <1>10 DEF DropSonar, Doing
  <2>2. [NoItem EXCEPT !.status = "deleted"] \in Items
    BY NoItemTyped DEF Items
  <2>3. duty' \in [Duties -> Items]
    BY <1>0, <1>10, <2>2 DEF DropSonar
  <2>4. [doing[q] EXCEPT !.at = "store"] \in Plans /\ PlanFits([doing[q] EXCEPT !.at = "store"])
    BY <2>1 DEF Plans, PlanFits
  <2>5. doing' = [doing EXCEPT ![q] = [doing[q] EXCEPT !.at = "store"]]
    BY <1>10 DEF DropSonar, Step
  <2>6. /\ doing' \in [DutyRequests -> {Still} \cup Plans]
        /\ \A p \in DutyRequests : doing'[p] # Still => PlanFits(doing'[p])
    BY <2>4, <2>5, Carried
  <2> QED BY <1>0, <1>10, <2>3, <2>6, SweepKept DEF DropSonar, record, DutyShapes
<1>d. ASSUME NEW q \in DutyRequests, Done(q)
      PROVE  /\ doing' \in [DutyRequests -> {Still} \cup Plans]
             /\ \A p \in DutyRequests : doing'[p] # Still => PlanFits(doing'[p])
  BY <1>d, Carried DEF Done
<1>11. ASSUME NEW q \in DutyRequests, StoreSonar(q) PROVE DutyShapes'
  <2>1. doing[q] \in Plans
    BY <1>s, <1>11 DEF StoreSonar, Doing
  <2>2. duty' \in [Duties -> Items]
    BY <1>0, <1>11, <2>1 DEF StoreSonar, Plans
  <2>3. /\ doing' \in [DutyRequests -> {Still} \cup Plans]
        /\ \A p \in DutyRequests : doing'[p] # Still => PlanFits(doing'[p])
    BY <1>d, <1>11 DEF StoreSonar
  <2> QED BY <1>0, <1>11, <2>2, <2>3, SweepKept DEF StoreSonar, record, DutyShapes
<1>12. CASE Reopen
  <2>1. doing' = [o \in DutyRequests |->
                   IF doing[o].at \in {"list", "write"} THEN [doing[o] EXCEPT !.current = FALSE] ELSE doing[o]]
    BY <1>12 DEF Reopen
  <2>2. /\ doing' \in [DutyRequests -> {Still} \cup Plans]
        /\ \A p \in DutyRequests : doing'[p] # Still => PlanFits(doing'[p])
    <3>1. ASSUME NEW p \in DutyRequests PROVE doing'[p] \in {Still} \cup Plans /\ (doing'[p] # Still => PlanFits(doing'[p]))
      BY <1>0, <1>o, <2>1 DEF DutyShapes
    <3> QED BY <2>1, <3>1
  <2> QED BY <1>0, <1>12, <2>2, SweepKept DEF Reopen, DutyShapes
<1>13. CASE BeginSweep
  <2> DEFINE due == {d \in Duties : Dated(duty[d]) /\ duty[d].due <= day + WINDOW}
             these == [d \in due |-> duty[d]]
  <2>1. sweep' = [at |-> "next", rows |-> these, noted |-> {}]
    BY <1>13 DEF BeginSweep
  <2>2. these \in Rows(due) /\ due \in SUBSET Duties /\ DOMAIN these = due
    BY <1>0 DEF Rows
  <2>3. \A d \in DOMAIN these : these[d].status = "open" /\ these[d].due # 0
    BY DEF Dated, IsOpen
  <2> HIDE DEF these, due
  <2>4. these \in UNION {Rows(S) : S \in SUBSET Duties}
    BY <2>2
  <2>5. sweep' \in Sweeps
    BY <2>1, <2>4 DEF Sweeps
  <2>6. SweepFits'
    BY <2>1, <2>3 DEF SweepFits, RowFits
  <2> QED BY <1>0, <1>13, <2>5, <2>6 DEF BeginSweep, unswept, DutyShapes
<1>w. sweep # Still => /\ sweep \in Sweeps /\ DOMAIN sweep.rows \subseteq Duties
                       /\ sweep.rows \in Rows(DOMAIN sweep.rows)
  BY <1>0 DEF Sweeps, Rows
<1>x. ASSUME sweep # Still, NEW d
      PROVE  /\ NextRow(d) \in Sweeps
             /\ sweep' = NextRow(d) => SweepFits'
  <2> DEFINE these == [e \in DOMAIN sweep.rows \ {d} |-> sweep.rows[e]]
  <2>1. these \in Rows(DOMAIN sweep.rows \ {d}) /\ DOMAIN sweep.rows \ {d} \in SUBSET Duties
    BY <1>w, <1>x DEF Rows
  <2>2. NextRow(d) = [at |-> "next", noted |-> {}, rows |-> these]
    BY DEF NextRow
  <2>3. \A e \in DOMAIN these : these[e].status = "open" /\ these[e].due # 0
    BY <1>0, <1>x DEF SweepFits, RowFits
  <2> HIDE DEF these
  <2>4. these \in UNION {Rows(S) : S \in SUBSET Duties}
    BY <2>1
  <2> QED BY <2>2, <2>3, <2>4 DEF Sweeps, SweepFits, RowFits
<1>14. CASE Note
  <2>0. sweep # Still
    BY <1>14 DEF Note, Still
  <2>1. PICK d \in DOMAIN sweep.rows :
         \/ sweep' = NextRow(d) /\ UNCHANGED said
         \/ /\ said' = [said EXCEPT ![d][Kind(sweep.rows[d])] = IF said[d][Kind(sweep.rows[d])] = Many THEN Many ELSE said[d][Kind(sweep.rows[d])] + 1]
            /\ sweep' = [sweep EXCEPT !.at = "mark", !.noted = {d}]
    BY <1>14 DEF Note
  <2>2. d \in Duties /\ Kind(sweep.rows[d]) \in Kinds
    BY <1>w, <2>0, <2>1 DEF Kind, Kinds
  <2>3. CASE sweep' = NextRow(d) /\ UNCHANGED said
    BY <1>0, <1>x, <1>14, <2>0, <2>3 DEF Note, unswept, DutyShapes
  <2>4. CASE /\ said' = [said EXCEPT ![d][Kind(sweep.rows[d])] = IF said[d][Kind(sweep.rows[d])] = Many THEN Many ELSE said[d][Kind(sweep.rows[d])] + 1]
             /\ sweep' = [sweep EXCEPT !.at = "mark", !.noted = {d}]
    <3>1. Many \in Nat
      BY DutyBounds DEF Many
    <3>2. said' \in [Duties -> [Kinds -> Nat]]
      BY <1>0, <2>2, <2>4, <3>1
    <3>3. sweep' \in Sweeps /\ sweep'.rows = sweep.rows /\ sweep'.noted = {d} /\ sweep'.at = "mark"
      BY <1>w, <2>0, <2>2, <2>4 DEF Sweeps
    <3>4. SweepFits'
      BY <1>0, <2>0, <2>1, <2>2, <3>3 DEF SweepFits, RowFits
    <3> QED BY <1>0, <1>14, <3>2, <3>3, <3>4 DEF Note, unswept, DutyShapes
  <2> QED BY <2>1, <2>3, <2>4
<1>15. CASE Mark
  <2>0. sweep # Still
    BY <1>15 DEF Mark, Still
  <2>1. PICK d \in sweep.noted :
         /\ duty' = [duty EXCEPT ![d] = [sweep.rows[d] EXCEPT !.marked = sweep.rows[d].marked \cup {Kind(sweep.rows[d])}]]
         /\ overwrote' = IF duty[d] # sweep.rows[d] THEN overwrote \cup {"sweep"} ELSE overwrote
         /\ sweep' = NextRow(d)
    BY <1>15 DEF Mark
  <2>2. sweep.rows[d] \in Items
    BY <1>0, <1>w, <2>0, <2>1 DEF SweepFits, Rows
  <2>3. [sweep.rows[d] EXCEPT !.marked = sweep.rows[d].marked \cup {Kind(sweep.rows[d])}] \in Items
    BY <2>2 DEF Items, Kind, Kinds
  <2>4. duty' \in [Duties -> Items] /\ overwrote' \subseteq {"request", "sweep", "sign", "gave_up"}
    BY <1>0, <2>1, <2>3
  <2> QED BY <1>0, <1>x, <1>15, <2>0, <2>1, <2>4 DEF Mark, unswept, DutyShapes
<1>16. CASE EndSweep
  BY <1>0, <1>16 DEF EndSweep, unswept, DutyShapes, SweepFits
<1>17. CASE NextDay
  BY <1>0, <1>17, SweepKept DEF NextDay, unswept, DutyShapes
<1>18. CASE Halt
  <2>1. CASE sweep' = Still /\ UNCHANGED doing
    BY <1>0, <1>18, <2>1 DEF Halt, DutyShapes, SweepFits
  <2>2. CASE (\E q \in DutyRequests : HasWritten(q) /\ Done(q)) /\ UNCHANGED sweep
    <3>1. /\ doing' \in [DutyRequests -> {Still} \cup Plans]
          /\ \A p \in DutyRequests : doing'[p] # Still => PlanFits(doing'[p])
      BY <1>d, <2>2
    <3> QED BY <1>0, <1>18, <2>2, <3>1, SweepKept DEF Halt, DutyShapes
  <2> QED BY <1>18, <2>1, <2>2 DEF Halt
<1> QED
  <2>1. ASSUME NEW q \in DutyRequests, DutyRequest(q) PROVE DutyShapes'
    BY <2>1, <1>2, <1>3, <1>4, <1>5, <1>6, <1>7, <1>8, <1>9, <1>10, <1>11 DEF DutyRequest
  <2> QED BY <2>1, <1>1, <1>12, <1>13, <1>14, <1>15, <1>16, <1>17, <1>18 DEF DutyNext
-----------------------------------------------------------------------------
(* The id a request made up for what it is about to store is its own, and  *)
(* no item has it yet.                                                     *)
Awaited(q) == doing[q].at \in {"put", "read", "list", "write", "drop", "store"} /\ doing[q].op \in {"add", "sign"}
Reserved ==
    /\ \A q \in DutyRequests : Awaited(q) => duty[doing[q].id] = NoItem
    /\ \A p, q \in DutyRequests : Awaited(p) /\ Awaited(q) /\ doing[p].id = doing[q].id => p = q

(* Who has been told: what is not marked, in the item or in the sweep's    *)
(* copy, has been said by sweeps that stopped only, or just now.           *)
Noting(d, k) == sweep.at = "mark" /\ d \in sweep.noted /\ Kind(sweep.rows[d]) = k
Heard ==
    \A d \in Duties, k \in Kinds :
        /\ said[d][k] <= 1 + halts
        /\ duty[d].status # "deleted" /\ k \notin duty[d].marked /\ ~Noting(d, k) => said[d][k] <= halts
        /\ (sweep # Still /\ d \in DOMAIN sweep.rows) =>
             (k \notin sweep.rows[d].marked /\ ~Noting(d, k) => said[d][k] <= halts)

(* An obligation that was never opened again is followed by one, stored or *)
(* about to be, and by none while it is open.                              *)
Followed ==
    \A d \in Duties \ reopened :
        /\ \A e, f \in Duties : d \in duty[e].from /\ d \in duty[f].from => e = f
        /\ \A p, q \in DutyRequests : p \in Following(d) /\ q \in Following(d) => p = q
        /\ \A e \in Duties, q \in DutyRequests : ~(d \in duty[e].from /\ q \in Following(d))
        /\ duty[d].status \in {"open", "absent"} =>
             /\ \A e \in Duties : d \notin duty[e].from
             /\ \A q \in DutyRequests : q \notin Following(d)

Unmixed == overwrote = {} => Reserved /\ Heard /\ Followed

LEMMA ReservedKept ==
    ASSUME Reserved,
           \A q \in DutyRequests : Awaited(q)' => /\ Awaited(q) /\ doing'[q].id = doing[q].id
                                                  /\ duty'[doing[q].id] = NoItem
    PROVE  Reserved'
BY DEF Reserved

LEMMA NotBelow == \A n \in Nat : 0 <= n /\ 0 <= 1 + n
OBVIOUS

LEMMA HeardKept ==
    ASSUME DutyShapes, DutyShapes', Heard, UNCHANGED <<sweep, day>>, halts <= halts',
           \A d \in Duties :
              \/ said'[d] = Unsaid
              \/ said'[d] = said[d] /\ (duty'[d].status # "deleted" =>
                   duty[d].status # "deleted" /\ duty'[d].marked = duty[d].marked)
    PROVE  Heard'
<1> SUFFICES ASSUME NEW d \in Duties, NEW k \in Kinds
             PROVE  /\ said'[d][k] <= 1 + halts'
                    /\ duty'[d].status # "deleted" /\ k \notin duty'[d].marked /\ ~Noting(d, k)' => said'[d][k] <= halts'
                    /\ (sweep' # Still /\ d \in DOMAIN sweep'.rows) =>
                         (k \notin sweep'.rows[d].marked /\ ~Noting(d, k)' => said'[d][k] <= halts')
  BY DEF Heard
<1>1. halts \in Nat /\ halts' \in Nat /\ said[d][k] \in Nat /\ (Noting(d, k)' <=> Noting(d, k))
  BY DEF DutyShapes, Noting, Kind
<1>2. CASE said'[d] = Unsaid
  <2>1. said'[d][k] = 0
    BY <1>2 DEF Unsaid
  <2>n. halts \in Nat /\ halts' \in Nat
    BY <1>1
  <2>2. said'[d][k] <= halts' /\ said'[d][k] <= 1 + halts'
    <3>1. 0 <= halts' /\ 0 <= 1 + halts'
      BY <2>n, NotBelow, Zenon
    <3> QED BY <2>1, <3>1, Zenon
  <2> QED BY <2>2
<1>3. CASE said'[d] = said[d] /\ (duty'[d].status # "deleted" =>
                   duty[d].status # "deleted" /\ duty'[d].marked = duty[d].marked)
  BY <1>1, <1>3 DEF Heard
<1> QED BY <1>2, <1>3

LEMMA FollowedKept ==
    ASSUME Followed, reopened \subseteq reopened',
           \A q \in DutyRequests : doing'[q].at = "follow" => doing[q].at = "follow" /\ doing'[q].id = doing[q].id,
           \A d \in Duties : duty'[d].from \subseteq duty[d].from,
           \A d \in Duties \ reopened' : duty'[d].status \in {"open", "absent"} => duty[d].status \in {"open", "absent"}
    PROVE  Followed'
<1>1. \A d : \A q \in DutyRequests : (q \in Following(d))' => q \in Following(d)
  BY DEF Following, Doing
<1> QED BY <1>1 DEF Followed

LEMMA UnmixedInit == DutyInit => Unmixed
<1> SUFFICES ASSUME DutyInit PROVE Unmixed
  OBVIOUS
<1>1. /\ \A q \in DutyRequests : doing[q] = Still
      /\ \A d \in Duties : duty[d].from = {} /\ duty[d].marked = {}
      /\ sweep = Still /\ halts = 0 /\ \A d \in Duties, k \in Kinds : said[d][k] = 0
  BY DEF DutyInit, Item, NoItem, Unsaid
<1>2. Reserved
  BY <1>1 DEF Reserved, Awaited, Still
<1>3. Heard
  BY <1>1 DEF Heard
<1>4. Followed
  BY <1>1 DEF Followed, Following, Doing, Still
<1> QED BY <1>2, <1>3, <1>4 DEF Unmixed

LEMMA UnmixedNext == DutyShapes /\ DutyShapes' /\ Unmixed /\ [DutyNext]_dutyVars => Unmixed'
<1> SUFFICES ASSUME DutyShapes, DutyShapes', Unmixed, [DutyNext]_dutyVars, overwrote' = {}
             PROVE  Reserved' /\ Heard' /\ Followed'
  BY DEF Unmixed
<1>0. Reserved /\ Heard /\ Followed /\ overwrote = {}
  <2>1. overwrote = {}
    BY DEF DutyNext, DutyRequest, dutyVars, AddObligation, EditObligation, PutObligation, PutFollowing, ReadContract,
           ListObligations, WriteContract, MarkSigned, DropSonar, StoreSonar, Reopen, BeginSweep, Note, Mark, EndSweep,
           NextDay, Halt, unswept
  <2> QED BY <2>1 DEF Unmixed
<1>a. duty \in [Duties -> Items] /\ duty' \in [Duties -> Items] /\ halts \in Nat /\ SweepFits
      /\ said \in [Duties -> [Kinds -> Nat]] /\ doing \in [DutyRequests -> {Still} \cup Plans]
  BY DEF DutyShapes
<1>s. \A q \in DutyRequests : doing[q].at # "still" => doing[q] \in Plans /\ PlanFits(doing[q])
  BY DEF DutyShapes, Still
(* A step that leaves the items, the sweep and what was said.              *)
<1>f. ASSUME UNCHANGED <<duty, sweep, day, said>>, halts' \in Nat, halts <= halts', UNCHANGED reopened,
             \A q \in DutyRequests : doing'[q].at = "follow" => doing[q].at = "follow" /\ doing'[q].id = doing[q].id
      PROVE  Heard' /\ Followed'
  <2>1. Heard'
    BY <1>0, <1>f, HeardKept
  <2>2. Followed'
    BY <1>0, <1>f, FollowedKept
  <2> QED BY <2>1, <2>2
<1>1. CASE UNCHANGED dutyVars
  <2>1. Heard' /\ Followed'
    BY <1>1, <1>a, <1>f DEF dutyVars
  <2> QED BY <1>0, <1>1, <2>1 DEF dutyVars, Reserved, Awaited
<1>2. ASSUME NEW q \in DutyRequests, AddObligation(q) \/ MarkSigned(q) PROVE Reserved' /\ Heard' /\ Followed'
  <2>1. PICK d \in Fresh, r \in Plans :
          doing' = [doing EXCEPT ![q] = r] /\ r.at \in {"put", "read"} /\ r.op \in {"add", "sign"} /\ r.id = d
    <3>1. PICK d \in Fresh, at \in {"put", "read"}, op \in {"add", "sign"} :
            \E now : doing' = [doing EXCEPT ![q] = Plan(at, op, d, NoItem, now)]
      BY <1>2 DEF AddObligation, MarkSigned, Carry
    <3>2. PICK now : doing' = [doing EXCEPT ![q] = Plan(at, op, d, NoItem, now)]
      BY <3>1
    <3> DEFINE r == Plan(at, op, d, NoItem, now)
    <3>3. r.at = at /\ r.op = op /\ r.id = d
      BY DEF Plan
    <3> HIDE DEF r
    <3>4. doing' = [doing EXCEPT ![q] = r] /\ r = doing'[q]
      BY <1>a, <3>2 DEF r
    <3>5. r \in Plans
      BY <1>a, <3>3, <3>4 DEF DutyShapes, Still
    <3> QED BY <3>1, <3>3, <3>4, <3>5
  <2>2. d \in Duties /\ duty[d] = NoItem /\ \A p \in DutyRequests : Doing(p, "still") \/ doing[p].id # d
    BY <2>1 DEF Fresh, Unused
  <2>3. UNCHANGED <<duty, sweep, day, said, halts, reopened>>
    BY <1>2 DEF AddObligation, MarkSigned, record
  <2>4. Heard' /\ Followed'
    BY <1>a, <1>f, <2>1, <2>3
  <2>5. \A p \in DutyRequests : doing'[p] = IF p = q THEN r ELSE doing[p]
    BY <1>a, <2>1
  <2>6. Reserved'
    BY <1>0, <2>1, <2>2, <2>3, <2>5 DEF Reserved, Awaited, Doing
  <2> QED BY <2>4, <2>6
<1>3. ASSUME NEW q \in DutyRequests, EditObligation(q) PROVE Reserved' /\ Heard' /\ Followed'
  <2>1. doing'[q].at = "put" /\ doing'[q].op = "edit" /\ \A p \in DutyRequests \ {q} : doing'[p] = doing[p]
    BY <1>3, <1>a DEF EditObligation, Carry, Plan
  <2>3. UNCHANGED <<duty, sweep, day, said, halts, reopened>>
    BY <1>3 DEF EditObligation, record
  <2>4. Heard' /\ Followed'
    BY <1>a, <1>f, <2>1, <2>3
  <2>5. Reserved'
    BY <1>0, <2>1, <2>3, ReservedKept DEF Awaited, Reserved
  <2> QED BY <2>4, <2>5
<1>r. ASSUME NEW q \in DutyRequests, Refresh(q)
      PROVE  /\ doing'[q].at = "read" /\ doing'[q].op = "edit"
             /\ \A p \in DutyRequests \ {q} : doing'[p] = doing[p]
  BY <1>r, <1>a DEF Refresh, Carry, Plan
<1>4. ASSUME NEW q \in DutyRequests, PutObligation(q) PROVE Reserved' /\ Heard' /\ Followed'
  <2> DEFINE r == doing[q]
  <2>1. r \in Plans /\ PlanFits(r) /\ r.at = "put"
    BY <1>s, <1>4 DEF PutObligation, Doing
  <2>2. Puts(r)
    BY <2>1 DEF PlanFits
  <2>3. duty' = [duty EXCEPT ![r.id] = r.now] /\ duty[r.id] = r.was /\ r.id \in Duties
    BY <1>4, <2>1 DEF PutObligation, Plans
  <2>4. said' = IF r.given THEN [said EXCEPT ![r.id] = Unsaid] ELSE said
    BY <1>4 DEF PutObligation
  <2>5. reopened' = IF r.was.status = "done" /\ IsOpen(r.now) THEN reopened \cup {r.id} ELSE reopened
    BY <1>4 DEF PutObligation
  <2>6. UNCHANGED <<sweep, day, halts>>
    BY <1>4 DEF PutObligation, record
  <2>7. \/ Closes(r) /\ doing' = [doing EXCEPT ![q].at = "follow"]
        \/ Refresh(q)
    BY <1>4 DEF PutObligation, Step
  <2>8. \A p \in DutyRequests \ {q} : doing'[p] = doing[p]
    BY <1>r, <1>a, <2>7
  <2>9. ~Awaited(q)'
    BY <1>r, <1>a, <2>1, <2>7 DEF Awaited, Plans
  <2>10. Reserved'
    <3>1. ASSUME NEW p \in DutyRequests, Awaited(p)' PROVE Awaited(p) /\ doing'[p].id = doing[p].id /\ duty'[doing[p].id] = NoItem
      <4>1. p # q /\ doing'[p] = doing[p] /\ Awaited(p)
        BY <2>8, <2>9, <3>1 DEF Awaited
      <4>2. duty[doing[p].id] = NoItem
        BY <1>0, <4>1 DEF Reserved
      <4>3. doing[p].id # r.id
        <5>1. CASE r.op = "add"
          <6>1. Awaited(q)
            BY <2>1, <5>1 DEF Awaited
          <6> QED BY <1>0, <4>1, <6>1 DEF Reserved
        <5>2. CASE r.op = "edit"
          BY <2>2, <2>3, <4>2, <5>2 DEF Puts, NoItem, Item
        <5> QED BY <2>1, <2>2, <5>1, <5>2 DEF Plans, Puts
      <4> QED BY <1>a, <2>3, <4>1, <4>2, <4>3
    <3> QED BY <1>0, <3>1, ReservedKept
  <2>11. Heard'
    <3>1. ASSUME NEW d \in Duties
          PROVE  \/ said'[d] = Unsaid
                 \/ said'[d] = said[d] /\ (duty'[d].status # "deleted" =>
                      duty[d].status # "deleted" /\ duty'[d].marked = duty[d].marked)
      BY <1>a, <2>2, <2>3, <2>4 DEF Puts
    <3> QED BY <1>0, <1>a, <2>6, <3>1, HeardKept
  <2>12. \A d \in Duties : duty'[d].from = duty[d].from
    BY <1>a, <2>2, <2>3 DEF Puts
  <2>13. \A d \in Duties \ reopened' : duty'[d].status \in {"open", "absent"} => duty[d].status \in {"open", "absent"}
    BY <1>a, <2>2, <2>3, <2>5 DEF Puts, IsOpen
  <2>14. CASE Refresh(q)
    <3>1. Followed'
      BY <1>0, <1>r, <2>5, <2>8, <2>12, <2>13, <2>14, FollowedKept
    <3> QED BY <2>10, <2>11, <3>1
  <2>15. CASE Closes(r) /\ doing' = [doing EXCEPT ![q].at = "follow"]
    <3>1. r.was.status = "open" /\ r.now.status = "done" /\ reopened' = reopened
      BY <2>2, <2>5, <2>15 DEF Closes, Puts
    <3>2. \A d : \A p \in DutyRequests : (p \in Following(d))' <=> p \in Following(d) \/ (p = q /\ d = r.id)
      BY <1>a, <2>1, <2>8, <2>15 DEF Following, Doing, Plans
    <3>3. \A d \in Duties \ {r.id} : duty'[d] = duty[d]
      BY <1>a, <2>3
    <3>4. duty'[r.id].status = "done" /\ duty[r.id].status = "open"
      BY <1>a, <2>3, <3>1
    <3>5. Followed'
      BY <1>0, <2>3, <2>12, <3>1, <3>2, <3>3, <3>4 DEF Followed
    <3> QED BY <2>10, <2>11, <3>5
  <2> QED BY <2>7, <2>14, <2>15
<1>5. ASSUME NEW q \in DutyRequests, PutFollowing(q) PROVE Reserved' /\ Heard' /\ Followed'
  <2>1. doing[q] \in Plans /\ doing[q].at = "follow"
    BY <1>s, <1>5 DEF PutFollowing, Doing
  <2>2. PICK e \in Unused \cap Recurring :
         duty' = [duty EXCEPT ![e] = Item("open", NextDue(doing[q].id, doing[q].now), doing[q].now.sonar, {doing[q].id})]
    BY <1>5 DEF PutFollowing
  <2>3. e \in Duties /\ duty[e] = NoItem /\ \A p \in DutyRequests : Doing(p, "still") \/ doing[p].id # e
    BY <2>2 DEF Unused
  <2>4. UNCHANGED <<sweep, day, halts, said, reopened>>
    BY <1>5 DEF PutFollowing, record
  <2>5. doing'[q].at = "read" /\ doing'[q].op = "edit" /\ \A p \in DutyRequests \ {q} : doing'[p] = doing[p]
    BY <1>r, <1>5 DEF PutFollowing
  <2>6. /\ duty'[e].status = "open" /\ duty'[e].marked = {} /\ duty'[e].from = {doing[q].id}
        /\ duty[e].status = "absent" /\ duty[e].marked = {} /\ duty[e].from = {}
        /\ \A d \in Duties \ {e} : duty'[d] = duty[d]
    BY <1>a, <2>2, <2>3 DEF Item, NoItem
  <2>7. Reserved'
    <3>1. \A p \in DutyRequests : Awaited(p)' => Awaited(p) /\ doing'[p].id = doing[p].id /\ doing[p].id # e
                                                 /\ duty[doing[p].id] = NoItem
      BY <1>0, <2>3, <2>5 DEF Reserved, Awaited, Doing
    <3>2. \A p \in DutyRequests : Awaited(p) => doing[p].id \in Duties
      BY <1>s DEF Awaited, Plans
    <3> QED BY <1>0, <2>6, <3>1, <3>2, ReservedKept
  <2>8. Heard'
    <3>1. ASSUME NEW d \in Duties
          PROVE  \/ said'[d] = Unsaid
                 \/ said'[d] = said[d] /\ (duty'[d].status # "deleted" =>
                      duty[d].status # "deleted" /\ duty'[d].marked = duty[d].marked)
      BY <2>4, <2>6
    <3> QED BY <1>0, <1>a, <2>4, <3>1, HeardKept
  <2>9. Followed'
    <3>1. \A d : \A p \in DutyRequests : (p \in Following(d))' <=> p \in Following(d) /\ p # q
      BY <2>1, <2>5 DEF Following, Doing
    <3>2. q \in Following(doing[q].id) /\ \A d : q \in Following(d) => d = doing[q].id
      BY <2>1 DEF Following, Doing
    <3>3. \A d \in Duties, x \in Duties : d \in duty'[x].from <=> d \in duty[x].from \/ (x = e /\ d = doing[q].id)
      BY <2>6
    <3>4. \A d \in Duties : duty'[d].status = duty[d].status \/ (d = e /\ duty[d].status = "absent")
      BY <2>6
    <3>5. doing[q].id \in Duties
      BY <2>1 DEF Plans
    <3>6. ASSUME NEW d \in Duties \ reopened
          PROVE  /\ \A x, y \in Duties : d \in duty'[x].from /\ d \in duty'[y].from => x = y
                 /\ \A p, o \in DutyRequests : (p \in Following(d))' /\ (o \in Following(d))' => p = o
                 /\ \A x \in Duties, p \in DutyRequests : ~(d \in duty'[x].from /\ (p \in Following(d))')
                 /\ duty'[d].status \in {"open", "absent"} =>
                      /\ \A x \in Duties : d \notin duty'[x].from
                      /\ \A p \in DutyRequests : ~(p \in Following(d))'
      BY <1>0, <3>1, <3>2, <3>3, <3>4, <3>5 DEF Followed
    <3> QED BY <2>4, <3>6 DEF Followed
  <2> QED BY <2>7, <2>8, <2>9
<1>6. ASSUME NEW q \in DutyRequests, ReadContract(q) \/ ListObligations(q) PROVE Reserved' /\ Heard' /\ Followed'
  <2>1. doing[q] \in Plans /\ doing[q].at \in {"read", "list"}
    BY <1>s, <1>6 DEF ReadContract, ListObligations, Doing
  <2>2. doing'[q].at \in {"list", "write"} /\ doing'[q].op = doing[q].op /\ doing'[q].id = doing[q].id
        /\ \A p \in DutyRequests \ {q} : doing'[p] = doing[p]
    <3>1. CASE ReadContract(q)
      BY <1>a, <2>1, <3>1 DEF ReadContract, Plans
    <3>2. CASE ListObligations(q)
      <4>1. PICK counted : doing' = [doing EXCEPT ![q] = [doing[q] EXCEPT !.at = "write", !.listed = counted]]
        BY <3>2 DEF ListObligations
      <4> QED BY <1>a, <2>1, <4>1 DEF Plans
    <3> QED BY <1>6, <3>1, <3>2
  <2>3. UNCHANGED <<duty, sweep, day, said, halts, reopened>>
    BY <1>6 DEF ReadContract, ListObligations, record
  <2>4. Heard' /\ Followed'
    BY <1>a, <1>f, <2>2, <2>3
  <2>5. Reserved'
    BY <1>0, <2>1, <2>2, <2>3, ReservedKept DEF Awaited, Reserved
  <2> QED BY <2>4, <2>5
<1>7. ASSUME NEW q \in DutyRequests, WriteContract(q) PROVE Reserved' /\ Heard' /\ Followed'
  <2>1. doing[q] \in Plans /\ doing[q].at = "write"
    BY <1>s, <1>7 DEF WriteContract, Doing
  <2>2. \/ doing'[q] = Still
        \/ doing'[q].at \in {"drop", "read"} /\ doing'[q].op = doing[q].op /\ doing'[q].id = doing[q].id
    <3> DEFINE r == doing[q]
               turn == [r EXCEPT !.at = "drop", !.listed = None, !.tries = 1]
               again == [r EXCEPT !.at = "read", !.tries = r.tries + 1, !.listed = None]
    <3>1. turn.at = "drop" /\ turn.op = r.op /\ turn.id = r.id /\ again.at = "read" /\ again.op = r.op /\ again.id = r.id
      BY <2>1 DEF Plans
    <3> HIDE DEF turn, again
    <3>2. CASE MayWrite(q)
      <4>1. doing'[q] = Still \/ doing'[q] = turn
        BY <1>7, <3>2 DEF WriteContract, Outdate, turn
      <4> QED BY <3>1, <4>1
    <3>3. CASE ~MayWrite(q)
      <4>1. doing'[q] = Still \/ doing'[q] = again
        BY <1>7, <1>a, <3>3 DEF WriteContract, again
      <4> QED BY <3>1, <4>1
    <3> QED BY <3>2, <3>3
  <2>3. \A p \in DutyRequests \ {q} : /\ doing'[p].at = doing[p].at
                                      /\ doing[p].at # "still" => doing'[p].op = doing[p].op /\ doing'[p].id = doing[p].id
    BY <1>7, <1>a, <1>s DEF WriteContract, Outdate, Plans
  <2>4. UNCHANGED <<duty, sweep, day, said, halts, reopened>>
    BY <1>7 DEF WriteContract
  <2>5. Heard' /\ Followed'
    BY <1>a, <1>f, <2>2, <2>3, <2>4 DEF Still
  <2>6. Reserved'
    BY <1>0, <2>1, <2>2, <2>3, <2>4, ReservedKept DEF Awaited, Reserved, Still
  <2> QED BY <2>5, <2>6
<1>8. ASSUME NEW q \in DutyRequests, DropSonar(q) PROVE Reserved' /\ Heard' /\ Followed'
  <2>1. doing[q] \in Plans /\ doing[q].at = "drop"
    BY <1>s, <1>8 DEF DropSonar, Doing
  <2>2. doing'[q].at = "store" /\ doing'[q].op = doing[q].op /\ doing'[q].id = doing[q].id
        /\ \A p \in DutyRequests \ {q} : doing'[p] = doing[p]
    BY <1>8, <1>a, <2>1 DEF DropSonar, Step, Plans
  <2>3. UNCHANGED <<sweep, day, said, halts, reopened>>
    BY <1>8 DEF DropSonar, record
  <2>4. \A d \in Duties : IF duty[d].sonar THEN duty'[d] = [NoItem EXCEPT !.status = "deleted"] ELSE duty'[d] = duty[d]
    BY <1>8 DEF DropSonar
  <2>5. [NoItem EXCEPT !.status = "deleted"].status = "deleted" /\ [NoItem EXCEPT !.status = "deleted"].from = {} /\ ~NoItem.sonar
    BY DEF NoItem, Item
  <2>6. Reserved'
    <3>1. \A p \in DutyRequests : Awaited(p)' => Awaited(p) /\ doing'[p].id = doing[p].id /\ doing[p].id \in Duties
      BY <1>s, <2>1, <2>2 DEF Awaited, Plans
    <3>2. \A p \in DutyRequests : Awaited(p) /\ doing[p].id \in Duties => duty'[doing[p].id] = NoItem
      BY <1>0, <2>4, <2>5 DEF Reserved
    <3> QED BY <1>0, <3>1, <3>2, ReservedKept
  <2>7. Heard'
    <3>1. ASSUME NEW d \in Duties
          PROVE  \/ said'[d] = Unsaid
                 \/ said'[d] = said[d] /\ (duty'[d].status # "deleted" =>
                      duty[d].status # "deleted" /\ duty'[d].marked = duty[d].marked)
      BY <2>3, <2>4, <2>5
    <3> QED BY <1>0, <1>a, <2>3, <3>1, HeardKept
  <2>8. Followed'
    BY <1>0, <2>2, <2>3, <2>4, <2>5, FollowedKept
  <2> QED BY <2>6, <2>7, <2>8
<1>9. ASSUME NEW q \in DutyRequests, StoreSonar(q) PROVE Reserved' /\ Heard' /\ Followed'
  <2>1. doing[q] \in Plans /\ PlanFits(doing[q]) /\ doing[q].at = "store" /\ doing[q].id \in Duties
    BY <1>s, <1>9 DEF StoreSonar, Doing, Plans
  <2>2. doing[q].op = "sign" /\ doing[q].now.status = "open" /\ doing[q].now.marked = {} /\ doing[q].now.from = {}
    BY <2>1 DEF PlanFits
  <2>3. Awaited(q)
    BY <2>1, <2>2 DEF Awaited
  <2>4. duty[doing[q].id] = NoItem
    BY <1>0, <2>3 DEF Reserved
  <2>5. UNCHANGED <<sweep, day, said, halts, reopened>>
    BY <1>9 DEF StoreSonar, record
  <2>6. doing'[q] = Still /\ \A p \in DutyRequests \ {q} : doing'[p] = doing[p]
    BY <1>9, <1>a DEF StoreSonar, Done
  <2>7. \A d \in Duties : duty'[d] = IF d = doing[q].id THEN doing[q].now ELSE duty[d]
    BY <1>9, <1>a DEF StoreSonar
  <2>8. NoItem.status = "absent" /\ NoItem.marked = {} /\ NoItem.from = {}
    BY DEF NoItem, Item
  <2>9. Reserved'
    <3>1. \A p \in DutyRequests : Awaited(p)' => Awaited(p) /\ p # q /\ doing'[p].id = doing[p].id /\ doing[p].id \in Duties
      BY <1>s, <2>6 DEF Awaited, Plans, Still
    <3>2. \A p \in DutyRequests : Awaited(p) /\ p # q /\ doing[p].id \in Duties => duty'[doing[p].id] = NoItem
      BY <1>0, <2>3, <2>7 DEF Reserved
    <3> QED BY <1>0, <3>1, <3>2, ReservedKept
  <2>10. Heard'
    <3>1. ASSUME NEW d \in Duties
          PROVE  \/ said'[d] = Unsaid
                 \/ said'[d] = said[d] /\ (duty'[d].status # "deleted" =>
                      duty[d].status # "deleted" /\ duty'[d].marked = duty[d].marked)
      BY <2>2, <2>4, <2>5, <2>7, <2>8
    <3> QED BY <1>0, <1>a, <2>5, <3>1, HeardKept
  <2>11. Followed'
    BY <1>0, <2>2, <2>4, <2>5, <2>6, <2>7, <2>8, FollowedKept DEF Still
  <2> QED BY <2>9, <2>10, <2>11
<1>10. CASE Reopen
  <2>1. UNCHANGED <<duty, sweep, day, said, halts, reopened>>
    BY <1>10 DEF Reopen
  <2>2. \A p \in DutyRequests : /\ doing'[p].at = doing[p].at
                                /\ doing[p].at # "still" => doing'[p].op = doing[p].op /\ doing'[p].id = doing[p].id
    BY <1>10, <1>s DEF Reopen, Plans
  <2>3. Heard' /\ Followed'
    BY <1>a, <1>f, <2>1, <2>2
  <2>4. Reserved'
    BY <1>0, <2>1, <2>2, ReservedKept DEF Awaited, Reserved
  <2> QED BY <2>3, <2>4
(* The sweep leaves the requests.                                          *)
<1>u. ASSUME UNCHANGED <<duty, doing, reopened>> PROVE Reserved' /\ Followed'
  BY <1>0, <1>u, ReservedKept, FollowedKept DEF Reserved, Awaited
<1>11. CASE BeginSweep
  <2>1. Reserved' /\ Followed'
    BY <1>11, <1>u DEF BeginSweep, unswept
  <2>2. sweep = Still /\ sweep'.at = "next" /\ UNCHANGED <<duty, said, halts>>
    BY <1>11 DEF BeginSweep
  <2>3. \A d \in DOMAIN sweep'.rows : d \in Duties /\ sweep'.rows[d] = duty[d] /\ duty[d].status = "open"
    BY <1>11 DEF BeginSweep, Dated, IsOpen
  <2>4. \A d, k : ~Noting(d, k) /\ ~Noting(d, k)'
    BY <2>2 DEF Noting, Still
  <2>5. Heard'
    BY <1>0, <2>2, <2>3, <2>4 DEF Heard
  <2> QED BY <2>1, <2>5
<1>12. CASE Note
  <2>0. sweep # Still /\ sweep.at = "next"
    BY <1>12 DEF Note, Still
  <2>1. PICK d \in DOMAIN sweep.rows :
         \/ sweep' = NextRow(d) /\ UNCHANGED said
         \/ /\ Kind(sweep.rows[d]) \notin sweep.rows[d].marked
            /\ said' = [said EXCEPT ![d][Kind(sweep.rows[d])] = IF said[d][Kind(sweep.rows[d])] = Many THEN Many ELSE said[d][Kind(sweep.rows[d])] + 1]
            /\ sweep' = [sweep EXCEPT !.at = "mark", !.noted = {d}]
    BY <1>12 DEF Note
  <2>2. Reserved' /\ Followed' /\ UNCHANGED <<duty, halts, day>>
    BY <1>12, <1>u DEF Note, unswept
  <2>3. \A e, k : ~Noting(e, k)
    BY <2>0 DEF Noting
  <2>4. CASE sweep' = NextRow(d) /\ UNCHANGED said
    <3>1. \A e, k : ~Noting(e, k)'
      BY <2>4 DEF Noting, NextRow
    <3>2. \A e \in DOMAIN sweep'.rows : e \in DOMAIN sweep.rows /\ sweep'.rows[e] = sweep.rows[e]
      BY <2>4 DEF NextRow
    <3>3. Heard'
      BY <1>0, <2>0, <2>2, <2>3, <2>4, <3>1, <3>2 DEF Heard
    <3> QED BY <2>2, <3>3
  <2>5. CASE /\ Kind(sweep.rows[d]) \notin sweep.rows[d].marked
             /\ said' = [said EXCEPT ![d][Kind(sweep.rows[d])] = IF said[d][Kind(sweep.rows[d])] = Many THEN Many ELSE said[d][Kind(sweep.rows[d])] + 1]
             /\ sweep' = [sweep EXCEPT !.at = "mark", !.noted = {d}]
    <3>k. PICK k : k = Kind(sweep.rows[d])
      OBVIOUS
    <3>1. sweep \in Sweeps
      BY <2>0 DEF DutyShapes
    <3>2. sweep'.at = "mark" /\ sweep'.noted = {d} /\ sweep'.rows = sweep.rows
      BY <2>5, <3>1 DEF Sweeps
    <3>3. d \in Duties /\ k \in Kinds
      BY <2>1, <3>1, <3>k DEF Sweeps, Rows, Kind, Kinds
    <3>4. said[d][k] <= halts /\ said[d][k] \in Nat /\ Many \in Nat
      BY <1>0, <1>a, <2>0, <2>1, <2>3, <2>5, <3>3, <3>k, DutyBounds DEF Heard, Many
    <3>5. \A e \in Duties, j \in Kinds : said'[e][j] = IF e = d /\ j = k THEN said'[d][k] ELSE said[e][j]
      BY <1>a, <2>5, <3>3, <3>k
    <3>6. said'[d][k] = IF said[d][k] = Many THEN Many ELSE said[d][k] + 1
      BY <1>a, <2>5, <3>3, <3>k
    <3>7. \A e, j : e = d /\ j = k => Noting(e, j)'
      BY <2>2, <3>2, <3>k DEF Noting, Kind
    <3>8. said'[d][k] <= 1 + halts
      BY <1>a, <3>4, <3>6
    <3>9. Heard'
      <4> SUFFICES ASSUME NEW e \in Duties, NEW j \in Kinds
                   PROVE  /\ said'[e][j] <= 1 + halts
                          /\ duty[e].status # "deleted" /\ j \notin duty[e].marked /\ ~Noting(e, j)' => said'[e][j] <= halts
                          /\ e \in DOMAIN sweep.rows => (j \notin sweep.rows[e].marked /\ ~Noting(e, j)' => said'[e][j] <= halts)
        BY <2>2, <3>2 DEF Heard
      <4>1. CASE e = d /\ j = k
        BY <3>7, <3>8, <4>1
      <4>2. CASE ~(e = d /\ j = k)
        BY <1>0, <2>0, <2>3, <3>5, <4>2 DEF Heard
      <4> QED BY <4>1, <4>2
    <3> QED BY <2>2, <3>9
  <2> QED BY <2>1, <2>4, <2>5
<1>13. CASE Mark
  <2>0. sweep # Still /\ sweep.at = "mark"
    BY <1>13 DEF Mark, Still
  <2>1. PICK d \in sweep.noted :
         /\ duty' = [duty EXCEPT ![d] = [sweep.rows[d] EXCEPT !.marked = sweep.rows[d].marked \cup {Kind(sweep.rows[d])}]]
         /\ duty[d] = sweep.rows[d]
         /\ sweep' = NextRow(d)
    BY <1>13 DEF Mark
  <2>2. sweep.noted = {d} /\ d \in Duties /\ RowFits(d)
    BY <1>a, <2>0, <2>1 DEF SweepFits
  <2>3. UNCHANGED <<halts, said, doing, reopened>>
    BY <1>13 DEF Mark, unswept
  <2>4. /\ \A e \in Duties \ {d} : duty'[e] = duty[e]
        /\ duty'[d].status = duty[d].status /\ duty'[d].from = duty[d].from
        /\ duty'[d].marked = duty[d].marked \cup {Kind(sweep.rows[d])}
    BY <1>a, <2>1, <2>2 DEF Items
  <2>5. Reserved'
    <3>1. \A p \in DutyRequests : Awaited(p)' => Awaited(p) /\ doing'[p].id = doing[p].id /\ doing[p].id \in Duties
      BY <1>s, <2>3 DEF Awaited, Plans
    <3>2. duty[d] # NoItem
      BY <2>1, <2>2 DEF RowFits, NoItem, Item
    <3>3. \A p \in DutyRequests : Awaited(p) /\ doing[p].id \in Duties => duty'[doing[p].id] = NoItem
      BY <1>0, <2>4, <3>2 DEF Reserved
    <3> QED BY <1>0, <3>1, <3>3, ReservedKept
  <2>6. Followed'
    BY <1>0, <2>3, <2>4, FollowedKept
  <2>7. \A e, k : ~Noting(e, k)'
    BY <2>1 DEF Noting, NextRow
  <2>8. \A e, k : Noting(e, k) => e = d /\ k = Kind(sweep.rows[d])
    BY <2>2 DEF Noting
  <2>9. \A e \in DOMAIN sweep'.rows : e \in DOMAIN sweep.rows /\ e # d /\ sweep'.rows[e] = sweep.rows[e]
    BY <2>1 DEF NextRow
  <2>10. Heard'
    <3> SUFFICES ASSUME NEW e \in Duties, NEW k \in Kinds
                 PROVE  /\ said[e][k] <= 1 + halts
                        /\ duty'[e].status # "deleted" /\ k \notin duty'[e].marked => said[e][k] <= halts
                        /\ e \in DOMAIN sweep'.rows => (k \notin sweep'.rows[e].marked => said[e][k] <= halts)
      BY <2>3, <2>7 DEF Heard
    <3> QED BY <1>0, <2>0, <2>4, <2>8, <2>9 DEF Heard
  <2> QED BY <2>5, <2>6, <2>10
<1>14. CASE EndSweep \/ NextDay
  <2>1. Reserved' /\ Followed' /\ UNCHANGED <<duty, said, halts>> /\ sweep' = Still
    BY <1>14, <1>u DEF EndSweep, NextDay, unswept
  <2>2. \A e, k : ~Noting(e, k) /\ ~Noting(e, k)'
    BY <1>14, <2>1 DEF Noting, EndSweep, NextDay, Still
  <2> QED BY <1>0, <2>1, <2>2 DEF Heard
<1>15. CASE Halt
  <2>1. UNCHANGED <<duty, said, reopened, day>> /\ halts' = halts + 1
    BY <1>15 DEF Halt
  <2>2. CASE sweep' = Still /\ UNCHANGED doing
    <3>1. Reserved' /\ Followed'
      BY <1>u, <2>1, <2>2
    <3>2. Heard'
      BY <1>0, <1>a, <2>1, <2>2 DEF Heard
    <3> QED BY <3>1, <3>2
  <2>3. CASE (\E q \in DutyRequests : HasWritten(q) /\ Done(q)) /\ UNCHANGED sweep
    <3>1. PICK q \in DutyRequests : Done(q)
      BY <2>3
    <3>2. \A p \in DutyRequests : doing'[p] = IF p = q THEN Still ELSE doing[p]
      BY <1>a, <3>1 DEF Done
    <3>3. Heard' /\ Followed'
      BY <1>a, <1>f, <2>1, <2>3, <3>2 DEF Still
    <3>4. Reserved'
      BY <1>0, <2>1, <3>2, ReservedKept DEF Awaited, Reserved, Still
    <3> QED BY <3>3, <3>4
  <2> QED BY <1>15, <2>2, <2>3 DEF Halt
<1> QED
  <2>1. ASSUME NEW q \in DutyRequests, DutyRequest(q) PROVE Reserved' /\ Heard' /\ Followed'
    BY <2>1, <1>2, <1>3, <1>4, <1>5, <1>6, <1>7, <1>8, <1>9 DEF DutyRequest
  <2> QED BY <2>1, <1>1, <1>10, <1>11, <1>12, <1>13, <1>14, <1>15 DEF DutyNext
-----------------------------------------------------------------------------
(* A request that changed an item owes the contract a refresh, or is about *)
(* to be told that what it read is old.                                    *)
Bound(o) == LET r == doing[o] IN
    \/ r.at = "follow"
    \/ r.at \in {"read", "list"} /\ r.op # "sign"
    \/ r.at = "write" /\ r.op # "sign" /\ ~r.current
Writes(o) == doing[o].at = "write" /\ doing[o].current

(* The items once the signing of q is over.                                *)
AfterSign(q) ==
    [d \in Duties |-> IF d = doing[q].id THEN doing[q].now
                      ELSE IF doing[q].at # "store" /\ duty[d].sonar THEN NoItem ELSE duty[d]]
Expected(q) == IF doing[q].op = "sign" THEN OpenDues(AfterSign(q)) ELSE OpenDues(duty)

(* The contract's copy is right, or is once the signing is over, and so is *)
(* what anybody may still write over it.                                   *)
Copied == /\ Signing = {} => dues = OpenDues(duty)
          /\ \A q \in Signing : dues = Expected(q)
          /\ \A o \in DutyRequests : Writes(o) => doing[o].listed = Expected(o)
Repairs(o) == Writes(o) /\ doing[o].op # "sign" /\ doing[o].listed = OpenDues(duty)

Undisturbed == halts = 0 /\ overwrote \subseteq {"request"}
OneSigner   == /\ \A p, q \in Signing : p = q
               /\ Signing # {} => \A o \in DutyRequests : ~Writes(o)
DuesStand   == (\E o \in DutyRequests : Bound(o) \/ Repairs(o)) \/ Copied
Settling    == Undisturbed => OneSigner /\ DuesStand

LEMMA OpenDuesSame ==
    ASSUME NEW a, NEW b,
           \A d \in Duties : /\ Dated(a[d]) <=> Dated(b[d])
                             /\ Dated(a[d]) => a[d].due = b[d].due
    PROVE  OpenDues(a) = OpenDues(b)
<1>1. ASSUME NEW k \in DueDays
      PROVE  {d \in Duties : Dated(a[d]) /\ a[d].due = k} = {d \in Duties : Dated(b[d]) /\ b[d].due = k}
  OBVIOUS
<1> QED BY <1>1 DEF OpenDues

LEMMA ExpectedSame ==
    ASSUME NEW q \in DutyRequests, UNCHANGED duty,
           doing'[q].op = doing[q].op, doing'[q].id = doing[q].id, doing'[q].now = doing[q].now,
           doing'[q].at = "store" <=> doing[q].at = "store"
    PROVE  Expected(q)' = Expected(q)
<1>1. \A d \in Duties : AfterSign(q)'[d] = AfterSign(q)[d]
  BY DEF AfterSign
<1>2. OpenDues(AfterSign(q)') = OpenDues(AfterSign(q))
  BY <1>1, OpenDuesSame
<1>3. OpenDues(AfterSign(q))' = OpenDues(AfterSign(q)') /\ OpenDues(duty)' = OpenDues(duty)
  BY DEF OpenDues
<1> QED BY <1>2, <1>3 DEF Expected

(* A step that takes nobody into a signing or to a write.                  *)
LEMMA OneSignerKept ==
    ASSUME OneSigner, Signing' \subseteq Signing, \A q \in DutyRequests : Writes(q)' => Writes(q)
    PROVE  OneSigner'
BY DEF OneSigner

LEMMA DuesStandKept ==
    ASSUME DuesStand, UNCHANGED dues, OpenDues(duty)' = OpenDues(duty), Signing' = Signing,
           \A q \in DutyRequests : Bound(q) => Bound(q)',
           \A q \in DutyRequests :
              Writes(q)' => Writes(q) /\ doing'[q].op = doing[q].op /\ doing'[q].listed = doing[q].listed,
           \A q \in DutyRequests : Repairs(q) => Bound(q)' \/ Writes(q)',
           \A q \in DutyRequests : q \in Signing \/ Writes(q)' => Expected(q)' = Expected(q)
    PROVE  DuesStand'
<1>1. CASE \E o \in DutyRequests : Bound(o) \/ Repairs(o)
  <2>1. PICK o \in DutyRequests : Bound(o) \/ Repairs(o)
    BY <1>1
  <2>2. Bound(o)' \/ Repairs(o)'
    BY <2>1 DEF Repairs
  <2> QED BY <2>2 DEF DuesStand
<1>2. CASE Copied
  <2>1. Signing' = {} => dues' = OpenDues(duty)'
    BY <1>2 DEF Copied
  <2>2. \A q \in Signing' : dues' = Expected(q)'
    BY <1>2 DEF Copied, Signing
  <2>3. \A o \in DutyRequests : Writes(o)' => doing'[o].listed = Expected(o)'
    BY <1>2 DEF Copied
  <2> QED BY <2>1, <2>2, <2>3 DEF Copied, DuesStand
<1> QED BY <1>1, <1>2 DEF DuesStand

LEMMA SettlingInit == DutyInit => Settling
<1> SUFFICES ASSUME DutyInit PROVE OneSigner /\ Copied
  BY DEF Settling, DuesStand
<1>1. \A q \in DutyRequests : doing[q] = Still
  BY DEF DutyInit
<1>2. Signing = {} /\ \A q \in DutyRequests : ~Writes(q)
  BY <1>1 DEF Signing, Writes, Still
<1> DEFINE first == CHOOSE d \in Recurring : TRUE
<1>3. first \in Duties
  BY DutyBounds
<1>4. duty = [d \in Duties |-> IF d = first THEN Item("open", 1, FALSE, {}) ELSE NoItem]
  BY DEF DutyInit
<1> HIDE DEF first
<1>5. Dated(duty[first]) /\ duty[first].due = 1 /\ \A d \in Duties : Dated(duty[d]) => d = first
  BY <1>3, <1>4 DEF Dated, IsOpen, Item, NoItem
<1>6. ASSUME NEW k \in DueDays
      PROVE  (IF k = 1 THEN 1 ELSE 0) = Cardinality({d \in Duties : Dated(duty[d]) /\ duty[d].due = k})
  <2>1. CASE k = 1
    <3>1. {d \in Duties : Dated(duty[d]) /\ duty[d].due = k} = {first}
      BY <1>3, <1>5, <2>1
    <3> QED BY <2>1, <3>1, FS_Singleton
  <2>2. CASE k # 1
    <3>1. {d \in Duties : Dated(duty[d]) /\ duty[d].due = k} = {}
      BY <1>5, <2>2
    <3> QED BY <2>2, <3>1, FS_EmptySet
  <2> QED BY <2>1, <2>2
<1>7. dues = [k \in DueDays |-> IF k = 1 THEN 1 ELSE 0]
  BY DEF DutyInit
<1>8. dues = OpenDues(duty)
  BY <1>6, <1>7 DEF OpenDues
<1> QED BY <1>2, <1>8 DEF OneSigner, Copied

LEMMA SettlingNext == DutyShapes /\ DutyShapes' /\ Settling /\ [DutyNext]_dutyVars => Settling'
<1> SUFFICES ASSUME DutyShapes, DutyShapes', Settling, [DutyNext]_dutyVars, Undisturbed'
             PROVE  OneSigner' /\ DuesStand'
  BY DEF Settling
<1>u. Undisturbed /\ ~Halt
  <2>1. overwrote \subseteq overwrote'
    BY DEF DutyNext, DutyRequest, dutyVars, AddObligation, EditObligation, PutObligation, PutFollowing, ReadContract,
           ListObligations, WriteContract, MarkSigned, DropSonar, StoreSonar, Reopen, BeginSweep, Note, Mark, EndSweep,
           NextDay, Halt, unswept
  <2>2. halts' = halts \/ halts' = halts + 1
    BY DEF DutyNext, DutyRequest, dutyVars, AddObligation, EditObligation, PutObligation, PutFollowing, ReadContract,
           ListObligations, WriteContract, MarkSigned, DropSonar, StoreSonar, Reopen, BeginSweep, Note, Mark, EndSweep,
           NextDay, Halt, unswept, record
  <2>3. halts \in Nat /\ halts' = 0
    BY DEF DutyShapes, Undisturbed
  <2>4. halts = 0
    BY <2>2, <2>3
  <2>5. ~Halt
    BY <2>3, <2>4 DEF Halt
  <2> QED BY <2>1, <2>4, <2>5 DEF Undisturbed
<1>0. OneSigner /\ DuesStand
  BY <1>u DEF Settling
<1>a. doing \in [DutyRequests -> {Still} \cup Plans] /\ duty \in [Duties -> Items] /\ duty' \in [Duties -> Items] /\ SweepFits
  BY DEF DutyShapes
<1>s. \A q \in DutyRequests : doing[q].at # "still" => doing[q] \in Plans /\ PlanFits(doing[q])
  BY DEF DutyShapes, Still
(* What the others do is as it was.                                        *)
<1>e. ASSUME NEW p \in DutyRequests, doing'[p] = doing[p]
      PROVE  /\ (Bound(p)' <=> Bound(p)) /\ (Writes(p)' <=> Writes(p))
             /\ ((p \in Signing)' <=> p \in Signing)
             /\ (UNCHANGED duty => Expected(p)' = Expected(p))
  <2>1. UNCHANGED duty => Expected(p)' = Expected(p)
    BY <1>e, ExpectedSame
  <2> QED BY <1>e, <2>1 DEF Bound, Writes, Signing
<1>d. UNCHANGED duty => OpenDues(duty)' = OpenDues(duty)
  BY DEF OpenDues
(* A step of q that neither was nor comes to anything that counts.         *)
<1>q. ASSUME NEW q \in DutyRequests, UNCHANGED <<duty, dues>>, \A p \in DutyRequests \ {q} : doing'[p] = doing[p],
             ~Writes(q), ~Writes(q)', q \notin Signing, ~(q \in Signing)', Bound(q) => Bound(q)'
      PROVE  OneSigner' /\ DuesStand'
  <2>1. Signing' = Signing
    <3>1. \A p \in DutyRequests : (p \in Signing)' <=> p \in Signing
      BY <1>e, <1>q
    <3> QED BY <3>1 DEF Signing
  <2>2. \A p \in DutyRequests : Writes(p)' => p # q /\ Writes(p) /\ doing'[p] = doing[p]
    BY <1>e, <1>q
  <2>3. \A p \in DutyRequests : Bound(p) => Bound(p)'
    BY <1>e, <1>q
  <2>4. \A p \in DutyRequests : Repairs(p) => Writes(p)'
    BY <1>e, <1>q DEF Repairs
  <2>5. \A p \in DutyRequests : p \in Signing \/ Writes(p)' => Expected(p)' = Expected(p)
    BY <1>e, <1>q
  <2>6. OneSigner'
    BY <1>0, <2>1, <2>2, OneSignerKept
  <2>7. DuesStand'
    BY <1>0, <1>d, <1>q, <2>1, <2>2, <2>3, <2>4, <2>5, DuesStandKept
  <2> QED BY <2>6, <2>7
<1>1. CASE UNCHANGED <<duty, dues, doing>>
  <2>1. Signing' = Signing
    BY <1>1 DEF Signing
  <2>2. \A p \in DutyRequests : /\ Bound(p) => Bound(p)'
                                /\ Writes(p)' <=> Writes(p)
                                /\ Expected(p)' = Expected(p)
    BY <1>1, <1>e
  <2>3. OneSigner'
    BY <1>0, <2>1, <2>2, OneSignerKept
  <2>4. \A p \in DutyRequests : Repairs(p) => Writes(p)'
    BY <2>2 DEF Repairs
  <2>5. DuesStand'
    BY <1>0, <1>1, <1>d, <2>1, <2>2, <2>4, DuesStandKept
  <2> QED BY <2>3, <2>5
<1>2. ASSUME NEW q \in DutyRequests, AddObligation(q) \/ EditObligation(q) \/ MarkSigned(q) PROVE OneSigner' /\ DuesStand'
  <2>1. doing[q].at = "still" /\ UNCHANGED <<duty, dues>>
    BY <1>2 DEF AddObligation, EditObligation, MarkSigned, Doing, record
  <2>2. \E plan : doing' = [doing EXCEPT ![q] = plan] /\ plan.at \in {"put", "read"}
    <3>1. CASE AddObligation(q)
      <4>1. PICK d, now : doing' = [doing EXCEPT ![q] = Plan("put", "add", d, NoItem, now)]
        BY <3>1 DEF AddObligation, Carry
      <4> DEFINE plan == Plan("put", "add", d, NoItem, now)
      <4>2. doing' = [doing EXCEPT ![q] = plan] /\ plan.at = "put"
        BY <4>1 DEF Plan
      <4> HIDE DEF plan
      <4> QED BY <4>2
    <3>2. CASE EditObligation(q)
      <4>1. PICK d, now, given : doing' = [doing EXCEPT ![q] = [Plan("put", "edit", d, duty[d], now) EXCEPT !.given = given]]
        BY <3>2 DEF EditObligation, Carry
      <4> DEFINE plan == [Plan("put", "edit", d, duty[d], now) EXCEPT !.given = given]
      <4>2. doing' = [doing EXCEPT ![q] = plan] /\ plan.at = "put"
        BY <4>1 DEF Plan
      <4> HIDE DEF plan
      <4> QED BY <4>2
    <3>3. CASE MarkSigned(q)
      <4>1. PICK d, now : doing' = [doing EXCEPT ![q] = Plan("read", "sign", d, NoItem, now)]
        BY <3>3 DEF MarkSigned, Carry
      <4> DEFINE plan == Plan("read", "sign", d, NoItem, now)
      <4>2. doing' = [doing EXCEPT ![q] = plan] /\ plan.at = "read"
        BY <4>1 DEF Plan
      <4> HIDE DEF plan
      <4> QED BY <4>2
    <3> QED BY <1>2, <3>1, <3>2, <3>3
  <2>3. doing'[q].at \in {"put", "read"} /\ \A p \in DutyRequests \ {q} : doing'[p] = doing[p]
    BY <1>a, <2>2
  <2> QED BY <1>q, <2>1, <2>3 DEF Bound, Writes, Signing
<1>3. ASSUME NEW q \in DutyRequests, ReadContract(q) PROVE OneSigner' /\ DuesStand'
  <2>1. doing[q].at = "read" /\ doing[q] \in Plans /\ UNCHANGED <<duty, dues>>
    BY <1>3, <1>s DEF ReadContract, Doing, record
  <2>2. doing'[q].at = "list" /\ doing'[q].op = doing[q].op /\ \A p \in DutyRequests \ {q} : doing'[p] = doing[p]
    BY <1>3, <1>a, <2>1 DEF ReadContract, Plans
  <2> QED BY <1>q, <2>1, <2>2 DEF Bound, Writes, Signing
(* Whoever puts an item has the contract to write afterwards.              *)
<1>4. ASSUME NEW q \in DutyRequests, PutObligation(q) \/ PutFollowing(q) PROVE OneSigner' /\ DuesStand'
  <2>1. doing[q].at \in {"put", "follow"} /\ doing[q] \in Plans
    BY <1>4, <1>s DEF PutObligation, PutFollowing, Doing
  <2>2. Refresh(q) \/ Step(q, "follow")
    BY <1>4 DEF PutObligation, PutFollowing
  <2>3. /\ doing'[q].at = "follow" \/ (doing'[q].at = "read" /\ doing'[q].op = "edit")
        /\ \A p \in DutyRequests \ {q} : doing'[p] = doing[p]
    <3>1. CASE Refresh(q)
      BY <1>a, <3>1 DEF Refresh, Carry, Plan
    <3>2. CASE Step(q, "follow")
      BY <1>a, <2>1, <3>2 DEF Step, Plans
    <3> QED BY <2>2, <3>1, <3>2
  <2>4. \A p \in DutyRequests : (Writes(p)' => Writes(p)) /\ ((p \in Signing)' => p \in Signing)
    BY <1>e, <2>3 DEF Writes, Signing
  <2>5. Signing' \subseteq Signing
    BY <2>4 DEF Signing
  <2>6. OneSigner'
    BY <1>0, <2>4, <2>5, OneSignerKept
  <2>7. Bound(q)'
    BY <2>3 DEF Bound
  <2> QED BY <2>6, <2>7 DEF DuesStand
<1>5. ASSUME NEW q \in DutyRequests, ListObligations(q) PROVE OneSigner' /\ DuesStand'
  <2> DEFINE r == doing[q]
  <2>1. r.at = "list" /\ r \in Plans /\ UNCHANGED <<duty, dues>>
    BY <1>5, <1>s DEF ListObligations, Doing, record
  <2>2. Signing = {}
    <3>1. overwrote' = IF Signing # {} THEN overwrote \cup {"sign"} ELSE overwrote
      BY <1>5 DEF ListObligations
    <3> QED BY <3>1 DEF Undisturbed
  <2>3. doing' = [doing EXCEPT ![q] = [r EXCEPT !.at = "write", !.listed = Expected(q)]]
    BY <1>5, <2>1 DEF ListObligations, Expected, AfterSign
  <2>4. /\ doing'[q].at = "write" /\ doing'[q].listed = Expected(q) /\ doing'[q].op = r.op /\ doing'[q].id = r.id
        /\ doing'[q].now = r.now /\ doing'[q].current = r.current
        /\ \A p \in DutyRequests \ {q} : doing'[p] = doing[p]
    BY <1>a, <2>1, <2>3 DEF Plans
  <2>5. Signing' = {}
    BY <2>2, <2>4 DEF Signing
  <2>6. Expected(q)' = Expected(q) /\ doing'[q].listed = Expected(q)'
    BY <2>1, <2>4, ExpectedSame
  <2>7. OneSigner'
    BY <2>5 DEF OneSigner
  <2>8. CASE Bound(q) \/ Repairs(q)
    <3>1. r.op # "sign"
      BY <2>1, <2>8 DEF Bound, Repairs, Writes
    <3>2. CASE r.current
      <4>1. Writes(q)'
        BY <2>4, <3>2 DEF Writes
      <4>2. doing'[q].listed = OpenDues(duty)'
        BY <2>4, <2>6, <3>1 DEF Expected
      <4> QED BY <2>4, <2>7, <3>1, <4>1, <4>2 DEF DuesStand, Repairs
    <3>3. CASE ~r.current
      <4>1. Bound(q)'
        BY <2>4, <3>1, <3>3 DEF Bound
      <4> QED BY <2>7, <4>1 DEF DuesStand
    <3> QED BY <3>2, <3>3
  <2>9. ASSUME NEW o \in DutyRequests \ {q}, Bound(o) \/ Repairs(o) PROVE OneSigner' /\ DuesStand'
    <3>1. (Bound(o)' <=> Bound(o)) /\ (Writes(o)' <=> Writes(o)) /\ doing'[o] = doing[o]
      BY <1>e, <2>4
    <3>2. Bound(o)' \/ Repairs(o)'
      BY <1>d, <2>1, <2>9, <3>1 DEF Repairs
    <3> QED BY <2>7, <3>2 DEF DuesStand
  <2>10. CASE Copied
    <3>1. dues' = OpenDues(duty)'
      BY <1>d, <2>1, <2>2, <2>10 DEF Copied
    <3>2. ASSUME NEW o \in DutyRequests, Writes(o)' PROVE doing'[o].listed = Expected(o)'
      <4>1. CASE o = q
        BY <2>6, <4>1
      <4>2. CASE o # q
        <5>1. doing'[o] = doing[o] /\ Writes(o) /\ Expected(o)' = Expected(o)
          BY <1>e, <2>1, <2>4, <3>2, <4>2
        <5> QED BY <2>10, <5>1 DEF Copied
      <4> QED BY <4>1, <4>2
    <3>3. Copied'
      BY <2>5, <3>1, <3>2 DEF Copied
    <3> QED BY <2>7, <3>3 DEF DuesStand
  <2> QED BY <1>0, <2>8, <2>9, <2>10 DEF DuesStand
<1>6. ASSUME NEW q \in DutyRequests, WriteContract(q) PROVE OneSigner' /\ DuesStand'
  <2> DEFINE r == doing[q]
  <2>1. r.at = "write" /\ r \in Plans /\ UNCHANGED duty
    BY <1>6, <1>s DEF WriteContract, Doing
  <2>2. CASE ~r.current
    <3>1. r.tries # WRITE_RETRIES
      <4>1. r.tries = WRITE_RETRIES => "gave_up" \in overwrote'
        BY <1>6, <2>2 DEF WriteContract, MayWrite
      <4> QED BY <4>1 DEF Undisturbed
    <3>2. doing' = [doing EXCEPT ![q] = [r EXCEPT !.at = "read", !.tries = r.tries + 1, !.listed = None]] /\ UNCHANGED dues
      BY <1>6, <2>2, <3>1 DEF WriteContract, MayWrite
    <3>3. doing'[q].at = "read" /\ doing'[q].op = r.op /\ \A p \in DutyRequests \ {q} : doing'[p] = doing[p]
      BY <1>a, <2>1, <3>2 DEF Plans
    <3> QED BY <1>q, <2>1, <2>2, <3>2, <3>3 DEF Bound, Writes, Signing
  <2>3. CASE r.current
    <3> DEFINE turn == [r EXCEPT !.at = "drop", !.listed = None, !.tries = 1]
               rest == IF r.op = "sign" THEN turn ELSE Still
    <3>1. turn.at = "drop" /\ turn.op = r.op /\ turn.id = r.id /\ turn.now = r.now
      BY <2>1 DEF Plans
    <3>2. dues' = r.listed /\ Outdate(q, rest)
      BY <1>6, <2>3 DEF WriteContract, MayWrite
    <3> HIDE DEF turn
    <3>3. doing'[q] = rest
      BY <3>2 DEF Outdate
    <3>4. \A p \in DutyRequests \ {q} :
             doing'[p] = IF doing[p].at \in {"list", "write"} THEN [doing[p] EXCEPT !.current = FALSE] ELSE doing[p]
      BY <3>2 DEF Outdate
    <3>5. ASSUME NEW p \in DutyRequests \ {q}
          PROVE  /\ doing'[p].at = doing[p].at
                 /\ doing[p].at \in {"read", "list", "write"} => doing'[p].op = doing[p].op
                 /\ doing[p].at = "write" => doing'[p].current = FALSE
      <4>1. CASE doing[p].at \in {"list", "write"}
        <5>1. doing[p] \in Plans
          BY <1>s, <4>1
        <5> QED BY <3>4, <4>1, <5>1 DEF Plans
      <4>2. CASE doing[p].at \notin {"list", "write"}
        BY <3>4, <4>2
      <4> QED BY <4>1, <4>2
    <3>6. Writes(q) /\ Signing = {} /\ q \notin Signing
      <4>1. Writes(q)
        BY <2>1, <2>3 DEF Writes
      <4> QED BY <1>0, <4>1 DEF OneSigner
    <3>7. doing'[q].at \in {"drop", "still"}
      BY <3>1, <3>3 DEF Still
    <3>8. \A p \in DutyRequests : ~Writes(p)'
      <4>1. \A p \in DutyRequests : p # q /\ doing[p].at = "write" => doing'[p].current = FALSE
        BY <3>5
      <4>2. \A p \in DutyRequests : p # q => doing'[p].at = doing[p].at
        BY <3>5
      <4> QED BY <3>7, <4>1, <4>2 DEF Writes
    <3>9. \A p \in DutyRequests : (p \in Signing)' => p = q /\ r.op = "sign"
      <4>1. \A p \in DutyRequests \ {q} : ~(p \in Signing)'
        BY <3>5, <3>6 DEF Signing
      <4>2. r.op # "sign" => ~(q \in Signing)'
        BY <3>3 DEF Signing, Still
      <4> QED BY <4>1, <4>2
    <3>10. OneSigner'
      BY <3>8, <3>9 DEF OneSigner, Signing
    <3>11. ASSUME NEW o \in DutyRequests, Bound(o) \/ (Repairs(o) /\ o # q) PROVE DuesStand'
      <4>1. o # q
        BY <2>1, <2>3, <3>11 DEF Bound
      <4>2. doing'[o].at = doing[o].at /\ (doing[o].at \in {"read", "list", "write"} => doing'[o].op = doing[o].op)
            /\ (doing[o].at = "write" => doing'[o].current = FALSE)
        BY <3>5, <4>1
      <4>3. Bound(o)'
        BY <3>11, <4>2 DEF Bound, Repairs, Writes
      <4> QED BY <4>3 DEF DuesStand
    <3>12. ASSUME r.listed = Expected(q) PROVE DuesStand'
      <4>1. CASE r.op = "sign"
        <5>1. doing'[q] = turn
          BY <3>3, <4>1
        <5>2. Expected(q)' = Expected(q)
          BY <2>1, <3>1, <5>1, ExpectedSame
        <5>3. q \in Signing'
          BY <3>1, <5>1 DEF Signing
        <5>4. \A p \in Signing' : dues' = Expected(p)'
          BY <3>2, <3>9, <3>12, <5>2 DEF Signing
        <5>5. Copied'
          BY <3>8, <5>3, <5>4 DEF Copied
        <5> QED BY <5>5 DEF DuesStand
      <4>2. CASE r.op # "sign"
        <5>1. dues' = OpenDues(duty)'
          BY <1>d, <2>1, <3>2, <3>12, <4>2 DEF Expected
        <5>2. \A p \in Signing' : FALSE
          BY <3>9, <4>2 DEF Signing
        <5>3. Copied'
          BY <3>8, <5>1, <5>2 DEF Copied
        <5> QED BY <5>3 DEF DuesStand
      <4> QED BY <4>1, <4>2
    <3>13. Repairs(q) \/ Copied => r.listed = Expected(q)
      BY <3>6 DEF Repairs, Copied, Expected
    <3> QED BY <1>0, <3>10, <3>11, <3>12, <3>13 DEF DuesStand
  <2> QED BY <2>2, <2>3
(* The signing goes on: what was counted for is done.                      *)
<1>7. ASSUME NEW q \in DutyRequests, DropSonar(q) \/ StoreSonar(q) PROVE OneSigner' /\ DuesStand'
  <2> DEFINE r == doing[q]
  <2>1. r.at \in {"drop", "store"} /\ r \in Plans /\ r.op = "sign" /\ UNCHANGED dues
    BY <1>7, <1>s DEF DropSonar, StoreSonar, Doing, PlanFits, record
  <2>2. q \in Signing /\ \A p \in Signing : p = q
    BY <1>0, <2>1 DEF Signing, OneSigner
  <2>3. \A p \in DutyRequests \ {q} : doing'[p] = doing[p]
    BY <1>7, <1>a DEF DropSonar, StoreSonar, Step, Done
  <2>4. doing'[q] = Still \/ doing'[q] = [r EXCEPT !.at = "store"]
    BY <1>7, <1>a DEF DropSonar, StoreSonar, Step, Done
  <2>5. \A p \in DutyRequests : ~Writes(p)
    BY <1>0, <2>2 DEF OneSigner
  <2>6. doing'[q].at \in {"store", "still"}
    BY <2>1, <2>4 DEF Plans, Still
  <2>7. \A p \in DutyRequests : ~Writes(p)'
    BY <1>e, <2>3, <2>5, <2>6 DEF Writes
  <2>8. Signing' \subseteq {q}
    BY <2>2, <2>3 DEF Signing
  <2>9. OneSigner'
    BY <2>7, <2>8 DEF OneSigner
  <2>10. CASE \E o \in DutyRequests : Bound(o) \/ Repairs(o)
    <3>1. PICK o \in DutyRequests : Bound(o) \/ Repairs(o)
      BY <2>10
    <3>2. Bound(o)
      BY <2>5, <3>1 DEF Repairs
    <3>3. o # q
      BY <2>1, <3>2 DEF Bound
    <3>4. Bound(o)'
      BY <1>e, <2>3, <3>2, <3>3
    <3> QED BY <2>9, <3>4 DEF DuesStand
  <2>11. CASE Copied
    <3>1. dues = OpenDues(AfterSign(q))
      BY <2>1, <2>2, <2>11 DEF Copied, Expected
    <3>2. CASE DropSonar(q)
      <4>1. doing' = [doing EXCEPT ![q].at = "store"] /\ r.at = "drop"
        BY <3>2 DEF DropSonar, Step, Doing
      <4>2. doing'[q].at = "store" /\ doing'[q].op = "sign" /\ doing'[q].id = r.id /\ doing'[q].now = r.now
        BY <1>a, <2>1, <4>1 DEF Plans
      <4> DEFINE gone == [NoItem EXCEPT !.status = "deleted"]
      <4>3. ~Dated(gone) /\ ~Dated(NoItem)
        BY DEF NoItem, Item, Dated, IsOpen
      <4>4. \A d \in Duties : duty'[d] = IF duty[d].sonar THEN gone ELSE duty[d]
        BY <3>2 DEF DropSonar
      <4> HIDE DEF gone
      <4>5. \A d \in Duties : AfterSign(q)[d] = IF d = r.id THEN r.now ELSE IF duty[d].sonar THEN NoItem ELSE duty[d]
        BY <4>1 DEF AfterSign
      <4>6. \A d \in Duties : AfterSign(q)'[d] = IF d = r.id THEN r.now ELSE duty'[d]
        BY <4>2 DEF AfterSign
      <4>7. \A d \in Duties : /\ Dated(AfterSign(q)'[d]) <=> Dated(AfterSign(q)[d])
                              /\ Dated(AfterSign(q)'[d]) => AfterSign(q)'[d].due = AfterSign(q)[d].due
        BY <4>3, <4>4, <4>5, <4>6
      <4>8. OpenDues(AfterSign(q)') = OpenDues(AfterSign(q))
        BY <4>7, OpenDuesSame
      <4>9. Expected(q)' = OpenDues(AfterSign(q)')
        BY <4>2 DEF Expected, OpenDues
      <4>10. q \in Signing'
        BY <4>2 DEF Signing
      <4>11. \A p \in Signing' : dues' = Expected(p)'
        BY <2>1, <2>8, <3>1, <4>8, <4>9
      <4>12. Copied'
        BY <2>7, <4>10, <4>11 DEF Copied
      <4> QED BY <2>9, <4>12 DEF DuesStand
    <3>3. CASE StoreSonar(q)
      <4>1. doing' = [doing EXCEPT ![q] = Still] /\ r.at = "store" /\ duty' = [duty EXCEPT ![r.id] = r.now]
        BY <3>3 DEF StoreSonar, Done, Doing
      <4>2. Signing' = {}
        <5>1. doing'[q].at = "still"
          BY <1>a, <4>1 DEF Still
        <5> QED BY <2>8, <5>1 DEF Signing
      <4>3. \A d \in Duties : duty'[d] = AfterSign(q)[d]
        BY <1>a, <2>1, <4>1 DEF AfterSign, Plans
      <4>4. OpenDues(duty') = OpenDues(AfterSign(q))
        BY <4>3, OpenDuesSame
      <4>5. OpenDues(duty)' = OpenDues(duty')
        BY DEF OpenDues
      <4>6. Copied'
        BY <2>1, <2>7, <3>1, <4>2, <4>4, <4>5 DEF Copied
      <4> QED BY <2>9, <4>6 DEF DuesStand
    <3> QED BY <1>7, <3>2, <3>3
  <2> QED BY <1>0, <2>10, <2>11 DEF DuesStand
<1>8. CASE Reopen
  <2>1. UNCHANGED <<duty, dues>>
    BY <1>8 DEF Reopen
  <2>2. ASSUME NEW p \in DutyRequests
        PROVE  \/ doing'[p] = doing[p] /\ doing[p].at \notin {"list", "write"}
               \/ /\ doing[p].at \in {"list", "write"} /\ doing'[p].at = doing[p].at /\ doing'[p].op = doing[p].op
                  /\ doing'[p].current = FALSE
    <3>1. doing'[p] = IF doing[p].at \in {"list", "write"} THEN [doing[p] EXCEPT !.current = FALSE] ELSE doing[p]
      BY <1>8 DEF Reopen
    <3>2. CASE doing[p].at \in {"list", "write"}
      <4>1. doing[p] \in Plans
        BY <1>s, <3>2
      <4> QED BY <3>1, <3>2, <4>1 DEF Plans
    <3>3. CASE doing[p].at \notin {"list", "write"}
      BY <3>1, <3>3
    <3> QED BY <3>2, <3>3
  <2>3. \A p \in DutyRequests : ~Writes(p)'
    BY <2>2 DEF Writes
  <2>4. Signing' = Signing
    <3>1. \A p \in DutyRequests : doing'[p].at = doing[p].at
      BY <2>2
    <3> QED BY <3>1 DEF Signing
  <2>5. \A p \in DutyRequests : Bound(p) \/ Repairs(p) => Bound(p)'
    BY <2>2 DEF Bound, Repairs, Writes
  <2>6. \A p \in DutyRequests : p \in Signing => Expected(p)' = Expected(p)
    BY <1>e, <2>1, <2>2 DEF Signing
  <2>7. OneSigner'
    BY <1>0, <2>3, <2>4, OneSignerKept
  <2>8. DuesStand'
    BY <1>0, <1>d, <2>1, <2>3, <2>4, <2>5, <2>6, DuesStandKept
  <2> QED BY <2>7, <2>8
<1>9. CASE Mark
  <2>0. sweep.at = "mark" /\ sweep # Still /\ UNCHANGED <<doing, dues>>
    BY <1>9 DEF Mark, unswept, Still
  <2>1. PICK d \in sweep.noted :
         /\ duty' = [duty EXCEPT ![d] = [sweep.rows[d] EXCEPT !.marked = sweep.rows[d].marked \cup {Kind(sweep.rows[d])}]]
         /\ duty[d] = sweep.rows[d]
    <3>1. PICK d \in sweep.noted :
            /\ duty' = [duty EXCEPT ![d] = [sweep.rows[d] EXCEPT !.marked = sweep.rows[d].marked \cup {Kind(sweep.rows[d])}]]
            /\ overwrote' = IF duty[d] # sweep.rows[d] THEN overwrote \cup {"sweep"} ELSE overwrote
      BY <1>9 DEF Mark
    <3>2. duty[d] = sweep.rows[d]
      BY <3>1 DEF Undisturbed
    <3> QED BY <3>1, <3>2
  <2>2. d \in Duties
    BY <1>a, <2>0, <2>1 DEF SweepFits
  <2>3. \A e \in Duties : duty'[e].status = duty[e].status /\ duty'[e].due = duty[e].due /\ duty'[e].sonar = duty[e].sonar
    BY <1>a, <2>1, <2>2 DEF Items
  <2>4. \A e \in Duties : (Dated(duty'[e]) <=> Dated(duty[e])) /\ duty'[e].due = duty[e].due
    BY <2>3 DEF Dated, IsOpen
  <2>5. OpenDues(duty') = OpenDues(duty)
    BY <2>4, OpenDuesSame
  <2>6. OpenDues(duty)' = OpenDues(duty)
    BY <2>5 DEF OpenDues
  <2>7. ASSUME NEW p \in DutyRequests PROVE Expected(p)' = Expected(p)
    <3>1. \A e \in Duties : AfterSign(p)[e] = IF e = doing[p].id THEN doing[p].now
                               ELSE IF doing[p].at # "store" /\ duty[e].sonar THEN NoItem ELSE duty[e]
      BY DEF AfterSign
    <3>2. \A e \in Duties : AfterSign(p)'[e] = IF e = doing[p].id THEN doing[p].now
                               ELSE IF doing[p].at # "store" /\ duty'[e].sonar THEN NoItem ELSE duty'[e]
      BY <2>0 DEF AfterSign
    <3>3. \A e \in Duties : /\ Dated(AfterSign(p)'[e]) <=> Dated(AfterSign(p)[e])
                            /\ Dated(AfterSign(p)'[e]) => AfterSign(p)'[e].due = AfterSign(p)[e].due
      BY <2>3, <2>4, <3>1, <3>2
    <3>4. OpenDues(AfterSign(p)') = OpenDues(AfterSign(p))
      BY <3>3, OpenDuesSame
    <3>5. OpenDues(AfterSign(p))' = OpenDues(AfterSign(p)')
      BY DEF OpenDues
    <3> QED BY <2>0, <2>6, <3>4, <3>5 DEF Expected
  <2>8. /\ Signing' = Signing
        /\ \A p \in DutyRequests : (Bound(p)' <=> Bound(p)) /\ (Writes(p)' <=> Writes(p)) /\ doing'[p] = doing[p]
    BY <2>0 DEF Signing, Bound, Writes
  <2>9. \A p \in DutyRequests : Repairs(p) => Writes(p)'
    BY <2>8 DEF Repairs
  <2>10. OneSigner'
    BY <1>0, <2>8, OneSignerKept
  <2>11. DuesStand'
    BY <1>0, <2>0, <2>6, <2>7, <2>8, <2>9, DuesStandKept
  <2> QED BY <2>10, <2>11
<1>10. CASE BeginSweep \/ Note \/ EndSweep \/ NextDay \/ UNCHANGED dutyVars
  BY <1>1, <1>10 DEF BeginSweep, Note, EndSweep, NextDay, unswept, dutyVars
<1> QED
  <2>1. ASSUME NEW q \in DutyRequests, DutyRequest(q) PROVE OneSigner' /\ DuesStand'
    BY <2>1, <1>2, <1>3, <1>4, <1>5, <1>6, <1>7 DEF DutyRequest
  <2> QED BY <2>1, <1>u, <1>8, <1>9, <1>10 DEF DutyNext
-----------------------------------------------------------------------------
(* The types, what holds while nothing was written over, and what is owed. *)
DutyInd == DutyShapes /\ Unmixed /\ Settling

LEMMA DutyIndInit == DutyInit => DutyInd
BY DutyShapesInit, UnmixedInit, SettlingInit DEF DutyInd

LEMMA DutyIndNext == DutyInd /\ [DutyNext]_dutyVars => DutyInd'
<1> SUFFICES ASSUME DutyInd, [DutyNext]_dutyVars PROVE DutyInd'
  OBVIOUS
<1>1. DutyShapes'
  BY DutyShapesNext DEF DutyInd
<1>2. Unmixed' /\ Settling'
  BY <1>1, UnmixedNext, SettlingNext DEF DutyInd
<1> QED BY <1>1, <1>2 DEF DutyInd

LEMMA AtMostOne ==
    ASSUME NEW S, \A x, y \in S : x = y
    PROVE  S = {} \/ (\E x : S = {x})
OBVIOUS

LEMMA DutyIndHolds == DutyInd => ObligationsHold
<1> SUFFICES ASSUME DutyInd PROVE ObligationsHold
  OBVIOUS
<1>1. DuesSettle
  <2> SUFFICES ASSUME Undisturbed, \A q \in DutyRequests : Doing(q, "still") PROVE dues = OpenDues(duty)
    BY DEF DuesSettle, Undisturbed
  <2>1. \A q \in DutyRequests : ~Bound(q) /\ ~Writes(q) /\ q \notin Signing
    BY DEF Bound, Writes, Signing, Doing
  <2>2. DuesStand
    BY DEF DutyInd, Settling
  <2>3. Copied /\ Signing = {}
    BY <2>1, <2>2 DEF DuesStand, Repairs, Signing
  <2> QED BY <2>3 DEF Copied
<1>2. NotedOnce
  BY DEF DutyInd, Unmixed, Heard, NotedOnce
<1>3. OneFollower
  <2> SUFFICES ASSUME overwrote = {}, NEW d \in Duties \ reopened
               PROVE  Cardinality(Followers(d)) + Cardinality(Following(d)) <= 1
    BY DEF OneFollower
  <2>1. Followed
    BY DEF DutyInd, Unmixed
  <2>2. \A e, f \in Followers(d) : e = f
    BY <2>1 DEF Followed, Followers
  <2>3. \A p, q \in Following(d) : p = q
    BY <2>1 DEF Followed, Following
  <2>4. Followers(d) = {} \/ Following(d) = {}
    BY <2>1 DEF Followed, Followers, Following
  <2>5. Followers(d) = {} \/ (\E e : Followers(d) = {e})
    BY <2>2, AtMostOne
  <2>6. Following(d) = {} \/ (\E q : Following(d) = {q})
    BY <2>3, AtMostOne
  <2>7. Cardinality(Followers(d)) = 0 \/ (Cardinality(Followers(d)) = 1 /\ Followers(d) # {})
    BY <2>5, FS_EmptySet, FS_Singleton
  <2>8. Cardinality(Following(d)) = 0 \/ (Cardinality(Following(d)) = 1 /\ Following(d) # {})
    BY <2>6, FS_EmptySet, FS_Singleton
  <2>9. Cardinality(Followers(d)) = 0 \/ Cardinality(Following(d)) = 0
    BY <2>4, <2>7, <2>8
  <2> QED BY <2>7, <2>8, <2>9
<1> QED BY <1>1, <1>2, <1>3 DEF ObligationsHold

(* However requests, signings and sweeps meet, the contract counts the open *)
(* obligations once nobody owes it a refresh (DuesSettle), everybody hears  *)
(* once of an obligation (NotedOnce), and one obligation follows a closed   *)
(* one (OneFollower), except where an old copy was written over a newer.    *)
THEOREM ObligationsStand == DutySpec => []ObligationsHold
<1>1. DutySpec => []DutyInd
  BY DutyIndInit, DutyIndNext, PTL DEF DutySpec
<1> QED BY <1>1, DutyIndHolds, PTL
=============================================================================
