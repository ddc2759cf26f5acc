------------------------------ MODULE MCTenant ------------------------------
(***************************************************************************)
(* The components that keep small tables of a tenant, each with requests   *)
(* and invocations of its own, on small instances.  They share no row: a   *)
(* behaviour is of one of them, focus, and the others stand still.         *)
(***************************************************************************)
EXTENDS PortalLinks, MatrixVersions, Organization, Obligations, Connectors, Views,
        ProjectAccess, ActivityStream, MatrixImport

VARIABLE focus      \* the component whose behaviour this is

Parts == {"portal", "matrix", "org", "obligations", "connectors", "views", "access", "stream",
          "imports"}

(* Projects that are all alike, for the behaviours of the others.          *)
NothingFiled == /\ \A d \in Documents : hint[d] = {}
                /\ \A p \in Projects : member[p][Guest] = "none"

TenantInit ==
    /\ focus \in Parts
    /\ PortalInit /\ MatrixInit /\ OrgInit /\ DutyInit /\ ConnectorInit /\ ViewsInit /\ AccessInit /\ EventsInit
    /\ ImportInit
    /\ focus # "imports" => \A a \in Agreements : playbooks[a] = <<>>
    /\ focus # "access" => NothingFiled

On(part) == focus = part /\ UNCHANGED focus

(* Two links, one of them used, and one guest, or one link and two guests. *)
FewAtOnce ==
    \/ /\ \A g \in Guests \ {CHOOSE x \in Guests : TRUE} : GuestAt(g, "idle")
       /\ \E l \in Links : \A other \in Links \ {l} : link[other].opens + link[other].uploads = 0
    \/ listed \cup Drawn \subseteq {CHOOSE l \in Links : TRUE}

(* Two records, or two runs and saves of a connector at once.              *)
OneRecordTogether ==
    together => \E r \in Records : known \subseteq {r} /\ \A other \in Records \ {r} : changed[other] = 1

(* Requests on obligations that come after one stopped come singly.        *)
OneAfterHalt ==
    halts > 0 => \E q \in DutyRequests : \A other \in DutyRequests \ {q} : Doing(other, "still")

(* Requests are alike, so whichever is free may be the one that begins.    *)
FirstFree(before, after) == \A q \in before \ after : q = CHOOSE any \in before : TRUE
FreeRequests  == {q \in DutyRequests : Doing(q, "still")}
FreeRunners   == {p \in Runners : Is(p, "off")}

tableVars == <<portalVars, matrixVars, orgVars, dutyVars, connVars, viewVars, accessVars, eventVars>>

TenantNext ==
    \/ On("portal") /\ PortalNext /\ FewAtOnce' /\ UNCHANGED <<matrixVars, orgVars, dutyVars, connVars, viewVars, accessVars, eventVars, importVars>>
    \/ On("matrix") /\ MatrixNext /\ UNCHANGED <<portalVars, orgVars, dutyVars, connVars, viewVars, accessVars, eventVars, importVars>>
    \/ On("org") /\ OrgNext /\ UNCHANGED <<portalVars, matrixVars, dutyVars, connVars, viewVars, accessVars, eventVars, importVars>>
    \/ On("obligations") /\ DutyNext /\ FirstFree(FreeRequests, FreeRequests') /\ OneAfterHalt' /\ UNCHANGED <<portalVars, matrixVars, orgVars, connVars, viewVars, accessVars, eventVars, importVars>>
    \/ On("connectors") /\ ConnectorNext /\ FirstFree(FreeRunners, FreeRunners') /\ OneRecordTogether' /\ UNCHANGED <<portalVars, matrixVars, orgVars, dutyVars, viewVars, accessVars, eventVars, importVars>>
    \/ On("views") /\ ViewsNext /\ UNCHANGED <<portalVars, matrixVars, orgVars, dutyVars, connVars, accessVars, eventVars, importVars>>
    \/ On("access") /\ AccessNext /\ UNCHANGED <<portalVars, matrixVars, orgVars, dutyVars, connVars, viewVars, eventVars, importVars>>
    \/ On("stream") /\ EventsNext /\ UNCHANGED <<portalVars, matrixVars, orgVars, dutyVars, connVars, viewVars, accessVars, importVars>>
    \/ On("imports") /\ ImportNext /\ UNCHANGED tableVars

tenantVars == <<focus, tableVars, importVars>>

Tenant == TenantInit /\ [][TenantNext]_tenantVars

(* What has been taken back does not return: a revoked link counts nothing *)
(* more, stored matrix versions stay as they are (store.save_matrix), the  *)
(* creator of an organization stays one, and a view deleted in one tab is  *)
(* not stored again by another (store.mutate_view).                        *)
NothingReturns == RevokedStaysShut /\ HistoryStands /\ CreatorStays /\ DeletedViewsStay

(* Although events arrive more than once and handlers stop halfway, the    *)
(* counters agree with the changes, nobody is told twice, and whoever is   *)
(* to be told is, once all is quiet (govern_stream, govern_notifier).      *)
StreamHolds == TrendsAgree /\ ToldOnce /\ Announced

(* The review matrix: its versions stay reachable and current (store.py),  *)
(* and what an import stores is what it says (matrix.py).                  *)
ReviewMatrixHolds == MatrixHolds /\ (focus = "imports" => ImportsHold)

(* Obligations are swept, and connectors pull, without passing anything    *)
(* over (govern_sweeper, connectors.py).                                   *)
SweepsHold == ObligationsHold /\ NothingSkipped

(* Who sees and changes a saved view or a document (views.py, access.py).  *)
AudiencesHold == ViewsHold /\ AccessHolds
=============================================================================
