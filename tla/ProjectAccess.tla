--------------------------- MODULE ProjectAccess ---------------------------
(***************************************************************************)
(* Who reaches which project and document (shared/access.py, the projects  *)
(* of shared/dynamodb.py and of api/handler.py).  A project is several     *)
(* rows: META, the owner's pointer, one row per member.  What META lists   *)
(* decides; a document's projectIds is a hint, rewritten without a lock,   *)
(* that says where to look first.                                          *)
(*                                                                         *)
(* The roles of a caller are read once per request; then every step is a   *)
(* call to the table (a change of META is one: it is retried until nobody  *)
(* wrote in between).  Users are accounts with verified addresses of their *)
(* own.                                                                    *)
(***************************************************************************)
EXTENDS Integers, FiniteSets

CONSTANTS
    Users, Projects, Documents,
    Founder, Guest,     \* who owns the first projects, and a member of them
    AccessRequests,     \* requests that may be under way at a time
    MaxAsks,            \* bound: requests
    MaxOutages,         \* bound: requests that stop
    NoUser

ASSUME AccessUsers  == {Founder, Guest} \subseteq Users /\ Founder # Guest /\ NoUser \notin Users
ASSUME AccessBounds == {MaxAsks, MaxOutages} \subseteq Nat

VARIABLES
    meta,      \* meta[p]: the owner of p and the documents it lists
    ownerOf,   \* ownerOf[p]: the owner's pointer
    member,    \* member[p][u]: the role of u's membership, or "none"
    uploader,  \* uploader[d]: who uploaded d; NoUser once it is deleted
    hint,      \* hint[d]: projectIds
    call,      \* call[q]: what request q is doing
    asks,      \* requests so far
    outages,   \* requests that stopped
    barred,    \* barred[p]: members removed and not invited since
    crossed    \* a request overlapped one that makes or deletes its project

accessVars == <<meta, ownerOf, member, uploader, hint, call, asks, outages, barred, crossed>>

Gone    == [owner |-> NoUser, docs |-> {}]
Live(p) == meta[p].owner # NoUser
Rank    == [none |-> 0, viewer |-> 1, editor |-> 2, owner |-> 3]
Stronger(r, s) == IF Rank[r] >= Rank[s] THEN r ELSE s
Strongest(roles) == IF "owner" \in roles THEN "owner" ELSE IF "editor" \in roles THEN "editor"
                    ELSE IF "viewer" \in roles THEN "viewer" ELSE "none"
Hung    == [at |-> "idle"]

(***************************************************************************)
(* The rule                                                                *)
(***************************************************************************)
(* PERMISSIONS.                                                            *)
Can(role, capability) ==
    \/ role = "owner"
    \/ role = "editor" /\ capability \in {"view", "upload", "edit", "reprocess", "manage_documents"}
    \/ role = "viewer" /\ capability = "view"

(* project_roles_for.                                                      *)
ProjectRole(u, p) == Stronger(IF ownerOf[p] = u THEN "owner" ELSE "none", member[p][u])
MyProjects(u)     == {p \in Projects : ProjectRole(u, p) # "none"}

(* document_role: the projects of the hint, or all when it names none the  *)
(* caller belongs to; only what a project lists counts.                    *)
Consulted(u, d) == IF hint[d] \cap MyProjects(u) # {} THEN hint[d] \cap MyProjects(u) ELSE MyProjects(u)
RoleIn_Hinted(u, d, p) == IF d \in meta[p].docs \/ p \in hint[d] THEN ProjectRole(u, p) ELSE "none"
RoleIn(u, d, p) == IF d \in meta[p].docs THEN ProjectRole(u, p) ELSE "none"
DocumentRole(u, d) == IF uploader[d] = NoUser THEN "none"
                      ELSE IF uploader[d] = u THEN "owner" ELSE Strongest({RoleIn(u, d, p) : p \in Consulted(u, d)})

(* visible_documents: what the caller uploaded, and whatever their         *)
(* projects list, with their strongest role there.                         *)
ListedIn(u, d)   == {p \in MyProjects(u) : d \in meta[p].docs}
ListedRole(u, d) == IF uploader[d] = NoUser THEN "none"
                    ELSE IF uploader[d] = u THEN "owner" ELSE Strongest({ProjectRole(u, p) : p \in ListedIn(u, d)})

(* Projects the founder made, with a guest in them, and documents filed    *)
(* there.                                                                  *)
AccessInit ==
    /\ \E filed \in [Projects -> SUBSET Documents], role \in [Projects -> {"none", "viewer", "editor"}] :
         /\ meta = [p \in Projects |-> [owner |-> Founder, docs |-> filed[p]]]
         /\ member = [p \in Projects |-> [u \in Users |-> CASE u = Founder -> "owner" [] u = Guest -> role[p] [] OTHER -> "none"]]
         /\ hint = [d \in Documents |-> {p \in Projects : d \in filed[p]}]
    /\ ownerOf = [p \in Projects |-> Founder]
    /\ uploader = [d \in Documents |-> Founder]
    /\ call = [q \in AccessRequests |-> Hung] /\ asks = 0 /\ outages = 0
    /\ barred = [p \in Projects |-> {}] /\ crossed = FALSE

(***************************************************************************)
(* Requests: a caller, an operation, a project, and what it is about       *)
(***************************************************************************)
In(q, at)   == call[q].at = at
Proceed(q, at) == call' = [call EXCEPT ![q].at = at]
Finish(q)   == call' = [call EXCEPT ![q] = Hung]
(* What a request that makes or deletes a project is doing.                *)
Founding    == {"create", "point", "enroll", "list", "members", "meta", "pointer"}
rows        == <<meta, ownerOf, member, uploader, hint>>

Request(q, at, u, p, on, arg) ==
    /\ In(q, "idle") /\ asks < MaxAsks /\ asks' = asks + 1
    /\ call' = [call EXCEPT ![q] = [at |-> at, user |-> u, proj |-> p, on |-> on, arg |-> arg, 
                                 docs |-> {}, joined |-> {}, rewritten |-> {}]]
    /\ crossed' = (crossed \/ \E o \in AccessRequests \ {q} :
                                /\ ~In(o, "idle") /\ call[o].proj = p
                                /\ {at, call[o].at} \cap Founding # {})
    /\ UNCHANGED <<rows, outages, barred>>

(* PUT /projects/{id}, by somebody who has no role on it: nobody has used  *)
(* the id, or the caller cannot see whose it is.                           *)
BeginProject(q) == \E u \in Users, p \in Projects :
    ProjectRole(u, p) = "none" /\ Request(q, "create", u, p, NoUser, "")

CreateProject(q) ==
    /\ In(q, "create")
    /\ LET r == call[q] IN
       IF Live(r.proj) THEN Finish(q) /\ UNCHANGED meta
       ELSE /\ meta' = [meta EXCEPT ![r.proj] = [owner |-> r.user, docs |-> {}]]
            /\ Proceed(q, "point")
    /\ UNCHANGED <<ownerOf, member, uploader, hint, asks, outages, barred, crossed>>

PointOwner(q) ==
    /\ In(q, "point")
    /\ ownerOf' = [ownerOf EXCEPT ![call[q].proj] = call[q].user]
    /\ Proceed(q, "enroll")
    /\ UNCHANGED <<meta, member, uploader, hint, asks, outages, barred, crossed>>

EnrollOwner(q) ==
    /\ In(q, "enroll")
    /\ member' = [member EXCEPT ![call[q].proj][call[q].user] = "owner"]
    /\ barred' = [barred EXCEPT ![call[q].proj] = @ \ {call[q].user}]
    /\ Finish(q)
    /\ UNCHANGED <<meta, ownerOf, uploader, hint, asks, outages, crossed>>

(* DELETE /projects/{id}: the rows listed, in the order of their keys,     *)
(* then the hints of its documents.                                        *)
BeginDelete(q) == \E u \in Users, p \in Projects :
    /\ Live(p) /\ Can(ProjectRole(u, p), "delete_project")
    /\ Request(q, "list", u, p, NoUser, "")

ListRows(q) ==
    /\ In(q, "list")
    /\ LET r == call[q] IN
       call' = [call EXCEPT ![q].at = "members", ![q].docs = meta[r.proj].docs,
                            ![q].joined = {u \in Users : member[r.proj][u] # "none"}]
    /\ UNCHANGED <<rows, asks, outages, barred, crossed>>

DeleteMembers(q) ==
    /\ In(q, "members")
    /\ member' = [member EXCEPT ![call[q].proj] = [u \in Users |-> IF u \in call[q].joined THEN "none" ELSE @[u]]]
    /\ Proceed(q, "meta")
    /\ UNCHANGED <<meta, ownerOf, uploader, hint, asks, outages, barred, crossed>>

(* Whoever joined after the rows were listed keeps a row of a project that *)
(* is gone.                                                                *)
DeleteMeta(q) ==
    /\ In(q, "meta")
    /\ LET p == call[q].proj IN
       /\ meta' = [meta EXCEPT ![p] = Gone]
       /\ barred' = [barred EXCEPT ![p] = {}]
    /\ Proceed(q, "pointer")
    /\ UNCHANGED <<ownerOf, member, uploader, hint, asks, outages, crossed>>

DeletePointer(q) ==
    /\ In(q, "pointer")
    /\ ownerOf' = [ownerOf EXCEPT ![call[q].proj] = NoUser]
    /\ IF call[q].docs = {} THEN Finish(q) ELSE Proceed(q, "hints")
    /\ UNCHANGED <<meta, member, uploader, hint, asks, outages, barred, crossed>>

(* POST and DELETE /projects/{id}/documents/{docId}.  Filing a document    *)
(* shares it: it needs a right on the document as well.                    *)
MayShare_View(u, d) == Can(DocumentRole(u, d), "view")
MayShare(u, d) == Can(DocumentRole(u, d), "share_document")

BeginFile(q) == \E u \in Users, p \in Projects, d \in Documents :
    /\ Live(p) /\ Can(ProjectRole(u, p), "manage_documents") /\ MayShare(u, d)
    /\ Request(q, "file", u, p, d, "add")

BeginUnfile(q) == \E u \in Users, p \in Projects, d \in Documents :
    /\ d \in meta[p].docs /\ Can(ProjectRole(u, p), "manage_documents")
    /\ Request(q, "file", u, p, d, "drop")

(* mutate_project; the hint follows, and for a project that is gone too.   *)
ChangeDocs(q) ==
    /\ In(q, "file")
    /\ LET r == call[q] IN
       meta' = IF ~Live(r.proj) THEN meta
               ELSE [meta EXCEPT ![r.proj].docs = IF r.arg = "add" THEN @ \cup {r.on} ELSE @ \ {r.on}]
    /\ call' = [call EXCEPT ![q].at = "hints", ![q].docs = {call[q].on}]
    /\ UNCHANGED <<ownerOf, member, uploader, hint, asks, outages, barred, crossed>>

(* _link_hint, _unlink_hint: read the hint, then rewrite it.               *)
ReadHint(q) ==
    /\ In(q, "hints")
    /\ LET r == call[q]
           add == r.arg = "add"
       IN IF r.docs = {} THEN Finish(q)
          ELSE \E d \in r.docs :
            call' = [call EXCEPT ![q].at = "hint", ![q].on = d, ![q].docs = @ \ {d},
                                 ![q].rewritten = IF add THEN hint[d] \cup {r.proj} ELSE hint[d] \ {r.proj}]
    /\ UNCHANGED <<rows, asks, outages, barred, crossed>>

WriteHint(q) ==
    /\ In(q, "hint")
    /\ hint' = IF uploader[call[q].on] = NoUser THEN hint ELSE [hint EXCEPT ![call[q].on] = call[q].rewritten]
    /\ call' = [call EXCEPT ![q].at = "hints", ![q].rewritten = {}]
    /\ UNCHANGED <<meta, ownerOf, member, uploader, asks, outages, barred, crossed>>

(* DELETE /documents/{id}: the projects of the hint let go of it, then its *)
(* rows are deleted.                                                       *)
DeleteDocument(q) == \E u \in Users, d \in Documents :
    /\ In(q, "idle") /\ asks < MaxAsks /\ asks' = asks + 1
    /\ Can(DocumentRole(u, d), "delete_document")
    /\ meta' = [p \in Projects |-> IF p \in hint[d] THEN [meta[p] EXCEPT !.docs = @ \ {d}] ELSE meta[p]]
    /\ uploader' = [uploader EXCEPT ![d] = NoUser]
    /\ UNCHANGED <<ownerOf, member, hint, call, outages, barred, crossed>>

(***************************************************************************)
(* Members                                                                 *)
(***************************************************************************)
Invitable == {"editor", "viewer"}

BeginInvite(q) == \E u \in Users, p \in Projects, m \in Users, role \in Invitable :
    /\ Live(p) /\ Can(ProjectRole(u, p), "invite")
    /\ m \notin {u, meta[p].owner} /\ member[p][m] = "none"
    /\ Request(q, "invite", u, p, m, role)

PutMember(q) ==
    /\ In(q, "invite")
    /\ LET r == call[q] IN
       /\ member' = [member EXCEPT ![r.proj][r.on] = r.arg]
       /\ barred' = [barred EXCEPT ![r.proj] = @ \ {r.on}]
    /\ Finish(q)
    /\ UNCHANGED <<meta, ownerOf, uploader, hint, asks, outages, crossed>>

(* The owner removes anyone, a member themself; the owner cannot be.       *)
BeginRemove(q) == \E u \in Users, p \in Projects, m \in Users :
    /\ Live(p) /\ (Can(ProjectRole(u, p), "remove_member") \/ m = u)
    /\ member[p][m] \in Invitable
    /\ Request(q, "remove", u, p, m, "")

RemoveMember(q) ==
    /\ In(q, "remove")
    /\ LET r == call[q] IN
       /\ member' = [member EXCEPT ![r.proj][r.on] = "none"]
       /\ barred' = [barred EXCEPT ![r.proj] = @ \cup {r.on}]
    /\ Finish(q)
    /\ UNCHANGED <<meta, ownerOf, uploader, hint, asks, outages, crossed>>

BeginSetRole(q) == \E u \in Users, p \in Projects, m \in Users, role \in Invitable :
    /\ Live(p) /\ Can(ProjectRole(u, p), "set_role")
    /\ member[p][m] \in Invitable \ {role}
    /\ Request(q, "role", u, p, m, role)

(* update_project_member: only a membership that is there.                 *)
MayUpdate_Always(p, u) == TRUE
MayUpdate(p, u) == member[p][u] # "none"

SetRole(q) ==
    /\ In(q, "role")
    /\ LET r == call[q] IN
       member' = IF MayUpdate(r.proj, r.on) THEN [member EXCEPT ![r.proj][r.on] = r.arg] ELSE member
    /\ Finish(q)
    /\ UNCHANGED <<meta, ownerOf, uploader, hint, asks, outages, barred, crossed>>

Outage ==
    /\ outages < MaxOutages /\ outages' = outages + 1
    /\ \E q \in AccessRequests : ~In(q, "idle") /\ Finish(q)
    /\ UNCHANGED <<rows, asks, barred, crossed>>

AccessStep(q) ==
    \/ BeginProject(q) \/ CreateProject(q) \/ PointOwner(q) \/ EnrollOwner(q)
    \/ BeginDelete(q) \/ ListRows(q) \/ DeleteMembers(q) \/ DeleteMeta(q) \/ DeletePointer(q)
    \/ BeginFile(q) \/ BeginUnfile(q) \/ ChangeDocs(q) \/ ReadHint(q) \/ WriteHint(q) \/ DeleteDocument(q)
    \/ BeginInvite(q) \/ PutMember(q) \/ BeginRemove(q) \/ RemoveMember(q) \/ BeginSetRole(q) \/ SetRole(q)

AccessNext == Outage \/ \E q \in AccessRequests : AccessStep(q)

AccessSpec == AccessInit /\ [][AccessNext]_accessVars

(***************************************************************************)
(* Properties                                                              *)
(***************************************************************************)
AccessTypeOK ==
    /\ meta \in [Projects -> [owner : Users \cup {NoUser}, docs : SUBSET Documents]]
    /\ ownerOf \in [Projects -> Users \cup {NoUser}]
    /\ member \in [Projects -> [Users -> DOMAIN Rank]]
    /\ uploader \in [Documents -> Users \cup {NoUser}] /\ hint \in [Documents -> SUBSET Projects]

Settled == \A q \in AccessRequests : In(q, "idle")

(* A stale hint never grants access: nobody opens a document that neither  *)
(* they uploaded nor a project of theirs lists, with a stronger role than  *)
(* there, at any moment of a change.                                       *)
HintGrantsNothing == \A u \in Users, d \in Documents : Rank[DocumentRole(u, d)] <= Rank[ListedRole(u, d)]

(* A removed member stays out until somebody invites them again, whatever  *)
(* was under way when they were removed.                                   *)
RemovedStayOut == \A p \in Projects : \A u \in barred[p] : member[p][u] = "none"

(* A project that is there has one owner, who reaches it, and no other     *)
(* owner, however often its id was used before -- unless a request stopped *)
(* half way, or worked on the project of an id that another one deleted.   *)
OneOwner ==
    (Settled /\ outages = 0 /\ ~crossed) =>
      \A p \in Projects, u \in Users :
        /\ Live(p) => (ProjectRole(u, p) = "owner" <=> u = meta[p].owner)
        /\ ~Live(p) => ProjectRole(u, p) = "none"

AccessHolds == HintGrantsNothing /\ RemovedStayOut /\ OneOwner

(* What access.py says of itself: the caller's role on a document is the   *)
(* strongest of their roles in the projects that list it, and a lost hint  *)
(* cannot hide a document that list and search would show.                 *)
StrongestRole == Settled => \A u \in Users, d \in Documents : DocumentRole(u, d) = ListedRole(u, d)
=============================================================================
