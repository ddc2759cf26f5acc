-------------------------------- MODULE Views --------------------------------
(***************************************************************************)
(* The saved views of a tenant (shared/govern/views.py and the views of    *)
(* store.ConfigRepository): who sees one, and what happens when its owner  *)
(* edits it from two tabs, deletes it meanwhile, or saves one too many.    *)
(* Every step is one call to govern-config.  rev is kept as what it        *)
(* decides: whether another write came after this request's read.          *)
(***************************************************************************)
EXTENDS Naturals, FiniteSets

CONSTANTS
    ViewIds, Owners,
    Audiences,            \* lists of e-mail addresses, the empty one included
    NoOne,                \* the empty list
    ViewTabs,             \* requests that may be under way at a time
    MAX_VIEWS_PER_MODULE, \* views a person may save
    VIEW_WRITE_RETRIES,   \* tries of a change
    MaxPatches            \* bound: changes stored

ASSUME ViewBounds == /\ NoOne \in Audiences /\ IsFiniteSet(ViewTabs)
                     /\ {MAX_VIEWS_PER_MODULE, VIEW_WRITE_RETRIES} \subseteq Nat \ {0}
                     /\ MaxPatches \in Nat

VARIABLES
    view,     \* view[v]: the stored item, or NoView, or Deleted
    tab,      \* tab[t]: what request t is doing
    patches,  \* changes stored
    kept      \* kept[v]: what the stored changes of v say together

viewVars == <<view, tab, patches, kept>>

Visibilities == {"private", "specific", "everyone"}
Names   == {"old", "new"}
NoView  == [at |-> "none"]
Deleted == [at |-> "deleted"]
NoCall   == [at |-> "quiet"]
Keep    == "keep"          \* the field is not in the request
KeepAll == {Keep}

ViewsInit ==
    /\ view = [v \in ViewIds |-> NoView] /\ patches = 0
    /\ tab = [t \in ViewTabs |-> NoCall]
    /\ kept = [v \in ViewIds |-> [name |-> "old", config |-> "old"]]

Does(t, at) == tab[t].at = at
Leave(t)    == tab' = [tab EXCEPT ![t] = NoCall]
Stored(v)   == view[v].at = "stored"
Mine(o)     == {v \in ViewIds : Stored(v) /\ view[v].owner = o}
Taken       == {tab[t].id : t \in {u \in ViewTabs : ~Does(u, "quiet")}}

(* _audience: a list only for "specific", and then not an empty one.       *)
Audience_Any(vis, list) == list     \* mutant: the list is kept whoever sees the view
Audience(vis, list) == IF vis = "specific" THEN list ELSE NoOne
Refused(vis, list)  == vis = "specific" /\ list = NoOne

(***************************************************************************)
(* POST /views                                                             *)
(***************************************************************************)
CreateView(t) ==
    /\ Does(t, "quiet")
    /\ \E v \in {x \in ViewIds \ Taken : view[x] = NoView}, o \in Owners, vis \in Visibilities, list \in Audiences :
         /\ ~Refused(vis, list)
         /\ Cardinality(Mine(o)) < MAX_VIEWS_PER_MODULE
         /\ tab' = [tab EXCEPT ![t] = [at |-> "create", id |-> v, owner |-> o, vis |-> vis, list |-> Audience(vis, list)]]
    /\ UNCHANGED <<view, patches, kept>>

PutNew(t) ==
    /\ Does(t, "create")
    /\ view' = [view EXCEPT ![tab[t].id] = [at |-> "stored", owner |-> tab[t].owner, vis |-> tab[t].vis,
                                            list |-> tab[t].list, name |-> "old", config |-> "old"]]
    /\ Leave(t)
    /\ UNCHANGED <<patches, kept>>

(***************************************************************************)
(* PATCH and DELETE /views/{id}: _editable, then the change                *)
(***************************************************************************)
(* Only its creator may change a view: its name, its configuration, or who *)
(* sees it.                                                                *)
EditView(t) ==
    /\ Does(t, "quiet") /\ patches < MaxPatches
    /\ \E v \in ViewIds, name, config \in {Keep, "new"}, vis \in {Keep} \cup Visibilities, list \in {KeepAll} \cup Audiences :
         /\ Stored(v)
         /\ \/ name # Keep /\ config = Keep /\ vis = Keep /\ list = KeepAll
            \/ name = Keep /\ config # Keep /\ vis = Keep /\ list = KeepAll
            \/ name = Keep /\ config = Keep /\ (vis # Keep \/ list # KeepAll)
         /\ tab' = [tab EXCEPT ![t] = [at |-> "read", id |-> v, tries |-> 1, name |-> name, config |-> config,
                                       vis |-> vis, list |-> list, read |-> NoView, current |-> FALSE]]
    /\ UNCHANGED <<view, patches, kept>>

Either(new, keep, old) == IF new = keep THEN old ELSE new
Changed(r, v) == LET vis  == Either(r.vis, Keep, v.vis)
                     list == Either(r.list, KeepAll, v.list)
                 IN [v EXCEPT !.name = Either(r.name, Keep, v.name), !.config = Either(r.config, Keep, v.config),
                              !.vis = vis, !.list = Audience(vis, list)]
Rejected(r, v) == Refused(Either(r.vis, Keep, v.vis), Either(r.list, KeepAll, v.list))

ReadView(t) ==
    /\ Does(t, "read")
    /\ LET v == view[tab[t].id] IN
       tab' = [tab EXCEPT ![t] =
            IF v = Deleted \/ Rejected(tab[t], v) THEN NoCall
            ELSE [@ EXCEPT !.at = "write", !.read = v, !.current = TRUE]]
    /\ UNCHANGED <<view, patches, kept>>

MayReplace_Always(t) == TRUE
MayReplace(t) == tab[t].current

WriteView(t) ==
    /\ Does(t, "write")
    /\ LET r == tab[t] IN
       IF MayReplace(t)
       THEN /\ view' = [view EXCEPT ![r.id] = Changed(r, r.read)]
            /\ kept' = [kept EXCEPT ![r.id] = [name |-> Either(r.name, Keep, @.name), config |-> Either(r.config, Keep, @.config)]]
            /\ tab' = [o \in ViewTabs |-> IF o = t THEN NoCall
                         ELSE IF Does(o, "write") /\ tab[o].id = r.id THEN [tab[o] EXCEPT !.current = FALSE] ELSE tab[o]]
            /\ patches' = patches + 1
       ELSE /\ tab' = [tab EXCEPT ![t] = IF r.tries = VIEW_WRITE_RETRIES THEN NoCall
                                         ELSE [r EXCEPT !.at = "read", !.tries = r.tries + 1, !.read = NoView]]
            /\ UNCHANGED <<view, patches, kept>>

(* A put on condition that rev is the one read fails when there is none.   *)
DeleteView ==
    \E v \in ViewIds :
      /\ Stored(v)
      /\ view' = [view EXCEPT ![v] = Deleted]
      /\ tab' = [o \in ViewTabs |-> IF Does(o, "write") /\ tab[o].id = v THEN [tab[o] EXCEPT !.current = FALSE] ELSE tab[o]]
      /\ UNCHANGED <<patches, kept>>

ViewsNext == DeleteView \/ \E t \in ViewTabs : CreateView(t) \/ PutNew(t) \/ EditView(t) \/ ReadView(t) \/ WriteView(t)

ViewsSpec == ViewsInit /\ [][ViewsNext]_viewVars

(***************************************************************************)
(* Properties                                                              *)
(***************************************************************************)
(* A view lists people exactly when it is shared with specific ones,       *)
(* whatever order changes of its visibility and of its list come in.       *)
AudienceFits == \A v \in ViewIds : Stored(v) => (view[v].vis = "specific" <=> view[v].list # NoOne)

(* Changes of different fields from two tabs are both kept.                *)
ChangesKept ==
    \A v \in ViewIds : Stored(v) => view[v].name = kept[v].name /\ view[v].config = kept[v].config

(* A person has at most the views they may save, and one more for every    *)
(* further request that was saving one when they counted.                  *)
ViewsBounded == \A o \in Owners : Cardinality(Mine(o)) < MAX_VIEWS_PER_MODULE + Cardinality(ViewTabs)

ViewsHold == AudienceFits /\ ChangesKept /\ ViewsBounded

(* A deleted view does not come back, although an edit read it before.     *)
DeletedViewsStay == [][\A v \in ViewIds : view[v] = Deleted => view'[v] = Deleted]_viewVars
=============================================================================
