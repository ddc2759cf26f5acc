------------------------------ MODULE Pipeline ------------------------------
(***************************************************************************)
(* The analysis of one document: the runs of the ingestion state machine   *)
(* (terraform/step_functions.tf, lambdas/pipeline) over the document's     *)
(* rows, its files in S3 and its search records, together with what the    *)
(* API does to them: re-analyze, edit, delete a version, delete the        *)
(* document (lambdas/api/handler.py, shared/dynamodb.py).                  *)
(*                                                                         *)
(* Nothing spans two of those stores.  A run goes through seven stages,    *)
(* each one an invocation that starts with a status write and ends with a  *)
(* file.  Every step below is one write, or one read that decides the next *)
(* (the reads that open persist are taken together, and so is the clean-up *)
(* of a run that failed).  A row, a file or a record is known by the run   *)
(* that wrote it.                                                          *)
(***************************************************************************)
EXTENDS Naturals, FiniteSets

CONSTANTS
    Runs,           \* the runs (executions of the state machine) there can be
    Callers,        \* concurrent API requests
    Artefacts,      \* the files followed: some of ArtefactNames
    Ops,            \* what people do: some of OpNames
    Faults,         \* which of FaultKinds may happen
    MaxFaults,      \* bound: how many of them do
    MaxRetries,     \* retries of a transient error (2)
    MaxVersions,    \* bound: version numbers
    None            \* nothing

ArtefactNames == {"parsed", "classification", "timeline",
                  "diff"}       \* an amendment whose parent was found

OpNames == {"upload_again",     \* the upload link is used a second time
            "reprocess", "edit", "delete_version", "delete_document"}

FaultKinds == {"error",         \* a stage raises
               "transient",     \* the AI service is unavailable
               "crash",         \* an invocation times out or dies
               "stop",          \* ... of the API, between two steps of a request
               "service",       \* Lambda reports an error of its own; the stage is run again
               "search",        \* a write to the search index fails
               "old_read",      \* a query misses the newest version row
               "duplicate",     \* EventBridge starts two runs for one event
               "late",          \* an event takes longer than the grace period
               "copy",          \* a copy of a file fails
               "lost_reply"}    \* ... or succeeds and its reply is lost

ASSUME ProcsAssumption  == Runs \cap Callers = {} /\ None \notin Runs /\ "person" \notin Runs
ASSUME NamesAssumption  == /\ Artefacts \subseteq ArtefactNames
                           /\ Ops \subseteq OpNames
                           /\ Faults \subseteq FaultKinds
ASSUME LimitsAssumption == MaxFaults \in Nat /\ MaxRetries \in Nat /\ MaxVersions \in Nat
ASSUME FilesAssumption  == Artefacts # {}

Numbers == 1..MaxVersions

VARIABLES
    (* the META row *)
    exists,
    status,
    fresh,      \* updatedAt lies within the grace period
    latest,     \* latestVersion
    analysis,   \* the run whose results its analysis fields are
    searchable,
    title,      \* the run that extracted it, or "person"
    edited,     \* userEdited names the title
    (* the other stores *)
    rows,       \* rows[n]: the run that wrote version row n, or None
    fixed,      \* fixed[k]: the run whose file k is served
    copies,     \* copies[n][k]: the run whose file k is kept for version n
    parked,     \* runs whose stage outputs are parked in S3
    raw,        \* the uploaded file is there
    index,      \* runs with records in the search index
    events,     \* Object Created events that have not started a run yet
    (* runs and requests *)
    pc,         \* pc[p]: the next step of p
    ctx,        \* ctx[r]: what run r carries along
    req,        \* req[c]: what request c has read and goes by
    faults,     \* faults so far
    (* history *)
    unclaimed,  \* something other than the upload or a claim has started a run, or a
                \* run that had saved its analysis went on
    crossed,    \* a run went by version rows that had changed, or that it missed,
                \* or a delete was left half done
    missed      \* a run saved, or ended, and did not see its document being deleted

metaVars  == <<exists, status, fresh, latest, analysis, searchable, title, edited>>
fileVars  == <<fixed, copies, parked, raw>>
storeVars == <<rows, fileVars, index>>
histVars  == <<unclaimed, crossed, missed>>
vars == <<metaVars, storeVars, events, pc, ctx, req, faults, histVars>>

Stages   == {"parse", "classify", "embed", "graph", "diff", "timeline", "persist"}
Statuses == {"PENDING", "PARSING", "CLASSIFYING", "EMBEDDING", "GRAPHING", "DIFFING",
             "TIMELINING", "PERSISTING", "READY", "FAILED"}

(* Mutant: a run is under way from its first stage on.                     *)
InFlight_Begun == Statuses \ {"READY", "FAILED", "PENDING"}

(* _IN_FLIGHT_STATUSES.                                                    *)
InFlight == Statuses \ {"READY", "FAILED"}

RunLabels    == {"idle", "begin", "work", "sweep", "put", "release", "copy", "save",
                 "reply", "fail", "mark", "done"}
CallerLabels == {"idle", "claim", "copy_raw", "unclaim",
                 "drop_row", "look", "restore", "roll",
                 "purge", "purge_index", "list", "remove"}

RunContexts == [stage : Stages,
                tries : Nat,                \* retries of this stage
                again : BOOLEAN,            \* the error is worth another try
                ok    : BOOLEAN,            \* every chunk was indexed
                n     : Nat,                \* the version number computed
                keep  : BOOLEAN,            \* the title was edited when META was read
                left  : SUBSET Artefacts]   \* files still to copy

Requests == [was   : Statuses,              \* status before the claim, as it was read
             n     : Nat,                   \* the version being deleted
             run   : Runs \cup {None},      \* the run that wrote it
             from  : Nat,                   \* the newest version left
             other : Runs \cup {None},      \* the run that wrote that one
             left  : SUBSET Artefacts,      \* files still to restore
             ok    : BOOLEAN,               \* a file was restored; records were removed
             found : SUBSET Numbers]        \* version rows found to be removed

NoRun     == [stage |-> "parse", tries |-> 0, again |-> FALSE, ok |-> FALSE, n |-> 0,
              keep |-> FALSE, left |-> {}]
NoRequest == [was |-> "PENDING", n |-> 0, run |-> None, from |-> 0, other |-> None,
              left |-> {}, ok |-> FALSE, found |-> {}]
NoFiles   == [k \in Artefacts |-> None]
-----------------------------------------------------------------------------
(* Helpers.                                                                *)

NextStage == [parse |-> "classify", classify |-> "embed", embed |-> "graph",
              graph |-> "diff", diff |-> "timeline", timeline |-> "persist"]

StatusOf == [parse |-> "PARSING", classify |-> "CLASSIFYING", embed |-> "EMBEDDING",
             graph |-> "GRAPHING", diff |-> "DIFFING", timeline |-> "TIMELINING",
             persist |-> "PERSISTING"]

(* The file a stage writes under its fixed key.                            *)
Writes == [parse |-> {"parsed"}, classify |-> {"classification"}, embed |-> {},
           graph |-> {}, diff |-> {"diff"}, timeline |-> {"timeline"}]

Taken == {n \in Numbers : rows[n] # None}

Newest(S) == CHOOSE n \in S : \A m \in S : m <= n

(* Mutant: the rows are counted.                                           *)
NextVersion_Count(seen) == Cardinality(seen) + 1

(* _next_version.                                                          *)
NextVersion(seen) == IF seen = {} THEN 1 ELSE Newest(seen) + 1

Goto(p, label) == pc' = [pc EXCEPT ![p] = label]

End(r) == Goto(r, "done") /\ ctx' = [ctx EXCEPT ![r] = NoRun]

Finish(c) == Goto(c, "idle") /\ req' = [req EXCEPT ![c] = NoRequest]

Active(r) == pc[r] \notin {"idle", "done"}

(* The steps of a request that deletes a version, or the document.         *)
DeletesVersion(c)  == pc[c] \in {"drop_row", "look", "restore", "roll"}
DeletesDocument(c) == pc[c] \in {"purge_index", "list", "remove"}

Fault(kind) == /\ kind \in Faults
               /\ faults < MaxFaults
               /\ faults' = faults + 1

(* A write of META under the condition that it exists.                     *)
SetStatus(s) == IF exists THEN status' = s /\ fresh' = TRUE
                          ELSE UNCHANGED <<status, fresh>>

(* Bound: every event, also one that is still to come, finds a run that    *)
(* has not been used.                                                      *)
SpareRun == events + Cardinality({c \in Callers : pc[c] \in {"claim", "copy_raw"}})
            < Cardinality({r \in Runs : pc[r] = "idle"})

Missing == missed' = (missed \/ ~exists \/ \E c \in Callers : DeletesDocument(c))
-----------------------------------------------------------------------------
(* The document has been created by GET /documents/upload-url and its file *)
(* uploaded.                                                               *)
Init ==
    /\ exists = TRUE /\ status = "PENDING" /\ fresh = TRUE
    /\ latest = 0 /\ analysis = None /\ searchable = FALSE
    /\ title = None /\ edited = FALSE
    /\ rows = [n \in Numbers |-> None]
    /\ fixed = NoFiles
    /\ copies = [n \in Numbers |-> NoFiles]
    /\ parked = {} /\ raw = TRUE /\ index = {}
    /\ events = 1
    /\ pc = [p \in Runs \cup Callers |-> "idle"]
    /\ ctx = [r \in Runs |-> NoRun]
    /\ req = [c \in Callers |-> NoRequest]
    /\ faults = 0
    /\ unclaimed = FALSE /\ crossed = FALSE /\ missed = FALSE
-----------------------------------------------------------------------------
(* Runs.  An Object Created event starts one.                              *)
Start(r) ==
    /\ pc[r] = "idle"
    /\ events > 0
    /\ Goto(r, "begin")
    /\ \/ events' = events - 1 /\ UNCHANGED <<faults, unclaimed>>
       \/ SpareRun /\ Fault("duplicate") /\ unclaimed' = TRUE /\ UNCHANGED events
    /\ crossed' = (crossed \/ \E c \in Callers : DeletesVersion(c))
    /\ UNCHANGED <<metaVars, storeVars, ctx, req, missed>>

Failing(r, again) ==
    /\ Goto(r, "fail")
    /\ ctx' = [ctx EXCEPT ![r].again = again]

(* The parked outputs are read (parse looks at META and the file), then    *)
(* the status is written.                                                  *)
Begin(r) ==
    /\ pc[r] = "begin"
    /\ IF exists /\ (IF ctx[r].stage = "parse" THEN raw ELSE r \in parked)
       THEN /\ Goto(r, "work")
            /\ SetStatus(StatusOf[ctx[r].stage])
            /\ UNCHANGED ctx
       ELSE Failing(r, FALSE) /\ UNCHANGED <<status, fresh>>
    /\ UNCHANGED <<exists, latest, analysis, searchable, title, edited, storeVars,
                   events, req, faults, histVars>>

(* The stage is over: its outputs are parked.                              *)
Advance(r, ok) ==
    /\ parked' = parked \cup {r}
    /\ Goto(r, "begin")
    /\ ctx' = [ctx EXCEPT ![r] = [NoRun EXCEPT !.stage = NextStage[ctx[r].stage],
                                               !.ok = ok]]

Work(r) ==
    /\ pc[r] = "work"
    /\ ctx[r].stage \notin {"embed", "persist"}
    /\ IF ctx[r].stage = "parse" /\ ~raw
       THEN Failing(r, FALSE) /\ UNCHANGED <<fixed, parked>>
       ELSE /\ fixed' = [k \in Artefacts |-> IF k \in Writes[ctx[r].stage]
                                             THEN r ELSE fixed[k]]
            /\ Advance(r, ctx[r].ok)
    /\ UNCHANGED <<metaVars, rows, copies, raw, index, events, req, faults, histVars>>

(* embed: the records are written under ids that do not name the run, so   *)
(* they replace some or all of those of an earlier one.  When some fail    *)
(* the rest are kept and nothing is swept; each clause may still be there. *)
Index(r) ==
    /\ pc[r] = "work"
    /\ ctx[r].stage = "embed"
    /\ \E kept \in SUBSET index :
          \/ /\ index' = kept \cup {r}
             /\ Goto(r, "sweep")
             /\ UNCHANGED <<ctx, parked, faults>>
          \/ /\ index' = kept \cup {r}
             /\ Fault("search")
             /\ \E whole \in BOOLEAN : Advance(r, whole)
    /\ UNCHANGED <<metaVars, rows, fixed, copies, raw, events, req, histVars>>

(* There was nothing to index, or none of it could be.                     *)
IndexNone(r) ==
    /\ pc[r] = "work"
    /\ ctx[r].stage = "embed"
    /\ Advance(r, FALSE)
    /\ UNCHANGED <<metaVars, rows, fixed, copies, raw, index, events, req, faults,
                   histVars>>

(* Mutant: records of earlier runs are left.                               *)
Swept_None(r) == index

(* delete_stale: the document's records that are not of this run.          *)
Swept(r) == index \cap {r}

Sweep(r) ==
    /\ pc[r] = "sweep"
    /\ \/ index' = Swept(r) /\ UNCHANGED faults
       \/ Fault("search") /\ UNCHANGED index
    /\ Advance(r, TRUE)
    /\ UNCHANGED <<metaVars, rows, fixed, copies, raw, events, req, histVars>>
-----------------------------------------------------------------------------
(* persist.                                                                *)

(* The version rows and META are read.                                     *)
Read(r) ==
    /\ pc[r] = "work"
    /\ ctx[r].stage = "persist"
    /\ \E seen \in SUBSET Taken :
          /\ \/ seen = Taken /\ UNCHANGED <<faults, crossed>>
             \/ /\ Taken # {} /\ seen = Taken \ {Newest(Taken)}
                /\ Fault("old_read")
                /\ crossed' = TRUE
          /\ NextVersion(seen) <= MaxVersions
          /\ IF exists
             THEN /\ Goto(r, "put")
                  /\ ctx' = [ctx EXCEPT ![r].n = NextVersion(seen), ![r].keep = edited]
             ELSE Failing(r, FALSE)
    /\ UNCHANGED <<metaVars, storeVars, events, req, unclaimed, missed>>

(* Mutant: a number that is taken is skipped, not lost.                    *)
Claims_Any(r) == TRUE

(* put_version writes if the number is free; a retry may find its own row. *)
Claims(r) == rows[ctx[r].n] \in {None, r}

Put(r) ==
    /\ pc[r] = "put"
    /\ IF Claims(r)
       THEN /\ rows' = [rows EXCEPT ![ctx[r].n] = IF @ = None THEN r ELSE @]
            /\ ctx' = [ctx EXCEPT ![r].left = Artefacts]
            /\ Goto(r, "copy")
       ELSE Goto(r, "release") /\ UNCHANGED <<rows, ctx>>
    /\ Missing
    /\ UNCHANGED <<metaVars, fileVars, index, events, req, faults, unclaimed, crossed>>

(* Mutant: the status is left as it is.                                    *)
Released_Never(n) == FALSE

(* release_superseded_run: the winner has finished already.                *)
Released(n) == exists /\ status = "PERSISTING" /\ latest >= n

(* PipelineSupersededError: the run ends, META is left to the winner.      *)
Release(r) ==
    /\ pc[r] = "release"
    /\ IF Released(ctx[r].n) THEN SetStatus("READY") ELSE UNCHANGED <<status, fresh>>
    /\ parked' = parked \ {r}
    /\ Goto(r, "reply")
    /\ UNCHANGED <<exists, latest, analysis, searchable, title, edited, rows, fixed,
                   copies, raw, index, events, ctx, req, faults, histVars>>

(* _snapshot_artefacts, in any order; a file that is gone is passed over.  *)
Copy(r) ==
    /\ pc[r] = "copy"
    /\ \E k \in ctx[r].left :
          /\ ctx' = [ctx EXCEPT ![r].left = @ \ {k}]
          /\ \/ /\ copies' = [copies EXCEPT ![ctx[r].n][k] =
                                IF fixed[k] = None THEN @ ELSE fixed[k]]
                /\ UNCHANGED faults
             \/ Fault("copy") /\ UNCHANGED copies
          /\ pc' = [pc EXCEPT ![r] = IF ctx[r].left = {k} THEN "save" ELSE "copy"]
    /\ Missing
    /\ UNCHANGED <<metaVars, rows, fixed, parked, raw, index, events, req, unclaimed,
                   crossed>>

(* Every chunk of the run has gone into the index.                         *)
Searchable(r) == ctx[r].ok

(* The last write of a run: its analysis, and READY.                       *)
Save(r) ==
    /\ pc[r] = "save"
    /\ IF exists
       THEN /\ SetStatus("READY")
            /\ latest' = ctx[r].n
            /\ analysis' = r
            /\ searchable' = Searchable(r)
            /\ title' = IF ctx[r].keep THEN title ELSE r
            /\ parked' = parked \ {r}
            /\ Goto(r, "reply")
            /\ UNCHANGED ctx
       ELSE /\ Failing(r, FALSE)
            /\ UNCHANGED <<status, fresh, latest, analysis, searchable, title, parked>>
    /\ Missing
    /\ UNCHANGED <<exists, edited, rows, fixed, copies, raw, index, events, req, faults,
                   unclaimed, crossed>>

(* The state machine takes the result and publishes it.                    *)
Reply(r) ==
    /\ pc[r] = "reply"
    /\ End(r)
    /\ UNCHANGED <<metaVars, storeVars, events, req, faults, histVars>>
-----------------------------------------------------------------------------
(* A stage that failed.                                                    *)

(* Mutant: what the run has written is left.                               *)
Discards_Never == FALSE

(* _discard_if_deleted: the document was deleted during the run.           *)
Discards == ~exists

(* The exception branch of the handler, and what the state machine does    *)
(* with the error.                                                         *)
Fail(r) ==
    /\ pc[r] = "fail"
    /\ IF Discards
       THEN /\ fixed' = NoFiles
            /\ copies' = [n \in Numbers |-> NoFiles]
            /\ parked' = {}
            /\ index' = {}
       ELSE /\ parked' = IF ctx[r].again THEN parked ELSE parked \ {r}
            /\ UNCHANGED <<fixed, copies, index>>
    /\ fresh' = (fresh \/ exists)
    /\ IF ctx[r].again /\ ctx[r].tries < MaxRetries
       THEN /\ Goto(r, "begin")
            /\ ctx' = [ctx EXCEPT ![r].tries = @ + 1]
       ELSE Goto(r, "mark") /\ UNCHANGED ctx
    /\ missed' = (missed \/ (exists /\ \E c \in Callers : DeletesDocument(c)))
    /\ UNCHANGED <<exists, status, latest, analysis, searchable, title, edited, rows, raw,
                   events, req, faults, unclaimed, crossed>>

(* MarkFailed.                                                             *)
Mark(r) ==
    /\ pc[r] = "mark"
    /\ SetStatus("FAILED")
    /\ End(r)
    /\ UNCHANGED <<exists, latest, analysis, searchable, title, edited, storeVars, events,
                   req, faults, histVars>>

InStage(r) == pc[r] \in {"begin", "work", "sweep", "put", "copy", "save"}

Raise(r) ==
    /\ \/ InStage(r) /\ Fault("error") /\ Failing(r, FALSE)
       \/ /\ pc[r] = "work" /\ ctx[r].stage \in {"classify", "embed", "diff"}
          /\ Fault("transient") /\ Failing(r, TRUE)
    /\ UNCHANGED <<metaVars, storeVars, events, req, histVars>>

(* An invocation times out or dies: States.ALL, MarkFailed.                *)
Crash(r) ==
    /\ InStage(r) \/ pc[r] \in {"release", "reply", "fail"}
    /\ Fault("crash")
    /\ Goto(r, "mark")
    /\ unclaimed' = (unclaimed \/ pc[r] = "reply")
    /\ Missing
    /\ UNCHANGED <<metaVars, storeVars, events, ctx, req, crossed>>

(* Lambda reports an error of its own, whatever the invocation has done by *)
(* then, and the state machine runs the stage again.                       *)
Again(r) ==
    /\ InStage(r) \/ pc[r] \in {"release", "reply"}
    /\ Fault("service")
    /\ Goto(r, "begin")
    /\ unclaimed' = (unclaimed \/ pc[r] = "reply")
    /\ UNCHANGED <<metaVars, storeVars, events, ctx, req, crossed, missed>>
-----------------------------------------------------------------------------
(* Requests (lambdas/api/handler.py).                                      *)

(* claim_doc_run: no run holds the document, or it went quiet.             *)
Claimable == status \notin InFlight \/ ~fresh

(* META is read, and refused if a run is under way;                        *)
Reprocess(c) ==
    /\ "reprocess" \in Ops
    /\ pc[c] = "idle"
    /\ SpareRun
    /\ exists
    /\ ~(status \in InFlight /\ fresh)
    /\ req' = [req EXCEPT ![c].was = status]
    /\ Goto(c, "claim")
    /\ UNCHANGED <<metaVars, storeVars, events, ctx, faults, histVars>>

(* then the document is claimed, if that is still so.                      *)
Claim(c) ==
    /\ pc[c] = "claim"
    /\ IF exists /\ Claimable
       THEN /\ SetStatus("PENDING")
            /\ Goto(c, "copy_raw")
            /\ UNCHANGED req
       ELSE Finish(c) /\ UNCHANGED <<status, fresh>>
    /\ UNCHANGED <<exists, latest, analysis, searchable, title, edited, storeVars, events,
                   ctx, faults, histVars>>

(* The upload is re-written in place, which is an event; if that fails the *)
(* claim is released.                                                      *)
CopyRaw(c) ==
    /\ pc[c] = "copy_raw"
    /\ \/ /\ raw
          /\ events' = events + 1
          /\ Finish(c)
          /\ UNCHANGED <<faults, unclaimed>>
       \/ /\ ~raw
          /\ Goto(c, "unclaim")
          /\ UNCHANGED <<events, req, faults, unclaimed>>
       \/ /\ raw
          /\ Fault("copy")
          /\ Goto(c, "unclaim")
          /\ UNCHANGED <<events, req, unclaimed>>
       \/ /\ raw
          /\ Fault("lost_reply")
          /\ events' = events + 1
          /\ unclaimed' = TRUE
          /\ Goto(c, "unclaim")
          /\ UNCHANGED req
    /\ UNCHANGED <<metaVars, storeVars, ctx, crossed, missed>>

Unclaim(c) ==
    /\ pc[c] = "unclaim"
    /\ SetStatus(req[c].was)
    /\ Finish(c)
    /\ UNCHANGED <<exists, latest, analysis, searchable, title, edited, storeVars, events,
                   ctx, faults, histVars>>

(* edit_doc_fields: the title and its name in userEdited are one write.    *)
Edit ==
    /\ "edit" \in Ops
    /\ exists
    /\ ~edited
    /\ title' = "person" /\ edited' = TRUE /\ fresh' = TRUE
    /\ UNCHANGED <<exists, status, latest, analysis, searchable, storeVars, events, pc,
                   ctx, req, faults, histVars>>

UploadAgain ==
    /\ "upload_again" \in Ops
    /\ SpareRun
    /\ raw' = TRUE
    /\ events' = events + 1
    /\ unclaimed' = TRUE
    /\ UNCHANGED <<metaVars, rows, fixed, copies, parked, index, pc, ctx, req, faults,
                   crossed, missed>>

(* Time: META was not written for the grace period.  A run that is under   *)
(* way writes it at every stage, more often than that.                     *)
GoQuiet ==
    /\ exists /\ fresh
    /\ status \in InFlight
    /\ \A r \in Runs : ~Active(r)
    /\ \A c \in Callers : pc[c] \notin {"copy_raw", "unclaim"}
    /\ fresh' = FALSE
    /\ IF events = 0 THEN UNCHANGED <<faults, unclaimed>>
                     ELSE Fault("late") /\ unclaimed' = TRUE
    /\ UNCHANGED <<exists, status, latest, analysis, searchable, title, edited, storeVars,
                   events, pc, ctx, req, crossed, missed>>
-----------------------------------------------------------------------------
(* DELETE /documents/{id}/versions/{n}; the only version is the document.  *)
DeleteVersion(c, n) ==
    /\ "delete_version" \in Ops
    /\ pc[c] = "idle"
    /\ exists
    /\ n \in Taken
    /\ IF Taken = {n}
       THEN Goto(c, "purge") /\ UNCHANGED <<req, crossed>>
       ELSE /\ Goto(c, "drop_row")
            /\ req' = [req EXCEPT ![c].n = n, ![c].run = rows[n]]
            /\ crossed' = (crossed \/ (\E r \in Runs : Active(r))
                                   \/ (\E d \in Callers : DeletesVersion(d)))
    /\ UNCHANGED <<metaVars, storeVars, events, ctx, faults, unclaimed, missed>>

DropRow(c) ==
    /\ pc[c] = "drop_row"
    /\ rows' = [rows EXCEPT ![req[c].n] = None]
    /\ Goto(c, "look")
    /\ UNCHANGED <<metaVars, fileVars, index, events, ctx, req, faults, histVars>>

(* The rows left are read; if the newest was deleted, the files of the one *)
(* before it are to be served again.                                       *)
Look(c) ==
    /\ pc[c] = "look"
    /\ IF Taken = {}
       THEN Finish(c)
       ELSE /\ Goto(c, "restore")
            /\ req' = [req EXCEPT ![c].from = Newest(Taken),
                                  ![c].other = rows[Newest(Taken)],
                                  ![c].left = IF Newest(Taken) < req[c].n THEN Artefacts
                                              ELSE {}]
    /\ UNCHANGED <<metaVars, storeVars, events, ctx, faults, histVars>>

(* Mutant: the served files stay those of the deleted version.             *)
Restored_Not(c, k) == fixed[k]

(* _restore_version_artefacts; a version may have no copy.                 *)
Restored(c, k) == IF copies[req[c].from][k] = None THEN fixed[k]
                  ELSE copies[req[c].from][k]

Restore(c) ==
    /\ pc[c] = "restore"
    /\ \E k \in req[c].left :
          \/ /\ fixed' = [fixed EXCEPT ![k] = Restored(c, k)]
             /\ req' = [req EXCEPT ![c].left = @ \ {k},
                                   ![c].ok = @ \/ copies[req[c].from][k] # None]
             /\ UNCHANGED faults
          \/ /\ Fault("copy")
             /\ req' = [req EXCEPT ![c].left = @ \ {k}]
             /\ UNCHANGED fixed
    /\ UNCHANGED <<metaVars, rows, copies, parked, raw, index, events, pc, ctx, histVars>>

(* Mutant: the deleted version stays searchable.                           *)
RemovesRecords_Never(c) == FALSE

(* The deleted run's records are removed, if something was restored.       *)
RemovesRecords(c) == /\ req[c].ok
                     /\ req[c].run # req[c].other
                     /\ req[c].run \in index

(* ... and the deleted version's own copies.                               *)
Unindex(c) ==
    /\ pc[c] = "restore"
    /\ req[c].left = {}
    /\ \/ /\ index' = IF RemovesRecords(c) THEN index \ {req[c].run} ELSE index
          /\ req' = [req EXCEPT ![c].ok = RemovesRecords(c)]
          /\ UNCHANGED faults
       \/ /\ RemovesRecords(c)
          /\ Fault("search")
          /\ req' = [req EXCEPT ![c].ok = FALSE]
          /\ UNCHANGED index
    /\ copies' = [copies EXCEPT ![req[c].n] = NoFiles]
    /\ Goto(c, "roll")
    /\ UNCHANGED <<metaVars, rows, fixed, parked, raw, events, ctx, histVars>>

(* META names the newest version left; its analysis fields stay.           *)
Roll(c) ==
    /\ pc[c] = "roll"
    /\ IF exists
       THEN /\ latest' = req[c].from
            /\ searchable' = (searchable /\ ~req[c].ok)
            /\ fresh' = TRUE
       ELSE UNCHANGED <<latest, searchable, fresh>>
    /\ Finish(c)
    /\ UNCHANGED <<exists, status, analysis, title, edited, storeVars, events, ctx, faults,
                   histVars>>

(* DELETE /documents/{id}.                                                 *)
DeleteDocument(c) ==
    /\ "delete_document" \in Ops
    /\ pc[c] = "idle"
    /\ exists
    /\ Goto(c, "purge")
    /\ UNCHANGED <<metaVars, storeVars, events, ctx, req, faults, histVars>>

(* _purge_storage: the upload and the processed files,                     *)
Purge(c) ==
    /\ pc[c] = "purge"
    /\ raw' = FALSE
    /\ fixed' = NoFiles
    /\ copies' = [n \in Numbers |-> NoFiles]
    /\ parked' = {}
    /\ Goto(c, "purge_index")
    /\ UNCHANGED <<metaVars, rows, index, events, ctx, req, faults, histVars>>

(* the search records,                                                     *)
PurgeIndex(c) ==
    /\ pc[c] = "purge_index"
    /\ \/ index' = {} /\ UNCHANGED faults
       \/ Fault("search") /\ UNCHANGED index
    /\ Goto(c, "list")
    /\ UNCHANGED <<metaVars, rows, fileVars, events, ctx, req, histVars>>

(* then the rows (delete_doc_entirely): queried first,                     *)
List(c) ==
    /\ pc[c] = "list"
    /\ req' = [req EXCEPT ![c].found = Taken]
    /\ Goto(c, "remove")
    /\ UNCHANGED <<metaVars, storeVars, events, ctx, faults, histVars>>

(* and what was found is removed.                                          *)
Remove(c) ==
    /\ pc[c] = "remove"
    /\ exists' = FALSE
    /\ rows' = [n \in Numbers |-> IF n \in req[c].found THEN None ELSE rows[n]]
    /\ Finish(c)
    /\ UNCHANGED <<status, fresh, latest, analysis, searchable, title, edited, fileVars,
                   index, events, ctx, faults, histVars>>
(* A request times out or dies.  (One that has not written anything yet    *)
(* might as well not have come.)                                           *)
Stop(c) ==
    /\ pc[c] \notin {"idle", "claim", "drop_row", "purge"}
    /\ Fault("stop")
    /\ Finish(c)
    /\ crossed' = (crossed \/ DeletesVersion(c) \/ DeletesDocument(c))
    /\ UNCHANGED <<metaVars, storeVars, events, ctx, unclaimed, missed>>
-----------------------------------------------------------------------------
GoOn(r) == \/ Begin(r) \/ Work(r) \/ Index(r) \/ IndexNone(r) \/ Sweep(r)
           \/ Read(r) \/ Put(r) \/ Release(r) \/ Copy(r) \/ Save(r) \/ Reply(r)
           \/ Fail(r) \/ Mark(r)

Serve(c) == \/ Claim(c) \/ CopyRaw(c) \/ Unclaim(c)
            \/ DropRow(c) \/ Look(c) \/ Restore(c) \/ Unindex(c) \/ Roll(c)
            \/ Purge(c) \/ PurgeIndex(c) \/ List(c) \/ Remove(c)

Ask(c) == \/ Reprocess(c) \/ DeleteDocument(c)
          \/ \E n \in Numbers : DeleteVersion(c, n)

Next == \/ \E r \in Runs : Start(r) \/ GoOn(r) \/ Raise(r) \/ Crash(r) \/ Again(r)
        \/ \E c \in Callers : Ask(c) \/ Serve(c) \/ Stop(c)
        \/ Edit \/ UploadAgain \/ GoQuiet

Safe == Init /\ [][Next]_vars

(* Step Functions and EventBridge go on, and so does a request.            *)
Fairness == /\ \A r \in Runs : WF_vars(GoOn(r))
            /\ WF_vars(\E r \in Runs : Start(r))
            /\ \A c \in Callers : WF_vars(Serve(c))

Spec == Safe /\ Fairness
-----------------------------------------------------------------------------
(* Properties.                                                             *)

(* What a run has, and what a request goes by, when its next step needs it. *)
Carries(label, x) ==
    /\ label \in {"put", "release", "copy", "save"} =>
            x.stage = "persist" /\ x.n \in Numbers
    /\ label = "sweep" => x.stage = "embed"
    /\ label = "copy" => x.left # {}

GoesBy(label, q) ==
    /\ label \in {"drop_row", "look", "restore", "roll"} => q.n \in Numbers /\ q.run \in Runs
    /\ label \in {"restore", "roll"} => q.from \in Numbers /\ q.other \in Runs

MetaTypes ==
    /\ exists \in BOOLEAN /\ status \in Statuses /\ fresh \in BOOLEAN
    /\ latest \in Nat /\ analysis \in Runs \cup {None} /\ searchable \in BOOLEAN
    /\ title \in Runs \cup {None, "person"} /\ edited \in BOOLEAN

StoreTypes ==
    /\ rows \in [Numbers -> Runs \cup {None}]
    /\ fixed \in [Artefacts -> Runs \cup {None}]
    /\ copies \in [Numbers -> [Artefacts -> Runs \cup {None}]]
    /\ parked \subseteq Runs /\ raw \in BOOLEAN /\ index \subseteq Runs

CounterTypes ==
    /\ events \in Nat /\ faults \in Nat
    /\ unclaimed \in BOOLEAN /\ crossed \in BOOLEAN /\ missed \in BOOLEAN

ProcTypes ==
    /\ pc \in [Runs \cup Callers -> RunLabels \cup CallerLabels]
    /\ ctx \in [Runs -> RunContexts]
    /\ req \in [Callers -> Requests]
    /\ \A r \in Runs : pc[r] \in RunLabels /\ Carries(pc[r], ctx[r])
    /\ \A c \in Callers : pc[c] \in CallerLabels /\ GoesBy(pc[c], req[c])

(* Types, and every run and request has what its next step needs: a        *)
(* version number that a row can have.                                     *)
TypeOK == MetaTypes /\ StoreTypes /\ CounterTypes /\ ProcTypes

(* The analysis a document shows is the one its latest version row stands  *)
(* for, also when runs overlap: the run that loses the race for a version  *)
(* number stops before it touches META.  (Not once a version was deleted:  *)
(* the analysis fields stay those of the deleted one.)                     *)
MetaHasItsVersion == exists /\ latest > 0 => rows[latest] = analysis

(* If every run was started by the upload or by a claim, no two runs of a  *)
(* document overlap: a claim is granted to one request, and to none while  *)
(* a run is under way.                                                     *)
Holders == {r \in Runs : Active(r) /\ pc[r] # "reply"}
           \cup {c \in Callers : pc[c] \in {"copy_raw", "unclaim"}}

OneRun == ~unclaimed => /\ \A p, q \in Holders : p = q
                        /\ events <= 1
                        /\ events = 1 => Holders = {}

(* What a READY document serves is one analysis, unless a delete is under  *)
(* way, runs overlapped, or a version was deleted under a run: the newest  *)
(* version row, every file and, if the document says it is searchable, the *)
(* search records are of the same run.                                     *)
Settled == /\ exists /\ status = "READY"
           /\ \A c \in Callers : ~DeletesVersion(c) /\ ~DeletesDocument(c)
           /\ ~unclaimed /\ ~crossed /\ ~missed

Served == Settled =>
    /\ Taken # {} /\ latest = Newest(Taken)
    /\ \A k \in Artefacts : fixed[k] = rows[latest]
    /\ searchable => rows[latest] \in index
    /\ searchable /\ "search" \notin Faults => index = {rows[latest]}

(* A run that no other run overlapped does not lose the race for a version *)
(* number, whatever versions are deleted meanwhile.                        *)
NoneSuperseded == ~unclaimed /\ "old_read" \notin Faults =>
    \A r \in Runs : pc[r] # "release"

(* When a deleted document's runs have ended, nothing of it is left: a run *)
(* that was under way notices, and removes what it wrote after the delete. *)
Quiet == /\ events = 0
         /\ \A r \in Runs : ~Active(r)
         /\ \A c \in Callers : pc[c] = "idle"

DeletedLeavesNothing == ~exists /\ ~missed /\ Quiet =>
    /\ Taken = {} /\ parked = {}
    /\ "search" \notin Faults => index = {}
    /\ fixed = NoFiles /\ copies = [n \in Numbers |-> NoFiles]
    /\ raw => unclaimed

(* A document does not stay in progress for good.                          *)
Settles == (exists /\ status \in InFlight)
           ~> (~exists \/ status \in {"READY", "FAILED"})
-----------------------------------------------------------------------------
(* What the code does not keep.                                            *)

(* persist.py: "Fields a user edited by hand are not overwritten by a      *)
(* re-analysis".                                                           *)
EditStands == edited => title = "person"

(* persist.py, step_functions.tf: of two runs that overlap, the one that   *)
(* saved first stands.                                                     *)
WinnerStands == exists /\ status = "READY" /\ Quiet =>
    \A k \in Artefacts : fixed[k] = analysis

(* _remove_everywhere: "ALL storage".                                      *)
DeletedIsGone == ~exists /\ Quiet => Taken = {} /\ index = {} /\ fixed = NoFiles
=============================================================================
